---------------------------- MODULE MCFilterLine ----------------------------
(* Instances of FilterLine for TLC: bytes have three values.                *)
EXTENDS FilterLine

\* Addresses that differ by the order of their bytes or halves.
V4Octets == {<<1, 2, 0, 0>>, <<0, 0, 1, 2>>, <<0, 0, 2, 1>>}
V6Octets ==
  {[i \in 1 .. 16 |-> i % 3], [i \in 1 .. 16 |-> (17 - i) % 3]}

\* Ports that differ by the order of their bytes.
MCPorts == {1, 3}

\* Sockets used by the main thread of a process or by another thread of it.
Sock(version, octets) ==
  [tgid : {1}, tid : {1, 2}, sk_type : {1, 2, 3}, version : {version},
   laddr : octets, raddr : octets, lport : MCPorts, rport : MCPorts]

MCKernelSocks == Sock("V4", V4Octets) \cup Sock("V6", V6Octets)

Addresses ==
  [version : {"V4"}, octets : V4Octets] \cup [version : {"V6"}, octets : V6Octets]

\* All the leaves that look at neither the process nor the local port.
MCLeaves ==
  [kind : {"Protocol"}, arg : {"tcp", "udp"}]
    \cup [kind : {"IpVersion"}, arg : {"V4", "V6"}]
    \cup [kind : {"Addr", "LocalAddr", "RemoteAddr"}, arg : Addresses]
    \cup [kind : {"RemotePort"}, arg : MCPorts]

\* The others.
MCFieldLeaves == [kind : {"Pid"}, arg : {1}] \cup [kind : {"Port", "LocalPort"}, arg : MCPorts]

\* Sockets that a main thread does not use.
MCWorkerSocks == {k \in MCKernelSocks : k.tid # k.tgid}

=============================================================================
