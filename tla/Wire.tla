-------------------------------- MODULE Wire --------------------------------
(***************************************************************************)
(* How a socket of the kernel becomes the Socket that filters and tables   *)
(* see: `notify` (ptraf-ebpf.rs) copies its fields into a SockMsgEvent,    *)
(* whose methods (ptraf-common/src/types.rs) decode them in user space,    *)
(* and the store makes a Socket of it (store.rs).                          *)
(*                                                                         *)
(* What matters is the order of bytes, so a byte is a digit to the base    *)
(* Base (256; a smaller one keeps numbers small), memory is a sequence of  *)
(* bytes, and numbers are loaded from it low byte first: the program is    *)
(* built for bpfel, and reads its own events on the same machine.          *)
(***************************************************************************)
EXTENDS Integers, SequencesExt

CONSTANT Base  \* number of values of a byte

ASSUME BaseAssumption == Base \in Nat \ {0, 1}

Half == Base * Base  \* number of values of a u16

Load16(b) == b[1] + Base * b[2]
Bytes16(n) == <<n % Base, n \div Base>>
Load32(b) == Load16(<<b[1], b[2]>>) + Half * Load16(<<b[3], b[4]>>)
Bytes32(n) == Bytes16(n % Half) \o Bytes16(n \div Half)

\* u16::from_be, u32::from_be on a little endian machine.
FromBe16(n) == Load16(Reverse(Bytes16(n)))
FromBe32(n) == Load32(Reverse(Bytes32(n)))

-----------------------------------------------------------------------------
(* The kernel (external).  A socket is [tgid, tid, sk_type, version, laddr, *)
(* raddr, lport, rport]: the process and the thread that use it, addresses  *)
(* as the octets that are written, ports as numbers.                        *)

Word == Half * Half  \* number of values of a u32

\* bpf_get_current_pid_tgid: the process is in the upper half.
PidTgid(k) == k.tgid * Word + k.tid

\* BpfContext::pid of aya: the lower half, "as u32".
CtxPid(k) == PidTgid(k) % Word

\* struct sock_common: addresses and skc_dport are kept in network order,
\* skc_num, the local port, is a plain number.  skc_portpair is the two ports.
SockCommon(k) ==
  LET words(octets) ==
        [i \in 1 .. Len(octets) \div 2 |-> Load16(<<octets[2 * i - 1], octets[2 * i]>>)]
  IN  [skc_family    |-> k.version,
       skc_daddr     |-> Load32(k.raddr),
       skc_rcv_saddr |-> Load32(k.laddr),
       v6_daddr      |-> words(k.raddr),
       v6_rcv_saddr  |-> words(k.laddr),
       skc_portpair  |-> Load32(Reverse(Bytes16(k.rport)) \o Bytes16(k.lport))]

-----------------------------------------------------------------------------
(* types.rs and notify                                                     *)

\* Mutant of IpV4: the halves of the address are swapped.
IpV4Swapped(addr) ==
  [version |-> "V4", addr |-> <<0, 0, 0, 0, 0, 0, addr % Half, addr \div Half>>]

\* IpAddr::v4, IpAddr::v6
IpV4(addr) ==
  [version |-> "V4", addr |-> <<0, 0, 0, 0, 0, 0, addr \div Half, addr % Half>>]
IpV6(addr) == [version |-> "V6", addr |-> addr]

\* From<u16> for SockType; 0 is Unknown.
SockType(val) == IF val \in 1 .. 6 \cup {10} THEN val ELSE 0

\* notify, as far as the event's fields go.
SockMsgEvent(k) ==
  LET sk_common == SockCommon(k)
  IN  [sock_type   |-> SockType(k.sk_type),
       pid         |-> CtxPid(k),
       local_addr  |-> IF sk_common.skc_family = "V4" THEN IpV4(sk_common.skc_rcv_saddr)
                                                      ELSE IpV6(sk_common.v6_rcv_saddr),
       remote_addr |-> IF sk_common.skc_family = "V4" THEN IpV4(sk_common.skc_daddr)
                                                      ELSE IpV6(sk_common.v6_daddr),
       local_port  |-> sk_common.skc_portpair \div Half,
       remote_port |-> sk_common.skc_portpair % Half]

\* From<IpAddr> for std::net::IpAddr, whose octets are those of the numbers
\* it is made from, high byte first.
StdIpAddr(ip) ==
  LET segment(i) == Reverse(Bytes16(FromBe16(ip.addr[i])))
  IN  [version |-> ip.version,
       octets  |-> IF ip.version = "V4"
                     THEN Reverse(Bytes32(FromBe32(ip.addr[7] * Half + ip.addr[8])))
                     ELSE [j \in 1 .. 16 |-> segment((j + 1) \div 2)[2 - (j % 2)]]]

\* From<&SockMsgEvent> for Socket, with local_sock_addr and remote_sock_addr.
Socket(msg) ==
  [pid       |-> msg.pid,
   local     |-> [ip |-> StdIpAddr(msg.local_addr), port |-> FromBe16(msg.local_port)],
   remote    |-> [ip |-> StdIpAddr(msg.remote_addr), port |-> FromBe16(msg.remote_port)],
   sock_type |-> msg.sock_type]

\* Filterable for Socket
Protocol(sock) ==
  CASE sock.sock_type = 1 -> "tcp"
    [] sock.sock_type = 2 -> "udp"
    [] OTHER              -> "none"

\* The leaves of Interpretor::eval.  A leaf is [kind, arg].
EvalLeaf(leaf, sock) ==
  CASE leaf.kind = "Pid"        -> sock.pid = leaf.arg
    [] leaf.kind = "Protocol"   -> Protocol(sock) = leaf.arg
    [] leaf.kind = "IpVersion"  -> sock.local.ip.version = leaf.arg
    [] leaf.kind = "Addr"       -> leaf.arg \in {sock.local.ip, sock.remote.ip}
    [] leaf.kind = "LocalAddr"  -> sock.local.ip = leaf.arg
    [] leaf.kind = "RemoteAddr" -> sock.remote.ip = leaf.arg
    [] leaf.kind = "Port"       -> leaf.arg \in {sock.local.port, sock.remote.port}
    [] leaf.kind = "LocalPort"  -> sock.local.port = leaf.arg
    [] leaf.kind = "RemotePort" -> sock.remote.port = leaf.arg

=============================================================================
