---------------------------- MODULE MCDashboard ----------------------------
(* Instances of Dashboard for TLC.                                          *)
EXTENDS Dashboard, TLC

CONSTANTS p1, p2, s1, s2, c1

\* Two processes with a socket each.
MCOwner == (s1 :> p1) @@ (s2 :> p2)

\* One message per batch; the stamp plays no part here.
MCMessage == [cpu : {c1}, batch : 1 .. MaxRecorded, ts : {0}, sock : Sockets]

\* A filter that accepts the socket of the first process.
MCCustoms == {{s1}}

=============================================================================
