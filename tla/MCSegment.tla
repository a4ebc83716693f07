----------------------------- MODULE MCSegment -----------------------------
(* Instances of Segment for TLC.                                            *)
EXTENDS Segment, TLC

CONSTANTS p1, p2, l1, l2, a1

Event(pid, local, port, channel, ret) ==
  [pid |-> pid, local |-> local, remote |-> [ip |-> a1, port |-> port],
   channel |-> channel, ret |-> ret]

\* A local address for each process; one of them talks to two peers on its
\* address (accepted connections) and has a call that failed (EAGAIN).
MCApart ==
  {Event(p1, l1, 1, "Tx", 1), Event(p1, l1, 2, "Rx", 2), Event(p2, l2, 1, "Rx", 3),
   Event(p1, l1, 1, "Rx", -11)}

\* Two processes on one local address (a listener's workers, a socket kept
\* over fork); a change of state (sock_set_state: no bytes, Tx) that is stamped
\* with the process it happened to interrupt.
MCShared ==
  {Event(p1, l1, 1, "Tx", 1), Event(p2, l1, 1, "Rx", 2), Event(p2, l1, 1, "Tx", 0)}

\* No custom filter, and "pid p1".
MCCustoms == {Sockets, {s \in Sockets : s.pid = p1}}

\* No custom filter.
MCNoCustom == {Sockets}

MCSymmetry == Permutations(Cpus)

=============================================================================
