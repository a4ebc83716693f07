---------------------------- MODULE MCSockProbe ----------------------------
(* Instances of SockProbe for TLC.                                          *)
EXTENDS SockProbe, TLC

CONSTANTS t1, t2, k1, k2

MCSlots == 1 .. 8

\* No CPU runs out of slots: each has more than there are calls.
MCRoomy == (k1 :> <<1, 2, 3, 4>>) @@ (k2 :> <<5, 6, 7, 8>>)

\* CPU k2's slots have wandered to CPU k1.
MCUneven == (k1 :> <<1, 2>>) @@ (k2 :> <<>>)

MCCalls == (t1 :> 2) @@ (t2 :> 1)

Symmetry == Permutations(Inet)

=============================================================================
