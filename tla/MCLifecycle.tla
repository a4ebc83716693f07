---------------------------- MODULE MCLifecycle ----------------------------
(* Instances of Lifecycle for TLC.                                          *)
EXTENDS Lifecycle, TLC

CONSTANT k1

\* Enough for a ring of two to overflow and to tell of it.
MCEvents == k1 :> 4

=============================================================================
