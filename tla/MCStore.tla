------------------------------- MODULE MCStore -------------------------------
(* Instances of Store for TLC.                                              *)
EXTENDS Store, TLC

\* The CPUs run the same code.
MCSymmetry == Permutations(Cpus)

=============================================================================
