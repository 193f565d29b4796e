------------------------------- MODULE MCSeries -------------------------------
(***************************************************************************)
(* Instances of Series for TLC.                                            *)
(***************************************************************************)
EXTENDS Series, TLC

Processes == Permutations(Runner) \cup Permutations(Pruner) \cup Permutations(Name)
=============================================================================
