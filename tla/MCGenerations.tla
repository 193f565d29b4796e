---------------------------- MODULE MCGenerations ----------------------------
(***************************************************************************)
(* Instances of Generations for TLC.                                       *)
(***************************************************************************)
EXTENDS Generations, TLC

Alike == Permutations(Runner) \cup Permutations(Farm)
=============================================================================
