-------------------------------- MODULE MCReport --------------------------------
(***************************************************************************)
(* Instances of Report for TLC: those of MCEngine.                         *)
(***************************************************************************)
EXTENDS Report, MCEngine
=============================================================================
