--------------------------- MODULE MCTaskManager ---------------------------
(***************************************************************************)
(* TaskManager for TLC. The cfg files give the bounds their values.        *)
(***************************************************************************)
EXTENDS TaskManager, TLC

\* Windows are interchangeable: no action or property treats one of them differently.
WindowSymmetry == Permutations(Window)
=============================================================================
