------------------------------ MODULE MCEvents -------------------------------
(* The instance of DesktopEvents with its symmetries.                       *)
EXTENDS DesktopEvents, TLC

Symmetry == Permutations(Ids) \cup Permutations(Threads)
=============================================================================
