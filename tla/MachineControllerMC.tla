-------------------------- MODULE MachineControllerMC --------------------------
(***************************************************************************)
(* MachineController for TLC: goroutines of one kind are interchangeable.  *)
(***************************************************************************)
EXTENDS MachineController, TLC

Symmetry == Permutations(Reconcilers) \cup Permutations(Listeners)
================================================================================
