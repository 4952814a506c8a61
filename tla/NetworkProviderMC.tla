--------------------------- MODULE NetworkProviderMC ---------------------------
(***************************************************************************)
(* NetworkProvider for TLC: interfaces are interchangeable.  The network   *)
(* begins where the code's does.                                           *)
(***************************************************************************)
EXTENDS NetworkProvider, TLC

HomeNetwork == <<192, 168, 100, 0>>
Symmetry == Permutations(Interfaces)
================================================================================
