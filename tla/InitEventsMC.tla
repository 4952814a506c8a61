------------------------------ MODULE InitEventsMC ------------------------------
(***************************************************************************)
(* InitEvents for TLC: events, and subscribers, are interchangeable.       *)
(***************************************************************************)
EXTENDS InitEvents, TLC

Symmetry == Permutations(Events) \cup Permutations(Subscribers)
================================================================================
