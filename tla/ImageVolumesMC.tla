----------------------------- MODULE ImageVolumesMC -----------------------------
(***************************************************************************)
(* ImageVolumes for TLC: machines are interchangeable.                     *)
(***************************************************************************)
EXTENDS ImageVolumes, TLC

Symmetry == Permutations(Machines)
================================================================================
