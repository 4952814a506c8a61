----------------------------- MODULE ContainerRunMC -----------------------------
(***************************************************************************)
(* ContainerRun for TLC.                                                   *)
(***************************************************************************)
EXTENDS ContainerRun, TLC
================================================================================
