----------------------------- MODULE RegistrationMC -----------------------------
(***************************************************************************)
(* Registration for TLC.                                                   *)
(***************************************************************************)
EXTENDS Registration, TLC
================================================================================
