----------------------------- MODULE RuntimeLifeMC -----------------------------
(***************************************************************************)
(* RuntimeLife for TLC.                                                    *)
(***************************************************************************)
EXTENDS RuntimeLife, TLC
================================================================================
