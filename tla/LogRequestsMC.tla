----------------------------- MODULE LogRequestsMC -----------------------------
(***************************************************************************)
(* LogRequests for TLC.                                                    *)
(***************************************************************************)
EXTENDS LogRequests, TLC
================================================================================
