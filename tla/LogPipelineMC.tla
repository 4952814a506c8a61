----------------------------- MODULE LogPipelineMC -----------------------------
(***************************************************************************)
(* LogPipeline for TLC.                                                    *)
(***************************************************************************)
EXTENDS LogPipeline, TLC
================================================================================
