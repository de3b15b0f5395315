-------------------------- MODULE MCDecodePipeline --------------------------
(* Instances of DecodePipeline for TLC. *)
EXTENDS DecodePipeline

MCReqs == 1 .. 4
MCGen == <<1, 2, 2, 3>>
=============================================================================
