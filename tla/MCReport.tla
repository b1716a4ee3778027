------------------------------ MODULE MCReport ------------------------------
(* A small instance of Report for TLC: the library's own stages, device      *)
(* stages that are mapped, and one that is not.                              *)
EXTENDS Report

MCStageMap == [unlock |-> "auth", readout |-> "transfer", refresh |-> "finish"]
=============================================================================
