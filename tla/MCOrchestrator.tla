--------------------------- MODULE MCOrchestrator ---------------------------
(* Instances of Orchestrator for TLC.                                      *)
EXTENDS Orchestrator

CONSTANTS e1, e2

(* A goal of two steps and a goal of one. *)
MCGoals == <<2, 1>>
=============================================================================
