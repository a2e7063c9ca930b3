--------------------------- MODULE MCOrchestrator ---------------------------
(* Finite instances of Orchestrator for TLC. *)
EXTENDS OrchestratorProperties, TLC

(* One code of each class the client tells apart. *)
MCCodes == {200, 404, 503}

(* Worker processes are interchangeable: no action or invariant names one. *)
WorkerSymmetry == Permutations(Workers)
=============================================================================
