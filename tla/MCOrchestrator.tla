--------------------------- MODULE MCOrchestrator ---------------------------
(* Orchestrator with one node, two kernels and one event goroutine beside    *)
(* the main loop; three handles, so that a service that is still leaving     *)
(* does not keep a new one from starting.                                    *)
EXTENDS Orchestrator

\* The variables have their types, and no service is forgotten.
ServicesKept == TypeOK /\ NoServiceForgotten
=============================================================================
