-------------------------- MODULE MCWorkflowEngine --------------------------
(* A planning phase with a checkpoint, a test phase and a gated phase.     *)
EXTENDS WorkflowEngine

OneRetry == [p \in 1..3 |-> IF p = 1 THEN 0 ELSE 1]
=============================================================================
