-------------------------- MODULE MCChangeExecution --------------------------
(* Three people, a production and a staging request, two executions. *)
EXTENDS ChangeExecution

CONSTANTS u1, u2, u3, r1, r2, k1, e1, e2
=============================================================================
