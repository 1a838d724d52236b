-------------------------- MODULE MCControlledWrite --------------------------
(* A create and a rollback, or two creates, of the same ref, where the ref has
   two possible commits and other people move it as well. *)
EXTENDS ControlledWrite

CONSTANTS create1, create2, delete1, c1, c2

MCTimes == 0..2
MCCommitOf == [p \in Admissions |-> c1]
=============================================================================
