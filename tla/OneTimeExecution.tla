-------------------------- MODULE OneTimeExecution --------------------------
(***************************************************************************)
(* What the canonical pipeline promises about one execution, whatever      *)
(* workers, retries, restarts and resumes do: it goes through its durable  *)
(* stages once and in order, on behalf of the one actor it was authorized  *)
(* for, and the outcome and the verdict that are recorded are final.       *)
(* Nothing forces it on: an execution may rest in any stage for ever.      *)
(***************************************************************************)
EXTENDS Naturals, Sequences

CONSTANTS Executions, Actors, NoActor, NoOutcome, NoVerdict

VARIABLES stage,    \* how far each execution has durably got
          owner,    \* the actor it was authorized for
          outcome,  \* the runner observation it was completed with
          verdict   \* the verification result

vars == <<stage, owner, outcome, verdict>>

Stages == <<"authorized", "granted", "dispatched", "admitted", "leased",
            "completed", "verified">>

Init ==
    /\ stage = [x \in Executions |-> 0]
    /\ owner = [x \in Executions |-> NoActor]
    /\ outcome = [x \in Executions |-> NoOutcome]
    /\ verdict = [x \in Executions |-> NoVerdict]

(* One durable step. An owner, an outcome or a verdict appears exactly at the
   stage it belongs to and is never replaced. *)
Advance(x) ==
    /\ stage[x] < Len(Stages)
    /\ stage' = [stage EXCEPT ![x] = @ + 1]
    /\ \A y \in Executions :
          /\ owner'[y] # owner[y] =>
                y = x /\ Stages[stage'[x]] = "authorized" /\ owner'[x] \in Actors
          /\ outcome'[y] # outcome[y] =>
                y = x /\ Stages[stage'[x]] = "completed"
          /\ verdict'[y] # verdict[y] =>
                y = x /\ Stages[stage'[x]] = "verified"

Next == \E x \in Executions : Advance(x)

Spec == Init /\ [][Next]_vars
=============================================================================
