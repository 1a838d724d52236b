--------------------------- MODULE ChangeExecution ---------------------------
(***************************************************************************)
(* The governed change lifecycle of the product: a change request is       *)
(* drafted, submitted, reviewed (change_request.py) and executed by an     *)
(* adapter that runs outside any transaction (execution.py), under an      *)
(* emergency stop (operational_safety.py), with an audit trail and one     *)
(* receipt per outcome (audit.py, receipt.py).                             *)
(*                                                                         *)
(* Each service method is one or two BEGIN IMMEDIATE transactions; each    *)
(* transaction is one action. A call that raises rolls back and is a step  *)
(* that does not happen. The worker that started an execution is a thread  *)
(* of its own: it runs the adapter after the start transaction committed   *)
(* and opens the completion transaction later, if it lives that long.      *)
(***************************************************************************)
EXTENDS Naturals, FiniteSets, Sequences

CONSTANTS Users,
          Requests,
          Production,         \* the requests whose workspace is production
          CanonicalOnly,      \* the requests with the github-read-ref adapter
          ProductionEnabled,  \* config.production_effects_enabled
          ExecIds,            \* identifiers _id_factory("exec") may produce
          Keys, NoKey,        \* idempotency keys, and the call without one
          LeaseSeconds,       \* config.execution_lease_seconds
          Times,              \* instants utc_now may report
          NoLease, NoUser, NoRequest,
          MaxStops            \* bound: calls of set_emergency_stop

ASSUME ConstantsAssumption ==
    /\ Production \subseteq Requests
    /\ CanonicalOnly \subseteq Requests
    /\ ProductionEnabled \in BOOLEAN
    /\ LeaseSeconds \in Nat \ {0}
    /\ Times \subseteq Nat
    /\ MaxStops \in Nat
    /\ NoKey \notin Keys
    /\ NoLease \notin Nat
    /\ NoUser \notin Users
    /\ NoRequest \notin Requests
    /\ Requests \cap ExecIds = {}   \* the identifiers' prefixes, cr and exec

VARIABLES clock,      \* utc_now
          stop,       \* system_settings: the emergency stop
          stops,      \* how often it was set or cleared
          req,        \* change_requests
          approvals,  \* approvals
          exec,       \* executions
          worker,     \* the thread that started each execution
          runs,       \* history: how often each execution's adapter ran
          receipts,   \* receipts, in sequence order
          trail,      \* audit_events, per request and per execution
          replies     \* history: the executions answered to each key

vars == <<clock, stop, stops, req, approvals, exec, worker, runs, receipts,
          trail, replies>>

RequestStatus == {"NONE", "DRAFT", "REVIEW_REQUIRED", "APPROVED", "DENIED",
                  "RUNNING", "COMPLETED", "FAILED"}
ExecStatus == {"NONE", "RUNNING", "SUCCEEDED", "FAILED", "INTERRUPTED"}
Terminal == {"SUCCEEDED", "FAILED", "INTERRUPTED"}
WorkerPhase == {"none", "started", "SUCCEEDED", "FAILED", "returned", "lost"}
AuditAction == {"create", "submit", "approved", "denied", "start"} \cup Terminal

RequestRow == [status : RequestStatus, by : Users \cup {NoUser}, bound : BOOLEAN]
ExecRow == [status : ExecStatus, req : Requests \cup {NoRequest},
            key : Keys \cup {NoKey}, fence : Nat, lease : Nat \cup {NoLease}]
Receipt == [exec : ExecIds, status : Terminal]

NoExec == [status |-> "NONE", req |-> NoRequest, key |-> NoKey,
           fence |-> 0, lease |-> NoLease]

TypeOK ==
    /\ clock \in Nat
    /\ stop \in BOOLEAN
    /\ stops \in 0..MaxStops
    /\ req \in [Requests -> RequestRow]
    /\ approvals \subseteq [req : Requests, by : Users,
                            decision : {"APPROVED", "DENIED"}]
    /\ exec \in [ExecIds -> ExecRow]
    /\ worker \in [ExecIds -> WorkerPhase]
    /\ runs \in [ExecIds -> Nat]
    /\ receipts \in Seq(Receipt)
    /\ trail \in [Requests \cup ExecIds -> Seq(AuditAction)]
    /\ replies \in [Keys -> SUBSET ExecIds]

Init ==
    /\ clock \in Times
    /\ stop = FALSE
    /\ stops = 0
    /\ req = [r \in Requests |-> [status |-> "NONE", by |-> NoUser, bound |-> FALSE]]
    /\ approvals = {}
    /\ exec = [e \in ExecIds |-> NoExec]
    /\ worker = [e \in ExecIds |-> "none"]
    /\ runs = [e \in ExecIds |-> 0]
    /\ receipts = <<>>
    /\ trail = [s \in Requests \cup ExecIds |-> <<>>]
    /\ replies = [k \in Keys |-> {}]

(* audit_ledger.append, seen from one target. *)
Audited(target, action) ==
    trail' = [trail EXCEPT ![target] = Append(@, action)]
-----------------------------------------------------------------------------
(* Review: change_request.py *)

CreateChangeRequest(u, r) ==
    /\ req[r].status = "NONE"
    /\ req' = [req EXCEPT ![r] = [status |-> "DRAFT", by |-> u, bound |-> FALSE]]
    /\ Audited(r, "create")
    /\ UNCHANGED <<clock, stop, stops, approvals, exec, worker, runs, receipts, replies>>

(* Submission binds the content that is reviewed; migration 0008 then freezes
   it, so the digest is either absent or that of the content. *)
SubmitChangeRequest(r) ==
    /\ req[r].status = "DRAFT"
    /\ ~req[r].bound
    /\ req' = [req EXCEPT ![r].status = "REVIEW_REQUIRED", ![r].bound = TRUE]
    /\ Audited(r, "submit")
    /\ UNCHANGED <<clock, stop, stops, approvals, exec, worker, runs, receipts, replies>>

(* current_required_approvals *)
RequiredApprovals(r) == IF r \in Production THEN 2 ELSE 1

Approvers(r) == {a.by : a \in {b \in approvals : b.req = r /\ b.decision = "APPROVED"}}
Deciders(r) == {a.by : a \in {b \in approvals : b.req = r}}

(* The checks of approve_change_request, with UNIQUE(request_id, approver_id)
   as the last of them. The mutant lets the requester decide. *)
MayDecideOwn(u, r) ==
    /\ req[r].status = "REVIEW_REQUIRED"
    /\ req[r].bound
    /\ u \notin Deciders(r)

MayDecide(u, r) ==
    /\ req[r].status = "REVIEW_REQUIRED"
    /\ req[r].by # u
    /\ req[r].bound
    /\ u \notin Deciders(r)

(* The status after one more approval, counted with the row just inserted. *)
StatusAfterApproval(r, n) ==
    IF n >= RequiredApprovals(r) THEN "APPROVED" ELSE "REVIEW_REQUIRED"

ApproveChangeRequest(u, r) ==
    /\ MayDecide(u, r)
    /\ approvals' = approvals \cup {[req |-> r, by |-> u, decision |-> "APPROVED"]}
    /\ req' = [req EXCEPT ![r].status =
                  StatusAfterApproval(r, Cardinality(Approvers(r)) + 1)]
    /\ Audited(r, "approved")
    /\ UNCHANGED <<clock, stop, stops, exec, worker, runs, receipts, replies>>

DenyChangeRequest(u, r) ==
    /\ MayDecide(u, r)
    /\ approvals' = approvals \cup {[req |-> r, by |-> u, decision |-> "DENIED"]}
    /\ req' = [req EXCEPT ![r].status = "DENIED"]
    /\ Audited(r, "denied")
    /\ UNCHANGED <<clock, stop, stops, exec, worker, runs, receipts, replies>>
-----------------------------------------------------------------------------
(* Execution: execution.py *)

(* The execution a key is bound to; the mutant forgets the ended ones. *)
BoundWhileRunning(k) ==
    {e \in ExecIds : k # NoKey /\ exec[e].key = k /\ exec[e].status = "RUNNING"}

Bound(k) == {e \in ExecIds : k # NoKey /\ exec[e].key = k}

(* The first transaction of execute_change_request finds the key bound: it
   answers with that execution, even under an emergency stop, and the call
   returns without running anything. *)
ReplayExecution(r, k) ==
    /\ \E e \in Bound(k) :
          /\ exec[e].req = r
          /\ replies' = [replies EXCEPT ![k] = @ \cup {e}]
    /\ UNCHANGED <<clock, stop, stops, req, approvals, exec, worker, runs,
                   receipts, trail>>

(* The checks before a start; the mutant retries what failed. *)
MayStartAgain(r) ==
    /\ ~stop
    /\ req[r].status \in {"APPROVED", "FAILED"}
    /\ r \in Production => ProductionEnabled
    /\ r \notin CanonicalOnly

MayStart(r) ==
    /\ ~stop
    /\ req[r].status = "APPROVED"
    /\ r \in Production => ProductionEnabled
    /\ r \notin CanonicalOnly

(* The first transaction otherwise: a new RUNNING execution with fence 1 and a
   lease. The adapter has not run yet. The mutant leaves the request as it is. *)
StartUnmarked(r, k, e) ==
    /\ Bound(k) = {}
    /\ MayStart(r)
    /\ exec[e] = NoExec
    /\ exec' = [exec EXCEPT ![e] = [status |-> "RUNNING", req |-> r, key |-> k,
                                    fence |-> 1, lease |-> clock + LeaseSeconds]]
    /\ worker' = [worker EXCEPT ![e] = "started"]
    /\ Audited(e, "start")
    /\ UNCHANGED <<clock, stop, stops, req, approvals, runs, receipts, replies>>

StartExecution(r, k, e) ==
    /\ Bound(k) = {}
    /\ MayStart(r)
    /\ exec[e] = NoExec
    /\ exec' = [exec EXCEPT ![e] = [status |-> "RUNNING", req |-> r, key |-> k,
                                    fence |-> 1, lease |-> clock + LeaseSeconds]]
    /\ req' = [req EXCEPT ![r].status = "RUNNING"]
    /\ worker' = [worker EXCEPT ![e] = "started"]
    /\ Audited(e, "start")
    /\ UNCHANGED <<clock, stop, stops, approvals, runs, receipts, replies>>

(* The adapter runs outside any transaction. It ends in success, or in an
   exception or a reported failure; nothing re-checks the stop or the lease. *)
RunAdapter(e, outcome) ==
    /\ worker[e] = "started"
    /\ worker' = [worker EXCEPT ![e] = outcome]
    /\ runs' = [runs EXCEPT ![e] = @ + 1]
    /\ UNCHANGED <<clock, stop, stops, req, approvals, exec, receipts, trail, replies>>

Answered(e) ==
    replies' = IF exec[e].key = NoKey THEN replies
               ELSE [replies EXCEPT ![exec[e].key] = @ \cup {e}]

OutcomeUntranslated(status) == status  \* mutant
RequestOutcome(status) == IF status = "SUCCEEDED" THEN "COMPLETED" ELSE "FAILED"

(* COMPLETE_EXECUTION matches a row: still RUNNING, under the fence this worker
   started with. One mutant has no fence, the other also wants the lease. *)
CompletionUnfenced(e) == TRUE
CompletionWithinLease(e) ==
    exec[e].status = "RUNNING" /\ exec[e].fence = 1 /\ clock < exec[e].lease
CompletionMatches(e) == exec[e].status = "RUNNING" /\ exec[e].fence = 1

(* The second transaction when the compare-and-set matches. *)
CompleteExecution(e) ==
    /\ worker[e] \in {"SUCCEEDED", "FAILED"}
    /\ CompletionMatches(e)
    /\ exec' = [exec EXCEPT ![e].status = worker[e], ![e].lease = NoLease]
    /\ req' = [req EXCEPT ![exec[e].req].status = RequestOutcome(worker[e])]
    /\ receipts' = Append(receipts, [exec |-> e, status |-> worker[e]])
    /\ Audited(e, worker[e])
    /\ worker' = [worker EXCEPT ![e] = "returned"]
    /\ Answered(e)
    /\ UNCHANGED <<clock, stop, stops, approvals, runs>>

(* ... and when it does not: nothing is written, and the caller is answered
   with the execution as it stands. One mutant audits what it did not do, the
   other writes the request's status whether or not the row matched. *)
CompletionAudited(e) ==
    /\ worker[e] \in {"SUCCEEDED", "FAILED"}
    /\ ~CompletionMatches(e)
    /\ worker' = [worker EXCEPT ![e] = "returned"]
    /\ Answered(e)
    /\ Audited(e, worker[e])
    /\ UNCHANGED <<clock, stop, stops, req, approvals, exec, runs, receipts>>

CompletionMarked(e) ==
    /\ worker[e] \in {"SUCCEEDED", "FAILED"}
    /\ ~CompletionMatches(e)
    /\ worker' = [worker EXCEPT ![e] = "returned"]
    /\ Answered(e)
    /\ req' = [req EXCEPT ![exec[e].req].status = RequestOutcome(worker[e])]
    /\ UNCHANGED <<clock, stop, stops, approvals, exec, runs, receipts, trail>>

CompletionFenced(e) ==
    /\ worker[e] \in {"SUCCEEDED", "FAILED"}
    /\ ~CompletionMatches(e)
    /\ worker' = [worker EXCEPT ![e] = "returned"]
    /\ Answered(e)
    /\ UNCHANGED <<clock, stop, stops, req, approvals, exec, runs, receipts, trail>>

(* _lease_expired; a row without a lease counts as expired. *)
LeaseExpired(e) == exec[e].lease = NoLease \/ exec[e].lease <= clock

(* The checks of recover_execution. *)
MayRecover(e) == stop /\ exec[e].status = "RUNNING" /\ LeaseExpired(e)

RecoverExecution(e) ==
    /\ MayRecover(e)
    /\ exec' = [exec EXCEPT ![e].status = "INTERRUPTED", ![e].lease = NoLease,
                            ![e].fence = @ + 1]
    /\ req' = [req EXCEPT ![exec[e].req].status = "FAILED"]
    /\ receipts' = Append(receipts, [exec |-> e, status |-> "INTERRUPTED"])
    /\ Audited(e, "INTERRUPTED")
    /\ UNCHANGED <<clock, stop, stops, approvals, worker, runs, replies>>

(* The process that ran the worker dies, before or after the adapter. *)
LoseWorker(e) ==
    /\ worker[e] \in {"started", "SUCCEEDED", "FAILED"}
    /\ worker' = [worker EXCEPT ![e] = "lost"]
    /\ UNCHANGED <<clock, stop, stops, req, approvals, exec, runs, receipts,
                   trail, replies>>
-----------------------------------------------------------------------------
(* set_emergency_stop writes the flag whatever it was; its audit events are
   those of no request and no execution. *)
SetEmergencyStop(active) ==
    /\ stops < MaxStops
    /\ stop' = active
    /\ stops' = stops + 1
    /\ UNCHANGED <<clock, req, approvals, exec, worker, runs, receipts, trail, replies>>

(* utc_now is the wall clock: it may also be set back. *)
ClockMoves ==
    /\ clock' \in Times \ {clock}
    /\ UNCHANGED <<stop, stops, req, approvals, exec, worker, runs, receipts,
                   trail, replies>>

Review ==
    \E r \in Requests :
        \/ SubmitChangeRequest(r)
        \/ \E u \in Users : \/ CreateChangeRequest(u, r)
                            \/ ApproveChangeRequest(u, r)
                            \/ DenyChangeRequest(u, r)

WorkerStep(e) ==
    \/ \E outcome \in {"SUCCEEDED", "FAILED"} : RunAdapter(e, outcome)
    \/ CompleteExecution(e)
    \/ CompletionFenced(e)

Execution ==
    \/ \E r \in Requests, k \in Keys \cup {NoKey} :
          \/ ReplayExecution(r, k)
          \/ \E e \in ExecIds : StartExecution(r, k, e)
    \/ \E e \in ExecIds :
          \/ WorkerStep(e)
          \/ RecoverExecution(e)
          \/ LoseWorker(e)

Next ==
    \/ Review
    \/ Execution
    \/ \E active \in BOOLEAN : SetEmergencyStop(active)
    \/ ClockMoves

(* A worker thread that lives keeps running; nothing else has to happen. *)
Fairness == \A e \in ExecIds : WF_vars(WorkerStep(e))

Spec == Init /\ [][Next]_vars /\ Fairness
-----------------------------------------------------------------------------
(* Whatever is executed was approved by as many different people as its
   environment asks for, none of them the requester, and denied by nobody:
   approvals, denials, submission and execution in any order cannot get a
   request past its quorum (change_request.py, execution.py). *)
QuorumBeforeExecution ==
    \A e \in ExecIds :
        exec[e].status # "NONE" =>
            LET r == exec[e].req
            IN  /\ req[r].bound
                /\ Cardinality(Approvers(r) \ {req[r].by}) >= RequiredApprovals(r)
                /\ \A a \in approvals : a.req = r => a.decision = "APPROVED"

(* A request and its execution never disagree, and a request is executed at
   most once, however starts, completions, recoveries and lost workers
   interleave. The two rows are written by different statements of execute_change
   and recover_execution: a late worker whose completion no longer matches must
   leave the request as the recovery left it. *)
Agrees(rs, es) ==
    \/ rs = "RUNNING" /\ es = "RUNNING"
    \/ rs = "COMPLETED" /\ es = "SUCCEEDED"
    \/ rs = "FAILED" /\ es \in {"FAILED", "INTERRUPTED"}

ExecutionsOf(r) == {e \in ExecIds : exec[e].req = r}

RequestTracksExecution ==
    \A r \in Requests :
        /\ Cardinality(ExecutionsOf(r)) <= 1
        /\ req[r].status \in {"RUNNING", "COMPLETED", "FAILED"}
              <=> ExecutionsOf(r) # {}
        /\ \A e \in ExecutionsOf(r) : Agrees(req[r].status, exec[e].status)

(* Evidence is exact: an execution that ended has one receipt, with the status
   it ended in, and one that has not ended has none. A late worker whose
   execution was recovered must not leave a second one. *)
OneReceiptPerOutcome ==
    \A e \in ExecIds :
        LET mine == {i \in DOMAIN receipts : receipts[i].exec = e}
        IN  IF exec[e].status \in Terminal
            THEN /\ Cardinality(mine) = 1
                 /\ \A i \in mine : receipts[i].status = exec[e].status
            ELSE mine = {}

(* The audit trail tells the whole story. That of an execution reads start, then
   the status the execution is in, and nothing else; that of a request has one
   entry per approval, and a denial exactly when the request is denied. *)
TrailTellsStatus ==
    /\ \A e \in ExecIds :
          trail[e] = CASE exec[e].status = "NONE" -> <<>>
                       [] exec[e].status = "RUNNING" -> <<"start">>
                       [] OTHER -> <<"start", exec[e].status>>
    /\ \A r \in Requests :
          LET entries(action) == {i \in DOMAIN trail[r] : trail[r][i] = action}
          IN  /\ Cardinality(entries("approved")) = Cardinality(Approvers(r))
              /\ entries("denied") # {} <=> req[r].status = "DENIED"

(* The adapter of a request runs at most once, across retries with and without
   idempotency keys, recoveries and new starts: execution never repeats an
   effect on its own. *)
AdapterRunsOnce ==
    \A r \in Requests :
        /\ \A e \in ExecutionsOf(r) : runs[e] <= 1
        /\ Cardinality({e \in ExecutionsOf(r) : runs[e] > 0}) <= 1

(* One idempotency key is answered with one execution for ever, whoever asks
   and whenever: before, while and after it runs or is recovered. *)
KeyNamesOneExecution ==
    \A k \in Keys : \A e, f \in replies[k] :
        e = f /\ exec[e].key = k

(* An execution that ended is final: no later worker, recovery or retry changes
   its row, and its fence keeps a recovered one apart from a completed one. *)
EndedStaysEnded ==
    [][\A e \in ExecIds :
          exec[e].status \in Terminal => exec'[e] = exec[e]]_vars

(* A started execution whose worker lives ends, even when an emergency stop is
   set meanwhile or an operator recovers it under the worker's feet. *)
LiveWorkerSettles ==
    \A e \in ExecIds :
        exec[e].status = "RUNNING" ~> (exec[e].status \in Terminal \/ worker[e] = "lost")
=============================================================================
