-------------------------- MODULE CanonicalPipeline --------------------------
(***************************************************************************)
(* The canonical READ operation, end to end: canonical_pipeline.prepare,   *)
(* canonical_operation_resume.resume, canonical_read_terminal.run and the  *)
(* verification result store, run by concurrent workers over one database. *)
(*                                                                         *)
(* A worker does one transaction (or one call of the provider) per step.   *)
(* Anything may happen between two steps: the emergency stop, a revoked    *)
(* permission, a moved ref, a clock adjustment, a restart under a higher   *)
(* revocation epoch, the other worker. A check that fails raises out of    *)
(* the whole call, which is Fail here; nothing is retried by itself.       *)
(*                                                                         *)
(* An execution is identified with the idempotency key it is prepared      *)
(* under: authorization_snapshots makes them one to one. The change        *)
(* request behind it is APPROVED for good, because the canonical path      *)
(* never changes its status and the other one refuses its adapter.         *)
(***************************************************************************)
EXTENDS LeaseStore, Sequences

CONSTANTS Workers,
          Actors,
          Shas,               \* commits the provider's ref may point at
          ApprovedAt,         \* when the newest approval was given
          ApprovalUntil,      \* approval_valid_until of the approval evidence
          GrantSeconds,       \* grant_ttl_seconds
          PreconditionAge,    \* MAX_PRECONDITION_TO_GRANT_SECONDS
          VerifierSeconds,    \* credential_ttl_seconds of the verifier profile
          MaxChanges,         \* bound: operator changes of stop and permission
          MaxRestarts,        \* bound: restarts of the process
          Nothing             \* an absent row or value

ASSUME PipelineAssumption ==
    /\ ApprovedAt \in Nat /\ ApprovalUntil \in Nat /\ ApprovedAt < ApprovalUntil
    /\ GrantSeconds \in Nat \ {0}
    /\ PreconditionAge \in Nat
    /\ VerifierSeconds \in Nat \ {0}
    /\ MaxChanges \in Nat /\ MaxRestarts \in Nat

Observation == [sha : Shas, at : Nat]
Snapshot == [actor : Actors, at : Nat, epoch : Nat]
Grant == [issued : Nat, expires : Nat, epoch : Nat, of : Snapshot]
Result == [epoch : Nat, runner : Observation, verifier : Observation,
           verdict : {"VERIFIED", "NOT_VERIFIED"}]

(* An absent row is no row, and a NULL digest is that of no observation. *)
ASSUME AbsentAssumption ==
    /\ Nothing \notin Nat /\ Nothing \notin Snapshot
    /\ Nothing \notin Grant /\ Nothing \notin Result
    /\ NoDigest \notin Observation

VARIABLES stop,       \* the emergency stop
          permitted,  \* actors with the execution permission
          changes,    \* how often an operator changed one of those
          revEpoch,   \* VOODOO_G8_REVOCATION_EPOCH of the running process
          ref,        \* where the provider's ref points
          snap,       \* authorization_snapshots and its authority witness
          grants,     \* execution_grants_v2
          consumed,   \* grant_consumptions and dispatch_outbox, one transaction
          results,    \* verification_results_v1
          pc,         \* where each worker is
          mem,        \* what it has in memory and still needs
          told        \* history: verification results returned to callers

authority == <<stop, permitted, changes, revEpoch>>
rows == <<snap, grants, consumed, results>>
vars == <<clock, admitted, leases, state, authority, ref, rows, pc, mem, told>>

Maybe(S) == S \cup {Nothing}
EpochState == [status : {"NONE", "ACTIVE", "COMPLETED"}, epoch : Nat, acquired : Nat,
               expires : Nat, digest : Observation \cup {NoDigest}, completed : Nat]
Memory == [exec : Maybe(Admissions), actor : Maybe(Actors), resumed : BOOLEAN,
           checked : Maybe(Nat), grant : Maybe(Grant), lease : Maybe(Lease),
           obs : Maybe(Observation), cred : Maybe(Nat), seen : Maybe(Observation)]

Blank == [exec |-> Nothing, actor |-> Nothing, resumed |-> FALSE,
          checked |-> Nothing, grant |-> Nothing, lease |-> Nothing,
          obs |-> Nothing, cred |-> Nothing, seen |-> Nothing]

Init ==
    /\ StoreInit
    /\ stop = FALSE
    /\ permitted = Actors
    /\ changes = 0
    /\ revEpoch = 0
    /\ ref \in Shas
    /\ snap = [x \in Admissions |-> Nothing]
    /\ grants = [x \in Admissions |-> Nothing]
    /\ consumed = [x \in Admissions |-> Nothing]
    /\ results = [x \in Admissions |-> Nothing]
    /\ pc = [w \in Workers |-> "idle"]
    /\ mem = [w \in Workers |-> Blank]
    /\ told = {}

(* The worker moves on, with what it has in memory now. *)
Goes(w, from, to, m) ==
    /\ pc[w] = from
    /\ pc' = [pc EXCEPT ![w] = to]
    /\ mem' = [mem EXCEPT ![w] = m]

Exec(w) == mem[w].exec
-----------------------------------------------------------------------------
(* Preparation: canonical_pipeline.py *)

ApprovalHolds(t) == ApprovedAt <= t /\ t < ApprovalUntil

(* create_snapshot. The key of an existing snapshot answers with that snapshot,
   as it was, to the actor it is bound to and to nobody else; the checks come
   before the lookup and are made either way. The mutant rebinds the key. *)
SnapshotRebound(w, u, x) ==
    /\ ~stop
    /\ ApprovalHolds(clock)
    /\ u \in permitted
    /\ snap' = [snap EXCEPT ![x] = [actor |-> u, at |-> clock, epoch |-> revEpoch]]
    /\ Goes(w, "idle", "authorized", [Blank EXCEPT !.exec = x, !.actor = u])
    /\ UNCHANGED <<storeVars, authority, ref, grants, consumed, results, told>>

CreateSnapshot(w, u, x) ==
    /\ ~stop
    /\ ApprovalHolds(clock)
    /\ u \in permitted
    /\ \/ /\ snap[x] = Nothing
          /\ snap' = [snap EXCEPT ![x] =
                         [actor |-> u, at |-> clock, epoch |-> revEpoch]]
       \/ /\ snap[x] # Nothing
          /\ snap[x].actor = u
          /\ UNCHANGED snap
    /\ Goes(w, "idle", "authorized", [Blank EXCEPT !.exec = x, !.actor = u])
    /\ UNCHANGED <<storeVars, authority, ref, grants, consumed, results, told>>

(* The issuer's _assert_live_authority; it does not look at the permission. *)
LiveAtIssuer(x) == ~stop /\ revEpoch = snap[x].epoch

(* issue, up to the provider's precondition read. *)
CheckPrecondition(w) ==
    /\ Goes(w, "authorized", "checked", [mem[w] EXCEPT !.checked = clock])
    /\ LiveAtIssuer(Exec(w))
    /\ UNCHANGED <<storeVars, authority, ref, rows, told>>

Earlier(s, t) == IF s <= t THEN s ELSE t

(* _resolve_validity: authority only narrows. The mutant outlives the approval. *)
ValidityUncapped(t) == t + GrantSeconds
GrantValidity(t) == Earlier(t + GrantSeconds, ApprovalUntil)
MayIssueAt(w, t) ==
    /\ mem[w].checked <= t
    /\ t - mem[w].checked <= PreconditionAge
    /\ snap[Exec(w)].at <= t
    /\ t < ApprovalUntil

(* The rest of issue, with its second look at the live authority. The grant
   exists only in memory so far. *)
IssueGrant(w) ==
    /\ Goes(w, "checked", "issued",
            [mem[w] EXCEPT !.checked = Nothing,
                           !.grant = [issued |-> clock, epoch |-> revEpoch,
                                      expires |-> GrantValidity(clock),
                                      of |-> snap[Exec(w)]]])
    /\ MayIssueAt(w, clock)
    /\ LiveAtIssuer(Exec(w))
    /\ UNCHANGED <<storeVars, authority, ref, rows, told>>

(* DurableGrantService._assert_live_authority, made inside the transactions
   that store and that consume the grant. The mutant trusts the issuer's look
   at the stop. *)
LiveForGrantOnceChecked(g, u) ==
    /\ g.issued <= clock /\ clock < g.expires
    /\ u \in permitted
    /\ revEpoch = g.epoch

LiveForGrant(g, u) ==
    /\ g.issued <= clock /\ clock < g.expires
    /\ ~stop
    /\ u \in permitted
    /\ revEpoch = g.epoch

(* issue_and_store; a second grant for the execution is GRANT_STORE_CONFLICT. *)
StoreGrant(w) ==
    /\ Goes(w, "issued", "stored", [mem[w] EXCEPT !.grant = Nothing])
    /\ LiveForGrant(mem[w].grant, mem[w].actor)
    /\ grants[Exec(w)] = Nothing
    /\ grants' = [grants EXCEPT ![Exec(w)] = mem[w].grant]
    /\ UNCHANGED <<storeVars, authority, ref, snap, consumed, results, told>>

(* consume_and_enqueue: consumption and outbox intent in one transaction. *)
ConsumeAndEnqueue(w) ==
    /\ Goes(w, "stored", "enqueued", mem[w])
    /\ consumed[Exec(w)] = Nothing
    /\ LiveForGrant(grants[Exec(w)], mem[w].actor)
    /\ consumed' = [consumed EXCEPT ![Exec(w)] = clock]
    /\ UNCHANGED <<storeVars, authority, ref, snap, grants, results, told>>

(* admit; an exact redelivery answers with the admission that is stored. *)
AdmitDispatch(w) ==
    /\ Goes(w, "enqueued", "admitted", mem[w])
    /\ consumed[Exec(w)] # Nothing
    /\ admitted' = admitted \cup {Exec(w)}
    /\ UNCHANGED <<clock, leases, state, authority, ref, rows, told>>

AcquireLease(w) ==
    /\ Goes(w, "admitted", "leased",
            [mem[w] EXCEPT !.lease = CandidateLease(Exec(w), NextEpoch(Exec(w)), clock)])
    /\ Acquire(Exec(w))
    /\ UNCHANGED <<authority, ref, rows, told>>
-----------------------------------------------------------------------------
(* Resume: canonical_operation_resume.py *)

(* The snapshot is loaded and the live permission of its actor asked for. *)
ResumeAuthorize(w, u, x) ==
    /\ Goes(w, "idle", "resuming",
            [Blank EXCEPT !.exec = x, !.actor = u, !.resumed = TRUE])
    /\ snap[x] # Nothing
    /\ snap[x].actor = u
    /\ u \in permitted
    /\ UNCHANGED <<storeVars, authority, ref, rows, told>>

(* The durable rows, which must form one chain from the grant to the admission. *)
ChainStored(x) == grants[x] # Nothing /\ consumed[x] # Nothing /\ x \in admitted

(* Then those rows are loaded and checked, and the current fence with them. The
   mutant replaces a lease that ran out. *)
ResumeReacquires(w) ==
    LET x == Exec(w)
    IN  /\ Goes(w, "resuming", "leased",
                [mem[w] EXCEPT !.lease = CandidateLease(x, NextEpoch(x), clock)])
        /\ ChainStored(x)
        /\ Acquire(x)
        /\ UNCHANGED <<authority, ref, rows, told>>

ResumeLoad(w) ==
    LET x == Exec(w)
    IN  /\ Goes(w, "resuming", "leased", [mem[w] EXCEPT !.lease = CurrentLease(x)])
        /\ ChainStored(x)
        /\ IsCurrent(CurrentLease(x))
        /\ InWindow(CurrentLease(x), clock)
        /\ UNCHANGED <<storeVars, authority, ref, rows, told>>
-----------------------------------------------------------------------------
(* The READ terminal: canonical_read_terminal.py *)

(* IsolatedRunnerAdapter.prepare and activate: the current fence, then the
   provider activation. *)
ActivateRunner(w) ==
    /\ Goes(w, "leased", "active", mem[w])
    /\ IsCurrent(mem[w].lease)
    /\ InWindow(mem[w].lease, clock)
    /\ UNCHANGED <<storeVars, authority, ref, rows, told>>

(* The runner's observe_ref: the fence reads the row ... *)
CheckFence(w) ==
    /\ Goes(w, "active", "fenced", mem[w])
    /\ IsCurrent(mem[w].lease)
    /\ UNCHANGED <<storeVars, authority, ref, rows, told>>

(* ... then the clock; then the provider is read and the clock witnessed, at
   whatever it reports by then. *)
ObserveRef(w, t) ==
    /\ Goes(w, "fenced", "observed", [mem[w] EXCEPT !.obs = [sha |-> ref, at |-> t]])
    /\ InWindow(mem[w].lease, clock)
    /\ UNCHANGED <<storeVars, authority, ref, rows, told>>

(* coordinator.complete with the digest of the observation. *)
CompleteExecution(w) ==
    /\ Goes(w, "observed", "completed", mem[w])
    /\ \/ Complete(mem[w].lease, mem[w].obs)
       \/ DuplicateCompletion(mem[w].lease, mem[w].obs)
    /\ UNCHANGED <<authority, ref, rows, told>>

(* The verifier's credential decision is valid from now on. *)
DecideVerifier(w) ==
    /\ Goes(w, "completed", "verifying", [mem[w] EXCEPT !.cred = clock])
    /\ UNCHANGED <<storeVars, authority, ref, rows, told>>

CredentialCurrent(from, t) == from <= t /\ t < from + VerifierSeconds

(* The verifier's observe_ref, and verify_github_ref_readback, which refuses an
   observation older than the runner's. *)
VerifierObserve(w, t) ==
    /\ Goes(w, "verifying", "verified",
            [mem[w] EXCEPT !.cred = Nothing, !.seen = [sha |-> ref, at |-> t]])
    /\ CredentialCurrent(mem[w].cred, clock)
    /\ mem[w].obs.at <= t
    /\ UNCHANGED <<storeVars, authority, ref, rows, told>>

VerdictUnknown(o, s) == IF s.sha = o.sha THEN "VERIFIED" ELSE "UNKNOWN"  \* mutant
Verdict(o, s) == IF s.sha = o.sha THEN "VERIFIED" ELSE "NOT_VERIFIED"
ResultOf(w) ==
    [epoch |-> mem[w].lease.epoch, runner |-> mem[w].obs, verifier |-> mem[w].seen,
     verdict |-> Verdict(mem[w].obs, mem[w].seen)]

(* trg_verification_results_v1_binding_insert *)
ResultBound(x, r) ==
    /\ consumed[x] # Nothing
    /\ state[x].status = "COMPLETED"
    /\ state[x].epoch = r.epoch
    /\ state[x].digest = r.runner

(* store: a new result, or the equal one that is already there; a different one
   is VERIFICATION_RESULT_CONFLICT. The mutant replaces it. *)
ResultReplaced(w) ==
    LET x == Exec(w)
        r == ResultOf(w)
    IN  /\ Goes(w, "verified", "idle", Blank)
        /\ ResultBound(x, r)
        /\ results' = [results EXCEPT ![x] = r]
        /\ told' = told \cup {[exec |-> x, result |-> r]}
        /\ UNCHANGED <<storeVars, authority, ref, snap, grants, consumed>>

StoreResult(w) ==
    LET x == Exec(w)
        r == ResultOf(w)
    IN  /\ Goes(w, "verified", "idle", Blank)
        /\ \/ /\ results[x] = Nothing
              /\ ResultBound(x, r)
              /\ results' = [results EXCEPT ![x] = r]
           \/ /\ results[x] = r
              /\ UNCHANGED results
        /\ told' = told \cup {[exec |-> x, result |-> r]}
        /\ UNCHANGED <<storeVars, authority, ref, snap, grants, consumed>>
-----------------------------------------------------------------------------
(* Everything else that happens meanwhile. *)

(* A denial, a provider error or a crash ends the call. *)
Fail(w) ==
    /\ pc[w] # "idle"
    /\ Goes(w, pc[w], "idle", Blank)
    /\ UNCHANGED <<storeVars, authority, ref, rows, told>>

(* set_emergency_stop, and a membership or role that changes. *)
OperatorChange ==
    /\ changes < MaxChanges
    /\ changes' = changes + 1
    /\ \/ stop' = ~stop /\ UNCHANGED permitted
       \/ \E u \in Actors :
             /\ permitted' = IF u \in permitted THEN permitted \ {u}
                             ELSE permitted \cup {u}
             /\ UNCHANGED stop
    /\ UNCHANGED <<storeVars, revEpoch, ref, rows, pc, mem, told>>

(* The process restarts under a higher revocation epoch, the only way to raise
   it. Its workers are gone. *)
Restart ==
    /\ revEpoch < MaxRestarts
    /\ revEpoch' = revEpoch + 1
    /\ pc' = [w \in Workers |-> "idle"]
    /\ mem' = [w \in Workers |-> Blank]
    /\ UNCHANGED <<storeVars, stop, permitted, changes, ref, rows, told>>

(* Somebody pushes. *)
RefMoves ==
    /\ ref' \in Shas \ {ref}
    /\ UNCHANGED <<storeVars, authority, rows, pc, mem, told>>

TimePasses ==
    /\ ClockMoves
    /\ UNCHANGED <<authority, ref, rows, pc, mem, told>>

Prepare(w) ==
    \/ \E u \in Actors, x \in Admissions : CreateSnapshot(w, u, x)
    \/ CheckPrecondition(w) \/ IssueGrant(w) \/ StoreGrant(w)
    \/ ConsumeAndEnqueue(w) \/ AdmitDispatch(w) \/ AcquireLease(w)

Resume(w) ==
    \/ \E u \in Actors, x \in Admissions : ResumeAuthorize(w, u, x)
    \/ ResumeLoad(w)

ReadTerminal(w) ==
    \/ ActivateRunner(w) \/ CheckFence(w)
    \/ \E t \in Times : ObserveRef(w, t) \/ VerifierObserve(w, t)
    \/ CompleteExecution(w) \/ DecideVerifier(w) \/ StoreResult(w)

Next ==
    \/ \E w \in Workers : Prepare(w) \/ Resume(w) \/ ReadTerminal(w) \/ Fail(w)
    \/ OperatorChange \/ Restart \/ RefMoves \/ TimePasses

Spec == Init /\ [][Next]_vars
-----------------------------------------------------------------------------
(* The operation passport: operation_passport.py. It is read in one statement
   at any time and is a function of the rows. *)

HasLease(x) == state[x].status # "NONE" /\ CurrentLease(x) \in leases

(* _require_parent_chain: grant, consumption, outbox, inbox and lease. *)
ParentChain(x) ==
    LET present == <<grants[x] # Nothing, consumed[x] # Nothing, x \in admitted,
                     HasLease(x)>>
    IN  \A i, j \in 1..4 : i < j /\ present[j] => present[i]

(* _validate_lineage, over the rows whose bindings the model tells apart. *)
LineageHolds(x) ==
    /\ ParentChain(x)
    /\ grants[x] # Nothing => grants[x].of = snap[x]
    /\ state[x].status # "NONE" => HasLease(x)
    /\ results[x] # Nothing =>
          /\ state[x].status = "COMPLETED"
          /\ state[x].epoch = results[x].epoch
          /\ state[x].digest = results[x].runner

LifecycleStage(x) ==
    CASE state[x].status = "COMPLETED" -> "EXECUTION_COMPLETED"
      [] state[x].status = "ACTIVE" -> "EXECUTION_ACTIVE"
      [] state[x].status = "NONE" /\ x \in admitted -> "DISPATCH_ADMITTED"
      [] x \notin admitted /\ consumed[x] # Nothing -> "DISPATCH_ENQUEUED"
      [] consumed[x] = Nothing /\ grants[x] # Nothing -> "GRANT_ISSUED"
      [] grants[x] = Nothing -> "SNAPSHOT_CREATED"

(* What the passport says of the verification. The mutant takes a completed
   execution for a verified one. *)
VerdictPromoted(x) ==
    IF results[x] # Nothing THEN results[x].verdict
    ELSE IF state[x].status = "COMPLETED" THEN "VERIFIED" ELSE "UNKNOWN"
PassportVerdict(x) == IF results[x] = Nothing THEN "UNKNOWN" ELSE results[x].verdict

(* _project: the passport; a broken lineage is a RuntimeError instead. *)
Passport(x) ==
    [error |-> ~LineageHolds(x), stage |-> LifecycleStage(x),
     verdict |-> PassportVerdict(x)]
-----------------------------------------------------------------------------
PreparePcs == {"authorized", "checked", "issued", "stored", "enqueued", "admitted"}
TerminalPcs == {"leased", "active", "fenced", "observed", "completed",
                "verifying", "verified"}
Pcs == {"idle", "resuming"} \cup PreparePcs \cup TerminalPcs

TypeOK ==
    /\ clock \in Nat
    /\ admitted \subseteq Admissions
    /\ leases \subseteq Lease
    /\ state \in [Admissions -> EpochState]
    /\ stop \in BOOLEAN
    /\ permitted \subseteq Actors
    /\ changes \in Nat /\ revEpoch \in Nat
    /\ ref \in Shas
    /\ snap \in [Admissions -> Maybe(Snapshot)]
    /\ grants \in [Admissions -> Maybe(Grant)]
    /\ consumed \in [Admissions -> Maybe(Nat)]
    /\ results \in [Admissions -> Maybe(Result)]
    /\ pc \in [Workers -> Pcs]
    /\ mem \in [Workers -> Memory]
    /\ told \subseteq [exec : Admissions, result : Result]

(* Authority only narrows on its way from the approval to the dispatch, across
   a clock that steps back, retries of prepare and restarts in between: a grant
   is issued after its snapshot and ends with the approval at the latest, it is
   consumed inside its window, and all of them carry one revocation epoch
   (authoritative_grant.py, grant_consumption.py). *)
AuthorityNarrows ==
    \A x \in Admissions :
        /\ grants[x] # Nothing =>
              /\ snap[x] # Nothing
              /\ snap[x].at <= grants[x].issued
              /\ grants[x].issued < grants[x].expires
              /\ grants[x].expires <= ApprovalUntil
              /\ grants[x].epoch = snap[x].epoch
        /\ consumed[x] # Nothing =>
              /\ grants[x] # Nothing
              /\ grants[x].issued <= consumed[x]
              /\ consumed[x] < grants[x].expires

(* However often an operation is retried or resumed, the execution holds one
   lease for ever: only the one worker whose grant was stored gets to acquire,
   and it does so once. An execution whose lease ran out is never revived. *)
OneLeasePerExecution ==
    \A l, m \in leases : l.adm = m.adm => l = m /\ l.epoch = 1

(* Everybody who was given a verification result was given the stored one, and
   it is about the observation the execution was completed with: a slow worker
   and the resumed one that overtook it never report different results. *)
ResultsAgree ==
    \A r \in told :
        /\ results[r.exec] = r.result
        /\ state[r.exec].status = "COMPLETED"
        /\ state[r.exec].digest = r.result.runner

(* A step of a resumed call creates no authority: no snapshot, grant,
   consumption, dispatch, admission or lease (ARCHITECTURE.md, invariant 19). *)
ResumeMintsNothing ==
    [][\A w \in Workers :
          mem[w].resumed /\ pc'[w] # pc[w] =>
              UNCHANGED <<snap, grants, consumed, admitted, leases>>]_vars

(* Dispatch needs authority that is alive at that instant, not only when it was
   granted: no stop, the actor still permitted, the epoch of the snapshot still
   in force, the approval not run out. *)
DispatchNeedsLiveAuthority ==
    [][\A x \in Admissions :
          consumed'[x] # consumed[x] =>
              /\ ~stop
              /\ snap[x].actor \in permitted
              /\ snap[x].epoch = revEpoch
              /\ clock < ApprovalUntil]_vars

(* An execution can be looked at in whatever state a failure, a retry or a
   restart left it: the passport of every snapshot projects without an error,
   and it says VERIFIED only when a stored result of an independent read says
   so. An execution that completed and then lost its worker, or whose verifier
   disagreed, is not promoted. *)
PassportProjects ==
    \A x \in Admissions : snap[x] # Nothing =>
        /\ ~Passport(x).error
        /\ Passport(x).verdict = "VERIFIED" =>
              /\ Passport(x).stage = "EXECUTION_COMPLETED"
              /\ results[x] # Nothing
              /\ results[x].verifier.sha = state[x].digest.sha

(* How far an execution has got, read off the rows. *)
Stage(x) ==
    CASE results[x] # Nothing -> 7
      [] results[x] = Nothing /\ state[x].status = "COMPLETED" -> 6
      [] state[x].status = "ACTIVE" -> 5
      [] state[x].status = "NONE" /\ x \in admitted -> 4
      [] x \notin admitted /\ consumed[x] # Nothing -> 3
      [] consumed[x] = Nothing /\ grants[x] # Nothing -> 2
      [] grants[x] = Nothing /\ snap[x] # Nothing -> 1
      [] OTHER -> 0

OneTime == INSTANCE OneTimeExecution WITH
    Executions <- Admissions,
    NoActor <- Nothing, NoOutcome <- NoDigest, NoVerdict <- Nothing,
    stage <- [x \in Admissions |-> Stage(x)],
    owner <- [x \in Admissions |-> IF snap[x] = Nothing THEN Nothing ELSE snap[x].actor],
    outcome <- [x \in Admissions |-> state[x].digest],
    verdict <- [x \in Admissions |-> results[x]]

(* The rows of an execution appear once each and in order, whoever writes them,
   and are final: the pipeline implements OneTimeExecution. *)
ImplementsOneTime == OneTime!Spec

(* OPERATIONS_RUNBOOK.md:85 says that raising the revocation epoch invalidates
   authority created under the previous one: nothing is read from the provider
   on behalf of such an execution. *)
RevokedEpochNeverReads ==
    [][\A w \in Workers :
          pc[w] = "fenced" /\ pc'[w] = "observed" =>
              snap[mem[w].exec].epoch = revEpoch]_vars
=============================================================================
