# Verification of Voodoo-One

TLA+ models of the parts of `voodoo_product` that decide whether something is
executed, how often, on whose authority, and what is recorded about it; TLC runs
that check them on small instances; and TLAPS proofs for every instance.

## 1. The system

Voodoo-One is a control plane for governed operations. A change request is
reviewed, then executed, and every decision and outcome is recorded. There are two
execution paths over one SQLite database (`db.py`; every transaction is
`BEGIN IMMEDIATE`, so a transaction is one atomic step, and a check that raises
rolls everything back).

| Part | State it keeps | Operations | Hard about it |
|---|---|---|---|
| Change requests (`change_request.py`, `approval_policy.py`) | `change_requests`, `approvals` | create, submit, approve, deny | several reviewers at once; quorum of two in production |
| Local execution (`execution.py`, `adapters.py`) | `executions` with fence and lease, `receipts` | execute (with or without idempotency key), recover | the adapter runs between two transactions; late or lost workers; recovery under their feet |
| Operational safety (`operational_safety.py`) | the emergency stop | set, clear | read in many transactions, changes between them |
| Ledgers (`audit.py`, `receipt.py`) | hash-chained `audit_events`, `receipts` | append, verify | exactly one entry per transition |
| Authorization (`authorization_snapshot_*.py`, `approval_evidence_resolver.py`) | `authorization_snapshots`, an authority witness in the audit | create_snapshot | idempotency key returns an *old* snapshot after *new* checks |
| Grants (`authoritative_grant.py`, `grant_consumption.py`) | `execution_grants_v2`, `grant_consumptions_v1` | issue, store, consume | live authority is checked in three separate transactions |
| Dispatch (`dispatch_outbox*.py`, `dispatch_inbox*.py`) | `dispatch_outbox_v1`, `dispatch_inbox_v1` | consume_and_enqueue, admit | redelivery |
| Leases (`execution_lease*.py`, `durable_current_fence.py`, migration 0013) | `execution_leases_v1`, `execution_epoch_state_v1` | acquire, reacquire, complete, assert_current | clock that steps back, check-then-act fence, repeated completions |
| READ terminal and verifier (`canonical_read_terminal.py`, `isolated_runner.py`, `github_read_provider.py`, `verifier_*.py`, `verification_result*.py`) | `verification_results_v1` | activate, observe, complete, verify, store | the ref moves; a slow and a resumed worker run side by side |
| Resume (`canonical_operation_resume.py`) | nothing of its own | resume | must not create authority a second time |
| Identity (`session_lifecycle.py`, `auth_rate_limit.py`, `bootstrap.py`, `workspace.py`, `user_account.py`, `external_identity_service.py`, `permission_authority.py`) | users, sessions, rate limits, memberships, bindings | login, logout, bootstrap, grant and revoke | limits at their boundary, permissions that change under a running operation |
| Documents of a READ (`monotonic_authority.py`, `precondition_witness.py`, `execution_capsule.py`, `execution_conformance.py`, `runner_identity.py`, `credential_broker.py`, `verifier_*.py`, `verification_result.py`, `operation_proof_v2.py`) | frozen documents that name each other by digest | derive, witness, issue, bind, prove | a caller hands in a document of another lease, operation or target |
| READ assembly (`g8_product_activation.py`, `g8_read_runtime.py`, `g8_credential_pins.py`, `g8_assembly_guards.py`) | credential sources, pins, anchors of the object graph | load settings, build, pin, revalidate, read, resume | a credential or a reference changes between its check and its use |
| Write and rollback (`write_*.py`, `controlled_write.py`, `rollback_*.py`, `a09_*.py`, `github_*_ref_*.py`) | receipts, proofs | lease, preflight, write, verify, roll back | an effect whose answer is lost |
| Checkpoints (`checkpoint_capture.py`, `checkpoint_producer.py`, `checkpoint_evidence.py`) | directories, a task image, a lock file | capture, verify, finalize | the repository and the candidate change meanwhile; cleanup after a failure at any step |
| Control plane (`control_plane_foundation.py`, `control_plane_registry_persistence.py`, `control_plane_runtime.py`) | rows of `runtime_flags`, the audit trail | register a project, record a connector or MCP server, reconcile shared state, record a READ | reads outside the transaction that writes; events submitted again |

The canonical path in one line: *approved request → authorization snapshot → grant
→ consumption and outbox → inbox admission → lease → runner observation → durable
completion → verifier observation → verification result*. Each arrow is one
transaction or one call of the provider, and a worker may die, be delayed or be
replaced by a resumed one at every arrow.

`PROJECT.json` lists every component, including the ones that are not modelled, and
under `hazards` every place that is hard to test, with the properties that cover it.

## 2. Modules

| Module | Models | Uses |
|---|---|---|
| `EpochStateTable` | abstract: what migration 0013 allows a transaction to do to the two lease tables | |
| `LeaseStore` | `DurableExecutionLeaseService` and the row half of the fence: one operator per transaction | `EpochStateTable` |
| `ExecutionLease` | concurrent callers over `LeaseStore` | `LeaseStore` |
| `ExecutionLease_proofs` | the inductive invariant and the theorems | `ExecutionLease` |
| `ChangeExecution` | review, local execution, recovery, emergency stop, evidence | |
| `ChangeExecution_proofs` | the inductive invariant and the theorems | `ChangeExecution` |
| `OneTimeExecution` | abstract: an execution goes through its durable stages once and in order | |
| `CanonicalPipeline` | prepare, resume, READ terminal, result store and passport, by concurrent workers | `LeaseStore`, `OneTimeExecution` |
| `CanonicalPipeline_proofs` | the inductive invariant, the theorems, the refinement | `CanonicalPipeline` |
| `AuthorityDocuments` | the documents from snapshot to dispatch, the capability registry, capsules, conformance, and the checks their makers apply (operators, no state) | |
| `RuntimeEvidence` | the same for the documents of one leased READ and of its verification | `AuthorityDocuments` |
| `EvidenceChain` | the calls that make these documents, up to the control plane's binding and the proof | `RuntimeEvidence` |
| `ReadAssembly` | the assembly of the default READ runtime and the provider reads through it | |
| `ControlledWrite` | the bounded write and the rollback of one GitHub ref: lease, credential, preflight, one-shot request, receipt, absence readback, proof | `LeaseStore` |
| `ControlledWrite_proofs` | the inductive invariant and the theorems | `ControlledWrite` |
| `AuthRateLimit` | the limits on failed logins and bootstraps, the two handlers that use them, the bootstrap | |
| `AuthRateLimit_proofs` | the inductive invariant and the theorems | `AuthRateLimit` |
| `Accounts` | the table of accounts that the next two share | |
| `SessionLifecycle` | bearer sessions: login, presentation, logout, revoke-all | `Accounts` |
| `WorkspaceGovernance` | memberships, the permission decision, external identity bindings | `Accounts` |
| `Identity_proofs` | the inductive invariants and the theorems of the two above | `SessionLifecycle`, `WorkspaceGovernance` |
| `CheckpointEvidence` | what makes a directory an acceptable checkpoint (operators, no state) | |
| `CheckpointPublication` | concurrent captures and finalizations of a checkpoint | `CheckpointEvidence` |
| `CheckpointPublication_proofs` | the inductive invariant and the theorems | `CheckpointPublication` |
| `ControlPlaneRegistry` | the registries, the event log and the recorder of READ lineages | |
| `ReadEvidence_proofs` | the inductive invariants and the theorems of the registry, the assembly and the evidence of a READ | `ControlPlaneRegistry`, `ReadAssembly`, `EvidenceChain` |
| `MC*` | constants and symmetry for TLC; `MCEvidence` instantiates `EvidenceChain` and `ReadAssembly` together | |

Correspondence with the code:

* A table is a function from keys to rows (`state`, `snap`, `grants`, `consumed`,
  `results`, `exec`, `req`) or a set of rows (`leases`, `approvals`). A row keeps the
  columns that a property or a guard tells apart.
* A digest identifies its document. SHA-256 is taken to be collision free, so a
  document and its digest are one value; the long field-by-field comparisons of
  documents that were read back from the table they were written to are one
  equality.
* Time is a natural number. `clock` is what the clock source would report now. It
  moves to any other instant at any moment, also backwards: the source is the UTC
  system clock, which can be adjusted.
* An action is a whole transaction with everything it writes, the audit entry and
  the receipt included (in `ControlPlaneRegistry` the one transaction that appends five
  times is an action for each of its statements). A call that raises leaves nothing behind; it is an action
  that is not enabled, and the caller's way out is `GiveUp`, `Fail` or `LoseWorker`.
* `obs`, `mem` and `worker` are what a caller has in memory. They are lost in a crash.
* `acks`, `told`, `replies`, `runs`, `applied`, `removed` and `back` are history
  variables: what callers were told, how often an adapter ran or the provider carried
  a request out, what a delete removed, and whether the clock was moved back (`told` and
  `founded` of `AuthRateLimit` likewise: failures answered and administrators made). No guard
  of the code's steps reads them.
* A definition whose comment says mutant is a wrong variant of the definition after
  it; no specification uses it. `PROJECT.json` names the property that catches it.

### LeaseStore and ExecutionLease

`state[a]` is the row of admission `a` with status NONE before it exists. `Acquire`
covers both LEASE_ACQUIRED and LEASE_REACQUIRED; `Complete` and
`DuplicateCompletion` are the two successful answers of `complete`. `assert_current`
reads the row, closes the connection and then reads the clock: `CheckRow` and
`Observe` are two steps, and anything may happen between them.

### ChangeExecution

`StartExecution`, `RunAdapter`, `CompleteExecution`/`CompletionFenced` are the three
parts of `execute_change_request`; `worker[e]` is the thread in between. The
transaction that completes compares and sets on RUNNING and fence 1, and when it does
not match it writes nothing and answers with the row as it is (`CompletionFenced`).
`RecoverExecution` needs the stop and an expired lease. `ReplayExecution` answers a
bound key, under an emergency stop too, as the code does.

### CanonicalPipeline

One execution per idempotency key, which `authorization_snapshots` makes one to one.
`CreateSnapshot` makes its live checks before it looks the key up.
`CheckPrecondition` and `IssueGrant` are the two halves of `issue` around the
provider's precondition read; `StoreGrant` and `ConsumeAndEnqueue` repeat the live
checks inside their transactions. `ResumeAuthorize` and `ResumeLoad` are `resume`,
which reads the permission before it reads the rows. `ObserveRef` takes the time of
the observation from a second reading of the clock, so it may lie outside the lease.
`Restart` raises the revocation epoch, which is fixed for the life of a process.

### ControlledWrite

An operation is a create or a delete of the ref `ref`; it has an admission and a lease
of its own, so the fence of `LeaseStore` is the code's. `Deliver*`, `CheckCredential`,
`ClearCreate` and `ClearDelete` are the steps up to the preflight, one per reading of
the clock. `WriteEffectPreflight.verify` reads the clock for the credential and the
fence reads it again; the rollback's preflight records its reading and compares it with
nothing, so there is no guard for it. `Send` puts a request on `wire`; the provider
handles it at any later moment (`Apply`, `Refuse`), whether or not somebody still waits,
and a gateway may replace its answer by an error. `Outsider` is every other writer of
the ref. `version` counts changes of the ref and names the state that a read saw.

Two things are compositions. The pre-delete observation is an argument of the rollback
preparer, so `ReadBeforeDelete` may be made at any moment before it. And no module of
the product calls the delete transport after a rollback preflight; the steps after it
follow in every order their arguments and checks allow.

The create path is the one of `f4b_live_write_pilot.py`. `A09CreateRefPreparer` builds
`GitHubCreateRefHandlerContract()` (`a09_write_orchestration.py:196`) without its
`request_revision` field, which has no default (`github_create_ref_provider.py:485`),
so the class as it stands cannot be instantiated; its tests use `object.__new__`.

### AuthRateLimit

`rows` is `auth_rate_limits`, keyed by scope and value. `Enforce`, `Reject` or `Accept*`,
then `RecordFailure` or `Clear` are the steps of the login and the bootstrap handler of
`api.py`; between any two of them other requests run and the process may die. `Enforce`
deletes stale rows even when it denies, because the exception is raised after the
transaction; `RecordFailure` first purges old rows of every key, as the statement has no
key. `told` counts the failures that clients were *answered* since a key last had no
row or started a new one: an attempt whose process died was not answered and tells the
client nothing.

### SessionLifecycle and WorkspaceGovernance

`tokens` holds the claims of every token that was made, `handed` those a client knows,
and `table` is `active_sessions`. `Authenticate`, `IssueToken`, `RegisterSession` are the
end of the login handler; `Present`, `RequireActiveSession`, `GetActiveUser` are
`authenticate_bearer`, after which the principal does one thing. A revocation that commits
between the check and the act does not stop that request: `EndedNeverActs` is about
requests that *arrive* after it (`late`). What `ended` contains is what the caller meant to
end (every token handed out to the user), not what the statement deleted.

In `WorkspaceGovernance` every operation is one transaction. `members` is
`workspace_memberships`; a workspace exists from the transaction that writes its first
owner (`Created`). `trail` keeps the last audit event about each membership. `bindings`
is a set of rows and `Free` its two unique constraints, which also cover disabled rows.
The accounts' roles are constants, since no operation changes them. `DeactivateAccount` is the
operator's change of `users.active`, for which the product has no operation although it
checks the column everywhere.

### AuthorityDocuments, RuntimeEvidence and EvidenceChain

A run makes one document of a kind, so the digest of a document is its kind and its run
(`<<"lease", Run(2)>>`), and a document names its parents by theirs. Run 0 of an
execution prepares it; run *n* works under lease epoch *n*. `issued` holds the documents
of the operation at hand and `Others` those of another operation, which is complete. A
call gets the document it continues from its own run and every other argument from all
documents there are; what its checks let through is what the code's comparisons let
through. `hand` is a call between a provider read and the clock witness after it.
`Current` is the fence, `BindRead` is `_bind_read_result`, `Prove` is
`OperationProofV2.create`.

The clock only advances here; its stepping back is in `LeaseStore` and
`CanonicalPipeline`. Four things about the code that the model shows and no document
contradicts: `observe_ref` does not compare its target with the lease's, which only
`_bind_read_result` makes up for; both the binder and the observer of the product's
READ precondition answer from the target's own claims, so this precondition never looks
at the provider (`source` in `MCEvidence` has both kinds); `OperationProofV2` does not
compare the epoch of its receipt, and no path of the product creates one yet;
`ControlPlaneDecision.from_dict` does not check its proof again.

### ReadAssembly

`sources` are the credential source objects, `pack` the configured parts with the anchors
taken of them, `graph` the references a terminal run goes through, `call` a provider read
in progress. A check of a credential asks the provider again (`Observed`), so `Revalidate`,
`CheckRunnerPin`, `CheckVerifierPin` and `ReadRef` are steps of their own; `ProviderChanges`
and `Rebind` happen between any two. Replacing classes or functions of the process is left
out, although the guards look for some of that too.

### CheckpointPublication

`disk` maps the candidate's path, the checkpoint's path and one staging path per process
to trees; a tree is what each named file is about (a commit and a maker), the files its
manifest covers, and whether it is sealed. `seen` is the commit a capture observed at the
start, or the snapshot a finalizer took. Any check or I/O operation may fail, after which the
cleanup runs, and may fail too and says so; `Kill` ends a process without one. `Around` is
everybody else. A rename onto an empty directory succeeds, as `os.rename` does.

A capture is made of whatever commit the repository is at, and the version that the product
reports depends on it: `Schema` gives it for each commit. The smoke script of the worktree
asserts the version of its own commit (`smoke_product_image.sh:127`, 15 today), while
`_capture_runtime` requires the literal 8 (`checkpoint_capture.py:726`, `ContractSchema`). So
a capture of the present commit always ends at the health check, and one of a commit of the
time of eight migrations can get to the end. The run has one of each (`MCSchema`), so that
the branch may move from one to the other and back under a capture.

Two observations. That no capture of the present commit succeeds is the first. The other:
`_cleanup_finalization` unlinks the lock by its path (`checkpoint_producer.py:258`), so it
can remove one that another finalizer holds after the file was replaced; the properties
hold without relying on the lock. A finalizer notices an edit of the candidate by comparing
two snapshots with the verification between them. An edit that is made after the first and
undone before the second is not noticed, so `FinalizedWasAccepted` says that the *first
snapshot* verified as long as fewer than two such changes have happened; whatever happened,
what is published verifies itself and has the payload of that snapshot.

### ControlPlaneRegistry

What a client reads before its transaction (`CheckConnector`, `ResolveProject`, `RunRead`)
stays in `mem`, so a connector may be revoked by the time a server is recorded as available
on it: the code does not exclude that. Nor does it remember event identities: an event that
is submitted again is applied again if the state has come back to where it starts.

A transaction with one audit entry is one step. `_record_result` appends five, so its
transaction is kept in `txn` while it is open: `BeginRecord`, an `AppendEvent` for each event,
`CommitRecord`. Until it commits, nothing of it is in `trail`; while it is open nobody else
writes (`Alone`, which is BEGIN IMMEDIATE), but clients go on reading and preparing; and
`ClientStops` at any point rolls it back, whether an append raises or the process dies. The
five events get their identities in `_bind_read_result`, before the transaction:
`lineage` stands for the five that are drawn together, and `EventId` is one of them. Each
event names the one before it as its cause, and the first the event the caller named, if he
named one (`Causes`). A recorder is constructed for one project (`Recorder`).

## 3. What the runs check

| Run | Instance | Shows |
|---|---|---|
| `execution_lease` | 3 callers, 1 admission, 2 digests, 6 instants, leases of 2 | leases never overlap; only the newest completes, inside its window; every success that was reported is about the stored digest; the service implements `EpochStateTable` |
| `change_execution` | 3 users, 2 requests (one production), 2 executions, 1 key, 2 instants, 1 stop change, no symmetry | quorum before execution; one receipt per outcome; the audit trail tells the status; an adapter runs once per request; a key names one execution; a request agrees with its only execution; a started execution whose worker lives ends |
| `canonical` | 2 workers, 2 actors, 1 execution, 2 commits, 3 instants, 1 change of stop or permission, 1 restart | authority narrows from approval to dispatch; dispatch needs live authority; resume creates none; everyone who gets a result gets the stored one; the passport projects the stored rows; the pipeline implements `OneTimeExecution` |
| `canonical_revocation` | 1 actor, 1 commit, an approval of 2, otherwise as `canonical` | violation: see below |
| `controlled_write` | a create and a delete of one ref, 2 commits, 2 instants | no operation takes effect twice; what is recorded as completed was carried out for this request and no other; a rollback deletes the commit it expects unless the ref moved after the readback; a proof rests on a readback after the effect; a request that was sent is settled |
| `auth_rate_limit` | 2 requests at a time, logins of 1 account and bootstraps from 1 source, limits 2 and 3, window 2, lockout 4, 5 instants | a key answers its limit of failures and at most the requests under way beyond it; only a success that was admitted earlier lifts a lockout; failures counted together lie in one window; one administrator is provisioned, however many bootstraps run |
| `sessions` | 2 requests at a time, 2 sessions, an administrator and a user, 3 instants | a session that was logged out or revoked, or whose user was deactivated, never acts for a request that arrives later; no session ends without a reason |
| `workspace_governance` | 3 accounts (2 administrators), 2 workspaces, 1 issuer with 2 subjects, 2 bindings | every workspace keeps an owner; grants are explained by the audit trail; an external identity never stands for two users |
| `checkpoint` | 1 capture, 2 finalizers, 2 commits (one whose product reports schema version 8, one 15), 4 candidates prepared by hand, 2 changes of the repository, 1 other fault | what a capture reports is about one commit; what is finalized was accepted; what is published is never replaced; a failed call that leaves something behind says so |
| `control_plane` | 2 clients, 1 connector, 1 server, 2 states, 2 lineages, an event that may be named as cause, at most 4 transactions in the trail | every row is what the trail last recorded, generations have no gap, the shared state ends an unbroken chain, names resolve; a lineage is committed whole, in causal order and once, or not at all |
| `evidence` | the documents of one READ, for each of two registries, under 2 leases beside a complete other operation, 4 instants, a precondition that may be a second old at the grant, a verifier window that begins now or later; an assembly with 2 tokens, 2 principals, 2 sources, 2 repositories, 2 changes, 2 reads | no result, bound result or proof mixes evidence of two leases, operations, targets or read-backs, and all of it goes back to a grant inside its snapshot; both provider reads use the assembled, freshly attested and different principals |
| `controlled_rejected` | 2 creates, 2 commits, 3 instants | violation: see below |

Why the bounds are enough to be interesting. Admissions, executions and keys do not
share rows, so one admission with several callers contains every race about it, while
two requests and two executions are needed where an identifier could be reused. Three
callers let a stale one, a current one and a repeating one meet. Six instants hold
three lease epochs; the three of `canonical` hold a lease that runs out, one that
is reacquired, a step back, and an approval that ends before the grant's own lifetime
would (a precondition that is too old when the grant is issued is in `evidence`). One
operator change and one restart may fall between any two steps. Symmetry is over callers,
digests, commits, actors and finalizers, which no definition tells apart; the runs with a
liveness property use none. A create and the delete of the same ref meet outsiders who
move it away and back (`MaxVersion` 2). Two finalizers race for a destination while the
capture they wait for is still running; two moves of the repository are one away and one
back. The view of `checkpoint` drops the repository when no capture is left to read it.
Four transactions hold two lineages, one of each client, with two writes of others before,
between or after them, and one more client that is about to write while another appends;
a READ lineage counts as one transaction whatever it appends. Two
leases (`MaxTurns` bounds leases and moves of the ref together) are what evidence of two
runs of one execution needs, and the other operation's documents are there for every kind.
`EvidenceChain` and `ReadAssembly` share no variable: `focus` in `MCEvidence` lets a
behaviour be of one of them, so that their state spaces add up. One login counts against an account
and against a source, whose limits differ; the five instants hold a failure at the last
second of a window and at its end, one inside a lockout, one at its end and one after the
retention period. Any number of accounts and sources, and the limits of the runbook (5 and
20, here 2 and 3), are covered by the proofs. Two administrators can govern each other's
bindings, and two bindings are a disabled one and the one that follows it.

Fairness. `controlled_write` assumes weak fairness of waiting for an answer: the
transports pass a timeout of at most 60 seconds to the connection, so `Receive` or
`TimeOut` happens whatever the provider does; nothing is assumed of the provider.
`change_execution` assumes weak fairness of the steps of each worker
thread. The thread is not waiting for anybody: the adapter has a timeout
(`execution_timeout_seconds`) and the completion transaction has no guard it could
wait at. No fairness is assumed of reviewers, operators, recoveries, the clock or a
worker that was lost.

Deadlock is checked where there is a clock, and says little there: the clock can always
move. It is not checked for `workspace_governance`, where nothing can happen once every
account is deactivated, for `checkpoint`, where every process ends, and for
`control_plane` and `evidence`, which end when the bounds are used up.

### Disagreements with the documentation

`docs/product/OPERATIONS_RUNBOOK.md:85` says that increasing the revocation epoch
"requires a process restart and invalidates authority created under the previous
epoch". The epoch is compared when a grant is issued, stored and consumed. `resume`
does not compare it, so an execution that was dispatched before the restart and is
still ACTIVE can be resumed, read and completed under the new epoch.
`canonical_revocation` has the shortest such behaviour.

ADR-0027 (lines 163-165) calls every state in which GitHub may have received the
request INDETERMINATE. The create transport classifies every status but 201 as a
rejection, a 502 or 504 of a gateway included, after which the ref may well exist.
`controlled_rejected` shows it.

### What the code does not exclude

Behaviours that the models have and no line of the repository rules out, so that no
property forbids them: the lock file, the capture of the present commit that never ends
captured, the server on a
revoked connector and the event that is applied again, all described in section 2; an edit
of a candidate that is undone between two snapshots, which neither sees
(`checkpoint_producer.py:74`); a READ that is completed and stored by a process that dies
before its lineage is recorded (`control_plane_runtime.py:131`; a later call refuses the
completed execution); a workspace whose only owner is a deactivated account, because the
owners that are counted include those (`workspace.py:188`). `DurableGrantService.consume`
(`grant_consumption.py:551`) leaves a consumption without an outbox row, after which the
outbox service refuses to start; only tests call it and it is not modelled.

## 4. What is proved

`ExecutionLease_proofs`, for any sets of callers, admissions, digests and instants and
any lease length of 1 to 3600:

* `TypeCorrect`, `LeasesNeverOverlap`, `OnlyNewestCompletes`, `CompletionsAgree`: the
  invariants of `execution_lease`;
* `Refinement`: the service implements `EpochStateTable`, so no transaction that has
  passed the checks in Python is aborted by a trigger.

Assumptions: `LeaseSecondsAssumption`, `TimesAssumption` (instants are natural
numbers), `NoDigestAssumption` and `NoLeaseAssumption` (NULL is not a value).

The argument. That windows are disjoint is not inductive: a new lease begins after
the *current* one, and nothing in it says that the current one is the newest or that
older ones ended before it began. `IInv` adds that the state row is the newest stored
lease of its admission (`RowIsNewest`), that a lease is determined by admission and
epoch (`UniqueEpochs`), that no window is empty (`WindowsNotEmpty`), that what a
caller holds was handed out (`HeldAreStored`) and what a completed row records
(`CompletionRecorded`). `AcquireWrites` states what acquire does with them: the
candidate has a larger epoch than every lease of its admission and begins when all of
them have ended. The refinement uses the invariant in the insert case, where the
trigger wants the very first epoch, and in the reacquire case, where it wants the row
to name the stored lease.

`ControlledWrite_proofs`, for any sets of creates, deletes, commits and instants:
`TypeCorrect`, `NoSecondEffect` (`AtMostOneEffect`), `CompletedWasApplied`
(`RecordedIsOurs`), `RollbackDeletesWhatItSaw` and `ProofRestsOnReadback`
(`ProofFollowsEffect`). `IInv` adds to them `Outcome`, which ties the number of requests
on the wire and of effects to the phase of the operation (a phase before `sent` has
neither, `answered` and later has exactly one effect, and effects and requests under way
together are never more than one); `Sighted`, that what a rollback saw is what the ref
is as long as its version is the same, and that a request is only sent when this was the
expected commit; and `Dated`, that time stamps are ordered like the steps that
took them unless the clock was moved back. Without `Outcome` a late request could meet
an operation that has already counted its effect; without `Dated` the comparison of two
time stamps says nothing about the order of the two calls.

`AuthRateLimit_proofs`, for any number of concurrent requests, accounts, sources and
instants, any limits of at least two and any window and lockout: `TypeCorrect`,
`FailuresAreBounded`, `LockoutsAreKept` (an action property), `OneWindowPerRow`,
`OneBootstrap`. The bound is not inductive: a lockout that has just begun meets requests
that were admitted before it. `Accounted` says what the table knows of them: an open row
counts exactly the failures that were answered, and under a lockout the answered
failures *and the requests still in flight* stay within the bound, which no request can
join because `Enforce` denies it. The step of `RecordFailure` compares the sizes of the
sets of requests in flight before and after (`Sizes`). `LockoutsAreKept` needs
`EndsInTime`, that a lockout ends within one lockout period of the last change of its
row, so that the purge with its retention of twice that period never meets it. With one
request at a time the bound is the limit itself, as the runbook states it.

`Identity_proofs` holds two developments. Memberships and bindings, for any sets of
accounts, workspaces and identities: `GovTypeCorrect`, `WorkspacesStayOwned`,
`GrantsFollowAudit`, `IdentitiesAreStable`. The
inductive invariant adds that members are exactly those whose last event is an admission
(`TrailTellsMembers`, which also shows that removing somebody never undoes the existence
of a workspace), that the table is unique (`UniqueBindings`) and that whom an identity has
stood for is still in it (`ResolvedIsBound`), which is where the ban on deleting and
rebinding enters.

Sessions, for any accounts, sessions, concurrent requests, token lifetime and clock:
`SessionTypeCorrect`, `EndedSessionsNeverAct` (`EndedNeverActs`) and the action property
`SessionsAreKept` (`SessionsLast`). That a principal is never late says nothing of the
requests on their way to becoming one. `BearersAreBound` does: a late request carries a
session that was ended or a user who is inactive, and once the allowlist has been passed
only the second is left, which `GetActiveUser` refuses. It needs that what was ended is off
the allowlist for good (`EndedAreGone`). A login in another thread could put it back if it
held the same token, which `MintedIsOwn` excludes: a token that is not registered yet was
handed to nobody and is in one hand. Assumptions: there are users and sessions at all
(`SomeAssumption`), instants are natural numbers, a lifetime is positive.

`ChangeExecution_proofs`, for any users, requests (production or not), executions, keys,
lease length and number of stops: `TypeCorrect`, `QuorumIsKept`, `ReceiptsAreExact`,
`RequestsTrackExecutions` (`RequestTracksExecution`), `TrailIsTrue`, `EffectsAreSingle`,
`KeysNameOne`; and `EndIsFinal` (an execution that ended never changes), which no run
checks. `IInv` has two halves. `Governed` is
the review: nobody decides twice or about his own request, a denial ends it, and whatever
is past the review has its quorum (`QuorumBeforeApproved`), because no approval is ever
taken back. `Executions` is the rest: one row per request, whose status is the request's
(`OneExecution`, `StatusesAgree`, `ExecutedHasRow`), so that `StartExecution`, which looks at
the request, cannot start a second one; a RUNNING row has the fence it was created with
(`RowsAreWhole`), so that a worker that was overtaken by `RecoverExecution` compares with a
row that does not match and writes no second receipt; and a worker that has run its adapter
is past its start (`WorkersRunOnce`). Requests and executions have different identifiers
(`ConstantsAssumption`): both name trails.

`CanonicalPipeline_proofs`, for any workers, executions, actors, commits, durations, clock
and number of stops, revocations and restarts: `TypeCorrect`, `AuthorityIsNarrow`,
`ResultsAreOne`, `PassportIsSound`, the action properties `DispatchIsLive` and
`ResumeIsPassive`, and `Refinement`: the pipeline implements `OneTimeExecution`. `Chain`
says of the rows that none is there without its predecessor and how it agrees with it;
`WorkersKnow` says what each worker has in memory at each program counter and which rows it
can rely on. Neither is enough: between its stored grant and its lease a worker relies on a
row *not* being there yet, which another worker could write. `OneHolder` says that at most
one worker is on this way for an execution, since only the one whose grant was stored gets
onto it and a resumed one joins after the lease. From it follows `OneLeasePerExecution`
(`LeaseIsSingle`, proved and checked by no run): although `LeaseStore` can hand out further
epochs, the pipeline never asks for one. The refinement reads the abstract stage off the
rows, and each action is shown to advance one execution by one stage or to leave all of
them alone. `AbsentAssumption` says that a missing row is not a row.

`CheckpointPublication_proofs`, for any number of captures, finalizers, commits, prepared
candidates, changes of the repository and other faults: `TypeCorrect`, `CleanUpIsTold`
(`NothingLeftSilently`), and the action properties `CaptureIsCoherent`,
`FinalizedIsAccepted` and `PublishedStays`. The code checks a directory, then acts on it,
and everybody may come in between, so the invariant is about what survives the others'
steps. `SharedKept` is the step-wise half: no process takes away or rewrites what is at
the candidate's or the checkpoint's path; `Touched` is what an outsider may still do to a
tree. `CaptureKnows` is the state-wise half for a capture: its staging directory
has the completion marker about the commit it observed from the moment it is written, the
published candidate keeps it, and after the last seal it has no metadata and verifies.
`FinalizerKnows` says that the manifest written over the copy is that of the snapshot,
through the rename and the seal; that a checkpoint with a manifest is not the empty
directory a rename would replace (`FinalIsNotEmpty`); and, in `FinalizerSaw`, how many
changes an unnoticed edit takes. That the published bytes are the snapshot's follows at the
end: they verify, so they are what the manifest says (`ValidIsManifested`), which is what
the renewed manifest of the snapshot says (`ManifestsRenewed`). Assumptions: the processes
and the two paths have different names, prepared candidates are trees, a missing tree
or manifest is none, and every commit reports some version (`SchemaAssumption`).

`ReadEvidence_proofs` holds three developments about how a READ is set up, documented and
recorded.

The registry, for any clients, projects, connectors, servers, events, lineages and executions
and any length of the trail: `RowsAlwaysFollowTrail` (`RowsFollowTrail`) and `LineageAlwaysWhole`
(`LineageIsWhole`). Both relate tables to the whole ledger. They are stated over the sets
of positions at which the ledger speaks of a row (`About`, `Transitions`), so that one
appended entry adds one position and the proof needs no induction over the ledger.
`RegistryInv` adds that the generation of a connector or a server is the number of its
entries (`ConnectorFollows`, `ServerFollows`), without which the next generation could not
be compared with the entries that are there; that a project has a pointer exactly when it
has a transition (`PointerFollows`), so that genesis is not taken for a state; and that an
event on its way to the ledger is of a registered project (`PendingIsRegistered`).

That a lineage is whole does not follow from the step that commits it. `OpenIsBeginning`
says what the open transaction has written after each append: the first events of the READ
its client is recording, in their order, and every step of another client leaves that as it is. `LineagesAreOnce` says that the identities a client holds are
nobody else's and not in the trail yet, without which the same five events could be committed
twice and a cause would not name one event. The commit then appends five events of which
each is the cause of the next, next to each other, and a roll-back appends none.
Assumptions: `ControlPlaneAssumption` (a recorder has a project, genesis is no later state),
`EventAssumption`, and `AbsentAssumption`, that a missing row is not a row.

The assembly, for any tokens, credentials, repositories and number of changes at the
provider: `ReadsStayIndependent` (`ReadsAreIndependent`). A read is made long after the
pack was compared with its anchors, and in between the provider may change what it answers
about a token, and somebody an object of the retained graph. `CallBound` says what a call has seen by each of its steps: the pins
before the revalidation, the repository before the verifier's read. It is about the sources
the graph was built from, which `PackAnchored` and `GraphAssembled` tie to what the build
compared, and which nothing replaces later. `AppsHoldAppTokens` says that the source of an
installation holds a token of the installation's shape. `TokenAssumption` and `MissingAssumption`
say that credentials carry tokens and that a missing object is none.

The evidence chain, for any registries, terminals, snapshot, durations and number of
turns: `EvidenceAlwaysOfOne` (`EvidenceIsOfOne`). Whoever issues a document compares it
with the few before it, and the property is about all of them. `DocumentsInv` says of every document that is issued that it
belongs to a run of this operation, that it agrees with those its maker compared
(`Traced...`, one definition per kind of document), and that a run makes one of a kind; so
a digest leads back along the chain to one document at each place. Between a check and the
document that rests on it, time passes and the refs move: `HandAuthorized`, `HandRuns` and
`HandVerifies` say what a read or an issuance in progress has checked and still holds.
`LeasesCounted` makes a new lease a new run. The grant carries its witness, so that the
property bounds the age the precondition had when the grant was issued (`WitnessSeconds`). Documents of another operation are offered to
every call. That they do not get in is the theorem; that they are of another operation is
`OtherDocumentsAssumption`: their digests are of their contents and belong to other runs,
and they name documents of their own. `CapsuleDigestAssumption` says the same of the
capsules of a registry, and `ChainAssumption` types durations and instants.

Only model-checked: liveness (`SentIsSettled`, `LiveWorkerSettles`), which is out of the
prover's reach. Every other property of the passing runs is stated by a theorem.

## 5. What is not modelled, and the plan

Not planned: HTTP routing, wiring, configuration, projections and command line tools;
the transports to GitHub and the live pilots (scripts that run one operation and stop);
documents whose only behaviour is that their fields are validated; analysis and intake.

Left to model, in this order:

1. `EvidenceLedger`: the hash chain of audit and receipts, `verify` against tampering
   with a suffix, sequence gaps.
2. The documents of version 1 (`execution_contract.py`, `operation_proof.py`,
   `operation_semantics.py`) and the operation cell; a refinement of an abstract "applied,
   or rolled back, or known to be undecided" by `ControlledWrite`.
3. `PolicyGraph`: the policy decision graph as a pure algorithm against a reference
   definition; terminal profiles and target binders.
4. Sandbox writes of `adapters.py` and the migration runner of `db.py`.

Left to prove: no safety property that a run checks. What the next modules of this list
state would come with its own proofs.
