--------------------------- MODULE ControlledWrite ---------------------------
(***************************************************************************)
(* Bounded mutations of one GitHub ref: CREATE_REF, as the live write      *)
(* pilot runs it (f4b_live_write_pilot.py, write_runtime.py), and          *)
(* DELETE_REF, the rollback prepared by a09_rollback_orchestration.py and  *)
(* proved by rollback_verification.py and operation_proof_v2_absence.py.   *)
(*                                                                         *)
(* An operation has an admission and a lease of its own in LeaseStore. Its *)
(* request is sent once and may be handled late, when its sender has       *)
(* already given up; the answer may be lost, or be a gateway error about a *)
(* request that was handled. Other people move the same ref. No module of  *)
(* the product calls the delete transport yet: what happens after a        *)
(* preflight is composed here in the order its arguments allow.            *)
(***************************************************************************)
EXTENDS LeaseStore

CONSTANTS Creates, Deletes,  \* the operations, by kind
          Commits,           \* commits the ref may point to
          CommitOf,          \* commit_sha of a create, expected_sha of a delete
          MaxTtl,            \* max_ttl_seconds of the credential policy
          MaxVersion,        \* bound: others move the ref below this version
          Absent,            \* the ref does not exist
          NoLease, NoRead

Seen == [sha : Commits, version : Nat]
AbsenceRead == [at : Nat, afterEffect : BOOLEAN]

ASSUME OpsAssumption == Admissions = Creates \cup Deletes /\ Creates \cap Deletes = {}
ASSUME CommitOfAssumption == CommitOf \in [Admissions -> Commits]
ASSUME MaxTtlAssumption == MaxTtl \in 1..300
ASSUME MaxVersionAssumption == MaxVersion \in Nat
ASSUME NoCommitAssumption == Absent \notin Commits /\ NoDigest \notin Commits
ASSUME NoLeaseReadAssumption ==
    NoLease \notin Lease /\ NoRead \notin Seen \cup AbsenceRead

VARIABLES ref,        \* the ref at the provider
          version,    \* history: how often the ref has changed
          wire,       \* requests of each operation that are under way
          answer,     \* the HTTP answer that is on its way back
          phase,      \* where each operation is
          held,       \* its lease
          delivered,  \* delivered_at of its credential
          seen,       \* a delete's pre-delete observation
          runnerObs, verifierObs,  \* a delete's absence observations
          recorded,   \* recorded_at of its receipt
          applied,    \* history: how often the provider carried it out
          removed,    \* history: what a delete removed, and when
          back        \* history: the clock was once moved back

provider == <<ref, version, wire, answer, applied, removed>>
evidence == <<seen, runnerObs, verifierObs, recorded>>
vars == <<clock, admitted, leases, state, provider, phase, held, delivered,
          evidence, back>>

Ops == Creates \cup Deletes
Phases == {"idle", "leased", "delivered", "checked", "cleared", "sent",
           "answered", "recorded", "receipted", "proved",
           "rejected", "ambiguous", "dead"}
Settled == {"answered", "recorded", "receipted", "proved",
            "rejected", "ambiguous", "dead"}
Answers == {"none", "success", "refused", "error"}

TypeOK ==
    /\ clock \in Nat
    /\ leases \subseteq Lease
    /\ state \in [Admissions -> [status : {"NONE", "ACTIVE", "COMPLETED"},
                                 epoch : Nat, acquired : Nat, expires : Nat,
                                 digest : Commits \cup {NoDigest},
                                 completed : Nat]]
    /\ ref \in Commits \cup {Absent}
    /\ version \in Nat
    /\ wire \in [Ops -> 0..1]
    /\ answer \in [Ops -> Answers]
    /\ phase \in [Ops -> Phases]
    /\ held \in [Ops -> Lease \cup {NoLease}]
    /\ delivered \in [Ops -> Nat]
    /\ seen \in [Deletes -> Seen \cup {NoRead}]
    /\ runnerObs \in [Deletes -> AbsenceRead \cup {NoRead}]
    /\ verifierObs \in [Deletes -> AbsenceRead \cup {NoRead}]
    /\ recorded \in [Ops -> Nat]
    /\ applied \in [Ops -> Nat]
    /\ removed \in [Deletes -> Seen \cup {NoRead}]
    /\ back \in BOOLEAN

Init ==
    /\ clock \in Times
    /\ admitted = Admissions
    /\ Table!Init
    /\ ref \in Commits \cup {Absent}
    /\ version = 0
    /\ wire = [p \in Ops |-> 0]
    /\ answer = [p \in Ops |-> "none"]
    /\ phase = [p \in Ops |-> "idle"]
    /\ held = [p \in Ops |-> NoLease]
    /\ delivered = [p \in Ops |-> 0]
    /\ seen = [p \in Deletes |-> NoRead]
    /\ runnerObs = [p \in Deletes |-> NoRead]
    /\ verifierObs = [p \in Deletes |-> NoRead]
    /\ recorded = [p \in Ops |-> 0]
    /\ applied = [p \in Ops |-> 0]
    /\ removed = [p \in Deletes |-> NoRead]
    /\ back = FALSE

Goto(p, from, to) == phase[p] = from /\ phase' = [phase EXCEPT ![p] = to]
-----------------------------------------------------------------------------
(* The lifetime of the credential decision: from the acquisition of the lease
   to the end of the lease or of the policy's lifetime, whichever is first. *)
DecisionExpires(l) ==
    IF l.acquired + MaxTtl < l.expires THEN l.acquired + MaxTtl ELSE l.expires
InDecision(l, t) == l.acquired <= t /\ t < DecisionExpires(l)

AcquireLease(p) ==
    /\ Goto(p, "idle", "leased")
    /\ Acquire(p)
    /\ held' = [held EXCEPT ![p] = CandidateLease(p, NextEpoch(p), clock)]
    /\ UNCHANGED <<provider, delivered, evidence, back>>

(* The observation that a rollback's caller has to supply: it is made at some
   moment before the rollback is prepared. *)
ReadBeforeDelete(p) ==
    /\ phase[p] \in {"idle", "leased"}
    /\ seen[p] = NoRead
    /\ ref # Absent
    /\ seen' = [seen EXCEPT ![p] = [sha |-> ref, version |-> version]]
    /\ UNCHANGED <<storeVars, provider, phase, held, delivered,
                   runnerObs, verifierObs, recorded, back>>

(* Boundary, policy, decision, credential delivery and activation: the clock
   is read once, for the delivery. *)
Deliver(p) ==
    /\ Goto(p, "leased", "delivered")
    /\ InDecision(held[p], clock)
    /\ delivered' = [delivered EXCEPT ![p] = clock]
    /\ UNCHANGED <<storeVars, provider, held, evidence, back>>

DeliverWrite(p) == p \in Creates /\ Deliver(p)
DeliverRollback(p) == p \in Deletes /\ seen[p] # NoRead /\ Deliver(p)

(* The bindings of grant, consumption, dispatch, lease, decision, delivery,
   activation and request to each other: they are of one operation. *)
BoundTogether(p) == held[p] \in leases /\ held[p].adm = p

(* WriteEffectPreflight.verify of a create: first its own reading of the clock,
   then the fence, which reads the row and the clock again. *)
CheckCredential(p) ==
    /\ p \in Creates
    /\ Goto(p, "delivered", "checked")
    /\ BoundTogether(p)
    /\ InDecision(held[p], clock)
    /\ delivered[p] <= clock
    /\ UNCHANGED <<storeVars, provider, held, delivered, evidence, back>>

ClearCreate(p) ==
    /\ Goto(p, "checked", "cleared")
    /\ IsCurrent(held[p])
    /\ InWindow(held[p], clock)
    /\ UNCHANGED <<storeVars, provider, held, delivered, evidence, back>>

(* The end of A09RollbackPreparer.prepare: the fence, and the preflight, which
   compares the observed commit with the expected one. Its own reading of the
   clock is recorded and compared with nothing. The mutant does not compare. *)
SawSomething(p) == seen[p] # NoRead  \* mutant
SawExpected(p) == seen[p].sha = CommitOf[p]

ClearDelete(p) ==
    /\ p \in Deletes
    /\ Goto(p, "delivered", "cleared")
    /\ IsCurrent(held[p])
    /\ InWindow(held[p], clock)
    /\ SawExpected(p)
    /\ UNCHANGED <<storeVars, provider, held, delivered, evidence, back>>
-----------------------------------------------------------------------------
(* The transports: a transport that was used raises. The mutant sends again
   when the first outcome is ambiguous. *)
UnusedOrAmbiguous(p) == phase[p] \in {"cleared", "ambiguous"}  \* mutant
Unused(p) == phase[p] = "cleared"

Send(p) ==
    /\ Unused(p)
    /\ phase' = [phase EXCEPT ![p] = "sent"]
    /\ wire' = [wire EXCEPT ![p] = @ + 1]
    /\ UNCHANGED <<storeVars, ref, version, answer, applied, removed, held,
                   delivered, evidence, back>>

(* 201 of create and 204 of delete. Every other status is a rejection; the
   mutant takes any answer for a success. *)
AnyAnswer(s) == s # "none"  \* mutant
IsSuccess(s) == s = "success"

Receive(p) ==
    /\ phase[p] = "sent"
    /\ answer[p] # "none"
    /\ phase' = [phase EXCEPT ![p] =
                    IF IsSuccess(answer[p]) THEN "answered" ELSE "rejected"]
    /\ answer' = [answer EXCEPT ![p] = "none"]
    /\ UNCHANGED <<storeVars, ref, version, wire, applied, removed, held,
                   delivered, evidence, back>>

(* A timeout, a broken connection or a body that cannot be read. The answer is
   gone with the connection; the request may still be handled. The mutant
   waits for ever. *)
NeverTimesOut(p) == FALSE /\ UNCHANGED vars  \* mutant
TimeOut(p) ==
    /\ Goto(p, "sent", "ambiguous")
    /\ answer' = [answer EXCEPT ![p] = "none"]
    /\ UNCHANGED <<storeVars, ref, version, wire, applied, removed, held,
                   delivered, evidence, back>>

(* coordinator.complete with the digest of the response. *)
Record(p) ==
    /\ Goto(p, "answered", "recorded")
    /\ Complete(held[p], CommitOf[p])
    /\ UNCHANGED <<provider, held, delivered, evidence, back>>

(* compose_write_execution_receipt_v2. *)
ComposeReceipt(p) ==
    /\ Goto(p, "recorded", "receipted")
    /\ recorded' = [recorded EXCEPT ![p] = clock]
    /\ UNCHANGED <<storeVars, provider, held, delivered, seen, runnerObs,
                   verifierObs, back>>
-----------------------------------------------------------------------------
(* The two absence observations of a rollback. They need its boundary, which
   exists as soon as the credential was delivered; only time stamps order them
   after the effect. *)
HasBoundary(p) == phase[p] \notin {"idle", "leased", "dead", "proved"}

ReadAbsence(p) == [at |-> clock, afterEffect |-> applied[p] > 0]

RunnerSeesAbsence(p) ==
    /\ HasBoundary(p)
    /\ runnerObs[p] = NoRead
    /\ ref = Absent
    /\ runnerObs' = [runnerObs EXCEPT ![p] = ReadAbsence(p)]
    /\ UNCHANGED <<storeVars, provider, phase, held, delivered, seen,
                   verifierObs, recorded, back>>

VerifierSeesAbsence(p) ==
    /\ HasBoundary(p)
    /\ runnerObs[p] # NoRead
    /\ verifierObs[p] = NoRead
    /\ ref = Absent
    /\ runnerObs[p].at <= clock
    /\ verifierObs' = [verifierObs EXCEPT ![p] = ReadAbsence(p)]
    /\ UNCHANGED <<storeVars, provider, phase, held, delivered, seen,
                   runnerObs, recorded, back>>

(* verify_github_ref_absence: both observations exist and bind each other. *)
AbsenceVerified(p) == runnerObs[p] # NoRead /\ verifierObs[p] # NoRead

(* create_operation_proof_v2_from_absence. The mutant forgets to compare the
   verification with the receipt. *)
ProveUndated(p) ==
    /\ Goto(p, "receipted", "proved")
    /\ AbsenceVerified(p)
    /\ UNCHANGED <<storeVars, provider, held, delivered, evidence, back>>

Prove(p) ==
    /\ Goto(p, "receipted", "proved")
    /\ AbsenceVerified(p)
    /\ verifierObs[p].at >= recorded[p]
    /\ UNCHANGED <<storeVars, provider, held, delivered, evidence, back>>

(* The process dies, or a check raises: what it held is gone. *)
Die(p) ==
    /\ phase[p] \in Phases \ {"proved", "rejected", "ambiguous", "dead"}
    /\ phase' = [phase EXCEPT ![p] = "dead"]
    /\ answer' = [answer EXCEPT ![p] = "none"]
    /\ held' = [held EXCEPT ![p] = NoLease]
    /\ delivered' = [delivered EXCEPT ![p] = 0]
    /\ UNCHANGED <<storeVars, ref, version, wire, applied, removed, evidence, back>>
-----------------------------------------------------------------------------
(* The provider takes a request off the wire and answers, as long as somebody
   waits for the answer. *)
Serve(p, status) ==
    /\ wire[p] > 0
    /\ wire' = [wire EXCEPT ![p] = @ - 1]
    /\ answer' = IF phase[p] = "sent" THEN [answer EXCEPT ![p] = status] ELSE answer
    /\ UNCHANGED <<storeVars, phase, held, delivered, evidence, back>>

(* POST git/refs creates a ref that does not exist; DELETE removes whatever the
   ref points to. A gateway error may hide the success. *)
Apply(p) ==
    /\ \E status \in {"success", "error"} : Serve(p, status)
    /\ \/ p \in Creates /\ ref = Absent /\ ref' = CommitOf[p] /\ UNCHANGED removed
       \/ /\ p \in Deletes /\ ref # Absent /\ ref' = Absent
          /\ removed' = [removed EXCEPT ![p] = [sha |-> ref, version |-> version]]
    /\ version' = version + 1
    /\ applied' = [applied EXCEPT ![p] = @ + 1]

(* 422, or a gateway error instead of it. *)
Refuse(p) ==
    /\ \E status \in {"refused", "error"} : Serve(p, status)
    /\ p \in Creates <=> ref # Absent
    /\ UNCHANGED <<ref, version, applied, removed>>

(* Somebody else creates, moves or deletes the ref. *)
Outsider ==
    /\ version < MaxVersion
    /\ ref' \in (Commits \cup {Absent}) \ {ref}
    /\ version' = version + 1
    /\ UNCHANGED <<storeVars, wire, answer, applied, removed, phase, held,
                   delivered, evidence, back>>

MoveClock ==
    /\ ClockMoves
    /\ back' = (back \/ clock' < clock)
    /\ UNCHANGED <<provider, phase, held, delivered, evidence>>

Await(p) == Receive(p) \/ TimeOut(p)

OpStep(p) ==
    \/ AcquireLease(p)
    \/ DeliverWrite(p)
    \/ DeliverRollback(p)
    \/ CheckCredential(p)
    \/ ClearCreate(p)
    \/ ClearDelete(p)
    \/ Send(p)
    \/ Await(p)
    \/ Record(p)
    \/ ComposeReceipt(p)
    \/ Die(p)

RollbackStep(p) ==
    \/ ReadBeforeDelete(p)
    \/ RunnerSeesAbsence(p)
    \/ VerifierSeesAbsence(p)
    \/ Prove(p)

Next ==
    \/ \E p \in Ops : OpStep(p)
    \/ \E p \in Deletes : RollbackStep(p)
    \/ \E p \in Ops : Apply(p) \/ Refuse(p)
    \/ Outsider
    \/ MoveClock

Spec == Init /\ [][Next]_vars
FairSpec == Spec /\ \A p \in Ops : WF_vars(Await(p))
-----------------------------------------------------------------------------
(* No operation is carried out twice, whatever answer is lost and however late a
   request is handled: a create whose outcome was ambiguous does not bring a
   ref back that was deleted in between. *)
AtMostOneEffect == \A p \in Ops : applied[p] <= 1

(* An operation recorded as COMPLETED was carried out by the provider for its
   own request: a ref that somebody else made is never taken for one's own. *)
RecordedIsOurs ==
    \A p \in Ops : state[p].status = "COMPLETED" => applied[p] = 1

(* A rollback removes the commit it expects, unless the ref has moved since the
   pre-delete observation: the race that READ_THEN_DELETE_NON_ATOMIC admits is
   the only one. *)
DeletesWhatItSaw ==
    \A p \in Deletes :
        (removed[p] # NoRead /\ removed[p].version = seen[p].version)
            => removed[p].sha = CommitOf[p]

(* A proof of a rollback rests on a readback that was made after the provider
   deleted the ref, although nothing but time stamps orders the calls: as long
   as the clock is not moved back and tells the two instants apart. *)
ProofFollowsEffect ==
    \A p \in Deletes :
        phase[p] = "proved" =>
            /\ applied[p] = 1
            /\ \/ back
               \/ verifierObs[p].at = recorded[p]
               \/ verifierObs[p].afterEffect

(* An operation that has sent its request does not wait for ever: the answer,
   or the timeout of the transport, settles it. *)
SentIsSettled == \A p \in Ops : phase[p] = "sent" ~> phase[p] \in Settled

(* What ADR-0027 says of the outcome: if the provider may have carried out the
   request, the attempt is not classified as rejected. *)
RejectedMeansNoEffect == \A p \in Ops : phase[p] = "rejected" => applied[p] = 0
=============================================================================
