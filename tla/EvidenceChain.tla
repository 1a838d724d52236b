---------------------------- MODULE EvidenceChain ----------------------------
(***************************************************************************)
(* How the documents of a READ come about, from the authorization snapshot *)
(* to the verification result, its binding by the control plane            *)
(* (control_plane_runtime._bind_read_result) and the OperationProof/v2.    *)
(*                                                                         *)
(* Each step is a call that gets documents and makes the next one of its   *)
(* run. Whatever is not made in the run itself may be any document there   *)
(* is: one of the same execution under an earlier lease, or one of another *)
(* operation that is already complete. A call that objects makes nothing.  *)
(*                                                                         *)
(* Provider reads take two steps, the read and the clock witness after it, *)
(* and in between time passes, the ref moves, or another lease is taken.   *)
(***************************************************************************)
EXTENDS RuntimeEvidence

CONSTANTS Registries,        \* what a deployment may be configured with
          BrokerPolicies,
          VerifierPolicies,
          Bootstraps,        \* what the runtime provider may start
          Verifiers,
          Targets,
          Shas,
          Snapshot,          \* of the operation at hand
          OtherDocuments,    \* of another, complete operation
          GrantSeconds,
          WitnessSeconds,    \* MAX_PRECONDITION_TO_GRANT_SECONDS
          LeaseSeconds,
          VerifierStarts,    \* starts and
          VerifierSeconds,   \* lifetimes asked for the verifier's credential
          MaxTurns,          \* bound: leases of the execution and moves of a ref
          EndOfTime          \* bound: the last time

ASSUME ChainAssumption ==
    /\ GrantSeconds \in Nat \ {0} /\ WitnessSeconds \in Nat /\ LeaseSeconds \in Nat \ {0}
    /\ VerifierStarts \subseteq Nat /\ VerifierSeconds \subseteq Nat
    /\ MaxTurns \in Nat /\ EndOfTime \in Nat
    /\ Snapshot.at \in Nat /\ Snapshot.until \in Nat

VARIABLES registry,  \* an accepted one of Registries
          now,       \* the trusted clock
          ref,       \* what each target's ref points at
          moved,
          issued,    \* the operation's documents, by kind
          hand       \* a provider read or an issuance in progress

chainVars == <<registry, now, ref, moved, issued, hand>>

Idle == [step |-> "idle"]
Execution == Snapshot.execution
Authority == <<Execution, 0>>       \* the run that prepares the execution
Run(epoch) == <<Execution, epoch>>  \* the run under a lease

DocumentKinds ==
    {"grant", "consumption", "outbox", "envelope", "admission", "lease", "prepared",
     "activation", "observation", "completion", "verification", "credential",
     "readback", "postState", "strength", "result", "terminal", "receipt", "proof"}
Others == [kind \in DocumentKinds |-> {d \in OtherDocuments : d.digest[1] = kind}]

(* Digests are of contents. The documents of another operation belong to runs
   of that operation and name its documents, not those of the one at hand. *)
OfOther(digest) == digest[2][1] # Execution
ASSUME CapsuleDigestAssumption ==
    \A r \in Registries : \A c, d \in r.capsules : c.digest = d.digest => c = d
ASSUME OtherDocumentsAssumption ==
    /\ \A d, e \in OtherDocuments : d.digest = e.digest => d = e
    /\ \A d \in OtherDocuments : OfOther(d.digest)
    /\ \A a \in Others["activation"] : OfOther(a.lease)
    /\ \A p \in Others["prepared"] : OfOther(p.boundary.digest)
    /\ \A d \in Others["credential"] : OfOther(d.verification)
    /\ \A d \in Others["verification"] \cup Others["readback"] : OfOther(d.observation)
    /\ \A d \in Others["result"] \cup Others["receipt"] : d.execution # Execution

Docs(kind) == issued[kind] \cup Others[kind]
RunOf(d) == d.digest[2]
Made(kind, n) == \E d \in issued[kind] : RunOf(d) = n
Doc(digest) == CHOOSE d \in Docs(digest[1]) : d.digest = digest

Issue(ds) ==
    issued' = [kind \in DocumentKinds |->
                  issued[kind] \cup {d \in ds : d.digest[1] = kind}]
-----------------------------------------------------------------------------
(* Authority *)

(* Both binders and observers of the repository answer from the target's own
   claims; one that asks the provider fits the protocol as well. *)
ExpectedState(b, target) == IF b.source = "claims" THEN target ELSE b.expects
ObservedState(o, target) == IF o.source = "claims" THEN target ELSE ref[target]

(* AuthoritativeGrantIssuer.issue up to the guard's observation. The caller
   writes the constraint. *)
PreconditionRead(authority, c, q, b, o) ==
    LET parent == AuthorityScope(Snapshot)
        decision == MonotonicDecision(parent, authority)
        terms == Snapshot.terms
    IN  /\ hand = Idle /\ ~Made("grant", Authority)
        /\ ConstraintFormed(authority) /\ Narrows(parent, authority)
        /\ Eligible(registry, terms.definition, terms.environment, terms.kind, c)
        /\ GuardAdmits(registry, parent, authority, decision, terms.kind,
                       terms.target, q, b, o)
        /\ hand' = [step |-> "precondition", authority |-> authority, capsule |-> c,
                    requirement |-> q, observer |-> o,
                    expected |-> ExpectedState(b, terms.target),
                    state |-> ObservedState(o, terms.target)]
        /\ UNCHANGED <<registry, now, ref, moved, issued>>

(* The rest of PreconditionGuard.witness: the clock is asked after the
   observation. *)
WitnessPrecondition ==
    LET parent == AuthorityScope(Snapshot)
        authority == hand.authority
        decision == MonotonicDecision(parent, authority)
        q == hand.requirement
        e == Expectation(parent, authority, q, Snapshot.terms.kind,
                         Snapshot.terms.target, hand.expected)
        o == PreconditionObservation(q, Snapshot.terms.kind, Snapshot.terms.target,
                                     hand.observer, hand.state, now)
    IN  /\ hand.step = "precondition"
        /\ MayWitness(parent, authority, decision, q, e, o)
        /\ hand' = [step |-> "witnessed", authority |-> authority,
                    capsule |-> hand.capsule,
                    witness |-> PreconditionWitness(authority, q, e, o)]
        /\ UNCHANGED <<registry, now, ref, moved, issued>>

(* _resolve_validity and ExecutionGrantV2._issue *)
IssueGrantDocument ==
    LET authority == hand.authority
        expires == IF now + GrantSeconds <= authority.until
                   THEN now + GrantSeconds ELSE authority.until
    IN  /\ hand.step = "witnessed"
        /\ hand.witness.checked <= now /\ now - hand.witness.checked <= WitnessSeconds
        /\ authority.from <= now /\ now < authority.until
        /\ Issue({GrantDocument(Authority, Snapshot, authority, hand.witness,
                                ExecutionBinding(Snapshot.terms.environment, hand.capsule),
                                now, expires)})
        /\ hand' = Idle
        /\ UNCHANGED <<registry, now, ref, moved>>

(* The denial of an issuance or a failed provider read *)
GiveUp ==
    /\ hand # Idle
    /\ hand' = Idle
    /\ UNCHANGED <<registry, now, ref, moved, issued>>

(* consume_and_enqueue, one transaction. The entry is made from a grant and a
   consumption somebody presents. Revocation and permissions, read live in the
   same transaction, are in module CanonicalPipeline. *)
ConsumeGrant(g, c, e, presented) ==
    LET k == GrantConsumption(Authority, g, ConformanceWitness(g, c), now)
    IN  /\ ~Made("consumption", Authority)
        /\ g.issued <= now /\ now < g.expires
        /\ Conforms(registry, g, c, e)
        /\ ConsumptionBinds(k, presented)
        /\ Issue({k, OutboxEntry(Authority, presented, k)})
        /\ UNCHANGED <<registry, now, ref, moved, hand>>

(* DispatchEnvelope.create, then DispatchInboxAdmission.create against an entry *)
AdmitEnvelope(entry, presented) ==
    LET envelope == Envelope(Authority, entry)
    IN  /\ ~Made("admission", Authority)
        /\ EnvelopeBound(envelope, presented)
        /\ Issue({envelope, Admission(Authority, envelope, presented)})
        /\ UNCHANGED <<registry, now, ref, moved, hand>>

Leases == issued["lease"]
Epochs == {l.epoch : l \in Leases}
Expired(l) == now >= l.until
Completed == issued["completion"] # {}

(* The lease store allows one unexpired lease at a time (module LeaseStore). *)
AcquireLeaseDocument(a) ==
    LET n == Cardinality(Epochs) + 1
    IN  /\ n + moved <= MaxTurns /\ ~Completed
        /\ \A l \in Leases : Expired(l)
        /\ Issue({LeaseDocument(Run(n), a, n, now, now + LeaseSeconds)})
        /\ UNCHANGED <<registry, now, ref, moved, hand>>

(* DurableCurrentExecutionFence.assert_current *)
Current(l) ==
    /\ l \in Leases /\ l.epoch = Cardinality(Epochs) /\ ~Completed
    /\ l.from <= now /\ now < l.until
-----------------------------------------------------------------------------
(* The runner *)

(* IsolatedRunnerAdapter.prepare: the runtime provider starts some bootstrap,
   the credential broker decides with the class's policy. *)
PrepareRuntime(l, c, d, bootstrap, policy) ==
    LET n == RunOf(l)
        i == RunnerIdentity(bootstrap)
        b == RunnerBoundary(n, i, l, c, d)
    IN  /\ ~Made("prepared", n)
        /\ d.effect = "READ_ONLY" /\ l.capsule = c.digest /\ l.runnerClass = c.runnerClass
        /\ BootstrapBound(bootstrap, l, c)
        /\ BoundaryAllowed(i, l, c, d)
        /\ AccessAllowed(b, l, policy)
        /\ Issue({PreparedRuntime(n, bootstrap, i, b, AccessDecision(n, b, l, policy), l)})
        /\ UNCHANGED <<registry, now, ref, moved, hand>>

(* activate: what the provider answers must be the activation of p. *)
ActivateRuntime(p) ==
    LET n == RunOf(p)
    IN  /\ ~Made("activation", n)
        /\ RuntimeBound(p) /\ Current(p.lease)
        /\ Issue({RuntimeActivation(n, p)})
        /\ UNCHANGED <<registry, now, ref, moved, hand>>

(* GitHubReadHandler.observe_ref: the fence is the last thing before the read.
   The caller names the target. *)
RunnerReads(p, a, target) ==
    /\ hand = Idle /\ ~Made("observation", RunOf(p))
    /\ ActivationBound(p, a) /\ ReadableKind(Snapshot.terms.kind)
    /\ Current(p.lease)
    /\ hand' = [step |-> "runner", run |-> RunOf(p), activation |-> a,
                target |-> target, sha |-> ref[target]]
    /\ UNCHANGED <<registry, now, ref, moved, issued>>

RunnerObserves ==
    /\ hand.step = "runner"
    /\ Issue({RunnerObservation(hand.run, hand.target, hand.sha, hand.activation, now)})
    /\ hand' = Idle
    /\ UNCHANGED <<registry, now, ref, moved>>

(* DurableExecutionLeaseService.complete records whatever digest it is given. *)
CompleteExecution(l, o) ==
    /\ Current(l)
    /\ Issue({[digest |-> <<"completion", RunOf(l)>>, lease |-> l.digest,
               execution |-> l.execution, epoch |-> l.epoch, of |-> o.digest]})
    /\ UNCHANGED <<registry, now, ref, moved, hand>>
-----------------------------------------------------------------------------
(* The verifier *)

OpenVerification(v, p, o) ==
    LET n == RunOf(o)
    IN  /\ ~Made("verification", n)
        /\ Independent(v, p.runner, p.boundary, o)
        /\ Issue({VerificationBoundary(n, v, p.runner, p.boundary, o)})
        /\ UNCHANGED <<registry, now, ref, moved, hand>>

(* VerifierCredentialDecision.create: the caller says from when to when. *)
DecideVerifier(v, vb, policy, from, seconds) ==
    LET n == RunOf(vb)
    IN  /\ ~Made("credential", n)
        /\ VerifierAccessAllowed(v, vb, policy, from, from + seconds)
        /\ Issue({VerifierDecision(n, v, vb, policy, from, from + seconds)})
        /\ UNCHANGED <<registry, now, ref, moved, hand>>

(* VerifierGitHubReadHandler.observe_ref *)
VerifierReads(v, vb, d, target) ==
    /\ hand = Idle /\ ~Made("readback", RunOf(vb))
    /\ VerifierBound(v, vb, d, target) /\ ReadableKind(Snapshot.terms.kind)
    /\ CredentialHolds(d, now)
    /\ hand' = [step |-> "verifier", run |-> RunOf(vb), verifier |-> v, boundary |-> vb,
                decision |-> d, target |-> target, sha |-> ref[target], accessed |-> now]
    /\ UNCHANGED <<registry, now, ref, moved, issued>>

VerifierObserves ==
    /\ hand.step = "verifier"
    /\ Issue({VerifierObservation(hand.run, hand.target, hand.sha, hand.verifier,
                                  hand.boundary, hand.decision, hand.accessed, now)})
    /\ hand' = Idle
    /\ UNCHANGED <<registry, now, ref, moved>>

(* verify_github_ref_readback *)
Verify(o, vo, vb) ==
    LET n == RunOf(o)
        state == ObservedPostState(n, vo, vb)
        strength == VerificationStrength(n, vo, vb)
    IN  /\ ~Made("result", n)
        /\ VerificationEvidenceBound(o, vo, vb)
        /\ Issue({state, strength, VerificationResult(n, o, vo, vb, state, strength)})
        /\ UNCHANGED <<registry, now, ref, moved, hand>>
-----------------------------------------------------------------------------
(* Control plane and proof *)

(* _bind_read_result, the prepared part, on documents that
   canonical_operation_resume has already compared with one another. *)
PreparedBound(l, a, envelope, entry, g) ==
    /\ AdmissionBound(a, envelope, entry) /\ LeaseBound(l, a)
    /\ l.execution = Execution /\ a.execution = Execution /\ entry.execution = Execution
    /\ g.execution = Execution /\ g.snapshot = Snapshot.digest

(* _bind_read_result, the rest *)
ObservedUnder(l, o, done) ==
    /\ o.execution = Execution /\ o.epoch = l.epoch /\ o.lease = l.digest
    /\ o.target = Snapshot.terms.target
    /\ done.execution = Execution /\ done.epoch = l.epoch /\ done.lease = l.digest
    /\ done.of = o.digest
ReadBack(l, o, v, vb, d, vo) ==
    /\ \A e \in {vb, d, vo} :
          /\ e.execution = Execution /\ e.epoch = l.epoch
          /\ e.target = Snapshot.terms.target /\ e.observation = o.digest
    /\ d.verification = vb.digest /\ vo.verification = vb.digest
    /\ \A e \in {d, vo} : e.verifierId = v.id /\ e.verifier = v.digest
    /\ vo.decision = d.digest
Named(kind, digest) == {d \in Docs(kind) : d.digest = digest}
ResultOf(l, v, r) ==
    /\ r.epoch = l.epoch /\ r.target = Snapshot.terms.target
    /\ r.verifierId = v.id /\ r.verifier = v.digest

BindRead ==
    /\ ~Made("terminal", Authority)
    /\ \E r \in {x \in Docs("result") : x.execution = Execution} :
       \E vo \in Named("readback", r.readback), vb \in Named("verification", r.verification),
          o \in Named("observation", r.observation), l \in Docs("lease"), v \in Verifiers :
       /\ ResultOf(l, v, r)
       /\ \E s \in Docs("postState"), t \in Docs("strength"), d \in Docs("credential"),
             done \in Docs("completion") :
          /\ r.state = s.digest /\ r.strength = t.digest
          /\ ReadBack(l, o, v, vb, d, vo) /\ ObservedUnder(l, o, done)
          /\ \E a \in Docs("admission"), envelope \in Docs("envelope"),
                entry \in Docs("outbox"), g \in Docs("grant") :
             /\ PreparedBound(l, a, envelope, entry, g)
             /\ Issue({[digest |-> <<"terminal", Authority>>, grant |-> g.digest,
                        lease |-> l.digest, completion |-> done.digest,
                        result |-> r.digest, decision |-> d.digest]})
    /\ UNCHANGED <<registry, now, ref, moved, hand>>

(* ExecutionReceiptV2, of a completed effect under the grant: module
   ControlledWrite has how it is composed. *)
Receipt(g, t) ==
    [digest |-> <<"receipt", Authority>>, execution |-> g.execution, grant |-> g.digest,
     target |-> g.terms.target, status |-> "NOT_EVALUATED", recorded |-> t]

RecordReceipt(g) ==
    /\ Completed /\ ~Made("receipt", Authority)
    /\ Issue({Receipt(g, now)})
    /\ UNCHANGED <<registry, now, ref, moved, hand>>

(* _validate_verification_lineage: the three documents are made again. *)
LineageRecomputes(o, vo, vb, s, t, r) ==
    LET n == RunOf(r)
    IN  /\ VerificationEvidenceBound(o, vo, vb)
        /\ s = ObservedPostState(n, vo, vb) /\ t = VerificationStrength(n, vo, vb)
        /\ r = VerificationResult(n, o, vo, vb, s, t)

(* OperationProofV2.create. The epoch is the verification's; the receipt's is
   not compared with it. *)
Prove(receipt, r) ==
    /\ ~Made("proof", Authority)
    /\ receipt.execution = r.execution /\ receipt.target = r.target
    /\ receipt.status = "NOT_EVALUATED"
    /\ r.verdict = "VERIFIED" /\ r.class = "INDEPENDENT_PROVIDER_READBACK"
    /\ receipt.recorded <= r.at
    /\ \E o \in Docs("observation"), vo \in Docs("readback"), vb \in Docs("verification"),
          s \in Docs("postState"), t \in Docs("strength") :
          LineageRecomputes(o, vo, vb, s, t, r)
    /\ Issue({[digest |-> <<"proof", Authority>>, receipt |-> receipt.digest,
               result |-> r.digest, execution |-> r.execution, epoch |-> r.epoch,
               recorded |-> receipt.recorded, checked |-> r.at]})
    /\ UNCHANGED <<registry, now, ref, moved, hand>>
-----------------------------------------------------------------------------
TimePasses ==
    /\ now < EndOfTime
    /\ now' = now + 1
    /\ UNCHANGED <<registry, ref, moved, issued, hand>>

RefMoves(target, sha) ==
    /\ moved + Cardinality(Leases) < MaxTurns /\ sha # ref[target]
    /\ ref' = [ref EXCEPT ![target] = sha]
    /\ moved' = moved + 1
    /\ UNCHANGED <<registry, now, issued, hand>>

(* The registries' constructors refuse what does not fit together. *)
Accepted(r) ==
    /\ CapabilityRegistryAccepted(r)
    /\ CapsuleRegistryAccepted(r) /\ ConformanceRegistryAccepted(r)
    /\ RequirementsAccepted(r) /\ BindersAccepted(r) /\ ObserversAccepted(r)

ChainInit ==
    /\ BrokerAccepted(BrokerPolicies)
    /\ \A p \in VerifierPolicies : VerifierPolicyFormed(p)
    /\ registry \in {r \in Registries : Accepted(r)}
    /\ now = 1
    /\ ref \in [Targets -> Shas]
    /\ moved = 0
    /\ issued = [kind \in DocumentKinds |-> {}]
    /\ hand = Idle

ChainNext ==
    \/ \E until \in {Snapshot.until, Snapshot.until + 1}, c \in registry.capsules,
          q \in registry.requirements, b \in registry.binders, o \in registry.observers :
          PreconditionRead(AuthorityConstraint(AuthorityScope(Snapshot), Snapshot.terms,
                                               Snapshot.at, until), c, q, b, o)
    \/ WitnessPrecondition \/ IssueGrantDocument \/ GiveUp
    \/ \E g \in issued["grant"], c \in registry.capsules, e \in registry.evidence,
          presented \in Docs("grant") : ConsumeGrant(g, c, e, presented)
    \/ \E entry \in issued["outbox"], presented \in Docs("outbox") :
          AdmitEnvelope(entry, presented)
    \/ \E a \in issued["admission"] : AcquireLeaseDocument(a)
    \/ \E l \in issued["lease"], c \in registry.capsules, d \in registry.definitions,
          bootstrap \in Bootstraps, policy \in BrokerPolicies :
          PrepareRuntime(l, c, d, bootstrap, policy)
    \/ \E p \in issued["prepared"] : ActivateRuntime(p)
    \/ \E p \in issued["prepared"], a \in Docs("activation"), target \in Targets :
          RunnerReads(p, a, target)
    \/ RunnerObserves
    \/ \E l \in issued["lease"], o \in Docs("observation") : CompleteExecution(l, o)
    \/ \E o \in issued["observation"], v \in Verifiers, p \in Docs("prepared") :
          OpenVerification(v, p, o)
    \/ \E vb \in issued["verification"], v \in Verifiers, policy \in VerifierPolicies,
          from \in VerifierStarts, seconds \in VerifierSeconds :
          DecideVerifier(v, vb, policy, from, seconds)
    \/ \E vb \in issued["verification"], v \in Verifiers, d \in Docs("credential"),
          target \in Targets : VerifierReads(v, vb, d, target)
    \/ VerifierObserves
    \/ \E o \in issued["observation"], vo \in Docs("readback"),
          vb \in Docs("verification") : Verify(o, vo, vb)
    \/ BindRead
    \/ \E g \in issued["grant"] : RecordReceipt(g)
    \/ \E r \in issued["result"], receipt \in Docs("receipt") : Prove(receipt, r)
    \/ TimePasses
    \/ \E target \in Targets, sha \in Shas : RefMoves(target, sha)

ChainSpec == ChainInit /\ [][ChainNext]_chainVars
-----------------------------------------------------------------------------
(* A document's parents, looked up by the digests it carries *)
RuntimeOf(boundary) == CHOOSE p \in Docs("prepared") : p.boundary.digest = boundary
GrantOf(l) == Doc(Doc(Doc(l.admission).entry).grant)

GrantInsideSnapshot(g) ==
    /\ g.execution = Execution /\ g.terms = Snapshot.terms
    /\ Snapshot.at <= g.witness.checked /\ g.witness.checked <= g.issued
    /\ g.issued - g.witness.checked <= WitnessSeconds
    /\ g.issued < g.expires /\ g.expires <= Snapshot.until
    /\ g.witness.target = Snapshot.terms.target
    /\ g.witness.observed = g.witness.expected
    /\ \E c \in registry.capsules :
          c.digest = g.binding.capsule /\ c.definition = Snapshot.terms.definition

ResultOfOneLease(r) ==
    LET o == Doc(r.observation)
        vo == Doc(r.readback)
        vb == Doc(r.verification)
        d == Doc(vo.decision)
        a == Doc(o.activation)
        p == RuntimeOf(o.boundary)
        l == p.lease
    IN  /\ {o.lease, a.lease, p.boundary.lease, p.decision.lease} = {l.digest}
        /\ RunOf(o) = RunOf(l)  \* the lease the fence was asked about
        /\ {<<x.execution, x.epoch>> : x \in {r, o, vo, vb, d, a}} = {<<Execution, l.epoch>>}
        /\ {x.target : x \in {r, o, vo, vb, d}} = {o.target}
        /\ {vb.observation, vo.observation, d.observation} = {o.digest}
        /\ Doc(r.state).readback = vo.digest /\ Doc(r.strength).readback = vo.digest
        /\ GrantInsideSnapshot(GrantOf(l))
        /\ vo.instance # a.instance /\ d.class # p.decision.class
        /\ p.boundary.definition = Snapshot.terms.definition
        /\ l.from <= o.at /\ o.at <= vo.at
        /\ d.from <= vo.accessed /\ vo.accessed < d.until /\ vo.accessed <= vo.at

(* Evidence of two leases, two operations, two targets or two read-backs never
   comes together in one verification result, one bound terminal result or one
   proof, whatever documents the calls are given and however the ref, the clock
   and the leases move in between; and it goes back to a grant inside its
   snapshot's window and terms, a runner and a verifier that share neither
   instance nor credential class, and a verifier credential that held when the
   provider was read (verification_result._assert_verification_evidence_bound,
   control_plane_runtime._bind_read_result, OperationProofV2.create). *)
EvidenceIsOfOne ==
    /\ \A g \in issued["grant"] : GrantInsideSnapshot(g)
    /\ \A r \in issued["result"] : ResultOfOneLease(r)
    /\ \A x \in issued["terminal"] :
          LET r == Doc(x.result)
              o == Doc(r.observation)
          IN  /\ ResultOfOneLease(r) /\ r.target = Snapshot.terms.target
              /\ Doc(x.completion).of = o.digest
              /\ {Doc(x.completion).lease, x.lease} = {o.lease}
              /\ x.decision = Doc(r.readback).decision
    /\ \A x \in issued["proof"] :
          LET r == Doc(x.result)
              o == Doc(r.observation)
              receipt == Doc(x.receipt)
          IN  /\ ResultOfOneLease(r) /\ o.sha = Doc(r.readback).sha
              /\ receipt.target = o.target
              /\ receipt.grant = GrantOf(Doc(o.lease)).digest
              /\ receipt.recorded <= Doc(r.readback).at
=============================================================================
