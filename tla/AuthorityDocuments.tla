------------------------- MODULE AuthorityDocuments -------------------------
(***************************************************************************)
(* The documents that carry authority from a snapshot to a leased          *)
(* dispatch: monotonic_authority.py, execution_contract.py's target,       *)
(* precondition_witness.py, execution_capsule.py,                          *)
(* execution_conformance.py and the dispatch contracts.                    *)
(*                                                                         *)
(* Every document is frozen and content-addressed. A run makes a document  *)
(* of a kind once, so its digest here is the kind and the run n: distinct  *)
(* documents have distinct digests, and a document names its parents by    *)
(* theirs. Revision texts are left out. The exact bindings of a scope      *)
(* (actor, workspace, environment, capability, target, payload, policy,    *)
(* approvals) travel together as "terms", of which only what later checks  *)
(* read is kept.                                                           *)
(***************************************************************************)
EXTENDS Integers, FiniteSets

Environments == {"local", "development", "staging", "production"}
Enforcements == {"READ_THEN_COMPARE", "ATOMIC_PROVIDER_CONDITION"}
-----------------------------------------------------------------------------
(* monotonic_authority.py *)

(* AuthorityScope.from_snapshot *)
AuthorityScope(s) ==
    [digest |-> <<"scope", s.digest>>, snapshot |-> s.digest, terms |-> s.terms,
     from |-> s.at, until |-> s.until]

(* AuthorityConstraint.create: the caller writes every field. *)
AuthorityConstraint(parent, terms, from, until) ==
    [digest |-> <<"constraint", parent.digest, terms, from, until>>,
     parent |-> parent.digest, terms |-> terms, from |-> from, until |-> until]
ConstraintFormed(c) == c.from < c.until

(* MonotonicAuthorityChecker.check *)
Narrows(parent, child) ==
    /\ child.parent = parent.digest
    /\ child.terms = parent.terms
    /\ parent.from <= child.from
    /\ child.until <= parent.until
    /\ child.from < parent.until

MonotonicDecision(parent, child) ==
    [digest |-> <<"narrowing", parent.digest, child.digest>>,
     parent |-> parent.digest, child |-> child.digest]
-----------------------------------------------------------------------------
(* capability_registry.py. A registry r has definitions, each with what its
   activation says: one that is not activated is enabled nowhere. *)

DefinitionFormed(d) ==
    /\ d.supported # {} /\ d.supported \subseteq Environments
    /\ d.production => "production" \in d.supported

(* ImmutableCapabilityRegistry.__init__ *)
CapabilityRegistryAccepted(r) ==
    /\ r.definitions # {}
    /\ \A d \in r.definitions :
           /\ DefinitionFormed(d)
           /\ d.enabled \subseteq d.supported
           /\ \A e \in r.definitions : e.id = d.id => e = d

(* resolve_for_execution *)
CapabilityActive(r, id, environment) ==
    \E d \in r.definitions :
        /\ d.id = id /\ ~d.revoked
        /\ environment \in d.enabled \cap d.supported
        /\ environment = "production" => d.production
-----------------------------------------------------------------------------
(* execution_capsule.py. The registry goes on with capsules, activations of
   capsules and the handler's conformance evidence. The handler of a capsule stands for its id, its
   digest and the verification contract; the image for artifact, root file
   system, dependencies, network policy and resource limits. *)

CapsuleFormed(c) == c.enforcement \in Enforcements

ActivationFormed(a) ==
    /\ a.enabled # {} /\ a.enabled \subseteq Environments
    /\ a.production => "production" \in a.enabled

DefinitionOf(r, id) == CHOOSE d \in r.definitions : d.id = id

(* ImmutableExecutionCapsuleRegistry.__init__ *)
CapsuleRegistryAccepted(r) ==
    /\ r.capsules # {}
    /\ \A c \in r.capsules :
           /\ CapsuleFormed(c)
           /\ \E d \in r.definitions :
                 /\ d.id = c.definition /\ d.handler = c.handler
                 /\ d.kind = c.kind /\ d.verification = c.verification
           /\ \A e \in r.capsules : e.definition = c.definition => e = c
    /\ \A a \in r.activations :
           /\ ActivationFormed(a)
           /\ \E c \in r.capsules :
                 /\ a.capsule = c.digest
                 /\ a.enabled \subseteq DefinitionOf(r, c.definition).supported
                 /\ a.production => DefinitionOf(r, c.definition).production
           /\ \A b \in r.activations : b.capsule = a.capsule => b = a

(* resolve_for_binding *)
Eligible(r, id, environment, kind, c) ==
    /\ environment \in Environments
    /\ c \in r.capsules /\ c.definition = id /\ c.kind = kind
    /\ CapabilityActive(r, id, environment)
    /\ \E d \in r.definitions : d.id = id /\ d.kind = kind
    /\ \E a \in r.activations :
          /\ a.capsule = c.digest /\ ~a.revoked
          /\ environment \in a.enabled
          /\ environment = "production" => a.production

(* ExecutionBinding.create, from the capsule the authority resolved *)
ExecutionBinding(environment, c) ==
    [definition |-> c.definition, environment |-> environment, kind |-> c.kind,
     capsule |-> c.digest, runnerClass |-> c.runnerClass]
-----------------------------------------------------------------------------
(* execution_conformance.py *)

(* HandlerConformanceEvidence: an atomic contract is named exactly when the
   condition is checked atomically. *)
ConformanceFormed(e) ==
    /\ e.enforcement \in Enforcements
    /\ e.atomicContract <=> e.enforcement = "ATOMIC_PROVIDER_CONDITION"

(* ImmutableHandlerConformanceRegistry, _assert_exact_capsule_binding *)
ConformanceRegistryAccepted(r) ==
    /\ r.evidence # {}
    /\ \A e \in r.evidence :
           /\ ConformanceFormed(e)
           /\ \E c \in r.capsules :
                 /\ e.capsule = c.digest /\ e.handler = c.handler
                 /\ e.runnerClass = c.runnerClass
                 /\ e.credentialClass = c.credentialClass
                 /\ e.enforcement = c.enforcement
           /\ \A f \in r.evidence : f.capsule = e.capsule => f = e

(* ExecutionConformanceAuthority.evaluate *)
Conforms(r, g, c, e) ==
    /\ Eligible(r, g.terms.definition, g.terms.environment, g.terms.kind, c)
    /\ g.binding.capsule = c.digest
    /\ g.binding.runnerClass = c.runnerClass
    /\ g.enforcement = c.enforcement
    /\ e \in r.evidence /\ e.capsule = c.digest
    /\ c.enforcement = "ATOMIC_PROVIDER_CONDITION" => e.atomicContract

ConformanceWitness(g, c) ==
    [digest |-> <<"conformance", g.digest>>, grant |-> g.digest, capsule |-> c.digest]
-----------------------------------------------------------------------------
(* precondition_witness.py. The requirements, binders and observers are three
   more parts of the registry. *)

RequirementFormed(q) == q.enforcement \in Enforcements

(* ImmutablePreconditionRequirementRegistry: one for a definition *)
RequirementsAccepted(r) ==
    /\ r.requirements # {}
    /\ \A q \in r.requirements :
           /\ RequirementFormed(q)
           /\ \A p \in r.requirements : p.definition = q.definition => p = q

(* PreconditionExpectationBinderRegistry: an id names one binder *)
BindersAccepted(r) ==
    r.binders # {} /\ \A b, c \in r.binders : b.id = c.id => b = c

ObserversAccepted(r) ==
    r.observers # {} /\ \A o, p \in r.observers : o.id = p.id => o = p

Expectation(parent, authority, q, kind, target, state) ==
    [digest |-> <<"expectation", authority.digest>>, parent |-> parent.digest,
     authority |-> authority.digest, requirement |-> q.digest, kind |-> kind,
     target |-> target, schema |-> q.schema, state |-> state]

PreconditionObservation(q, kind, target, observer, state, t) ==
    [digest |-> <<"precondition", q.digest, target, t>>, requirement |-> q.digest,
     kind |-> kind, target |-> target, schema |-> q.schema,
     observer |-> observer.id, state |-> state, at |-> t]

(* _binding_violations, none *)
PreconditionBound(parent, authority, decision, q, e, o) ==
    /\ Narrows(parent, authority)
    /\ decision.digest = MonotonicDecision(parent, authority).digest
    /\ q.definition = authority.terms.definition /\ q.kind = authority.terms.kind
    /\ e.parent = parent.digest /\ e.authority = authority.digest
    /\ e.requirement = q.digest /\ o.requirement = q.digest
    /\ e.kind = authority.terms.kind /\ o.kind = authority.terms.kind
    /\ e.target = authority.terms.target /\ o.target = authority.terms.target
    /\ e.schema = q.schema /\ o.schema = q.schema
    /\ o.observer = q.observer

(* PreconditionWitness.create: the state is the expected one, and the clock
   was inside the authority's window when it was read. *)
MayWitness(parent, authority, decision, q, e, o) ==
    /\ PreconditionBound(parent, authority, decision, q, e, o)
    /\ e.state = o.state
    /\ authority.from <= o.at /\ o.at < authority.until

(* The digests of the six documents it is made of are left out: nobody compares
   them again. *)
PreconditionWitness(authority, q, e, o) ==
    [target |-> authority.terms.target, expected |-> e.state, observed |-> o.state,
     checked |-> o.at, enforcement |-> q.enforcement]

(* PreconditionGuard.witness before it observes: what it is asked about is the
   authority's target, and the definition's requirement names a binder and an
   observer of its kind and schema. *)
GuardAdmits(r, parent, authority, decision, kind, target, q, b, o) ==
    /\ Narrows(parent, authority)
    /\ decision.digest = MonotonicDecision(parent, authority).digest
    /\ kind = authority.terms.kind /\ target = authority.terms.target
    /\ q \in r.requirements
    /\ q.definition = authority.terms.definition /\ q.kind = authority.terms.kind
    /\ b \in r.binders /\ b.id = q.binder /\ b.kind = q.kind /\ b.schema = q.schema
    /\ o \in r.observers /\ o.id = q.observer /\ o.kind = q.kind /\ o.schema = q.schema
-----------------------------------------------------------------------------
(* The grant and its dispatch *)

(* ExecutionGrantV2, the part later documents bind. The witness is kept as a
   part of the grant, not by its digest. *)
GrantDocument(n, s, authority, witness, binding, issued, expires) ==
    [digest |-> <<"grant", n>>, execution |-> s.execution, snapshot |-> s.digest,
     terms |-> authority.terms, witness |-> witness,
     enforcement |-> witness.enforcement, binding |-> binding,
     issued |-> issued, expires |-> expires]

GrantConsumption(n, g, conformance, t) ==
    [digest |-> <<"consumption", n>>, grant |-> g.digest, execution |-> g.execution,
     snapshot |-> g.snapshot, capsule |-> g.binding.capsule,
     runnerClass |-> g.binding.runnerClass, conformance |-> conformance.digest,
     at |-> t]

(* DispatchOutboxEntry.create: the consumption is of this grant. *)
ConsumptionBinds(c, g) ==
    /\ c.grant = g.digest /\ c.execution = g.execution /\ c.snapshot = g.snapshot
    /\ c.capsule = g.binding.capsule /\ c.runnerClass = g.binding.runnerClass

OutboxEntry(n, g, c) ==
    [digest |-> <<"outbox", n>>, consumption |-> c.digest, grant |-> g.digest,
     execution |-> g.execution, snapshot |-> g.snapshot, terms |-> g.terms,
     binding |-> g.binding, enforcement |-> g.enforcement, created |-> c.at]

(* _dispatch_id and _projection: nothing but the entry decides them. *)
DispatchId(entry) == <<"dispatch", entry.digest>>
Projection(entry) ==
    [entry |-> entry.digest, execution |-> entry.execution, terms |-> entry.terms,
     binding |-> entry.binding, grant |-> entry.grant,
     consumption |-> entry.consumption, created |-> entry.created]

Envelope(n, entry) ==
    [digest |-> <<"envelope", n>>, dispatch |-> DispatchId(entry),
     projection |-> Projection(entry)]
EnvelopeBound(envelope, entry) ==
    envelope.dispatch = DispatchId(entry) /\ envelope.projection = Projection(entry)

Admission(n, envelope, entry) ==
    [digest |-> <<"admission", n>>, dispatch |-> envelope.dispatch,
     envelope |-> envelope.digest, entry |-> entry.digest,
     execution |-> entry.execution, environment |-> entry.terms.environment,
     capsule |-> entry.binding.capsule, runnerClass |-> entry.binding.runnerClass]
AdmissionBound(a, envelope, entry) ==
    /\ EnvelopeBound(envelope, entry)
    /\ a.dispatch = envelope.dispatch /\ a.envelope = envelope.digest
    /\ a.entry = entry.digest /\ a.execution = entry.execution
    /\ a.environment = entry.terms.environment
    /\ a.capsule = entry.binding.capsule /\ a.runnerClass = entry.binding.runnerClass
=============================================================================
