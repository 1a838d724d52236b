--------------------------- MODULE RuntimeEvidence ---------------------------
(***************************************************************************)
(* The documents of one leased READ: runner_identity.py,                   *)
(* credential_broker.py, isolated_runner.py, github_read_provider.py,      *)
(* verifier_identity.py, verifier_credential.py, verifier_observation.py   *)
(* and verification_result.py, with the checks each makes of the           *)
(* documents it is given. As in AuthorityDocuments n is the run that makes *)
(* a document, and a document names its parents by their digests. Fields   *)
(* that can only have one value (READ_ONLY, DENY_ALL, no mutation, no      *)
(* inherited credentials) are left out; the effect class of a definition   *)
(* is not one of them.                                                     *)
(***************************************************************************)
EXTENDS AuthorityDocuments

(* ExecutionLease.create_candidate and assert_bound_to *)
LeaseDocument(n, admission, epoch, from, until) ==
    [digest |-> <<"lease", n>>, admission |-> admission.digest,
     execution |-> admission.execution, epoch |-> epoch,
     environment |-> admission.environment, capsule |-> admission.capsule,
     runnerClass |-> admission.runnerClass, from |-> from, until |-> until]
LeaseBound(l, admission) ==
    /\ l.admission = admission.digest /\ l.execution = admission.execution
    /\ l.environment = admission.environment /\ l.capsule = admission.capsule
    /\ l.runnerClass = admission.runnerClass
-----------------------------------------------------------------------------
(* The runner *)

(* RunnerIdentity.create from a bootstrap b. runner_id names the logical
   identity, the digest adds the image's profiles. *)
RunnerIdentity(b) ==
    LET id == <<"runner", b.runnerClass, b.provider, b.instance, b.environment>>
    IN  [digest |-> <<id, b.image>>, id |-> id,
         runnerClass |-> b.runnerClass, provider |-> b.provider,
         instance |-> b.instance, environment |-> b.environment, image |-> b.image]
RunnerBoundToLease(i, l) ==
    l.runnerClass = i.runnerClass /\ l.environment = i.environment

(* IsolatedRunnerAdapter._assert_bootstrap_bound *)
BootstrapBound(b, l, c) ==
    /\ b.runnerClass = l.runnerClass /\ b.environment = l.environment
    /\ b.image = c.image

(* RunnerBoundary.create *)
BoundaryAllowed(i, l, c, d) ==
    /\ RunnerBoundToLease(i, l)
    /\ c.digest = l.capsule /\ c.runnerClass = l.runnerClass /\ i.image = c.image
    /\ d.id = c.definition /\ d.kind = c.kind /\ d.handler = c.handler
    /\ d.effect = "READ_ONLY"
    /\ l.environment \in d.supported
RunnerBoundary(n, i, l, c, d) ==
    [digest |-> <<"boundary", n>>, runner |-> i.digest, runnerId |-> i.id,
     lease |-> l.digest, execution |-> l.execution, epoch |-> l.epoch,
     capsule |-> c.digest, definition |-> d.id, environment |-> l.environment,
     credentialClass |-> c.credentialClass]

(* CredentialBrokerPolicy and ImmutableCredentialBroker *)
BrokerPolicyFormed(p) ==
    /\ p.definitions # {}
    /\ p.enabled # {} /\ p.enabled \subseteq Environments
BrokerAccepted(policies) ==
    /\ policies # {}
    /\ \A p \in policies :
           BrokerPolicyFormed(p) /\ \A q \in policies : q.class = p.class => q = p

(* CredentialAccessDecision.create *)
AccessAllowed(b, l, p) ==
    /\ b.lease = l.digest /\ b.execution = l.execution /\ b.epoch = l.epoch
    /\ b.environment = l.environment
    /\ b.credentialClass = p.class
    /\ b.definition \in p.definitions
    /\ b.environment \in p.enabled
AccessDecision(n, b, l, p) ==
    [digest |-> <<"access", n>>, boundary |-> b.digest, runnerId |-> b.runnerId,
     lease |-> l.digest, execution |-> l.execution, epoch |-> l.epoch,
     capsule |-> b.capsule, definition |-> b.definition,
     class |-> b.credentialClass, provider |-> p.provider,
     from |-> l.from, until |-> l.until]

(* PreparedIsolatedRuntime holds its parts, not their digests;
   _assert_runtime_binding compares them. *)
PreparedRuntime(n, bootstrap, i, b, decision, l) ==
    [digest |-> <<"prepared", n>>, bootstrap |-> bootstrap, runner |-> i,
     boundary |-> b, decision |-> decision, lease |-> l]
RuntimeBound(p) ==
    /\ p.bootstrap.provider = p.runner.provider
    /\ p.bootstrap.instance = p.runner.instance
    /\ p.bootstrap.runnerClass = p.runner.runnerClass
    /\ p.bootstrap.environment = p.runner.environment
    /\ p.bootstrap.image = p.runner.image
    /\ p.boundary.runnerId = p.runner.id /\ p.boundary.runner = p.runner.digest
    /\ p.boundary.lease = p.lease.digest /\ p.boundary.epoch = p.lease.epoch
    /\ p.decision.boundary = p.boundary.digest /\ p.decision.runnerId = p.runner.id
    /\ p.decision.lease = p.lease.digest /\ p.decision.epoch = p.lease.epoch
    /\ p.decision.capsule = p.boundary.capsule
    /\ p.decision.definition = p.boundary.definition

(* ReadOnlyRuntimeActivation.create *)
RuntimeActivation(n, p) ==
    [digest |-> <<"activation", n>>, provider |-> p.bootstrap.provider,
     instance |-> p.bootstrap.instance, runnerId |-> p.runner.id,
     runner |-> p.runner.digest, boundary |-> p.boundary.digest,
     decision |-> p.decision.digest, lease |-> p.lease.digest,
     execution |-> p.lease.execution, epoch |-> p.lease.epoch,
     capsule |-> p.boundary.capsule, definition |-> p.boundary.definition]

(* github_read_provider._assert_activation_bound *)
ActivationBound(p, a) ==
    /\ a.provider = p.bootstrap.provider /\ a.instance = p.bootstrap.instance
    /\ a.runnerId = p.runner.id /\ a.runner = p.runner.digest
    /\ a.boundary = p.boundary.digest /\ a.decision = p.decision.digest
    /\ a.lease = p.lease.digest /\ a.epoch = p.lease.epoch
    /\ a.capsule = p.boundary.capsule /\ a.definition = p.boundary.definition
    /\ p.decision.provider = "github"

(* _parse_git_ref_target *)
ReadableKind(kind) == kind = "git_ref"

(* GitHubRefObservation.create. The target is the caller's: the handler does
   not compare it with the one the lease was granted for. *)
RunnerObservation(n, target, sha, a, t) ==
    [digest |-> <<"observation", n>>, target |-> target, sha |-> sha,
     lease |-> a.lease, execution |-> a.execution, epoch |-> a.epoch,
     runnerId |-> a.runnerId, instance |-> a.instance, boundary |-> a.boundary,
     activation |-> a.digest, capsule |-> a.capsule, definition |-> a.definition,
     at |-> t]
-----------------------------------------------------------------------------
(* The verifier *)

(* VerifierIdentity.create: unlike a runner's, the identity names the
   credential class. *)
VerifierIdentity(class, source, instance, environment, credentialClass) ==
    LET id == <<"verifier", class, source, instance, environment, credentialClass>>
    IN  [digest |-> <<id>>, id |-> id, class |-> class, provider |-> source,
         instance |-> instance, environment |-> environment,
         credentialClass |-> credentialClass]

(* _assert_runner_evidence_bound *)
RunnerEvidenceBound(i, b, o) ==
    /\ b.runnerId = i.id /\ b.runner = i.digest /\ b.environment = i.environment
    /\ o.runnerId = i.id /\ o.boundary = b.digest /\ o.instance = i.instance
    /\ o.execution = b.execution /\ o.epoch = b.epoch
    /\ o.capsule = b.capsule /\ o.definition = b.definition

(* IndependentVerificationBoundary.create *)
Independent(v, i, b, o) ==
    /\ RunnerEvidenceBound(i, b, o)
    /\ v.environment = b.environment
    /\ v.id # i.id /\ v.digest # i.digest
    /\ v.instance # i.instance
    /\ v.credentialClass # b.credentialClass
VerificationBoundary(n, v, i, b, o) ==
    [digest |-> <<"verification", n>>, verifierId |-> v.id, verifier |-> v.digest,
     verifierProvider |-> v.provider, verifierInstance |-> v.instance,
     verifierClass |-> v.credentialClass, runnerId |-> i.id,
     runnerInstance |-> i.instance, runnerClass |-> b.credentialClass,
     boundary |-> b.digest, execution |-> o.execution, epoch |-> o.epoch,
     target |-> o.target, observation |-> o.digest, environment |-> b.environment]

(* VerifierCredentialPolicy: between one second and an hour *)
VerifierPolicyFormed(p) ==
    /\ p.enabled # {} /\ p.enabled \subseteq Environments
    /\ 1 <= p.maxTtl /\ p.maxTtl <= 3600

(* VerifierCredentialDecision.create *)
VerifierAccessAllowed(v, vb, p, from, until) ==
    /\ from < until /\ until - from <= p.maxTtl
    /\ vb.verifierId = v.id /\ vb.verifier = v.digest
    /\ v.credentialClass = vb.verifierClass /\ v.credentialClass = p.class
    /\ v.environment = vb.environment /\ v.environment \in p.enabled
    /\ v.provider = p.provider
    /\ vb.verifierClass # vb.runnerClass
VerifierDecision(n, v, vb, p, from, until) ==
    [digest |-> <<"credential", n>>, verifierId |-> v.id, verifier |-> v.digest,
     verification |-> vb.digest, observation |-> vb.observation,
     target |-> vb.target, execution |-> vb.execution, epoch |-> vb.epoch,
     class |-> p.class, provider |-> p.provider, environment |-> vb.environment,
     from |-> from, until |-> until]

(* verifier_observation._assert_exact_binding *)
VerifierBound(v, vb, d, target) ==
    /\ vb.verifierId = v.id /\ vb.verifier = v.digest
    /\ vb.verifierProvider = v.provider /\ vb.verifierInstance = v.instance
    /\ vb.verifierClass = v.credentialClass /\ v.environment = vb.environment
    /\ d.verifierId = v.id /\ d.verifier = v.digest /\ d.verification = vb.digest
    /\ d.observation = vb.observation
    /\ d.target = vb.target /\ d.target = target
    /\ d.execution = vb.execution /\ d.epoch = vb.epoch
    /\ d.class = v.credentialClass /\ d.provider = v.provider
    /\ d.environment = v.environment

(* _assert_credential_current *)
CredentialHolds(d, t) == d.from <= t /\ t < d.until

VerifierObservation(n, target, sha, v, vb, d, accessed, t) ==
    [digest |-> <<"readback", n>>, target |-> target, sha |-> sha,
     verifierId |-> v.id, verifier |-> v.digest, provider |-> v.provider,
     instance |-> v.instance, verification |-> vb.digest, decision |-> d.digest,
     observation |-> vb.observation, execution |-> vb.execution,
     epoch |-> vb.epoch, accessed |-> accessed, at |-> t]

(* verification_result._assert_verification_evidence_bound. The mutant compares
   execution and target only. *)
SameExecutionAndTarget(o, vo, vb) ==
    /\ vb.execution = o.execution /\ vo.execution = o.execution
    /\ vb.target = o.target /\ vo.target = o.target
    /\ vo.at >= o.at
VerificationEvidenceBound(o, vo, vb) ==
    /\ vb.observation = o.digest /\ vb.runnerId = o.runnerId
    /\ vb.runnerInstance = o.instance /\ vb.boundary = o.boundary
    /\ vb.target = o.target /\ vb.execution = o.execution /\ vb.epoch = o.epoch
    /\ vo.verification = vb.digest /\ vo.observation = o.digest
    /\ vo.target = o.target /\ vo.execution = o.execution /\ vo.epoch = o.epoch
    /\ vo.verifierId = vb.verifierId /\ vo.verifier = vb.verifier
    /\ vo.provider = vb.verifierProvider /\ vo.instance = vb.verifierInstance
    /\ vo.at >= o.at

(* verify_github_ref_readback makes three documents. *)
ObservedPostState(n, vo, vb) ==
    [digest |-> <<"postState", n>>, execution |-> vo.execution, epoch |-> vo.epoch,
     target |-> vo.target, sha |-> vo.sha, verifier |-> vo.verifier,
     verification |-> vb.digest, readback |-> vo.digest, at |-> vo.at]

VerificationStrength(n, vo, vb) ==
    [digest |-> <<"strength", n>>, verification |-> vb.digest, readback |-> vo.digest,
     class |-> "INDEPENDENT_PROVIDER_READBACK"]

VerificationResult(n, o, vo, vb, state, strength) ==
    [digest |-> <<"result", n>>, execution |-> vo.execution, epoch |-> vo.epoch,
     target |-> vo.target, observation |-> o.digest, readback |-> vo.digest,
     state |-> state.digest, verification |-> vb.digest,
     verifierId |-> vo.verifierId, verifier |-> vo.verifier,
     strength |-> strength.digest, class |-> strength.class,
     verdict |-> IF vo.sha = o.sha THEN "VERIFIED" ELSE "NOT_VERIFIED",
     at |-> vo.at]
=============================================================================
