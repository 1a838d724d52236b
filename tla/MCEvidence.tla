----------------------------- MODULE MCEvidence -----------------------------
(***************************************************************************)
(* A small instance of EvidenceChain and of ReadAssembly. The two share no *)
(* variable: a behaviour is of one of them (focus), and the other keeps    *)
(* its initial values, so that their state spaces add up.                  *)
(***************************************************************************)
EXTENDS EvidenceChain, ReadAssembly

(* ReadAssembly *)

Deployment ==
    [mode |-> "enabled", environment |-> "staging", productionEffects |-> FALSE,
     backend |-> "sqlite", runnerToken |-> "u", verifierToken |-> "g",
     runnerInstance |-> "i", verifierInstance |-> "j", installation |-> 1,
     repository |-> "R"]
MCConfigurations ==
    {Deployment, [Deployment EXCEPT !.mode = "disabled"],
     [Deployment EXCEPT !.environment = "production"]}
MCCredentials ==
    {[token |-> "g", class |-> "runner-read", kind |-> "user",
      installation |-> Missing, repository |-> Missing],
     [token |-> "u", class |-> "runner-read", kind |-> "user",
      installation |-> Missing, repository |-> "R"]}
MCProfiles ==
    {[runnerClass |-> "runner-read", verifierClass |-> "verifier-read",
      profileClass |-> "verifier-read", capsuleClass |-> "runner-read",
      environment |-> "staging", enabled |-> {"staging"},
      verifierEnabled |-> {"staging"}, supported |-> {"staging"},
      runnerInstance |-> "i", verifierInstance |-> "i", ttl |-> 60, maxTtl |-> 60,
      image |-> "settings", capsuleImage |-> "settings", effect |-> "READ_ONLY"]}
MCWirings == {[x \in Services |-> IF x = "outbox" THEN OtherDb ELSE Db]}
-----------------------------------------------------------------------------
(* EvidenceChain *)

Definition(id, effect) ==
    [id |-> id, kind |-> "git_ref", handler |-> "h", verification |-> "v",
     effect |-> effect, supported |-> {"staging"}, enabled |-> {"staging"},
     revoked |-> FALSE, production |-> FALSE]
Capsule(id) ==
    [digest |-> <<"capsule", id>>, definition |-> id, kind |-> "git_ref",
     handler |-> "h", verification |-> "v", runnerClass |-> "r",
     credentialClass |-> "runner-read", enforcement |-> "READ_THEN_COMPARE",
     image |-> "image"]
Registry(source) ==
    [definitions |-> {Definition("read", "READ_ONLY"), Definition("write", "MUTATION")},
     capsules |-> {Capsule("read"), Capsule("write")},
     activations |-> {[capsule |-> Capsule("read").digest, enabled |-> {"staging"},
                       revoked |-> FALSE, production |-> FALSE]},
     evidence |-> {[capsule |-> Capsule("read").digest, handler |-> "h",
                    runnerClass |-> "r", credentialClass |-> "runner-read",
                    enforcement |-> "READ_THEN_COMPARE", atomicContract |-> FALSE]},
     requirements |-> {[digest |-> <<"requirement", "read">>, definition |-> "read",
                        kind |-> "git_ref", binder |-> "b", observer |-> "o",
                        schema |-> "s", enforcement |-> "READ_THEN_COMPARE"]},
     binders |-> {[id |-> "b", kind |-> "git_ref", schema |-> "s", source |-> source,
                   expects |-> "sha1"]},
     observers |-> {[id |-> "o", kind |-> "git_ref", schema |-> "s", source |-> source]}]
(* The last one has two capsules for one definition and is refused. *)
MCRegistries ==
    LET r == Registry("claims")
    IN  {r, Registry("provider"),
         [r EXCEPT !.capsules = @ \cup {[Capsule("read") EXCEPT !.digest = <<"capsule", "x">>]}]}

MCBrokerPolicies ==
    {[class |-> "runner-read", provider |-> "github", definitions |-> {"read"},
      enabled |-> {"staging"}]}
MCVerifierPolicies ==
    {[class |-> "verifier-read", provider |-> "github", enabled |-> {"staging"},
      maxTtl |-> 1]}
Bootstrap(instance, image) ==
    [runnerClass |-> "r", provider |-> "github", instance |-> instance,
     environment |-> "staging", image |-> image]
MCBootstraps == {Bootstrap("i", "image"), Bootstrap("i", "other")}
(* The first runs where the runner does. *)
MCVerifiers ==
    {VerifierIdentity("v", "github", "i", "staging", "verifier-read"),
     VerifierIdentity("v", "github", "j", "staging", "verifier-read")}

MCSnapshot(execution, target) ==
    [digest |-> <<"snapshot", execution>>, execution |-> execution, at |-> 0,
     until |-> 4, terms |-> [definition |-> "read", environment |-> "staging",
                             kind |-> "git_ref", target |-> target]]

(* The documents of another operation on the same target, complete at time 0.
   Each operator makes the next ones from those before. *)
Other == <<"f", 1>>
OtherSnapshot == MCSnapshot("f", "t1")
OtherVerifier == VerifierIdentity("v", "github", "j", "staging", "verifier-read")
OtherEnd(o, vo, vb, state, strength, lease, grant) ==
    {state, strength, VerificationResult(Other, o, vo, vb, state, strength),
     [digest |-> <<"completion", Other>>, lease |-> lease, execution |-> "f",
      epoch |-> 1, of |-> o.digest],
     [digest |-> <<"receipt", Other>>, execution |-> "f", grant |-> grant,
      target |-> "t1", status |-> "NOT_EVALUATED", recorded |-> 0]}
OtherResult(o, vb, vo, lease, grant) ==
    {vo} \cup OtherEnd(o, vo, vb, ObservedPostState(Other, vo, vb),
                       VerificationStrength(Other, vo, vb), lease, grant)
OtherReadBack(o, vb, d, lease, grant) ==
    {d} \cup OtherResult(o, vb, VerifierObservation(Other, "t1", "sha1", OtherVerifier,
                                                    vb, d, 0, 0), lease, grant)
OtherVerification(o, vb, lease, grant) ==
    {o, vb} \cup OtherReadBack(o, vb, VerifierDecision(Other, OtherVerifier, vb,
        [class |-> "verifier-read", provider |-> "github"], 0, 1), lease, grant)
OtherObservation(p, o, grant) ==
    OtherVerification(o, VerificationBoundary(Other, OtherVerifier, p.runner,
                                              p.boundary, o), p.lease.digest, grant)
OtherActivation(p, a, grant) ==
    {p, a} \cup OtherObservation(p, RunnerObservation(Other, "t1", "sha1", a, 0), grant)
OtherPrepared(p, grant) == OtherActivation(p, RuntimeActivation(Other, p), grant)
OtherBoundary(b, i, l, grant) ==
    OtherPrepared(PreparedRuntime(Other, Bootstrap("i", "image"), i, b,
        AccessDecision(Other, b, l, [provider |-> "github"]), l), grant)
OtherRunner(i, l, grant) ==
    {l} \cup OtherBoundary(RunnerBoundary(Other, i, l, Capsule("read"),
                                          Definition("read", "READ_ONLY")), i, l, grant)
OtherDispatch(g, entry, envelope, a) ==
    {entry, envelope, a} \cup
    OtherRunner(RunnerIdentity(Bootstrap("i", "image")),
                LeaseDocument(Other, a, 1, 0, 1), g.digest)
OtherEnvelope(g, entry, envelope) ==
    OtherDispatch(g, entry, envelope, Admission(Other, envelope, entry))
OtherEntry(g, entry) == OtherEnvelope(g, entry, Envelope(Other, entry))
OtherConsumption(g, k) == {g, k} \cup OtherEntry(g, OutboxEntry(Other, g, k))
OtherGrant(g) ==
    OtherConsumption(g, GrantConsumption(Other, g, [digest |-> <<"conformance", Other>>], 0))
MCOtherDocuments ==
    OtherGrant(GrantDocument(Other, OtherSnapshot, [terms |-> OtherSnapshot.terms],
        [target |-> "t1", expected |-> "t1", observed |-> "t1", checked |-> 0,
         enforcement |-> "READ_THEN_COMPARE"],
        ExecutionBinding("staging", Capsule("read")), 0, 1))
MCSnapshotAtHand == MCSnapshot("e", "t1")
-----------------------------------------------------------------------------
VARIABLE focus

Init ==
    /\ focus \in {"assembly", "chain"} /\ AssemblyInit /\ ChainInit
    /\ ref = [t \in Targets |-> "sha1"]
    /\ focus = "assembly" => registry = Registry("claims")
    /\ focus = "chain" => provider = [t \in Tokens |-> [user |-> Missing, repositories |-> {}]]
Next ==
    \/ focus = "assembly" /\ AssemblyNext /\ UNCHANGED <<focus, chainVars>>
    \/ focus = "chain" /\ ChainNext /\ UNCHANGED <<focus, assemblyVars>>
Spec == Init /\ [][Next]_<<focus, chainVars, assemblyVars>>
=============================================================================
