---------------------------- MODULE ReadAssembly ----------------------------
(***************************************************************************)
(* The assembly of the default READ runtime (g8_product_activation.py,     *)
(* g8_read_runtime.py, g8_credential_pins.py, g8_assembly_guards.py) and   *)
(* the two provider reads of a terminal run: the runner's and, with a      *)
(* credential of another principal, the verifier's.                        *)
(*                                                                         *)
(* Every check of a credential asks the provider again, so each is a step  *)
(* of its own, and between any two of them the provider may answer         *)
(* differently, or a reference of the retained object graph be rebound.    *)
(*                                                                         *)
(* Objects are compared by identity in the code: a database, a clock, a    *)
(* store is a model value here. The fingerprint of a token is the token.   *)
(* Replacement of the classes and functions themselves is left out.        *)
(***************************************************************************)
EXTENDS Integers, Sequences, FiniteSets

CONSTANTS Configurations,  \* configurations a deployment may start with
          Tokens,
          AppTokens,       \* those with the shape of an installation token
          Principals,      \* users a token may belong to
          Repositories,
          Sources,         \* credential source objects
          Credentials,     \* arguments somebody creates a source with
          Profiles,        \* policies, profile and capsule of a pack
          Wirings,         \* which database each service of a pack uses
          Db,              \* the product's database
          OtherDb,
          MaxChanges,      \* bound: changes of the provider and of the graph
          MaxReads,        \* bound: provider reads
          Missing

ASSUME AssemblyAssumption ==
    /\ AppTokens \subseteq Tokens
    /\ Db # OtherDb
    /\ MaxChanges \in Nat /\ MaxReads \in Nat

VARIABLES provider,   \* what the provider answers about each token
          settings,   \* the accepted configuration
          sources,    \* the binding of each credential source
          pack,       \* the pack, then with the anchors of its build
          graph,      \* the retained runtime objects
          call,       \* the terminal run or resume in progress
          reads,      \* the effects so far
          changes     \* how much of MaxChanges is used

assemblyVars == <<provider, settings, sources, pack, graph, call, reads, changes>>

Allowed == {"local", "development", "staging"}
Kinds == {"user", "app"}
Roles == {"runner", "verifier"}
-----------------------------------------------------------------------------
(* Principals *)

(* _observe_github_credential_principal; a token the provider no longer knows
   belongs to nobody. *)
UserPrincipal(t) ==
    IF provider[t].user = Missing THEN Missing ELSE <<"user", provider[t].user>>

(* _observe_github_app_installation_principal: exactly the one repository. The
   installation is the one the issuer named. *)
AppPrincipal(t, installation, repository) ==
    IF t \in AppTokens /\ provider[t].repositories = {repository}
    THEN <<"app", installation>> ELSE Missing

Observed(c) ==
    IF c.kind = "user" THEN UserPrincipal(c.token)
    ELSE AppPrincipal(c.token, c.installation, c.repository)

(* validated_binding. The mutant trusts what was attested once. *)
AttestedOnce(b) == TRUE
Validated(b) == Observed(b) # Missing /\ Observed(b) = b.principal

(* _pin_snapshot *)
Pin(b) == [token |-> b.token, class |-> b.class, principal |-> b.principal]

Distinct(p, q) == p.token # q.token /\ p.principal # q.principal
-----------------------------------------------------------------------------
(* _load_settings. With the runtime disabled there is nothing to build. *)
Acceptable(c) ==
    /\ c.mode = "enabled"
    /\ c.environment \in Allowed
    /\ ~c.productionEffects
    /\ c.backend = "sqlite"
    /\ c.runnerToken # c.verifierToken
    /\ c.runnerInstance # c.verifierInstance

LoadSettings(c) ==
    /\ settings = Missing
    /\ Acceptable(c)
    /\ settings' = c
    /\ UNCHANGED <<provider, sources, pack, graph, call, reads, changes>>

(* The two credentials _build_runtime creates sources with. *)
Configured(c, role) ==
    IF role = "runner"
    THEN [token |-> c.runnerToken, class |-> "runner-read", kind |-> "user",
          installation |-> Missing, repository |-> Missing]
    ELSE [token |-> c.verifierToken, class |-> "verifier-read", kind |-> "app",
          installation |-> c.installation, repository |-> c.repository]

(* G8BoundGitHubReadTransport.__init__: a failed attestation leaves nothing
   behind. Other code may create sources too. *)
CreateSource(s, c) ==
    /\ settings # Missing
    /\ c \in Credentials \cup {Configured(settings, r) : r \in Roles}
    /\ sources[s] = Missing
    /\ c.kind = "user" <=> c.repository = Missing
    /\ Observed(c) # Missing
    /\ sources' = [sources EXCEPT ![s] =
                      [token |-> c.token, class |-> c.class, kind |-> c.kind,
                       installation |-> c.installation, repository |-> c.repository,
                       principal |-> Observed(c)]]
    /\ UNCHANGED <<provider, settings, pack, graph, call, reads, changes>>
-----------------------------------------------------------------------------
(* Assembly *)

(* The policies, the profile and the capsule that _build_runtime derives from
   the settings. *)
ConfiguredProfile(c) ==
    [runnerClass |-> "runner-read", verifierClass |-> "verifier-read",
     profileClass |-> "verifier-read", capsuleClass |-> "runner-read",
     environment |-> c.environment, enabled |-> {c.environment},
     verifierEnabled |-> {c.environment}, supported |-> {c.environment},
     runnerInstance |-> c.runnerInstance,
     verifierInstance |-> c.verifierInstance,
     ttl |-> 60, maxTtl |-> 60, image |-> "settings", capsuleImage |-> "settings",
     effect |-> "READ_ONLY"]

Services == {"fence", "permission", "creator", "grants", "outbox", "snapshots"}
ConfiguredWiring == [x \in Services |-> Db]

(* What sources and packs can be made of *)
AllCredentials ==
    Credentials \cup {Configured(c, r) : c \in Configurations, r \in Roles}
AllPrincipals ==
    ({"user"} \X Principals) \cup ({"app"} \X {c.installation : c \in AllCredentials})
Binding ==
    [token : {c.token : c \in AllCredentials}, class : {c.class : c \in AllCredentials},
     kind : {c.kind : c \in AllCredentials},
     installation : {c.installation : c \in AllCredentials},
     repository : {c.repository : c \in AllCredentials}, principal : AllPrincipals]
Pins == {Pin(b) : b \in Binding}
Anchors ==
    [db : {Db}, clock : {"runner"}, runner : Sources, verifier : Sources,
     runnerPin : Pins, verifierPin : Pins]
Pack ==
    [runner : Sources, verifier : Sources,
     profile : Profiles \cup {ConfiguredProfile(c) : c \in Configurations},
     wiring : Wirings \cup {ConfiguredWiring}, anchors : Anchors \cup {Missing}]

ASSUME TokenAssumption == \A c \in AllCredentials : c.token \in Tokens
ASSUME MissingAssumption == Missing \notin Binding \cup Pack

(* G8ReadRuntimePack.__post_init__ *)
BuildPack(r, v, profile, wiring) ==
    /\ pack = Missing /\ settings # Missing
    /\ r # v /\ sources[r] # Missing /\ sources[v] # Missing
    /\ Validated(sources[r]) /\ Validated(sources[v])
    /\ Distinct(sources[r], sources[v])
    /\ pack' = [runner |-> r, verifier |-> v, profile |-> profile, wiring |-> wiring,
                anchors |-> Missing]
    /\ UNCHANGED <<provider, settings, sources, graph, call, reads, changes>>

(* _G8AssemblyAnchors, taken before anything is built. *)
TakeAnchors ==
    /\ pack # Missing /\ pack.anchors = Missing
    /\ settings.environment # "production"
    /\ settings.environment = pack.profile.environment
    /\ pack.wiring["permission"] = Db /\ pack.wiring["fence"] = Db
    /\ Validated(sources[pack.runner]) /\ Validated(sources[pack.verifier])
    /\ pack' = [pack EXCEPT !.anchors =
                   [db |-> Db, clock |-> "runner",
                    runner |-> pack.runner, verifier |-> pack.verifier,
                    runnerPin |-> Pin(sources[pack.runner]),
                    verifierPin |-> Pin(sources[pack.verifier])]]
    /\ UNCHANGED <<provider, settings, sources, graph, call, reads, changes>>

(* _validate_runtime_ceiling *)
WithinCeiling(p, r, v) ==
    /\ p.effect = "READ_ONLY"
    /\ p.capsuleClass = p.runnerClass
    /\ r.class = p.runnerClass
    /\ v.class = p.verifierClass
    /\ p.profileClass = p.verifierClass
    /\ p.profileClass # p.runnerClass
    /\ p.verifierInstance # p.runnerInstance
    /\ p.ttl <= p.maxTtl
    /\ p.verifierEnabled = p.enabled
    /\ p.environment \in p.enabled
    /\ p.enabled \subseteq p.supported
    /\ "production" \notin p.enabled
    /\ p.image = p.capsuleImage

(* _G8IndependentCredentialPairTransport *)
Transport(role, r, v) ==
    [role |-> role, runner |-> r, verifier |-> v,
     runnerPin |-> Pin(sources[r]), verifierPin |-> Pin(sources[v])]

(* _assert_pair_transport_parity *)
Parity(t, u) ==
    /\ t.role = "runner" /\ u.role = "verifier"
    /\ [t EXCEPT !.role = "verifier"] = u

(* _assert_g8_transport_matches_assembly *)
MatchesAssembly(t, role) ==
    /\ t.role = role
    /\ t.runner = pack.anchors.runner /\ t.verifier = pack.anchors.verifier
    /\ t.runnerPin = pack.anchors.runnerPin /\ t.verifierPin = pack.anchors.verifierPin

(* G8ReadRuntimePack.build_runtime *)
FirstAssembly(r, v) ==
    /\ settings.environment # "production"
    /\ settings.environment = pack.profile.environment
    /\ \A x \in Services : pack.wiring[x] = Db
    /\ WithinCeiling(pack.profile, r, v)
    /\ Validated(r) /\ Validated(v)
    /\ r.kind = "user" /\ v.kind = "app"
    /\ Distinct(r, v)

(* The objects of the second assembly: one fence, shared by the adapter, the
   runner's handler and the resume service. *)
RuntimeGraph(t, u) ==
    [runner |-> t, verifier |-> u,
     fenceDb |-> Db, fenceClock |-> "runner", clock |-> "runner",
     verifierClock |-> "terminal", adapterFence |-> "runtime",
     resumeDb |-> Db, stores |-> "bound"]

(* _g8_r2_build_runtime: the first assembly, as the provider answers at this
   moment, and its comparison with the anchors. *)
BuildRuntime ==
    LET t == Transport("runner", pack.runner, pack.verifier)
        u == Transport("verifier", pack.runner, pack.verifier)
    IN  /\ pack # Missing /\ graph = Missing
        /\ pack.anchors # Missing
        /\ FirstAssembly(sources[pack.runner], sources[pack.verifier])
        /\ Parity(t, u)
        /\ MatchesAssembly(t, "runner") /\ MatchesAssembly(u, "verifier")
        /\ graph' = RuntimeGraph(t, u)
        /\ UNCHANGED <<provider, settings, sources, pack, call, reads, changes>>
-----------------------------------------------------------------------------
(* Use *)

Alternatives ==
    LET created == {s \in Sources : sources[s] # Missing}
    IN  [runner |-> {Transport("runner", r, v) : r, v \in created},
         verifier |-> {Transport("verifier", r, v) : r, v \in created},
         fenceDb |-> {OtherDb}, fenceClock |-> {"other"}, clock |-> {"other"},
         verifierClock |-> {"other"}, adapterFence |-> {"other"},
         resumeDb |-> {OtherDb}, stores |-> {"other"}]

(* A reference that other code holds to the graph is used to replace a part. *)
Rebind(field) ==
    /\ graph # Missing /\ changes < MaxChanges
    /\ \E x \in Alternatives[field] : graph' = [graph EXCEPT ![field] = x]
    /\ changes' = changes + 1
    /\ UNCHANGED <<provider, settings, sources, pack, call, reads>>

(* A token is revoked or handed to somebody else, an installation is given
   other repositories. *)
ProviderChanges(t) ==
    /\ changes < MaxChanges
    /\ \E u \in Principals \cup {Missing}, S \in SUBSET Repositories :
          /\ provider[t] # [user |-> u, repositories |-> S]
          /\ provider' = [provider EXCEPT ![t] = [user |-> u, repositories |-> S]]
    /\ changes' = changes + 1
    /\ UNCHANGED <<settings, sources, pack, graph, call, reads>>

Room == Len(reads) < MaxReads
FenceAnchored == graph.fenceDb = pack.anchors.db /\ graph.fenceClock = pack.anchors.clock

(* _G8AssemblyBoundReadTerminal.run: checks the graph, then runs on a snapshot
   of it that nobody else can reach. *)
StartRun(repository) ==
    /\ graph # Missing /\ call = Missing /\ Room
    /\ Parity(graph.runner, graph.verifier)
    /\ MatchesAssembly(graph.runner, "runner") /\ MatchesAssembly(graph.verifier, "verifier")
    /\ FenceAnchored
    /\ graph.clock = pack.anchors.clock
    /\ graph.adapterFence = "runtime" /\ graph.verifierClock = "terminal"
    /\ pack.profile.profileClass = pack.anchors.verifierPin.class
    /\ pack.profile.verifierClass = pack.anchors.verifierPin.class
    /\ pack.anchors.runnerPin.class # pack.anchors.verifierPin.class
    /\ call' = [runner |-> graph.runner, verifier |-> graph.verifier,
                role |-> "runner", repository |-> repository, step |-> "handler",
                seen |-> [x \in Roles |-> Missing], db |-> pack.anchors.db]
    /\ UNCHANGED <<provider, settings, sources, pack, graph, reads, changes>>

At(step) == call # Missing /\ call.step = step
Moves(c) == call' = c /\ UNCHANGED <<provider, settings, sources, pack, graph, changes>>
Used == IF call.role = "runner" THEN call.runner ELSE call.verifier

(* _G8AssemblyBoundRunnerReadHandler.observe_ref, on the snapshot's fence; the
   runner's decision carries the class of the runner's policy. *)
RunnerHandlerBound ==
    /\ MatchesAssembly(call.runner, "runner")
    /\ call.db = pack.anchors.db
    /\ pack.profile.runnerClass = pack.anchors.runnerPin.class

(* _G8AssemblyBoundVerifierReadHandler.observe_ref; the verifier's identity and
   decision carry the class of its profile. *)
VerifierHandlerBound ==
    /\ MatchesAssembly(call.verifier, "verifier")
    /\ pack.profile.profileClass = pack.anchors.verifierPin.class

EnterHandler ==
    /\ At("handler") /\ Room
    /\ IF call.role = "runner" THEN RunnerHandlerBound ELSE VerifierHandlerBound
    /\ Moves([call EXCEPT !.step = "runnerPin"])
    /\ UNCHANGED reads

(* _G8IndependentCredentialPairTransport.read_ref asks about both credentials,
   one after the other, *)
CheckRunnerPin ==
    LET b == sources[Used.runner] IN
    /\ At("runnerPin")
    /\ Validated(b) /\ Pin(b) = Used.runnerPin
    /\ Moves([call EXCEPT !.step = "verifierPin", !.seen["runner"] = Observed(b)])
    /\ UNCHANGED reads

CheckVerifierPin ==
    LET b == sources[Used.verifier] IN
    /\ At("verifierPin")
    /\ Validated(b) /\ Pin(b) = Used.verifierPin
    /\ Distinct(Used.runnerPin, Used.verifierPin)
    /\ Used.runnerPin.class # Used.verifierPin.class
    /\ Moves([call EXCEPT !.step = "revalidate", !.seen["verifier"] = Observed(b)])
    /\ UNCHANGED reads

(* _read_ref_with_pin: and once more about the one it is going to use. *)
Revalidate ==
    LET b == sources[IF call.role = "runner" THEN Used.runner ELSE Used.verifier]
        pin == IF call.role = "runner" THEN Used.runnerPin ELSE Used.verifierPin
    IN  /\ At("revalidate")
        /\ Validated(b) /\ Pin(b) = pin
        /\ b.kind = "app" => call.repository = b.repository
        /\ Moves([call EXCEPT !.step = "read", !.seen[call.role] = Observed(b)])
        /\ UNCHANGED reads

(* _provider_read_with_pin. After the runner's read the verifier's follows. *)
ReadRef ==
    LET b == sources[IF call.role = "runner" THEN Used.runner ELSE Used.verifier] IN
    /\ At("read")
    /\ reads' = Append(reads,
                    [role |-> call.role, token |-> b.token, class |-> b.class,
                     db |-> call.db, repository |-> call.repository,
                     seen |-> call.seen])
    /\ Moves(IF call.role = "runner" THEN [call EXCEPT !.role = "verifier", !.step = "handler"]
             ELSE Missing)

(* Any check, and the provider, may fail; the call ends. *)
CallFails ==
    /\ call # Missing
    /\ Moves(Missing)
    /\ UNCHANGED reads

(* _G8AssemblyBoundResumeService.resume *)
ResumeRead ==
    /\ graph # Missing /\ call = Missing /\ Room
    /\ graph.resumeDb = pack.anchors.db
    /\ graph.stores = "bound"
    /\ FenceAnchored
    /\ reads' = Append(reads, [role |-> "resume", db |-> graph.resumeDb,
                               fence |-> pack.anchors.db, stores |-> graph.stores])
    /\ UNCHANGED <<provider, settings, sources, pack, graph, call, changes>>
-----------------------------------------------------------------------------
AssemblyInit ==
    /\ provider \in [Tokens -> [user : Principals \cup {Missing},
                               repositories : {S \in SUBSET Repositories : Cardinality(S) <= 1}]]
    /\ settings = Missing
    /\ sources = [s \in Sources |-> Missing]
    /\ pack = Missing
    /\ graph = Missing
    /\ call = Missing
    /\ reads = <<>>
    /\ changes = 0

AssemblyNext ==
    \/ \E c \in Configurations : LoadSettings(c)
    \/ /\ settings # Missing
       /\ \E s \in Sources, c \in Credentials \cup {Configured(settings, r) : r \in Roles} :
             CreateSource(s, c)
    \/ /\ settings # Missing
       /\ \E r, v \in Sources, p \in Profiles \cup {ConfiguredProfile(settings)},
             w \in Wirings \cup {ConfiguredWiring} : BuildPack(r, v, p, w)
    \/ TakeAnchors
    \/ BuildRuntime
    \/ graph # Missing /\ \E f \in DOMAIN Alternatives : Rebind(f)
    \/ \E t \in Tokens : ProviderChanges(t)
    \/ \E r \in Repositories : StartRun(r)
    \/ EnterHandler
    \/ CheckRunnerPin
    \/ CheckVerifierPin
    \/ Revalidate
    \/ ReadRef
    \/ CallFails
    \/ ResumeRead

AssemblySpec == AssemblyInit /\ [][AssemblyNext]_assemblyVars
-----------------------------------------------------------------------------
IndependentRead(e) ==
    LET r == sources[pack.runner]
        v == sources[pack.verifier]
    IN  /\ e.db = Db
        /\ e.role = "resume" => e.fence = Db /\ e.stores = "bound"
        /\ e.role # "resume" =>
              /\ e.token = IF e.role = "runner" THEN r.token ELSE v.token
              /\ e.seen = [x \in Roles |-> IF x = "runner" THEN r.principal ELSE v.principal]
              /\ e.seen["runner"] # e.seen["verifier"]
              /\ r.token # v.token /\ r.class # v.class
        /\ e.role = "verifier" => v.token \in AppTokens /\ e.repository = v.repository

(* Whatever changes at the provider or in the retained objects between a check
   and the use of what was checked: a provider read uses the token the role was
   assembled with, on the assembled database, after the provider attested both
   credentials again as the two principals of the assembly, which are not the
   same; the verifier's stays inside the repository of its installation. A
   resume uses the stores of the assembly. (StartRun, MatchesAssembly, Validated
   and the pair transport together.) *)
ReadsAreIndependent == \A i \in 1..Len(reads) : IndependentRead(reads[i])
=============================================================================
