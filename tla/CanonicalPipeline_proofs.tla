---------------------- MODULE CanonicalPipeline_proofs ----------------------
(***************************************************************************)
(* Proofs about CanonicalPipeline, for any number of workers, executions,  *)
(* actors and commits, any clock, any durations and any number of stops,   *)
(* revocations and restarts.                                               *)
(***************************************************************************)
EXTENDS CanonicalPipeline, TLAPS

(* The rows of an execution form a chain: none is there without the one before
   it, and each agrees with the one it was made from. *)
Narrowed(g, s) ==
    /\ g.of = s
    /\ s.at <= g.issued
    /\ g.issued < g.expires
    /\ g.expires <= ApprovalUntil
    /\ g.epoch = s.epoch

GrantsAreNarrowed ==
    \A x \in Admissions :
        grants[x] # Nothing => snap[x] # Nothing /\ Narrowed(grants[x], snap[x])

ConsumedWasGranted ==
    \A x \in Admissions : consumed[x] # Nothing =>
        /\ grants[x] # Nothing
        /\ grants[x].issued <= consumed[x]
        /\ consumed[x] < grants[x].expires

AdmittedWasConsumed == \A x \in admitted : consumed[x] # Nothing

(* An execution has one lease, the one of its row, and it is of epoch 1. *)
LeaseIsOne ==
    \A x \in Admissions :
        /\ state[x].status = "NONE" => \A l \in leases : l.adm # x
        /\ state[x].status # "NONE" =>
              /\ x \in admitted
              /\ state[x].epoch = 1
              /\ CurrentLease(x) \in leases
              /\ \A l \in leases : l.adm = x => l = CurrentLease(x)

CompletionIsObserved ==
    \A x \in Admissions :
        state[x].status = "COMPLETED" <=> state[x].digest # NoDigest

ResultIsBound ==
    \A x \in Admissions : results[x] # Nothing =>
        /\ state[x].status = "COMPLETED"
        /\ state[x].epoch = results[x].epoch
        /\ state[x].digest = results[x].runner
        /\ results[x].verdict = Verdict(results[x].runner, results[x].verifier)

ToldIsStored == \A r \in told : results[r.exec] = r.result

Chain ==
    /\ GrantsAreNarrowed
    /\ ConsumedWasGranted
    /\ AdmittedWasConsumed
    /\ LeaseIsOne
    /\ CompletionIsObserved
    /\ ResultIsBound
    /\ ToldIsStored

(* Where a worker is, and what it knows there. Holding is the way from its own
   stored grant to its own lease. *)
Holding == {"stored", "enqueued", "admitted"}
Observed == {"observed", "completed", "verifying", "verified"}
Completed == {"completed", "verifying", "verified"}

Bound(m) ==
    /\ m.exec \in Admissions
    /\ m.actor \in Actors
    /\ snap[m.exec] # Nothing
    /\ snap[m.exec].actor = m.actor

KnowsPreparing(p, m) ==
    /\ p = "checked" => m.checked \in Nat
    /\ p = "issued" => m.grant \in Grant /\ Narrowed(m.grant, snap[m.exec])
    /\ p \in Holding => grants[m.exec] # Nothing
    /\ p = "stored" => consumed[m.exec] = Nothing
    /\ p = "enqueued" => m.exec \notin admitted
    /\ p = "admitted" => state[m.exec].status = "NONE"

KnowsTerminal(p, m) ==
    /\ p \in TerminalPcs => m.lease \in leases /\ m.lease.adm = m.exec
    /\ p \in Observed => m.obs \in Observation
    /\ p \in Completed => state[m.exec].status = "COMPLETED" /\ state[m.exec].digest = m.obs
    /\ p = "verifying" => m.cred \in Nat
    /\ p = "verified" => m.seen \in Observation

Knows(p, m) ==
    /\ p = "idle" => m = Blank
    /\ p \in PreparePcs => m.resumed = FALSE
    /\ p # "idle" => Bound(m)
    /\ KnowsPreparing(p, m)
    /\ KnowsTerminal(p, m)

WorkersKnow == \A w \in Workers : Knows(pc[w], mem[w])

(* One worker at most is on its way from the grant of an execution to its lease. *)
OneHolder ==
    \A v, w \in Workers :
        pc[v] \in Holding /\ pc[w] \in Holding /\ mem[v].exec = mem[w].exec => v = w

IInv == TypeOK /\ Chain /\ WorkersKnow /\ OneHolder
-----------------------------------------------------------------------------
(* A worker that has nothing in memory. *)
LEMMA BlankIsMemory == Blank \in Memory
BY DEF Blank, Memory, Maybe

(* It knows nothing, and nothing is asked of it. *)
LEMMA BlankKnows == Knows("idle", Blank)
BY DEF Knows, PreparePcs, KnowsPreparing, KnowsTerminal, Holding, TerminalPcs, Observed, Completed

(* The initial states satisfy the inductive invariant. *)
LEMMA InitIInv == Init => IInv
<1> SUFFICES ASSUME Init PROVE IInv
  OBVIOUS
<1> USE DEF Init, StoreInit, Table!Init, Table!NoState
<1>1. TypeOK
  <2>1. clock \in Nat
    BY TimesAssumption
  <2>2. state \in [Admissions -> EpochState]
    BY DEF EpochState
  <2>3. pc \in [Workers -> Pcs] /\ mem \in [Workers -> Memory]
    BY BlankIsMemory DEF Pcs
  <2>4. stop \in BOOLEAN
    OBVIOUS
  <2> QED
    BY <2>1, <2>2, <2>3, <2>4 DEF TypeOK, Maybe
<1>2. Chain
  BY DEF Chain, GrantsAreNarrowed, ConsumedWasGranted, AdmittedWasConsumed, LeaseIsOne,
         CompletionIsObserved, ResultIsBound, ToldIsStored
<1>3. WorkersKnow
  BY BlankKnows DEF WorkersKnow
<1>4. OneHolder
  BY DEF OneHolder, Holding
<1> QED
  BY <1>1, <1>2, <1>3, <1>4 DEF IInv

(* What moving on leaves of the other workers. *)
LEMMA GoesMoves ==
    ASSUME TypeOK, NEW w \in Workers, NEW from, NEW to \in Pcs, NEW m \in Memory,
           Goes(w, from, to, m)
    PROVE  /\ pc[w] = from
           /\ pc' \in [Workers -> Pcs] /\ mem' \in [Workers -> Memory]
           /\ pc'[w] = to /\ mem'[w] = m
           /\ \A v \in Workers : v # w => pc'[v] = pc[v] /\ mem'[v] = mem[v]
BY DEF Goes, TypeOK

(* The rows only ever grow, so what the other workers know stays true as long as
   nobody takes their own next step for them. *)
RowsGrow ==
    /\ \A x \in Admissions : snap[x] # Nothing => snap'[x] = snap[x]
    /\ \A x \in Admissions : grants[x] # Nothing => grants'[x] = grants[x]
    /\ leases \subseteq leases'
    /\ \A x \in Admissions : state[x].status = "COMPLETED" => state'[x] = state[x]

Undisturbed(v) ==
    /\ pc[v] = "stored" => consumed'[mem[v].exec] = consumed[mem[v].exec]
    /\ pc[v] = "enqueued" => mem[v].exec \notin admitted'
    /\ pc[v] = "admitted" => state'[mem[v].exec].status = "NONE"

(* A worker that is not disturbed still knows what it knew. *)
LEMMA OthersKnow ==
    ASSUME IInv, RowsGrow, NEW v \in Workers, Undisturbed(v),
           pc'[v] = pc[v], mem'[v] = mem[v]
    PROVE  Knows(pc[v], mem[v])'
<1> DEFINE p == pc[v]
<1> DEFINE m == mem[v]
<1>1. Knows(p, m)
  BY DEF IInv, WorkersKnow
<1>2. pc'[v] = p /\ mem'[v] = m
  OBVIOUS
<1>3. Undisturbed(v)
  OBVIOUS
<1>4. p # "idle" => m.exec \in Admissions
  BY <1>1 DEF Knows, Bound
<1>5. p # "idle" => Bound(mem[v])'
  BY <1>1, <1>2 DEF Knows, Bound, RowsGrow
<1>6. KnowsPreparing(pc[v], mem[v])'
  BY <1>1, <1>2, <1>3, <1>4 DEF Knows, Bound, KnowsPreparing, RowsGrow, Undisturbed, Holding,
       Narrowed
<1>7. KnowsTerminal(pc[v], mem[v])'
  BY <1>1, <1>2, <1>4 DEF Knows, Bound, KnowsTerminal, RowsGrow, TerminalPcs, Observed, Completed
<1> QED
  BY <1>1, <1>2, <1>5, <1>6, <1>7 DEF Knows

(* The rows that nobody writes keep their chain. *)
LEMMA ChainUntouched ==
    ASSUME IInv, UNCHANGED <<admitted, leases, state, rows, told>>
    PROVE  Chain'
BY DEF IInv, Chain, GrantsAreNarrowed, Narrowed, ConsumedWasGranted, AdmittedWasConsumed,
       LeaseIsOne, CurrentLease, CompletionIsObserved, ResultIsBound, Verdict, ToldIsStored, rows

(* A step that only changes what its worker has in memory. *)
LEMMA MemoryStep ==
    ASSUME IInv, NEW w \in Workers, NEW from, NEW to \in Pcs, NEW m \in Memory,
           Goes(w, from, to, m), to \notin Holding, Knows(to, m),
           UNCHANGED <<storeVars, authority, ref, rows, told>>
    PROVE  IInv'
<1> USE DEF IInv
<1>1. /\ pc' \in [Workers -> Pcs] /\ mem' \in [Workers -> Memory]
      /\ pc'[w] = to /\ mem'[w] = m
      /\ \A v \in Workers : v # w => pc'[v] = pc[v] /\ mem'[v] = mem[v]
  BY GoesMoves
<1>2. /\ UNCHANGED <<clock, admitted, leases, state, snap, grants, consumed, results, told>>
      /\ UNCHANGED <<permitted, changes, revEpoch, ref>>
      /\ stop' = stop
  BY DEF storeVars, authority, rows
<1>3. TypeOK'
  BY <1>1, <1>2 DEF TypeOK
<1>4. Chain'
  BY <1>2, ChainUntouched DEF rows
<1>5. Knows(pc[w], mem[w])'
  BY <1>1, <1>2 DEF Knows, Bound, KnowsPreparing, KnowsTerminal, Narrowed
<1>6. RowsGrow /\ \A v \in Workers : Undisturbed(v)
  BY <1>2 DEF RowsGrow, Undisturbed, WorkersKnow, Knows, KnowsPreparing
<1>7. \A v \in Workers : v # w => Knows(pc[v], mem[v])'
  BY <1>1, <1>6, OthersKnow
<1>8. WorkersKnow'
  BY <1>5, <1>7 DEF WorkersKnow
<1>9. OneHolder'
  BY <1>1 DEF OneHolder
<1> QED
  BY <1>3, <1>4, <1>8, <1>9

(* The end of a call, and what happens around the workers. *)
LEMMA FailStep ==
    ASSUME IInv, NEW w \in Workers, Fail(w)
    PROVE  IInv'
<1>1. "idle" \in Pcs /\ "idle" \notin Holding
  BY DEF Pcs, Holding
<1>2. /\ Goes(w, pc[w], "idle", Blank)
      /\ UNCHANGED <<storeVars, authority, ref, rows, told>>
  BY DEF Fail
<1> QED
  BY <1>1, <1>2, BlankIsMemory, BlankKnows, MemoryStep, Zenon

(* An operator, a push or the clock changes no row and no worker. *)
LEMMA SurroundingsStep ==
    ASSUME IInv, OperatorChange \/ RefMoves \/ TimePasses \/ UNCHANGED vars
    PROVE  IInv'
<1> USE DEF IInv
<1>1. UNCHANGED <<admitted, leases, state, snap, grants, consumed, results, pc, mem, told>>
  BY DEF OperatorChange, RefMoves, TimePasses, ClockMoves, storeVars, rows, vars
<1>2. clock' \in Nat /\ changes' \in Nat /\ revEpoch' \in Nat /\ ref' \in Shas
  <2>1. clock' = clock \/ clock' \in Times
    BY DEF OperatorChange, RefMoves, TimePasses, ClockMoves, storeVars, vars
  <2>2. changes' = changes \/ changes' = changes + 1
    BY DEF OperatorChange, RefMoves, TimePasses, authority, vars
  <2>3. revEpoch' = revEpoch /\ (ref' = ref \/ ref' \in Shas)
    BY DEF OperatorChange, RefMoves, TimePasses, authority, vars
  <2>4. clock \in Nat /\ changes \in Nat /\ revEpoch \in Nat /\ ref \in Shas
    BY DEF TypeOK
  <2>5. clock' \in Nat
    BY <2>1, <2>4, TimesAssumption
  <2>6. changes' \in Nat
    BY <2>2, <2>4
  <2> QED
    BY <2>3, <2>4, <2>5, <2>6
<1>3. permitted' \subseteq Actors
  BY DEF OperatorChange, RefMoves, TimePasses, authority, vars, TypeOK
<1>4. stop' \in BOOLEAN
  <2>1. stop' = stop \/ stop' = ~stop
    BY Zenon DEF OperatorChange, RefMoves, TimePasses, authority, vars
  <2> QED
    BY <2>1, Zenon DEF TypeOK
<1>5. TypeOK'
  BY <1>1, <1>2, <1>3, <1>4 DEF TypeOK
<1>6. Chain'
  BY <1>1, ChainUntouched DEF rows
<1>7. RowsGrow /\ \A v \in Workers : Undisturbed(v)
  BY <1>1 DEF RowsGrow, Undisturbed, WorkersKnow, Knows, KnowsPreparing
<1>8. WorkersKnow'
  BY <1>1, <1>7, OthersKnow DEF WorkersKnow
<1>9. OneHolder'
  BY <1>1 DEF OneHolder
<1> QED
  BY <1>5, <1>6, <1>8, <1>9

(* A restart leaves the rows and forgets the workers. *)
LEMMA RestartStep ==
    ASSUME IInv, Restart
    PROVE  IInv'
<1> USE DEF IInv
<1>1. /\ UNCHANGED <<clock, admitted, leases, state, snap, grants, consumed, results, told>>
      /\ UNCHANGED <<permitted, changes, ref>>
      /\ stop' = stop
      /\ revEpoch' = revEpoch + 1
      /\ pc' = [w \in Workers |-> "idle"]
      /\ mem' = [w \in Workers |-> Blank]
  BY DEF Restart, storeVars, rows
<1>2. pc' \in [Workers -> Pcs] /\ mem' \in [Workers -> Memory]
  BY <1>1, BlankIsMemory DEF Pcs
<1>3. TypeOK'
  BY <1>1, <1>2 DEF TypeOK
<1>4. Chain'
  BY <1>1, ChainUntouched DEF rows
<1>5. WorkersKnow'
  <2>1. \A w \in Workers : pc'[w] = "idle" /\ mem'[w] = Blank
    BY <1>1
  <2> QED
    BY <2>1 DEF WorkersKnow, Knows, PreparePcs, KnowsPreparing, KnowsTerminal, Holding,
                TerminalPcs, Observed, Completed, Blank
<1>6. OneHolder'
  BY <1>1 DEF OneHolder, Holding
<1> QED
  BY <1>3, <1>4, <1>5, <1>6

(* The steps of prepare, resume and the READ terminal that only read. *)
LEMMA PrepareReads ==
    ASSUME IInv, NEW w \in Workers, CheckPrecondition(w) \/ IssueGrant(w)
    PROVE  IInv'
<1> USE DEF IInv
<1>1. mem[w] \in Memory /\ Knows(pc[w], mem[w])
  BY DEF TypeOK, WorkersKnow
<1>2. "checked" \in Pcs \ Holding /\ "issued" \in Pcs \ Holding
  BY DEF Pcs, PreparePcs, Holding
<1>3. CASE CheckPrecondition(w)
  <2> DEFINE m == [mem[w] EXCEPT !.checked = clock]
  <2>1. /\ pc[w] = "authorized"
        /\ Goes(w, "authorized", "checked", m)
        /\ UNCHANGED <<storeVars, authority, ref, rows, told>>
    BY <1>3 DEF CheckPrecondition, Goes
  <2>2. m \in Memory
    BY <1>1 DEF TypeOK, Memory, Maybe
  <2>3. /\ m.exec = mem[w].exec /\ m.actor = mem[w].actor /\ m.resumed = mem[w].resumed
        /\ m.checked \in Nat
    BY <1>1 DEF TypeOK, Memory
  <2> HIDE DEF m
  <2>4. Knows("checked", m)
    BY <1>1, <2>1, <2>3 DEF Knows, Bound, PreparePcs, KnowsPreparing, KnowsTerminal, Holding,
                            TerminalPcs, Observed, Completed
  <2> QED
    BY <1>2, <2>1, <2>2, <2>4, MemoryStep
<1>4. CASE IssueGrant(w)
  <2> DEFINE x == mem[w].exec
  <2> DEFINE g == [issued |-> clock, epoch |-> revEpoch, expires |-> GrantValidity(clock),
                   of |-> snap[x]]
  <2> DEFINE m == [mem[w] EXCEPT !.checked = Nothing, !.grant = g]
  <2>1. /\ pc[w] = "checked"
        /\ Goes(w, "checked", "issued", m)
        /\ UNCHANGED <<storeVars, authority, ref, rows, told>>
    BY <1>4 DEF IssueGrant, Goes, Exec
  <2>2. /\ snap[x].at <= clock
        /\ clock < ApprovalUntil
        /\ revEpoch = snap[x].epoch
    BY <1>4 DEF IssueGrant, MayIssueAt, LiveAtIssuer, Exec
  <2>3. Bound(mem[w])
    BY <1>1, <2>1 DEF Knows
  <2>4. snap[x] \in Snapshot /\ clock \in Nat /\ revEpoch \in Nat
    BY <2>3 DEF Bound, TypeOK, Maybe
  <2>5. /\ GrantValidity(clock) \in Nat
        /\ clock < GrantValidity(clock)
        /\ GrantValidity(clock) <= ApprovalUntil
    BY <2>2, <2>4, PipelineAssumption DEF GrantValidity, Earlier
  <2>6. g \in Grant /\ Narrowed(g, snap[x])
    BY <2>2, <2>4, <2>5 DEF Grant, Narrowed
  <2> HIDE DEF g
  <2>7. m \in Memory
    BY <1>1, <2>6 DEF Memory, Maybe
  <2>8. /\ m.exec = x /\ m.actor = mem[w].actor /\ m.resumed = mem[w].resumed
        /\ m.grant = g
    BY <1>1 DEF Memory
  <2> HIDE DEF m, x
  <2>9. mem[w].resumed = FALSE
    BY <1>1, <2>1 DEF Knows, PreparePcs
  <2>10. Bound(m)
    BY <2>3, <2>8 DEF Bound, x
  <2>11. Knows("issued", m)
    BY <2>6, <2>8, <2>9, <2>10 DEF Knows, KnowsPreparing, KnowsTerminal, Holding,
                                   TerminalPcs, Observed, Completed
  <2> QED
    BY <1>2, <2>1, <2>7, <2>11, MemoryStep
<1> QED
  BY <1>3, <1>4

(* A resumed call writes nothing: it is bound to the snapshot and takes the lease there is. *)
LEMMA ResumeReads ==
    ASSUME IInv, NEW w \in Workers,
           (\E u \in Actors, x \in Admissions : ResumeAuthorize(w, u, x)) \/ ResumeLoad(w)
    PROVE  IInv'
<1> USE DEF IInv
<1>1. mem[w] \in Memory /\ Knows(pc[w], mem[w])
  BY DEF TypeOK, WorkersKnow
<1>2. "resuming" \in Pcs \ Holding /\ "leased" \in Pcs \ Holding
  BY DEF Pcs, TerminalPcs, Holding
<1>3. ASSUME NEW u \in Actors, NEW x \in Admissions, ResumeAuthorize(w, u, x)
      PROVE  IInv'
  <2> DEFINE m == [Blank EXCEPT !.exec = x, !.actor = u, !.resumed = TRUE]
  <2>1. /\ Goes(w, "idle", "resuming", m)
        /\ snap[x] # Nothing
        /\ snap[x].actor = u
        /\ UNCHANGED <<storeVars, authority, ref, rows, told>>
    BY <1>3 DEF ResumeAuthorize
  <2>2. m \in Memory
    BY DEF Blank, Memory, Maybe
  <2>3. m.exec = x /\ m.actor = u
    BY DEF Blank
  <2> HIDE DEF m
  <2>4. Knows("resuming", m)
    BY <2>1, <2>3 DEF Knows, Bound, PreparePcs, KnowsPreparing, KnowsTerminal, Holding,
                      TerminalPcs, Observed, Completed
  <2> QED
    BY <1>2, <2>1, <2>2, <2>4, MemoryStep
<1>4. CASE ResumeLoad(w)
  <2> DEFINE x == mem[w].exec
  <2> DEFINE l == CurrentLease(x)
  <2> DEFINE m == [mem[w] EXCEPT !.lease = l]
  <2>1. /\ pc[w] = "resuming"
        /\ Goes(w, "resuming", "leased", m)
        /\ l \in leases
        /\ UNCHANGED <<storeVars, authority, ref, rows, told>>
    BY <1>4 DEF ResumeLoad, Goes, Exec, IsCurrent
  <2>2. l \in Lease /\ l.adm = x
    BY <2>1 DEF TypeOK, CurrentLease
  <2> HIDE DEF l
  <2>3. m \in Memory
    BY <1>1, <2>2 DEF Memory, Maybe
  <2>4. m.exec = x /\ m.actor = mem[w].actor /\ m.lease = l
    BY <1>1 DEF Memory
  <2>5. Bound(mem[w])
    BY <1>1, <2>1 DEF Knows
  <2> HIDE DEF m
  <2>6. Knows("leased", m)
    BY <2>1, <2>2, <2>4, <2>5 DEF Knows, Bound, PreparePcs, KnowsPreparing, KnowsTerminal,
                                  Holding, TerminalPcs, Observed, Completed
  <2> QED
    BY <1>2, <2>1, <2>3, <2>6, MemoryStep
<1> QED
  BY <1>3, <1>4

(* In the terminal a worker keeps its execution, its actor and its lease. *)
Carries(m, n) == n.exec = m.exec /\ n.actor = m.actor /\ n.lease = m.lease

(* So it still knows its lease, whatever it learns on its way. *)
LEMMA TerminalKnows ==
    ASSUME NEW p \in TerminalPcs, NEW m, Knows(p, m),
           NEW q \in TerminalPcs, NEW n, Carries(m, n),
           q \in Observed => n.obs \in Observation,
           q \in Completed => state[m.exec].status = "COMPLETED" /\ state[m.exec].digest = n.obs,
           q = "verifying" => n.cred \in Nat,
           q = "verified" => n.seen \in Observation
    PROVE  Knows(q, n) /\ q \in Pcs /\ q \notin Holding
<1>1. Bound(m) /\ m.lease \in leases /\ m.lease.adm = m.exec
  BY DEF Knows, KnowsTerminal, TerminalPcs
<1>2. Bound(n) /\ n.lease \in leases /\ n.lease.adm = n.exec /\ n.exec = m.exec
  BY <1>1 DEF Carries, Bound
<1>3. q \notin PreparePcs \cup Holding \cup {"idle", "checked", "issued"}
  BY DEF PreparePcs, Holding, TerminalPcs
<1> QED
  BY <1>2, <1>3 DEF Knows, KnowsPreparing, KnowsTerminal, Pcs, Holding

(* The steps of the terminal that learn nothing of the provider. *)
LEMMA TerminalReadsAnytime ==
    ASSUME IInv, NEW w \in Workers, ActivateRunner(w) \/ CheckFence(w) \/ DecideVerifier(w)
    PROVE  IInv'
<1> USE DEF IInv
<1>1. mem[w] \in Memory /\ Knows(pc[w], mem[w])
  BY DEF TypeOK, WorkersKnow
<1>2. UNCHANGED <<storeVars, authority, ref, rows, told>>
  BY DEF ActivateRunner, CheckFence, DecideVerifier
<1>3. CASE ActivateRunner(w) \/ CheckFence(w)
  <2>1. PICK q \in {"active", "fenced"} :
           pc[w] \in TerminalPcs /\ Goes(w, pc[w], q, mem[w])
    BY <1>3 DEF ActivateRunner, CheckFence, Goes, TerminalPcs
  <2>2. Knows(q, mem[w]) /\ q \in Pcs /\ q \notin Holding
    BY <1>1, <2>1, TerminalKnows DEF Carries, TerminalPcs, Observed, Completed
  <2> QED
    BY <1>1, <1>2, <2>1, <2>2, MemoryStep
<1>4. CASE DecideVerifier(w)
  <2> DEFINE m == [mem[w] EXCEPT !.cred = clock]
  <2>1. pc[w] = "completed" /\ Goes(w, "completed", "verifying", m)
    BY <1>4 DEF DecideVerifier, Goes
  <2>2. clock \in Nat
    BY DEF TypeOK
  <2>3. m \in Memory /\ Carries(mem[w], m) /\ m.obs = mem[w].obs /\ m.cred \in Nat
    BY <1>1, <2>2 DEF Memory, Maybe, Carries
  <2>4. /\ mem[w].obs \in Observation
        /\ state[mem[w].exec].status = "COMPLETED" /\ state[mem[w].exec].digest = mem[w].obs
    BY <1>1, <2>1 DEF Knows, KnowsTerminal, Observed, Completed
  <2> HIDE DEF m
  <2>5. Knows("verifying", m) /\ "verifying" \in Pcs /\ "verifying" \notin Holding
    BY <1>1, <2>1, <2>3, <2>4, TerminalKnows DEF TerminalPcs
  <2> QED
    BY <1>2, <2>1, <2>3, <2>5, MemoryStep
<1> QED
  BY <1>3, <1>4

(* The observations of the runner and of the verifier. *)
LEMMA TerminalReads ==
    ASSUME IInv, NEW w \in Workers, NEW t \in Times, ObserveRef(w, t) \/ VerifierObserve(w, t)
    PROVE  IInv'
<1> USE DEF IInv
<1> DEFINE o == [sha |-> ref, at |-> t]
<1>1. mem[w] \in Memory /\ Knows(pc[w], mem[w])
  BY DEF TypeOK, WorkersKnow
<1>2. UNCHANGED <<storeVars, authority, ref, rows, told>>
  BY DEF ObserveRef, VerifierObserve
<1>3. o \in Observation
  <2>1. t \in Nat /\ ref \in Shas
    BY TimesAssumption DEF TypeOK
  <2> QED
    BY <2>1 DEF Observation
<1>4. CASE ObserveRef(w, t)
  <2> DEFINE m == [mem[w] EXCEPT !.obs = o]
  <2>1. pc[w] = "fenced" /\ Goes(w, "fenced", "observed", m)
    BY <1>4 DEF ObserveRef, Goes
  <2> HIDE DEF o
  <2>2. m \in Memory /\ Carries(mem[w], m) /\ m.obs = o
    BY <1>1, <1>3 DEF Memory, Maybe, Carries
  <2> HIDE DEF m
  <2>3. Knows("observed", m) /\ "observed" \in Pcs /\ "observed" \notin Holding
    BY <1>1, <1>3, <2>1, <2>2, TerminalKnows DEF TerminalPcs, Completed
  <2> QED
    BY <1>2, <2>1, <2>2, <2>3, MemoryStep
<1>5. CASE VerifierObserve(w, t)
  <2> DEFINE m == [mem[w] EXCEPT !.cred = Nothing, !.seen = o]
  <2>1. pc[w] = "verifying" /\ Goes(w, "verifying", "verified", m)
    BY <1>5 DEF VerifierObserve, Goes
  <2> HIDE DEF o
  <2>2. m \in Memory /\ Carries(mem[w], m) /\ m.obs = mem[w].obs /\ m.seen = o
    BY <1>1, <1>3 DEF Memory, Maybe, Carries
  <2>3. /\ mem[w].obs \in Observation
        /\ state[mem[w].exec].status = "COMPLETED" /\ state[mem[w].exec].digest = mem[w].obs
    BY <1>1, <2>1 DEF Knows, KnowsTerminal, Observed, Completed
  <2> HIDE DEF m
  <2>4. Knows("verified", m) /\ "verified" \in Pcs /\ "verified" \notin Holding
    BY <1>1, <1>3, <2>1, <2>2, <2>3, TerminalKnows DEF TerminalPcs
  <2> QED
    BY <1>2, <2>1, <2>2, <2>4, MemoryStep
<1> QED
  BY <1>4, <1>5
-----------------------------------------------------------------------------
(* A step that writes a row: the others must not be disturbed, and a worker that
   gets to hold an execution must be the only one. *)
LEMMA RowStep ==
    ASSUME IInv, NEW w \in Workers,
           \A v \in Workers : v # w => pc'[v] = pc[v] /\ mem'[v] = mem[v],
           RowsGrow, \A v \in Workers : v # w => Undisturbed(v),
           Knows(pc[w], mem[w])',
           pc'[w] \in Holding =>
               \A v \in Workers : v # w /\ pc[v] \in Holding => mem[v].exec # mem'[w].exec
    PROVE  WorkersKnow' /\ OneHolder'
<1>1. \A v \in Workers : v # w => Knows(pc[v], mem[v])'
  BY OthersKnow
<1>2. WorkersKnow'
  BY <1>1 DEF WorkersKnow
<1>3. OneHolder'
  BY DEF OneHolder, IInv
<1> QED
  BY <1>2, <1>3

(* The snapshot: a new one has no row after it yet. *)
LEMMA SnapshotStep ==
    ASSUME IInv, NEW w \in Workers, NEW u \in Actors, NEW x \in Admissions,
           CreateSnapshot(w, u, x)
    PROVE  IInv'
<1> USE DEF IInv
<1> DEFINE m == [Blank EXCEPT !.exec = x, !.actor = u]
<1> DEFINE s == [actor |-> u, at |-> clock, epoch |-> revEpoch]
<1>1. /\ Goes(w, "idle", "authorized", m)
      /\ \/ snap[x] = Nothing /\ snap' = [snap EXCEPT ![x] = s]
         \/ snap[x] # Nothing /\ snap[x].actor = u /\ snap' = snap
      /\ UNCHANGED <<clock, admitted, leases, state, grants, consumed, results, told>>
      /\ UNCHANGED <<permitted, changes, revEpoch, ref>>
      /\ stop' = stop
  BY DEF CreateSnapshot, storeVars, authority
<1>2. m \in Memory
  BY DEF Blank, Memory, Maybe
<1>3. m.exec = x /\ m.actor = u /\ m.resumed = FALSE
  BY DEF Blank
<1>4. s \in Snapshot /\ s # Nothing /\ s.actor = u
  BY AbsentAssumption DEF Snapshot, TypeOK
<1> HIDE DEF m, s
<1>5. "authorized" \in Pcs /\ "authorized" \notin Holding
  BY DEF Pcs, PreparePcs, Holding
<1>6. /\ pc' \in [Workers -> Pcs] /\ mem' \in [Workers -> Memory]
      /\ pc'[w] = "authorized" /\ mem'[w] = m
      /\ \A v \in Workers : v # w => pc'[v] = pc[v] /\ mem'[v] = mem[v]
  BY <1>1, <1>2, <1>5, GoesMoves
<1>7. /\ snap' \in [Admissions -> Maybe(Snapshot)]
      /\ snap'[x] # Nothing /\ snap'[x].actor = u
      /\ \A y \in Admissions : snap[y] # Nothing => snap'[y] = snap[y]
  BY <1>1, <1>4 DEF TypeOK, Maybe
<1>8. TypeOK'
  BY <1>1, <1>6, <1>7 DEF TypeOK
<1>9. Chain'
  BY <1>1, <1>7 DEF Chain, GrantsAreNarrowed, Narrowed, ConsumedWasGranted, AdmittedWasConsumed,
       LeaseIsOne, CurrentLease, CompletionIsObserved, ResultIsBound, Verdict, ToldIsStored
<1>10. RowsGrow /\ \A v \in Workers : Undisturbed(v)
  BY <1>1, <1>7 DEF RowsGrow, Undisturbed, WorkersKnow, Knows, KnowsPreparing
<1>11. Knows(pc[w], mem[w])'
  BY <1>3, <1>6, <1>7 DEF Knows, Bound, KnowsPreparing, KnowsTerminal, Holding, TerminalPcs,
       Observed, Completed
<1> QED
  BY <1>5, <1>6, <1>8, <1>9, <1>10, <1>11, RowStep

(* The grant is stored by the first to come; nobody holds the execution before. *)
LEMMA StoreGrantStep ==
    ASSUME IInv, NEW w \in Workers, StoreGrant(w)
    PROVE  IInv'
<1> USE DEF IInv
<1> DEFINE x == mem[w].exec
<1> DEFINE g == mem[w].grant
<1> DEFINE m == [mem[w] EXCEPT !.grant = Nothing]
<1>1. mem[w] \in Memory /\ Knows(pc[w], mem[w])
  BY DEF TypeOK, WorkersKnow
<1>2. /\ Goes(w, "issued", "stored", m)
      /\ pc[w] = "issued"
      /\ grants[x] = Nothing
      /\ grants' = [grants EXCEPT ![x] = g]
      /\ UNCHANGED <<clock, admitted, leases, state, snap, consumed, results, told>>
      /\ UNCHANGED <<permitted, changes, revEpoch, ref>>
      /\ stop' = stop
  BY DEF StoreGrant, Goes, Exec, storeVars, authority
<1>3. Bound(mem[w]) /\ g \in Grant /\ Narrowed(g, snap[x])
  BY <1>1, <1>2 DEF Knows, KnowsPreparing
<1>4. x \in Admissions /\ snap[x] # Nothing /\ g # Nothing
  BY <1>3, AbsentAssumption DEF Bound
<1>5. m \in Memory
  BY <1>1 DEF Memory, Maybe
<1>6. m.exec = x /\ m.actor = mem[w].actor /\ m.resumed = mem[w].resumed
  BY <1>1 DEF Memory
<1>7. mem[w].resumed = FALSE
  BY <1>1, <1>2 DEF Knows, PreparePcs
<1> HIDE DEF m, g, x
<1>8. "stored" \in Pcs /\ "stored" \in Holding
  BY DEF Pcs, PreparePcs, Holding
<1>9. /\ pc' \in [Workers -> Pcs] /\ mem' \in [Workers -> Memory]
      /\ pc'[w] = "stored" /\ mem'[w] = m
      /\ \A v \in Workers : v # w => pc'[v] = pc[v] /\ mem'[v] = mem[v]
  BY <1>2, <1>5, <1>8, GoesMoves
<1>10. /\ grants' \in [Admissions -> Maybe(Grant)]
       /\ grants'[x] = g
       /\ \A y \in Admissions : y # x => grants'[y] = grants[y]
  BY <1>2, <1>3, <1>4 DEF TypeOK, Maybe
<1>11. TypeOK'
  BY <1>2, <1>9, <1>10 DEF TypeOK
<1>12. consumed[x] = Nothing
  BY <1>2, <1>4 DEF Chain, ConsumedWasGranted
<1>13. Chain'
  <2>1. GrantsAreNarrowed'
    BY <1>2, <1>3, <1>4, <1>10 DEF Chain, GrantsAreNarrowed, Narrowed
  <2>2. ConsumedWasGranted'
    BY <1>2, <1>10, <1>12 DEF Chain, ConsumedWasGranted
  <2> QED
    BY <1>2, <2>1, <2>2 DEF Chain, AdmittedWasConsumed,
       LeaseIsOne, CurrentLease, CompletionIsObserved, ResultIsBound, Verdict, ToldIsStored
<1>14. RowsGrow /\ \A v \in Workers : Undisturbed(v)
  BY <1>2, <1>10 DEF RowsGrow, Undisturbed, WorkersKnow, Knows, KnowsPreparing
<1>15. Knows(pc[w], mem[w])'
  <2>1. Bound(mem[w])'
    BY <1>2, <1>3, <1>6, <1>9 DEF Bound, x
  <2>2. KnowsPreparing(pc[w], mem[w])'
    BY <1>2, <1>4, <1>6, <1>9, <1>10, <1>12 DEF KnowsPreparing
  <2>3. mem'[w].resumed = FALSE
    BY <1>6, <1>7, <1>9
  <2> QED
    BY <1>9, <2>1, <2>2, <2>3 DEF Knows, KnowsTerminal, TerminalPcs, Observed, Completed
<1>16. \A v \in Workers : pc[v] \in Holding => mem[v].exec # x
  BY <1>2 DEF WorkersKnow, Knows, KnowsPreparing
<1> QED
  BY <1>6, <1>9, <1>11, <1>13, <1>14, <1>15, <1>16, RowStep

(* A holder moves on: the execution stays its own. *)
LEMMA HolderMoves ==
    ASSUME IInv, NEW w \in Workers, pc[w] \in Holding, NEW to \in Holding,
           Goes(w, pc[w], to, mem[w])
    PROVE  /\ pc' \in [Workers -> Pcs] /\ mem' \in [Workers -> Memory]
           /\ pc'[w] = to /\ mem'[w] = mem[w]
           /\ \A v \in Workers : v # w => pc'[v] = pc[v] /\ mem'[v] = mem[v]
           /\ mem[w].exec \in Admissions
           /\ Bound(mem[w])
           /\ mem[w].resumed = FALSE
           /\ grants[mem[w].exec] # Nothing
           /\ \A v \in Workers : v # w /\ pc[v] \in Holding => mem[v].exec # mem[w].exec
<1>1. Knows(pc[w], mem[w]) /\ mem[w] \in Memory /\ TypeOK
  BY DEF IInv, WorkersKnow, TypeOK
<1>2. to \in Pcs /\ pc[w] \in PreparePcs /\ pc[w] # "idle"
  BY DEF Holding, Pcs, PreparePcs
<1>3. /\ pc' \in [Workers -> Pcs] /\ mem' \in [Workers -> Memory]
      /\ pc'[w] = to /\ mem'[w] = mem[w]
      /\ \A v \in Workers : v # w => pc'[v] = pc[v] /\ mem'[v] = mem[v]
  BY <1>1, <1>2, GoesMoves
<1>4. mem[w].resumed = FALSE /\ Bound(mem[w]) /\ grants[mem[w].exec] # Nothing
  BY <1>1, <1>2 DEF Knows, KnowsPreparing
<1>5. \A v \in Workers : v # w /\ pc[v] \in Holding => mem[v].exec # mem[w].exec
  BY DEF IInv, OneHolder
<1> QED
  BY <1>3, <1>4, <1>5 DEF Bound

(* The grant is consumed by the worker that stored it, inside its window. *)
LEMMA ConsumeStep ==
    ASSUME IInv, NEW w \in Workers, ConsumeAndEnqueue(w)
    PROVE  IInv'
<1> USE DEF IInv
<1> DEFINE x == mem[w].exec
<1>1. /\ pc[w] = "stored" /\ Goes(w, pc[w], "enqueued", mem[w])
      /\ consumed[x] = Nothing
      /\ consumed' = [consumed EXCEPT ![x] = clock]
      /\ grants[x].issued <= clock /\ clock < grants[x].expires
      /\ UNCHANGED <<clock, admitted, leases, state, snap, grants, results, told>>
      /\ UNCHANGED <<permitted, changes, revEpoch, ref>>
      /\ stop' = stop
  BY DEF ConsumeAndEnqueue, Goes, Exec, LiveForGrant, storeVars, authority
<1>2. "stored" \in Holding /\ "enqueued" \in Holding
  BY DEF Holding
<1>3. /\ pc' \in [Workers -> Pcs] /\ mem' \in [Workers -> Memory]
      /\ pc'[w] = "enqueued" /\ mem'[w] = mem[w]
      /\ \A v \in Workers : v # w => pc'[v] = pc[v] /\ mem'[v] = mem[v]
      /\ x \in Admissions
      /\ Bound(mem[w])
      /\ mem[w].resumed = FALSE
      /\ grants[x] # Nothing
      /\ \A v \in Workers : v # w /\ pc[v] \in Holding => mem[v].exec # x
  BY <1>1, <1>2, HolderMoves
<1> HIDE DEF x
<1>4. clock \in Nat /\ clock # Nothing
  BY AbsentAssumption DEF TypeOK
<1>5. /\ consumed' \in [Admissions -> Maybe(Nat)]
      /\ consumed'[x] = clock
      /\ \A y \in Admissions : y # x => consumed'[y] = consumed[y]
  BY <1>1, <1>3, <1>4 DEF TypeOK, Maybe
<1>6. TypeOK'
  BY <1>1, <1>3, <1>5 DEF TypeOK
<1>7. x \notin admitted
  BY <1>1 DEF Chain, AdmittedWasConsumed
<1>8. Chain'
  <2>1. ConsumedWasGranted'
    BY <1>1, <1>3, <1>5 DEF Chain, ConsumedWasGranted
  <2>2. AdmittedWasConsumed'
    BY <1>1, <1>5, <1>7 DEF Chain, AdmittedWasConsumed, TypeOK
  <2> QED
    BY <1>1, <2>1, <2>2 DEF Chain, GrantsAreNarrowed, Narrowed,
       LeaseIsOne, CurrentLease, CompletionIsObserved, ResultIsBound, Verdict, ToldIsStored
<1>9. RowsGrow
  BY <1>1 DEF RowsGrow
<1>10. \A v \in Workers : v # w => Undisturbed(v)
  BY <1>1, <1>3, <1>5 DEF Undisturbed, WorkersKnow, Knows, Bound, KnowsPreparing, Holding
<1>11. Knows(pc[w], mem[w])'
  <2>1. Bound(mem[w])'
    BY <1>1, <1>3 DEF Bound
  <2>2. KnowsPreparing(pc[w], mem[w])'
    BY <1>1, <1>3, <1>7 DEF KnowsPreparing, x
  <2> QED
    BY <1>3, <2>1, <2>2 DEF Knows, KnowsTerminal, TerminalPcs, Observed, Completed
<1>12. mem'[w].exec = x
  BY <1>3 DEF x
<1> QED
  BY <1>3, <1>6, <1>8, <1>9, <1>10, <1>11, <1>12, RowStep

(* The inbox admits what was consumed; its execution has no lease yet. *)
LEMMA AdmitStep ==
    ASSUME IInv, NEW w \in Workers, AdmitDispatch(w)
    PROVE  IInv'
<1> USE DEF IInv
<1> DEFINE x == mem[w].exec
<1>1. /\ pc[w] = "enqueued" /\ Goes(w, pc[w], "admitted", mem[w])
      /\ consumed[x] # Nothing
      /\ admitted' = admitted \cup {x}
      /\ UNCHANGED <<clock, leases, state, snap, grants, consumed, results, told>>
      /\ UNCHANGED <<permitted, changes, revEpoch, ref>>
      /\ stop' = stop
  BY DEF AdmitDispatch, Goes, Exec, rows, authority
<1>2. "enqueued" \in Holding /\ "admitted" \in Holding
  BY DEF Holding
<1>3. /\ pc' \in [Workers -> Pcs] /\ mem' \in [Workers -> Memory]
      /\ pc'[w] = "admitted" /\ mem'[w] = mem[w]
      /\ \A v \in Workers : v # w => pc'[v] = pc[v] /\ mem'[v] = mem[v]
      /\ x \in Admissions
      /\ Bound(mem[w])
      /\ mem[w].resumed = FALSE
      /\ grants[x] # Nothing
      /\ \A v \in Workers : v # w /\ pc[v] \in Holding => mem[v].exec # x
  BY <1>1, <1>2, HolderMoves
<1>4. x \notin admitted
  BY <1>1 DEF WorkersKnow, Knows, KnowsPreparing
<1> HIDE DEF x
<1>5. state[x].status = "NONE"
  BY <1>3, <1>4 DEF Chain, LeaseIsOne
<1>6. TypeOK'
  BY <1>1, <1>3 DEF TypeOK
<1>7. Chain'
  <2>1. AdmittedWasConsumed'
    BY <1>1 DEF Chain, AdmittedWasConsumed
  <2>2. LeaseIsOne'
    BY <1>1 DEF Chain, LeaseIsOne, CurrentLease
  <2> QED
    BY <1>1, <2>1, <2>2 DEF Chain, GrantsAreNarrowed, Narrowed, ConsumedWasGranted,
       CompletionIsObserved, ResultIsBound, Verdict, ToldIsStored
<1>8. RowsGrow
  BY <1>1 DEF RowsGrow
<1>9. \A v \in Workers : v # w => Undisturbed(v)
  BY <1>1, <1>3 DEF Undisturbed, WorkersKnow, Knows, KnowsPreparing, Holding
<1>10. Knows(pc[w], mem[w])'
  <2>1. Bound(mem[w])'
    BY <1>1, <1>3 DEF Bound
  <2>2. KnowsPreparing(pc[w], mem[w])'
    BY <1>1, <1>3, <1>5 DEF KnowsPreparing, x
  <2> QED
    BY <1>3, <2>1, <2>2 DEF Knows, KnowsTerminal, TerminalPcs, Observed, Completed
<1>11. mem'[w].exec = x
  BY <1>3 DEF x
<1> QED
  BY <1>3, <1>6, <1>7, <1>8, <1>9, <1>10, <1>11, RowStep

(* The one lease. The worker that acquires it is the holder, so there was none. *)
LEMMA AcquireStep ==
    ASSUME IInv, NEW w \in Workers, AcquireLease(w)
    PROVE  IInv'
<1> USE DEF IInv
<1> DEFINE x == mem[w].exec
<1> DEFINE l == [adm |-> x, epoch |-> 1, acquired |-> clock, expires |-> clock + LeaseSeconds]
<1> DEFINE s == [status |-> "ACTIVE", epoch |-> 1, acquired |-> clock,
                 expires |-> clock + LeaseSeconds, digest |-> NoDigest, completed |-> 0]
<1> DEFINE m == [mem[w] EXCEPT !.lease = l]
<1>1. pc[w] = "admitted"
  BY DEF AcquireLease, Goes
<1>2. mem[w] \in Memory /\ Knows(pc[w], mem[w])
  BY DEF TypeOK, WorkersKnow
<1>3. /\ state[x].status = "NONE" /\ Bound(mem[w]) /\ x \in Admissions
      /\ mem[w].resumed = FALSE
  BY <1>1, <1>2 DEF Knows, Bound, KnowsPreparing, PreparePcs
<1>4. CandidateLease(x, NextEpoch(x), clock) = l
  BY <1>3 DEF CandidateLease, NextEpoch
<1>5. /\ Goes(w, "admitted", "leased", m)
      /\ x \in admitted
      /\ leases' = leases \cup {l}
      /\ state' = [state EXCEPT ![x] = s]
      /\ UNCHANGED <<clock, admitted, snap, grants, consumed, results, told>>
      /\ UNCHANGED <<permitted, changes, revEpoch, ref>>
      /\ stop' = stop
  BY <1>4 DEF AcquireLease, Acquire, MayAcquire, Exec, rows, authority
<1>6. clock + LeaseSeconds \in Nat /\ clock \in Nat
  BY LeaseSecondsAssumption DEF TypeOK
<1>7. /\ l \in Lease /\ l.adm = x
      /\ s \in EpochState /\ s.status = "ACTIVE" /\ s.digest = NoDigest /\ s.epoch = 1
      /\ l = [adm |-> x, epoch |-> s.epoch, acquired |-> s.acquired, expires |-> s.expires]
  BY <1>3, <1>6 DEF Lease, EpochState
<1> HIDE DEF l, s
<1>8. m \in Memory /\ m.exec = x /\ m.actor = mem[w].actor /\ m.lease = l
  BY <1>2, <1>7 DEF Memory, Maybe
<1> HIDE DEF m, x
<1>9. "leased" \in Pcs /\ "leased" \notin Holding
  BY DEF Pcs, TerminalPcs, Holding
<1>10. /\ pc' \in [Workers -> Pcs] /\ mem' \in [Workers -> Memory]
       /\ pc'[w] = "leased" /\ mem'[w] = m
       /\ \A v \in Workers : v # w => pc'[v] = pc[v] /\ mem'[v] = mem[v]
  BY <1>5, <1>8, <1>9, GoesMoves
<1>11. /\ state' \in [Admissions -> EpochState]
       /\ state'[x] = s
       /\ \A y \in Admissions : y # x => state'[y] = state[y]
  BY <1>3, <1>5, <1>7 DEF TypeOK
<1>12. TypeOK'
  BY <1>5, <1>7, <1>10, <1>11 DEF TypeOK
<1>13. Chain'
  <2>1. \A y \in Admissions : y # x => CurrentLease(y)' = CurrentLease(y)
    BY <1>11 DEF CurrentLease
  <2>2. LeaseIsOne'
    <3> SUFFICES ASSUME NEW y \in Admissions
                 PROVE  /\ state'[y].status = "NONE" => \A k \in leases' : k.adm # y
                        /\ state'[y].status # "NONE" =>
                              /\ y \in admitted'
                              /\ state'[y].epoch = 1
                              /\ CurrentLease(y)' \in leases'
                              /\ \A k \in leases' : k.adm = y => k = CurrentLease(y)'
      BY DEF LeaseIsOne
    <3>1. CASE y = x
      <4>1. \A k \in leases : k.adm # x
        BY <1>3 DEF Chain, LeaseIsOne
      <4>2. state'[y].status = "ACTIVE" /\ state'[y].epoch = 1
        BY <1>7, <1>11, <3>1
      <4>3. y \in admitted' /\ leases' = leases \cup {l} /\ CurrentLease(y)' = l
        <5>1. x \in admitted /\ admitted' = admitted /\ leases' = leases \cup {l}
          BY <1>5
        <5>2. CurrentLease(y)' = l
          BY <1>7, <1>11, <3>1 DEF CurrentLease
        <5>3. y \in admitted'
          BY <3>1, <5>1
        <5> QED
          BY <5>1, <5>2, <5>3
      <4>4. \A k \in leases' : k.adm = y => k = l
        BY <3>1, <4>1, <4>3
      <4> QED
        BY <4>2, <4>3, <4>4
    <3>2. CASE y # x
      BY <1>5, <1>7, <1>11, <2>1, <3>2 DEF Chain, LeaseIsOne
    <3> QED
      BY <3>1, <3>2
  <2>3. CompletionIsObserved'
    BY <1>7, <1>11 DEF Chain, CompletionIsObserved
  <2>4. results[x] = Nothing
    BY <1>3 DEF Chain, ResultIsBound
  <2>5. ResultIsBound'
    BY <1>5, <1>11, <2>4 DEF Chain, ResultIsBound, Verdict
  <2> QED
    BY <1>5, <2>2, <2>3, <2>5 DEF Chain, GrantsAreNarrowed, Narrowed, ConsumedWasGranted,
       AdmittedWasConsumed, ToldIsStored
<1>14. RowsGrow
  BY <1>3, <1>5, <1>11 DEF RowsGrow
<1>15. \A v \in Workers : v # w => Undisturbed(v)
  <2>1. \A v \in Workers : v # w /\ pc[v] \in Holding => mem[v].exec # x
    BY <1>1 DEF OneHolder, Holding, x
  <2> QED
    BY <1>5, <1>11, <2>1 DEF Undisturbed, WorkersKnow, Knows, Bound, KnowsPreparing, Holding
<1>16. Knows(pc[w], mem[w])'
  <2>1. Bound(mem[w])'
    BY <1>3, <1>5, <1>8, <1>10 DEF Bound, x
  <2>2. KnowsTerminal(pc[w], mem[w])'
    BY <1>5, <1>7, <1>8, <1>10 DEF KnowsTerminal, Observed, Completed
  <2> QED
    BY <1>10, <2>1, <2>2 DEF Knows, KnowsPreparing, Holding, PreparePcs
<1> QED
  BY <1>9, <1>10, <1>12, <1>13, <1>14, <1>15, <1>16, RowStep

(* The completion: the lease is the one of the execution, which is not completed,
   or it is completed with this very observation. *)
LEMMA CompleteStep ==
    ASSUME IInv, NEW w \in Workers, CompleteExecution(w)
    PROVE  IInv'
<1> USE DEF IInv
<1> DEFINE x == mem[w].exec
<1> DEFINE o == mem[w].obs
<1>1. mem[w] \in Memory /\ Knows(pc[w], mem[w])
  BY DEF TypeOK, WorkersKnow
<1>2. /\ pc[w] = "observed" /\ Goes(w, "observed", "completed", mem[w])
      /\ Complete(mem[w].lease, o) \/ DuplicateCompletion(mem[w].lease, o)
      /\ UNCHANGED <<authority, ref, rows, told>>
  BY DEF CompleteExecution, Goes
<1>3. Bound(mem[w]) /\ x \in Admissions /\ mem[w].lease \in leases /\ mem[w].lease.adm = x
      /\ o \in Observation
  BY <1>1, <1>2 DEF Knows, Bound, KnowsTerminal, TerminalPcs, Observed
<1>4. "completed" \in Pcs /\ "completed" \notin Holding /\ "completed" \in TerminalPcs
      /\ "observed" \in TerminalPcs
  BY DEF Pcs, TerminalPcs, Holding
<1>5. CASE DuplicateCompletion(mem[w].lease, o)
  <2>1. state[x].status = "COMPLETED" /\ state[x].digest = o /\ UNCHANGED storeVars
    BY <1>3, <1>5 DEF DuplicateCompletion
  <2>2. Knows("completed", mem[w])
    BY <1>1, <1>2, <1>3, <1>4, <2>1, TerminalKnows DEF Carries
  <2> QED
    BY <1>1, <1>2, <1>4, <2>1, <2>2, MemoryStep
<1>6. CASE Complete(mem[w].lease, o)
  <2> DEFINE s == [state[x] EXCEPT !.status = "COMPLETED", !.digest = o, !.completed = clock]
  <2>1. /\ state[x].status = "ACTIVE"
        /\ state' = [state EXCEPT ![x].status = "COMPLETED", ![x].digest = o,
                                  ![x].completed = clock]
        /\ UNCHANGED <<clock, admitted, leases>>
    BY <1>3, <1>6 DEF Complete, MayComplete
  <2>2. UNCHANGED <<snap, grants, consumed, results, told, permitted, changes, revEpoch, ref>>
        /\ stop' = stop
    BY <1>2 DEF rows, authority
  <2>3. state[x] \in EpochState /\ clock \in Nat
    BY <1>3 DEF TypeOK
  <2>4. /\ s \in EpochState /\ s.status = "COMPLETED" /\ s.digest = o
        /\ s.epoch = state[x].epoch /\ s.acquired = state[x].acquired
        /\ s.expires = state[x].expires
    BY <1>3, <2>3 DEF EpochState
  <2>5. state' = [state EXCEPT ![x] = s]
    BY <1>3, <2>1 DEF TypeOK
  <2> HIDE DEF s, o, x
  <2>6. /\ state' \in [Admissions -> EpochState]
        /\ state'[x] = s
        /\ \A y \in Admissions : y # x => state'[y] = state[y]
    BY <1>3, <2>4, <2>5 DEF TypeOK
  <2>7. /\ pc' \in [Workers -> Pcs] /\ mem' \in [Workers -> Memory]
        /\ pc'[w] = "completed" /\ mem'[w] = mem[w]
        /\ \A v \in Workers : v # w => pc'[v] = pc[v] /\ mem'[v] = mem[v]
    BY <1>1, <1>2, <1>4, GoesMoves
  <2>8. TypeOK'
    BY <2>1, <2>2, <2>6, <2>7 DEF TypeOK
  <2>9. o # NoDigest
    BY <1>3, AbsentAssumption
  <2>10. Chain'
    <3>1. \A y \in Admissions : CurrentLease(y)' = CurrentLease(y)
      BY <2>4, <2>6 DEF CurrentLease
    <3>2. \A y \in Admissions : /\ state'[y].status = "NONE" <=> state[y].status = "NONE"
                                /\ state'[y].epoch = state[y].epoch
      BY <2>1, <2>4, <2>6
    <3>3. LeaseIsOne'
      BY <2>1, <3>1, <3>2 DEF Chain, LeaseIsOne
    <3>4. CompletionIsObserved'
      BY <2>4, <2>6, <2>9 DEF Chain, CompletionIsObserved
    <3>5. results[x] = Nothing
      BY <1>3, <2>1 DEF Chain, ResultIsBound
    <3>6. ResultIsBound'
      BY <2>2, <2>6, <3>5 DEF Chain, ResultIsBound, Verdict
    <3> QED
      BY <2>1, <2>2, <3>3, <3>4, <3>6 DEF Chain, GrantsAreNarrowed, Narrowed,
         ConsumedWasGranted, AdmittedWasConsumed, ToldIsStored
  <2>11. RowsGrow
    BY <2>1, <2>2, <2>6 DEF RowsGrow
  <2>12. \A v \in Workers : v # w => Undisturbed(v)
    BY <2>1, <2>2, <2>6 DEF Undisturbed, WorkersKnow, Knows, Bound, KnowsPreparing, Holding
  <2>13. Knows(pc[w], mem[w])'
    <3>1. Bound(mem[w])'
      BY <1>3, <2>2, <2>7 DEF Bound
    <3>2. KnowsTerminal(pc[w], mem[w])'
      BY <1>3, <2>1, <2>4, <2>6, <2>7 DEF KnowsTerminal, x, o
    <3> QED
      BY <2>7, <3>1, <3>2 DEF Knows, KnowsPreparing, Holding, PreparePcs
  <2> QED
    BY <1>4, <2>7, <2>8, <2>10, <2>11, <2>12, <2>13, RowStep
<1> QED
  BY <1>2, <1>5, <1>6

(* The result: the first is bound to the completion, every later one is equal. *)
LEMMA ResultStep ==
    ASSUME IInv, NEW w \in Workers, StoreResult(w)
    PROVE  IInv'
<1> USE DEF IInv
<1> DEFINE x == mem[w].exec
<1> DEFINE r == ResultOf(w)
<1>1. mem[w] \in Memory /\ Knows(pc[w], mem[w])
  BY DEF TypeOK, WorkersKnow
<1>2. /\ pc[w] = "verified" /\ Goes(w, "verified", "idle", Blank)
      /\ \/ results[x] = Nothing /\ ResultBound(x, r) /\ results' = [results EXCEPT ![x] = r]
         \/ results[x] = r /\ results' = results
      /\ told' = told \cup {[exec |-> x, result |-> r]}
      /\ UNCHANGED <<clock, admitted, leases, state, snap, grants, consumed>>
      /\ UNCHANGED <<permitted, changes, revEpoch, ref>>
      /\ stop' = stop
  BY DEF StoreResult, Goes, Exec, storeVars, authority
<1>3. /\ x \in Admissions
      /\ mem[w].lease \in Lease
      /\ mem[w].obs \in Observation /\ mem[w].seen \in Observation
  BY <1>1, <1>2 DEF Knows, Bound, KnowsTerminal, TerminalPcs, Observed, TypeOK
<1>4. mem[w].lease.epoch \in Nat
  BY <1>3 DEF Lease
<1>5. Verdict(mem[w].obs, mem[w].seen) \in {"VERIFIED", "NOT_VERIFIED"}
  BY DEF Verdict
<1>6. r \in Result /\ r # Nothing /\ r.verdict = Verdict(r.runner, r.verifier)
  BY <1>3, <1>4, <1>5, AbsentAssumption DEF ResultOf, Result
<1> HIDE DEF r, x
<1>7. "idle" \in Pcs /\ "idle" \notin Holding
  BY DEF Pcs, Holding
<1>8. /\ pc' \in [Workers -> Pcs] /\ mem' \in [Workers -> Memory]
      /\ pc'[w] = "idle" /\ mem'[w] = Blank
      /\ \A v \in Workers : v # w => pc'[v] = pc[v] /\ mem'[v] = mem[v]
  BY <1>2, <1>7, BlankIsMemory, GoesMoves
<1>9. /\ results' \in [Admissions -> Maybe(Result)]
      /\ results'[x] = r
      /\ \A y \in Admissions : y # x => results'[y] = results[y]
      /\ \A y \in Admissions : results[y] # Nothing => results'[y] = results[y]
  BY <1>2, <1>3, <1>6 DEF TypeOK, Maybe
<1>10. [exec |-> x, result |-> r] \in [exec : Admissions, result : Result]
  BY <1>3, <1>6
<1>11. TypeOK'
  BY <1>2, <1>8, <1>9, <1>10 DEF TypeOK
<1>12. Chain'
  <2>1. ResultIsBound'
    <3> SUFFICES ASSUME NEW y \in Admissions, results'[y] # Nothing
                 PROVE  /\ state'[y].status = "COMPLETED"
                        /\ state'[y].epoch = results'[y].epoch
                        /\ state'[y].digest = results'[y].runner
                        /\ results'[y].verdict = Verdict(results'[y].runner, results'[y].verifier)
      BY DEF ResultIsBound, Verdict
    <3>1. CASE results[y] # Nothing
      BY <1>2, <1>9, <3>1 DEF Chain, ResultIsBound
    <3>2. CASE results[y] = Nothing
      <4>1. y = x
        BY <1>9, <3>2
      <4>2. ResultBound(x, r)
        BY <1>2, <1>6, <3>2, <4>1
      <4> QED
        BY <1>2, <1>6, <1>9, <4>1, <4>2 DEF ResultBound
    <3> QED
      BY <3>1, <3>2
  <2>2. ToldIsStored'
    <3>1. \A q \in told : q.exec \in Admissions /\ q.result # Nothing
      BY AbsentAssumption DEF TypeOK
    <3> QED
      BY <1>2, <1>9, <3>1 DEF Chain, ToldIsStored
  <2> QED
    BY <1>2, <2>1, <2>2 DEF Chain, GrantsAreNarrowed, Narrowed, ConsumedWasGranted,
       AdmittedWasConsumed, LeaseIsOne, CurrentLease, CompletionIsObserved
<1>13. RowsGrow /\ \A v \in Workers : Undisturbed(v)
  BY <1>2 DEF RowsGrow, Undisturbed, WorkersKnow, Knows, KnowsPreparing
<1>14. Knows(pc[w], mem[w])'
  BY <1>8 DEF Knows, PreparePcs, KnowsPreparing, KnowsTerminal, Holding, TerminalPcs,
              Observed, Completed
<1> QED
  BY <1>7, <1>8, <1>11, <1>12, <1>13, <1>14, RowStep
-----------------------------------------------------------------------------
(* Every step preserves the inductive invariant. *)
LEMMA NextIInv == IInv /\ [Next]_vars => IInv'
<1> SUFFICES ASSUME IInv, [Next]_vars PROVE IInv'
  OBVIOUS
<1>1. ASSUME NEW w \in Workers, Prepare(w) PROVE IInv'
  BY <1>1, SnapshotStep, PrepareReads, StoreGrantStep, ConsumeStep, AdmitStep, AcquireStep
     DEF Prepare
<1>2. ASSUME NEW w \in Workers, Resume(w) PROVE IInv'
  BY <1>2, ResumeReads DEF Resume
<1>3. ASSUME NEW w \in Workers, ReadTerminal(w) PROVE IInv'
  <2>1. CASE ActivateRunner(w) \/ CheckFence(w) \/ DecideVerifier(w)
    BY <2>1, TerminalReadsAnytime
  <2>2. CASE \E t \in Times : ObserveRef(w, t) \/ VerifierObserve(w, t)
    BY <2>2, TerminalReads
  <2> QED
    BY <1>3, <2>1, <2>2, CompleteStep, ResultStep DEF ReadTerminal
<1>4. ASSUME NEW w \in Workers, Fail(w) PROVE IInv'
  BY <1>4, FailStep
<1>5. CASE OperatorChange \/ RefMoves \/ TimePasses \/ UNCHANGED vars
  BY <1>5, SurroundingsStep
<1>6. CASE Restart
  BY <1>6, RestartStep
<1> QED
  BY <1>1, <1>2, <1>3, <1>4, <1>5, <1>6 DEF Next
-----------------------------------------------------------------------------
(* The inductive invariant holds in every reachable state. *)
THEOREM Invariance == Spec => []IInv
<1>1. IInv /\ [Next]_vars => IInv'
  BY NextIInv
<1> QED
  BY <1>1, InitIInv, PTL DEF Spec

(* The rows of the store and the memory of every worker of the pipeline have their
   types in every reachable state. *)
THEOREM TypeCorrect == Spec => []TypeOK
BY Invariance, PTL DEF IInv

(* Authority only narrows from the approval over the snapshot and the grant to the
   consumption, and all of it is of one revocation epoch (authoritative_grant.py,
   grant_consumption.py). *)
THEOREM AuthorityIsNarrow == Spec => []AuthorityNarrows
<1>1. IInv => AuthorityNarrows
  BY DEF IInv, Chain, GrantsAreNarrowed, Narrowed, ConsumedWasGranted, AuthorityNarrows
<1> QED
  BY <1>1, Invariance, PTL

(* An execution is leased once, whatever is retried or resumed. *)
THEOREM LeaseIsSingle == Spec => []OneLeasePerExecution
<1>1. IInv => OneLeasePerExecution
  <2> SUFFICES ASSUME IInv, NEW l \in leases, NEW m \in leases, l.adm = m.adm
               PROVE  l = m /\ l.epoch = 1
    BY DEF OneLeasePerExecution
  <2> DEFINE x == l.adm
  <2>1. x \in Admissions /\ m.adm = x
    BY DEF IInv, TypeOK, Lease
  <2>2. state[x].status # "NONE"
    BY <2>1 DEF IInv, Chain, LeaseIsOne
  <2>3. l = CurrentLease(x) /\ m = CurrentLease(x) /\ state[x].epoch = 1
    BY <2>1, <2>2 DEF IInv, Chain, LeaseIsOne
  <2> QED
    BY <2>3 DEF CurrentLease
<1> QED
  BY <1>1, Invariance, PTL

(* Every caller was given the stored verification result, and it is about the
   observation the execution was completed with (verification_result_store.py). *)
THEOREM ResultsAreOne == Spec => []ResultsAgree
<1>1. IInv => ResultsAgree
  <2> SUFFICES ASSUME IInv, NEW r \in told
               PROVE  /\ results[r.exec] = r.result
                      /\ state[r.exec].status = "COMPLETED"
                      /\ state[r.exec].digest = r.result.runner
    BY DEF ResultsAgree
  <2>1. r.exec \in Admissions /\ r.result # Nothing
    BY AbsentAssumption DEF IInv, TypeOK
  <2>2. results[r.exec] = r.result
    BY DEF IInv, Chain, ToldIsStored
  <2> QED
    BY <2>1, <2>2 DEF IInv, Chain, ResultIsBound
<1> QED
  BY <1>1, Invariance, PTL

(* Four things in a row, none without the one before it. *)
LEMMA InARow ==
    ASSUME NEW A \in BOOLEAN, NEW B \in BOOLEAN, NEW C \in BOOLEAN, NEW D \in BOOLEAN,
           B => A, C => B, D => C
    PROVE  \A i, j \in 1..4 : i < j /\ <<A, B, C, D>>[j] => <<A, B, C, D>>[i]
<1> DEFINE p == <<A, B, C, D>>
<1>1. p[1] = A /\ p[2] = B /\ p[3] = C /\ p[4] = D
  OBVIOUS
<1> HIDE DEF p
<1> SUFFICES ASSUME NEW i \in 1..4, NEW j \in 1..4, i < j, p[j]
             PROVE  p[i]
  BY DEF p
<1>2. CASE j = 2
  <2>1. i = 1
    BY <1>2
  <2> QED
    BY <1>1, <1>2, <2>1
<1>3. CASE j = 3
  <2>1. i = 1 \/ i = 2
    BY <1>3
  <2> QED
    BY <1>1, <1>3, <2>1
<1>4. CASE j = 4
  <2>1. i = 1 \/ i = 2 \/ i = 3
    BY <1>4
  <2> QED
    BY <1>1, <1>4, <2>1
<1>5. j = 2 \/ j = 3 \/ j = 4
  OBVIOUS
<1> QED
  BY <1>2, <1>3, <1>4, <1>5

(* The passport of every snapshot projects, in whatever state a failure left the
   execution, and it says VERIFIED of a verified execution only
   (operation_passport.py). *)
THEOREM PassportIsSound == Spec => []PassportProjects
<1>1. ASSUME IInv, NEW x \in Admissions PROVE LineageHolds(x)
  <2>1. state[x].status # "NONE" => HasLease(x)
    BY <1>1 DEF IInv, Chain, LeaseIsOne, HasLease
  <2>2. ParentChain(x)
    <3>1. /\ consumed[x] # Nothing => grants[x] # Nothing
          /\ x \in admitted => consumed[x] # Nothing
          /\ HasLease(x) => x \in admitted
      BY <1>1 DEF IInv, Chain, ConsumedWasGranted, AdmittedWasConsumed, LeaseIsOne, HasLease
    <3>2. HasLease(x) \in BOOLEAN
      BY DEF HasLease
    <3> QED
      BY <3>1, <3>2, InARow DEF ParentChain
  <2> QED
    BY <1>1, <2>1, <2>2 DEF IInv, Chain, GrantsAreNarrowed, Narrowed, ResultIsBound, LineageHolds
<1>2. ASSUME IInv, NEW x \in Admissions, PassportVerdict(x) = "VERIFIED"
      PROVE  /\ LifecycleStage(x) = "EXECUTION_COMPLETED"
             /\ results[x] # Nothing
             /\ results[x].verifier.sha = state[x].digest.sha
  <2>1. results[x] # Nothing /\ results[x].verdict = "VERIFIED"
    BY <1>2 DEF PassportVerdict
  <2>2. /\ state[x].status = "COMPLETED"
        /\ state[x].digest = results[x].runner
        /\ Verdict(results[x].runner, results[x].verifier) = "VERIFIED"
    BY <1>2, <2>1 DEF IInv, Chain, ResultIsBound
  <2>3. LifecycleStage(x) = "EXECUTION_COMPLETED"
    <3>1. x \in admitted /\ consumed[x] # Nothing /\ grants[x] # Nothing
      BY <1>2, <2>2 DEF IInv, Chain, ConsumedWasGranted, AdmittedWasConsumed, LeaseIsOne
    <3> QED
      BY <2>2, <3>1 DEF LifecycleStage
  <2> QED
    BY <2>1, <2>2, <2>3 DEF Verdict
<1>3. IInv => PassportProjects
  <2> SUFFICES ASSUME IInv, NEW x \in Admissions
               PROVE  /\ ~Passport(x).error
                      /\ Passport(x).verdict = "VERIFIED" =>
                            /\ Passport(x).stage = "EXECUTION_COMPLETED"
                            /\ results[x] # Nothing
                            /\ results[x].verifier.sha = state[x].digest.sha
    BY DEF PassportProjects
  <2>1. ~Passport(x).error
    <3>1. Passport(x).error = ~LineageHolds(x)
      BY Zenon DEF Passport
    <3>2. LineageHolds(x)
      BY <1>1
    <3> QED
      BY <3>1, <3>2, Zenon
  <2>2. Passport(x).verdict = PassportVerdict(x) /\ Passport(x).stage = LifecycleStage(x)
    BY Zenon DEF Passport
  <2> QED
    BY <1>2, <2>1, <2>2
<1> QED
  BY <1>3, Invariance, PTL

(* Dispatch needs authority that is alive at that instant: the consumption looks at
   the stop, the permission, the epoch and the window itself (grant_consumption.py). *)
THEOREM DispatchIsLive == Spec => DispatchNeedsLiveAuthority
<1>1. ASSUME IInv, [Next]_vars
      PROVE  [\A x \in Admissions : consumed'[x] # consumed[x] =>
                  /\ ~stop
                  /\ snap[x].actor \in permitted
                  /\ snap[x].epoch = revEpoch
                  /\ clock < ApprovalUntil]_vars
  <2> SUFFICES ASSUME NEW x \in Admissions, consumed'[x] # consumed[x]
               PROVE  /\ ~stop
                      /\ snap[x].actor \in permitted
                      /\ snap[x].epoch = revEpoch
                      /\ clock < ApprovalUntil
    OBVIOUS
  <2>1. PICK w \in Workers : ConsumeAndEnqueue(w)
    BY <1>1 DEF Next, vars, rows, Prepare, Resume, ReadTerminal, CreateSnapshot,
       CheckPrecondition, IssueGrant, StoreGrant, AdmitDispatch, AcquireLease, ResumeAuthorize,
       ResumeLoad, ActivateRunner, CheckFence, ObserveRef, VerifierObserve, CompleteExecution,
       DecideVerifier, StoreResult, Fail, OperatorChange, Restart, RefMoves, TimePasses
  <2>2. /\ pc[w] = "stored"
        /\ LiveForGrant(grants[mem[w].exec], mem[w].actor)
        /\ consumed' = [consumed EXCEPT ![mem[w].exec] = clock]
    BY <2>1 DEF ConsumeAndEnqueue, Goes, Exec
  <2>3. mem[w].exec = x
    BY <1>1, <2>2 DEF IInv, TypeOK
  <2>4. snap[x].actor = mem[w].actor /\ grants[x] # Nothing
    BY <1>1, <2>2, <2>3 DEF IInv, WorkersKnow, Knows, Bound, KnowsPreparing, Holding
  <2>5. Narrowed(grants[x], snap[x])
    BY <1>1, <2>4 DEF IInv, Chain, GrantsAreNarrowed
  <2>6. grants[x] \in Grant /\ clock \in Nat /\ ApprovalUntil \in Nat
    BY <1>1, <2>4, PipelineAssumption DEF IInv, TypeOK, Maybe
  <2>7. grants[x].expires \in Nat
    BY <2>6 DEF Grant
  <2>8. /\ ~stop
        /\ mem[w].actor \in permitted
        /\ revEpoch = grants[x].epoch
        /\ clock < grants[x].expires
    BY <2>2, <2>3 DEF LiveForGrant
  <2> QED
    BY <2>4, <2>5, <2>6, <2>7, <2>8 DEF Narrowed
<1> QED
  BY <1>1, Invariance, PTL DEF Spec, DispatchNeedsLiveAuthority

(* A step of a resumed call creates no authority: a resumed worker is never on the
   way of preparation (canonical_operation_resume.py). *)
THEOREM ResumeIsPassive == Spec => ResumeMintsNothing
<1>1. ASSUME IInv, [Next]_vars
      PROVE  [\A w \in Workers : mem[w].resumed /\ pc'[w] # pc[w] =>
                  UNCHANGED <<snap, grants, consumed, admitted, leases>>]_vars
  <2> SUFFICES ASSUME NEW w \in Workers, mem[w].resumed, pc'[w] # pc[w]
               PROVE  UNCHANGED <<snap, grants, consumed, admitted, leases>>
    OBVIOUS
  <2>1. pc[w] # "idle" /\ pc[w] \notin PreparePcs
    BY <1>1 DEF IInv, WorkersKnow, Knows, Blank
  <2>2. ASSUME NEW v \in Workers, NEW from, NEW to, NEW m, Goes(v, from, to, m)
        PROVE  v = w /\ from = pc[w]
    BY <1>1, <2>2 DEF Goes, IInv, TypeOK
  <2>3. ASSUME NEW v \in Workers, Prepare(v) PROVE FALSE
    BY <2>1, <2>2, <2>3 DEF Prepare, CreateSnapshot, CheckPrecondition, IssueGrant, StoreGrant,
       ConsumeAndEnqueue, AdmitDispatch, AcquireLease, PreparePcs
  <2>4. ASSUME NEW v \in Workers, Resume(v) \/ ReadTerminal(v) \/ Fail(v)
        PROVE  UNCHANGED <<snap, grants, consumed, admitted, leases>>
    BY <2>4 DEF Resume, ReadTerminal, Fail, ResumeAuthorize, ResumeLoad, ActivateRunner,
       CheckFence, ObserveRef, VerifierObserve, CompleteExecution, Complete,
       DuplicateCompletion, DecideVerifier, StoreResult, storeVars, rows
  <2>5. CASE OperatorChange \/ Restart \/ RefMoves \/ TimePasses \/ UNCHANGED vars
    BY <2>5 DEF OperatorChange, Restart, RefMoves, TimePasses, ClockMoves, vars, storeVars, rows
  <2> QED
    BY <1>1, <2>3, <2>4, <2>5 DEF Next
<1> QED
  BY <1>1, Invariance, PTL DEF Spec, ResumeMintsNothing
-----------------------------------------------------------------------------
(* The refinement of OneTimeExecution. The chain leaves exactly one case of Stage. *)
StagesAreTold ==
    \A x \in Admissions :
        /\ results[x] # Nothing => Stage(x) = 7
        /\ results[x] = Nothing /\ state[x].status = "COMPLETED" => Stage(x) = 6
        /\ state[x].status = "ACTIVE" => Stage(x) = 5
        /\ state[x].status = "NONE" /\ x \in admitted => Stage(x) = 4
        /\ x \notin admitted /\ consumed[x] # Nothing => Stage(x) = 3
        /\ consumed[x] = Nothing /\ grants[x] # Nothing => Stage(x) = 2
        /\ grants[x] = Nothing /\ snap[x] # Nothing => Stage(x) = 1
        /\ snap[x] = Nothing => Stage(x) = 0

(* Each guard of Stage excludes the others in a chain of rows. *)
LEMMA ChainTellsStages == Chain => StagesAreTold
<1> SUFFICES ASSUME Chain PROVE StagesAreTold
  OBVIOUS
<1>1. \A x \in Admissions :
         /\ grants[x] # Nothing => snap[x] # Nothing
         /\ consumed[x] # Nothing => grants[x] # Nothing
         /\ x \in admitted => consumed[x] # Nothing
         /\ state[x].status # "NONE" => x \in admitted
         /\ results[x] # Nothing => state[x].status = "COMPLETED"
  BY DEF Chain, GrantsAreNarrowed, ConsumedWasGranted, AdmittedWasConsumed, LeaseIsOne,
     ResultIsBound
<1> QED
  BY <1>1 DEF StagesAreTold, Stage

(* The same, after a step. *)
LEMMA ChainWillTell == Chain' => StagesAreTold'
BY ChainTellsStages, PTL

(* An execution that no row of was written stays where it is. *)
RowsSame(x) ==
    /\ snap'[x] = snap[x] /\ grants'[x] = grants[x] /\ consumed'[x] = consumed[x]
    /\ results'[x] = results[x] /\ state'[x] = state[x]
    /\ x \in admitted' <=> x \in admitted

(* Stage is a function of the rows of its execution alone. *)
LEMMA StageStays ==
    ASSUME NEW x \in Admissions, RowsSame(x)
    PROVE  Stage(x)' = Stage(x)
BY DEF Stage, RowsSame

Owner(x) == IF snap[x] = Nothing THEN Nothing ELSE snap[x].actor

(* A step that writes the next row of one execution is a step of OneTimeExecution. *)
LEMMA RowAdvances ==
    ASSUME NEW x \in Admissions, NEW n \in 0..6, Stage(x) = n, Stage(x)' = n + 1,
           \A y \in Admissions : y # x => RowsSame(y),
           Owner(x)' # Owner(x) => n = 0 /\ Owner(x)' \in Actors,
           state'[x].digest # state[x].digest => n = 5,
           results'[x] # results[x] => n = 6
    PROVE  OneTime!Next
<1> DEFINE F == [y \in Admissions |-> Stage(y)]
<1> DEFINE O == [y \in Admissions |-> IF snap[y] = Nothing THEN Nothing ELSE snap[y].actor]
<1> DEFINE D == [y \in Admissions |-> state[y].digest]
<1> DEFINE V == [y \in Admissions |-> results[y]]
<1>1. F' = [F EXCEPT ![x] = @ + 1] /\ F[x] = n /\ F'[x] = n + 1
  <2>1. \A y \in Admissions : y # x => Stage(y)' = Stage(y)
    BY StageStays
  <2> QED
    BY <2>1
<1>2. \A y \in Admissions :
         /\ O'[y] # O[y] => y = x /\ n = 0 /\ O'[x] \in Actors
         /\ D'[y] # D[y] => y = x /\ n = 5
         /\ V'[y] # V[y] => y = x /\ n = 6
  BY DEF Owner, RowsSame
<1> HIDE DEF F, O, D, V
<1>3. /\ Len(OneTime!Stages) = 7
      /\ OneTime!Stages[1] = "authorized" /\ OneTime!Stages[6] = "completed"
      /\ OneTime!Stages[7] = "verified"
  BY DEF OneTime!Stages
<1>4. /\ F[x] < Len(OneTime!Stages)
      /\ F' = [F EXCEPT ![x] = @ + 1]
      /\ \A y \in Admissions :
            /\ O'[y] # O[y] =>
                  y = x /\ OneTime!Stages[F'[x]] = "authorized" /\ O'[x] \in Actors
            /\ D'[y] # D[y] => y = x /\ OneTime!Stages[F'[x]] = "completed"
            /\ V'[y] # V[y] => y = x /\ OneTime!Stages[F'[x]] = "verified"
  BY <1>1, <1>2, <1>3
<1>5. OneTime!Advance(x)
  BY <1>4 DEF OneTime!Advance, F, O, D, V
<1> QED
  BY <1>5 DEF OneTime!Next

(* What the step of an action that writes a row of execution x leaves of the others. *)
LEMMA OthersSame ==
    ASSUME TypeOK, NEW x \in Admissions,
           \/ /\ \E v : snap' = [snap EXCEPT ![x] = v]
              /\ UNCHANGED <<grants, consumed, admitted, state, results>>
           \/ /\ \E v : grants' = [grants EXCEPT ![x] = v]
              /\ UNCHANGED <<snap, consumed, admitted, state, results>>
           \/ /\ \E v : consumed' = [consumed EXCEPT ![x] = v]
              /\ UNCHANGED <<snap, grants, admitted, state, results>>
           \/ /\ admitted' = admitted \cup {x}
              /\ UNCHANGED <<snap, grants, consumed, state, results>>
           \/ /\ \E v : state' = [state EXCEPT ![x] = v]
              /\ UNCHANGED <<snap, grants, consumed, admitted, results>>
           \/ /\ \E v : results' = [results EXCEPT ![x] = v]
              /\ UNCHANGED <<snap, grants, consumed, admitted, state>>
    PROVE  \A y \in Admissions : y # x => RowsSame(y)
BY DEF TypeOK, RowsSame

(* A step that writes none of those rows is a stuttering step. *)
LEMMA NoRowNoStage ==
    ASSUME UNCHANGED <<snap, grants, consumed, admitted, state, results>>
    PROVE  UNCHANGED OneTime!vars
<1>1. \A x \in Admissions : Stage(x)' = Stage(x)
  BY DEF Stage
<1> QED
  BY <1>1 DEF OneTime!vars

(* The four steps of preparation that write a row. *)
LEMMA PrepareAdvances ==
    ASSUME IInv, IInv', NEW w \in Workers, Prepare(w)
    PROVE  OneTime!Next \/ UNCHANGED OneTime!vars
<1> DEFINE x == mem[w].exec
<1>1. StagesAreTold /\ StagesAreTold'
  BY ChainTellsStages, ChainWillTell DEF IInv
<1>2. TypeOK /\ Knows(pc[w], mem[w])
  BY DEF IInv, WorkersKnow
<1>3. ASSUME NEW u \in Actors, NEW z \in Admissions, CreateSnapshot(w, u, z)
      PROVE  OneTime!Next \/ UNCHANGED OneTime!vars
  <2>1. UNCHANGED <<grants, consumed, admitted, state, results>>
    BY <1>3 DEF CreateSnapshot, storeVars
  <2>2. CASE snap' = snap
    BY <2>1, <2>2, NoRowNoStage
  <2>3. CASE /\ snap[z] = Nothing
             /\ snap' = [snap EXCEPT ![z] = [actor |-> u, at |-> clock, epoch |-> revEpoch]]
    <3> DEFINE v == [actor |-> u, at |-> clock, epoch |-> revEpoch]
    <3>1. v \in Snapshot /\ v.actor = u
      BY <1>2 DEF TypeOK, Snapshot
    <3> HIDE DEF v
    <3>2. snap' = [snap EXCEPT ![z] = v]
      BY <2>3 DEF v
    <3>3. snap'[z] = v /\ v # Nothing
      BY <1>2, <3>1, <3>2, AbsentAssumption DEF TypeOK
    <3>4. grants'[z] = Nothing
      BY <2>1, <2>3 DEF IInv, Chain, GrantsAreNarrowed
    <3>5. Stage(z) = 0 /\ Stage(z)' = 1
      BY <1>1, <2>3, <3>3, <3>4 DEF StagesAreTold
    <3>6. \A y \in Admissions : y # z => RowsSame(y)
      BY <1>2, <2>1, <3>2, OthersSame
    <3>7. Owner(z)' = u
      BY <3>1, <3>3 DEF Owner
    <3> QED
      BY <2>1, <3>5, <3>6, <3>7, RowAdvances
  <2> QED
    BY <1>3, <2>2, <2>3 DEF CreateSnapshot
<1>4. CASE CheckPrecondition(w) \/ IssueGrant(w)
  BY <1>4, NoRowNoStage DEF CheckPrecondition, IssueGrant, storeVars, rows
<1>5. pc[w] # "idle" => x \in Admissions /\ snap[x] # Nothing
  BY <1>2 DEF Knows, Bound
<1>6. CASE StoreGrant(w)
  <2>1. /\ pc[w] = "issued" /\ grants[x] = Nothing
        /\ grants' = [grants EXCEPT ![x] = mem[w].grant]
        /\ UNCHANGED <<snap, consumed, admitted, state, results>>
    BY <1>6 DEF StoreGrant, Goes, Exec, storeVars
  <2>2. x \in Admissions /\ snap[x] # Nothing /\ mem[w].grant \in Grant
    BY <1>2, <1>5, <2>1 DEF Knows, KnowsPreparing
  <2> HIDE DEF x
  <2>3. grants'[x] # Nothing
    BY <1>2, <2>1, <2>2, AbsentAssumption DEF TypeOK
  <2>4. consumed'[x] = Nothing
    BY <2>1, <2>2 DEF IInv, Chain, ConsumedWasGranted
  <2>5. PICK z \in Admissions : z = x
    BY <2>2
  <2>6. Stage(z) = 1 /\ Stage(z)' = 2
    BY <1>1, <2>1, <2>2, <2>3, <2>4, <2>5 DEF StagesAreTold
  <2>7. \A y \in Admissions : y # z => RowsSame(y)
    BY <1>2, <2>1, <2>5, OthersSame
  <2>8. Owner(z)' = Owner(z)
    BY <2>1 DEF Owner
  <2> QED
    BY <2>1, <2>6, <2>7, <2>8, RowAdvances
<1>7. CASE ConsumeAndEnqueue(w)
  <2>1. /\ pc[w] = "stored" /\ consumed[x] = Nothing
        /\ consumed' = [consumed EXCEPT ![x] = clock]
        /\ UNCHANGED <<snap, grants, admitted, state, results>>
    BY <1>7 DEF ConsumeAndEnqueue, Goes, Exec, storeVars
  <2>2. x \in Admissions /\ grants[x] # Nothing
    BY <1>2, <1>5, <2>1 DEF Knows, KnowsPreparing, Holding
  <2> HIDE DEF x
  <2>3. consumed'[x] # Nothing
    BY <1>2, <2>1, <2>2, AbsentAssumption DEF TypeOK
  <2>4. x \notin admitted'
    BY <2>1, <2>2 DEF IInv, Chain, AdmittedWasConsumed
  <2>5. PICK z \in Admissions : z = x
    BY <2>2
  <2>6. Stage(z) = 2 /\ Stage(z)' = 3
    BY <1>1, <2>1, <2>2, <2>3, <2>4, <2>5 DEF StagesAreTold
  <2>7. \A y \in Admissions : y # z => RowsSame(y)
    BY <1>2, <2>1, <2>5, OthersSame
  <2>8. Owner(z)' = Owner(z)
    BY <2>1 DEF Owner
  <2> QED
    BY <2>1, <2>6, <2>7, <2>8, RowAdvances
<1>8. CASE AdmitDispatch(w)
  <2>1. /\ pc[w] = "enqueued" /\ consumed[x] # Nothing
        /\ admitted' = admitted \cup {x}
        /\ UNCHANGED <<snap, grants, consumed, state, results>>
    BY <1>8 DEF AdmitDispatch, Goes, Exec, rows
  <2>2. x \in Admissions /\ x \notin admitted
    BY <1>2, <1>5, <2>1 DEF Knows, KnowsPreparing
  <2> HIDE DEF x
  <2>3. state'[x].status = "NONE"
    BY <2>1, <2>2 DEF IInv, Chain, LeaseIsOne
  <2>5. PICK z \in Admissions : z = x
    BY <2>2
  <2>6. Stage(z) = 3 /\ Stage(z)' = 4
    BY <1>1, <2>1, <2>2, <2>3, <2>5 DEF StagesAreTold
  <2>7. \A y \in Admissions : y # z => RowsSame(y)
    BY <1>2, <2>1, <2>5, OthersSame
  <2>8. Owner(z)' = Owner(z)
    BY <2>1 DEF Owner
  <2> QED
    BY <2>1, <2>6, <2>7, <2>8, RowAdvances
<1>9. CASE AcquireLease(w)
  <2>1. PICK s : /\ s.status = "ACTIVE" /\ s.digest = NoDigest
                 /\ state' = [state EXCEPT ![x] = s]
    BY <1>9 DEF AcquireLease, Acquire, Exec
  <2>2. /\ pc[w] = "admitted" /\ x \in admitted
        /\ UNCHANGED <<snap, grants, consumed, admitted, results>>
    BY <1>9 DEF AcquireLease, Acquire, MayAcquire, Goes, Exec, rows
  <2>3. x \in Admissions /\ state[x].status = "NONE"
    BY <1>2, <1>5, <2>2 DEF Knows, KnowsPreparing
  <2> HIDE DEF x
  <2>4. state'[x] = s
    BY <1>2, <2>1, <2>3 DEF TypeOK
  <2>5. PICK z \in Admissions : z = x
    BY <2>3
  <2>6. Stage(z) = 4 /\ Stage(z)' = 5
    BY <1>1, <2>1, <2>2, <2>3, <2>4, <2>5 DEF StagesAreTold
  <2>7. \A y \in Admissions : y # z => RowsSame(y)
    BY <1>2, <2>1, <2>2, <2>5, OthersSame
  <2>8. Owner(z)' = Owner(z)
    BY <2>2 DEF Owner
  <2>9. state'[z].digest = state[z].digest
    BY <2>1, <2>3, <2>4, <2>5 DEF IInv, Chain, CompletionIsObserved
  <2> QED
    BY <2>2, <2>6, <2>7, <2>8, <2>9, RowAdvances
<1> QED
  BY <1>3, <1>4, <1>6, <1>7, <1>8, <1>9 DEF Prepare

(* The two steps of the READ terminal that write a row. *)
LEMMA TerminalAdvances ==
    ASSUME IInv, IInv', NEW w \in Workers, ReadTerminal(w)
    PROVE  OneTime!Next \/ UNCHANGED OneTime!vars
<1> DEFINE x == mem[w].exec
<1>1. StagesAreTold /\ StagesAreTold'
  BY ChainTellsStages, ChainWillTell DEF IInv
<1>2. TypeOK /\ Knows(pc[w], mem[w])
  BY DEF IInv, WorkersKnow
<1>3. CASE \/ ActivateRunner(w) \/ CheckFence(w) \/ DecideVerifier(w)
           \/ \E t \in Times : ObserveRef(w, t) \/ VerifierObserve(w, t)
  BY <1>3, NoRowNoStage DEF ActivateRunner, CheckFence, DecideVerifier, ObserveRef,
     VerifierObserve, storeVars, rows
<1>4. pc[w] # "idle" => x \in Admissions /\ snap[x] # Nothing
  BY <1>2 DEF Knows, Bound
<1>5. CASE CompleteExecution(w)
  <2> DEFINE l == mem[w].lease
  <2>1. pc[w] = "observed" /\ UNCHANGED <<snap, grants, consumed, results>>
    BY <1>5 DEF CompleteExecution, Goes, rows
  <2>2. x \in Admissions /\ l.adm = x
    BY <1>2, <1>4, <2>1 DEF Knows, KnowsTerminal, TerminalPcs
  <2>3. CASE DuplicateCompletion(l, mem[w].obs)
    BY <2>1, <2>3, NoRowNoStage DEF DuplicateCompletion, storeVars
  <2>4. CASE Complete(l, mem[w].obs)
    <3>1. /\ state[l.adm].status = "ACTIVE" /\ UNCHANGED <<admitted>>
          /\ state' = [state EXCEPT ![l.adm].status = "COMPLETED",
                                    ![l.adm].digest = mem[w].obs,
                                    ![l.adm].completed = clock]
      BY <2>4 DEF Complete, MayComplete
    <3> HIDE DEF x, l
    <3>2. PICK s : state' = [state EXCEPT ![x] = s]
      BY <2>2, <3>1
    <3>3. PICK z \in Admissions : z = x
      BY <2>2
    <3>4. state[z].status = "ACTIVE" /\ state'[z].status = "COMPLETED"
      BY <1>2, <2>2, <3>1, <3>3 DEF TypeOK, EpochState
    <3>5. results'[z] = Nothing
      BY <2>1, <3>4 DEF IInv, Chain, ResultIsBound
    <3>6. Stage(z) = 5 /\ Stage(z)' = 6
      BY <1>1, <3>4, <3>5 DEF StagesAreTold
    <3>7. \A y \in Admissions : y # z => RowsSame(y)
      BY <1>2, <2>1, <3>1, <3>2, <3>3, OthersSame
    <3>8. Owner(z)' = Owner(z)
      BY <2>1 DEF Owner
    <3> QED
      BY <2>1, <3>6, <3>7, <3>8, RowAdvances
  <2> QED
    BY <1>5, <2>3, <2>4 DEF CompleteExecution
<1>6. CASE StoreResult(w)
  <2>1. pc[w] = "verified" /\ UNCHANGED <<snap, grants, consumed, admitted, state>>
    BY <1>6 DEF StoreResult, Goes, storeVars
  <2>2. x \in Admissions /\ state[x].status = "COMPLETED"
    BY <1>2, <1>4, <2>1 DEF Knows, KnowsTerminal, Completed
  <2>3. CASE results' = results
    BY <2>1, <2>3, NoRowNoStage
  <2>4. CASE results' # results
    <3>1. results[x] = Nothing /\ \E v : results' = [results EXCEPT ![x] = v]
      BY <1>6, <2>4 DEF StoreResult, Exec
    <3> HIDE DEF x
    <3>2. PICK z \in Admissions : z = x
      BY <2>2
    <3>3. results' \in [Admissions -> Maybe(Result)]
      BY DEF IInv, TypeOK
    <3>4. results'[z] # Nothing
      BY <1>2, <2>4, <3>1, <3>2, <3>3 DEF TypeOK
    <3>6. Stage(z) = 6 /\ Stage(z)' = 7
      BY <1>1, <2>2, <3>1, <3>2, <3>4 DEF StagesAreTold
    <3>7. \A y \in Admissions : y # z => RowsSame(y)
      BY <1>2, <2>1, <3>1, <3>2, OthersSame
    <3>8. Owner(z)' = Owner(z)
      BY <2>1 DEF Owner
    <3> QED
      BY <2>1, <3>6, <3>7, <3>8, RowAdvances
  <2> QED
    BY <2>3, <2>4
<1> QED
  BY <1>3, <1>5, <1>6 DEF ReadTerminal

(* Every step of the pipeline is one of OneTimeExecution or leaves it alone. *)
LEMMA StepIsOneTime == IInv /\ IInv' /\ [Next]_vars => [OneTime!Next]_(OneTime!vars)
<1> SUFFICES ASSUME IInv, IInv', [Next]_vars
             PROVE  OneTime!Next \/ UNCHANGED OneTime!vars
  OBVIOUS
<1>1. ASSUME NEW w \in Workers, Resume(w) \/ Fail(w)
      PROVE  UNCHANGED OneTime!vars
  BY <1>1, NoRowNoStage DEF Resume, ResumeAuthorize, ResumeLoad, Fail, storeVars, rows
<1>2. CASE OperatorChange \/ Restart \/ RefMoves \/ TimePasses \/ UNCHANGED vars
  BY <1>2, NoRowNoStage DEF OperatorChange, Restart, RefMoves, TimePasses, ClockMoves, vars,
     storeVars, rows
<1> QED
  BY <1>1, <1>2, PrepareAdvances, TerminalAdvances DEF Next

(* The pipeline implements OneTimeExecution: the rows of an execution appear once
   each and in order, whoever writes them, and are final. *)
THEOREM Refinement == Spec => ImplementsOneTime
<1>1. Init => OneTime!Init
  <2> SUFFICES ASSUME Init PROVE OneTime!Init
    OBVIOUS
  <2>1. \A x \in Admissions : Stage(x) = 0
    BY InitIInv, ChainTellsStages DEF IInv, Init, StagesAreTold
  <2> QED
    BY <2>1 DEF Init, StoreInit, Table!Init, Table!NoState, OneTime!Init
<1>2. IInv /\ IInv' /\ [Next]_vars => [OneTime!Next]_(OneTime!vars)
  BY StepIsOneTime
<1> QED
  BY <1>1, <1>2, Invariance, PTL DEF Spec, ImplementsOneTime, OneTime!Spec
=============================================================================
