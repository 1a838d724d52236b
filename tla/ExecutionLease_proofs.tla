------------------------ MODULE ExecutionLease_proofs ------------------------
(***************************************************************************)
(* Proofs about ExecutionLease, for every number of callers and            *)
(* admissions, every clock and every lease length.                         *)
(***************************************************************************)
EXTENDS ExecutionLease, TLAPS

(* The state row of an admission is the newest of its leases, and it is only
   absent when there is no lease yet. *)
RowIsNewest ==
    \A a \in Admissions :
        /\ state[a].status = "NONE" =>
              state[a] = Table!NoState /\ \A l \in leases : l.adm # a
        /\ state[a].status # "NONE" =>
              /\ CurrentLease(a) \in leases
              /\ \A l \in leases : l.adm = a => l.epoch <= state[a].epoch

(* What a completed row says, and what a row that is not completed leaves out. *)
CompletionRecorded ==
    \A a \in Admissions :
        /\ state[a].status = "COMPLETED" =>
              InWindow(CurrentLease(a), state[a].completed)
        /\ state[a].status # "COMPLETED" => state[a].digest = NoDigest

UniqueEpochs == Table!OneLeasePerEpoch(leases)

WindowsNotEmpty == \A l \in leases : l.acquired < l.expires

(* A caller that is busy holds a lease that was really handed out. *)
HeldAreStored ==
    \A w \in Workers :
        /\ phase[w] # "idle" => held[w] \in leases
        /\ phase[w] = "observed" => obs[w] \in Digests

IInv ==
    /\ TypeOK
    /\ RowIsNewest
    /\ CompletionRecorded
    /\ UniqueEpochs
    /\ WindowsNotEmpty
    /\ WindowsDisjoint
    /\ HeldAreStored
    /\ AcksAgree
-----------------------------------------------------------------------------
(* The initial states satisfy the inductive invariant. *)
LEMMA InitIInv == Init => IInv
<1> SUFFICES ASSUME Init PROVE IInv
  OBVIOUS
<1> USE DEF Init, StoreInit, Table!Init, Table!NoState
<1>1. TypeOK
  BY TimesAssumption DEF TypeOK, Phases
<1>2. RowIsNewest /\ CompletionRecorded
  BY DEF RowIsNewest, CompletionRecorded
<1>3. UniqueEpochs /\ WindowsNotEmpty /\ WindowsDisjoint
  BY DEF UniqueEpochs, Table!OneLeasePerEpoch, WindowsNotEmpty, WindowsDisjoint
<1>4. HeldAreStored /\ AcksAgree
  BY DEF HeldAreStored, AcksAgree
<1> QED
  BY <1>1, <1>2, <1>3, <1>4 DEF IInv

(* What acquire writes: a candidate of the next epoch that begins when the
   previous lease, if there is one, has run out. *)
LEMMA AcquireWrites ==
    ASSUME IInv, NEW a \in Admissions, Acquire(a),
           NEW l, l = CandidateLease(a, NextEpoch(a), clock)
    PROVE  /\ l \in Lease
           /\ l.adm = a /\ l.acquired = clock /\ l.acquired < l.expires
           /\ l.epoch = NextEpoch(a) /\ l.epoch \in Nat \ {0}
           /\ leases' = leases \cup {l}
           /\ state' = [state EXCEPT ![a] =
                           [status |-> "ACTIVE", epoch |-> l.epoch,
                            acquired |-> l.acquired, expires |-> l.expires,
                            digest |-> NoDigest, completed |-> 0]]
           /\ CurrentLease(a)' = l
           /\ state[a].status # "COMPLETED"
           /\ \A m \in leases : m.adm = a => m.epoch < l.epoch /\ m.expires <= l.acquired
           /\ clock' = clock /\ admitted' = admitted
<1>1. l = [adm |-> a, epoch |-> NextEpoch(a), acquired |-> clock,
           expires |-> clock + LeaseSeconds]
  BY DEF CandidateLease
<1>2. NextEpoch(a) \in Nat \ {0} /\ clock \in Nat /\ clock + LeaseSeconds \in Nat
      /\ clock < clock + LeaseSeconds
  BY LeaseSecondsAssumption DEF NextEpoch, IInv, TypeOK
<1>3. l \in Lease
  BY <1>1, <1>2 DEF Lease
<1>4. /\ leases' = leases \cup {l}
      /\ state' = [state EXCEPT ![a] =
                           [status |-> "ACTIVE", epoch |-> l.epoch,
                            acquired |-> l.acquired, expires |-> l.expires,
                            digest |-> NoDigest, completed |-> 0]]
      /\ clock' = clock /\ admitted' = admitted
  BY DEF Acquire
<1>5. CurrentLease(a)' = l
  BY <1>1, <1>4 DEF CurrentLease, IInv, TypeOK
<1>6. state[a].status # "COMPLETED"
  BY DEF Acquire, MayAcquire
<1>7. ASSUME NEW m \in leases, m.adm = a
      PROVE  m.epoch < l.epoch /\ m.expires <= l.acquired
  <2>1. state[a].status = "ACTIVE" /\ clock >= state[a].expires
    BY <1>7 DEF Acquire, MayAcquire, Expired, CurrentLease, IInv, RowIsNewest
  <2>2. CurrentLease(a) \in leases /\ m.epoch <= state[a].epoch
    BY <1>7, <2>1 DEF IInv, RowIsNewest
  <2>3. m \in Lease /\ CurrentLease(a) \in Lease
    BY <2>2 DEF IInv, TypeOK
  <2>4. l.epoch = state[a].epoch + 1
    BY <1>1, <2>1 DEF NextEpoch
  <2>5. m.epoch < l.epoch
    BY <2>2, <2>3, <2>4 DEF Lease, CurrentLease
  <2>6. CASE m.epoch = state[a].epoch
    <3>1. m = CurrentLease(a)
      BY <1>7, <2>2, <2>6 DEF IInv, UniqueEpochs, Table!OneLeasePerEpoch, CurrentLease
    <3> QED
      BY <1>1, <2>1, <2>5, <3>1 DEF CurrentLease
  <2>7. CASE m.epoch < state[a].epoch
    <3>1. m.expires <= state[a].acquired
      BY <1>7, <2>2, <2>7 DEF IInv, WindowsDisjoint, CurrentLease
    <3>2. state[a].acquired < state[a].expires
      BY <2>2 DEF IInv, WindowsNotEmpty, CurrentLease
    <3> QED
      BY <1>1, <1>2, <2>1, <2>3, <2>5, <3>1, <3>2 DEF CurrentLease, Lease
  <2> QED
    BY <2>2, <2>3, <2>6, <2>7 DEF Lease, CurrentLease
<1> QED
  BY <1>1, <1>2, <1>3, <1>4, <1>5, <1>6, <1>7

(* Acquiring a lease preserves the invariant. *)
LEMMA AcquirePreserves ==
    ASSUME IInv, NEW w \in Workers, NEW a \in Admissions, AcquireLease(w, a)
    PROVE  IInv'
<1> DEFINE l == CandidateLease(a, NextEpoch(a), clock)
<1>0. Acquire(a) /\ UNCHANGED <<obs, acks>>
  BY DEF AcquireLease
<1>1. /\ l \in Lease
      /\ l.adm = a /\ l.acquired = clock /\ l.acquired < l.expires
      /\ l.epoch = NextEpoch(a) /\ l.epoch \in Nat \ {0}
      /\ leases' = leases \cup {l}
      /\ state' = [state EXCEPT ![a] =
                      [status |-> "ACTIVE", epoch |-> l.epoch,
                       acquired |-> l.acquired, expires |-> l.expires,
                       digest |-> NoDigest, completed |-> 0]]
      /\ CurrentLease(a)' = l
      /\ state[a].status # "COMPLETED"
      /\ \A m \in leases : m.adm = a => m.epoch < l.epoch /\ m.expires <= l.acquired
      /\ clock' = clock /\ admitted' = admitted
  BY <1>0, AcquireWrites
<1>2. /\ phase' = [phase EXCEPT ![w] = "holding"]
      /\ held' = [held EXCEPT ![w] = l]
  BY DEF AcquireLease
<1> HIDE DEF l
<1>3. \A b \in Admissions : b # a => state'[b] = state[b] /\ CurrentLease(b)' = CurrentLease(b)
  BY <1>1 DEF CurrentLease, IInv, TypeOK
<1>4. /\ state'[a].status = "ACTIVE" /\ state'[a].epoch = l.epoch
      /\ state'[a].digest = NoDigest
  BY <1>1 DEF IInv, TypeOK
<1>5. TypeOK'
  BY <1>0, <1>1, <1>2 DEF IInv, TypeOK, Phases, Lease
<1>6. RowIsNewest'
  <2> SUFFICES ASSUME NEW b \in Admissions
               PROVE  /\ (state[b].status = "NONE")' =>
                            (state[b] = Table!NoState /\ \A m \in leases : m.adm # b)'
                      /\ (state[b].status # "NONE")' =>
                            /\ (CurrentLease(b) \in leases)'
                            /\ \A m \in leases' : m.adm = b => m.epoch <= state'[b].epoch
    BY DEF RowIsNewest
  <2>1. CASE b = a
    BY <1>1, <1>4, <2>1 DEF IInv, TypeOK, Lease
  <2>2. CASE b # a
    BY <1>1, <1>3, <2>2 DEF IInv, RowIsNewest, Table!NoState
  <2> QED
    BY <2>1, <2>2
<1>7. CompletionRecorded'
  BY <1>3, <1>4 DEF IInv, CompletionRecorded, InWindow
<1>8. UniqueEpochs'
  BY <1>1 DEF IInv, TypeOK, Lease, UniqueEpochs, Table!OneLeasePerEpoch
<1>9. WindowsNotEmpty'
  BY <1>1 DEF IInv, WindowsNotEmpty
<1>10. WindowsDisjoint'
  BY <1>1 DEF IInv, TypeOK, Lease, WindowsDisjoint
<1>11. HeldAreStored'
  BY <1>0, <1>1, <1>2 DEF IInv, TypeOK, HeldAreStored
<1>12. AcksAgree'
  <2>1. \A k \in acks : k.adm \in Admissions /\ k.adm # a
    BY <1>1 DEF IInv, TypeOK, AcksAgree, Ack
  <2> QED
    BY <1>0, <1>3, <2>1 DEF IInv, AcksAgree
<1> QED
  BY <1>5, <1>6, <1>7, <1>8, <1>9, <1>10, <1>11, <1>12 DEF IInv

(* Completing an execution preserves the invariant. *)
LEMMA CompletePreserves ==
    ASSUME IInv, NEW w \in Workers, Report(w), Complete(held[w], obs[w])
    PROVE  IInv'
<1> DEFINE a == held[w].adm
           d == obs[w]
<1>1. /\ held[w] \in Lease /\ held[w] \in leases /\ a \in Admissions
      /\ d \in Digests /\ d # NoDigest
      /\ state[a].status = "ACTIVE" /\ CurrentLease(a) = held[w]
      /\ held[w].epoch = state[a].epoch
      /\ InWindow(held[w], clock) /\ clock \in Nat
  BY NoDigestAssumption
  DEF Complete, MayComplete, FenceHolds, Report, IInv, TypeOK, HeldAreStored, Lease
<1>2. /\ state' = [state EXCEPT ![a] =
                      [state[a] EXCEPT !.status = "COMPLETED", !.digest = d,
                                       !.completed = clock]]
      /\ UNCHANGED <<clock, admitted, leases, phase, held, obs>>
      /\ acks' = acks \cup {[adm |-> a, epoch |-> held[w].epoch, digest |-> d]}
  BY <1>1 DEF Complete, Report, IInv, TypeOK
<1> HIDE DEF a, d
<1>3. \A b \in Admissions : b # a => state'[b] = state[b]
  BY <1>2 DEF IInv, TypeOK
<1>4. /\ state'[a].status = "COMPLETED" /\ state'[a].digest = d
      /\ state'[a].completed = clock /\ state'[a].epoch = state[a].epoch
      /\ state'[a].acquired = state[a].acquired
      /\ state'[a].expires = state[a].expires
  BY <1>1, <1>2 DEF IInv, TypeOK
<1>5. \A b \in Admissions : CurrentLease(b)' = CurrentLease(b)
  BY <1>1, <1>3, <1>4 DEF CurrentLease
<1>6. TypeOK'
  <2>1. acks' \subseteq Ack
    BY <1>1, <1>2 DEF IInv, TypeOK, Lease, Ack
  <2>2. state' \in [Admissions -> [status : {"NONE", "ACTIVE", "COMPLETED"},
                                   epoch : Nat, acquired : Nat, expires : Nat,
                                   digest : Digests \cup {NoDigest},
                                   completed : Nat]]
    BY <1>1, <1>2 DEF IInv, TypeOK
  <2> QED
    BY <1>2, <2>1, <2>2 DEF IInv, TypeOK
<1>7. RowIsNewest'
  <2> SUFFICES ASSUME NEW b \in Admissions
               PROVE  /\ (state[b].status = "NONE")' =>
                            (state[b] = Table!NoState /\ \A m \in leases : m.adm # b)'
                      /\ (state[b].status # "NONE")' =>
                            /\ (CurrentLease(b) \in leases)'
                            /\ \A m \in leases' : m.adm = b => m.epoch <= state'[b].epoch
    BY DEF RowIsNewest
  <2>1. CASE b = a
    BY <1>1, <1>2, <1>4, <1>5, <2>1 DEF IInv, RowIsNewest
  <2>2. CASE b # a
    BY <1>2, <1>3, <1>5, <2>2 DEF IInv, RowIsNewest, Table!NoState
  <2> QED
    BY <2>1, <2>2
<1>8. CompletionRecorded'
  BY <1>1, <1>3, <1>4, <1>5 DEF IInv, CompletionRecorded, InWindow
<1>9. UniqueEpochs' /\ WindowsNotEmpty' /\ WindowsDisjoint'
  BY <1>2 DEF IInv, UniqueEpochs, Table!OneLeasePerEpoch, WindowsNotEmpty, WindowsDisjoint
<1>10. HeldAreStored'
  BY <1>2 DEF IInv, HeldAreStored
<1>11. AcksAgree'
  <2>1. \A k \in acks : k.adm \in Admissions /\ k.adm # a
    BY <1>1 DEF IInv, TypeOK, AcksAgree, Ack
  <2> QED
    BY <1>1, <1>2, <1>3, <1>4, <2>1 DEF IInv, AcksAgree
<1> QED
  BY <1>6, <1>7, <1>8, <1>9, <1>10, <1>11 DEF IInv

(* Nothing but acquire and complete writes the two tables; a step that leaves
   them alone preserves everything said about them. *)
LEMMA TablesUntouched ==
    ASSUME IInv, UNCHANGED <<leases, state>>
    PROVE  /\ RowIsNewest' /\ CompletionRecorded' /\ UniqueEpochs'
           /\ WindowsNotEmpty' /\ WindowsDisjoint'
  BY DEF IInv, RowIsNewest, CompletionRecorded, UniqueEpochs, WindowsNotEmpty,
         WindowsDisjoint, CurrentLease, InWindow, Table!NoState, Table!OneLeasePerEpoch

(* Every step preserves the invariant. *)
LEMMA NextIInv == IInv /\ [Next]_vars => IInv'
<1> SUFFICES ASSUME IInv, [Next]_vars PROVE IInv'
  OBVIOUS
<1>1. ASSUME NEW a \in Admissions, Admit(a) PROVE IInv'
  <2>1. TypeOK'
    BY <1>1 DEF Admit, callerVars, IInv, TypeOK
  <2>2. HeldAreStored' /\ AcksAgree'
    BY <1>1 DEF Admit, callerVars, IInv, HeldAreStored, AcksAgree
  <2> QED
    BY <1>1, <2>1, <2>2, TablesUntouched DEF Admit, IInv
<1>2. ASSUME NEW w \in Workers, NEW a \in Admissions, AcquireLease(w, a) PROVE IInv'
  BY <1>2, AcquirePreserves
<1>3. ASSUME NEW w \in Workers, NEW a \in Admissions, PickUp(w, a) PROVE IInv'
  <2>1. CurrentLease(a) \in leases
    BY <1>3 DEF PickUp, IsCurrent
  <2>2. TypeOK'
    BY <1>3, <2>1 DEF PickUp, storeVars, IInv, TypeOK, Phases
  <2>3. HeldAreStored' /\ AcksAgree'
    BY <1>3, <2>1 DEF PickUp, storeVars, IInv, TypeOK, HeldAreStored, AcksAgree
  <2> QED
    BY <1>3, <2>2, <2>3, TablesUntouched DEF PickUp, storeVars, IInv
<1>4. ASSUME NEW w \in Workers, CheckRow(w) PROVE IInv'
  <2>1. TypeOK' /\ HeldAreStored' /\ AcksAgree'
    BY <1>4 DEF CheckRow, storeVars, IInv, TypeOK, Phases, HeldAreStored, AcksAgree
  <2> QED
    BY <1>4, <2>1, TablesUntouched DEF CheckRow, storeVars, IInv
<1>5. ASSUME NEW w \in Workers, NEW d \in Digests, Observe(w, d) PROVE IInv'
  <2>1. TypeOK' /\ HeldAreStored' /\ AcksAgree'
    BY <1>5 DEF Observe, storeVars, IInv, TypeOK, Phases, HeldAreStored, AcksAgree
  <2> QED
    BY <1>5, <2>1, TablesUntouched DEF Observe, storeVars, IInv
<1>6. ASSUME NEW w \in Workers, Report(w) PROVE IInv'
  <2>1. CASE Complete(held[w], obs[w])
    BY <1>6, <2>1, CompletePreserves
  <2>2. CASE DuplicateCompletion(held[w], obs[w])
    <3>1. /\ held[w] \in Lease /\ held[w].adm \in Admissions
          /\ obs[w] \in Digests /\ held[w].epoch = state[held[w].adm].epoch
      BY <1>6, <2>2 DEF Report, DuplicateCompletion, CurrentLease, IInv, TypeOK,
                        HeldAreStored, Lease
    <3>2. TypeOK' /\ HeldAreStored'
      BY <1>6, <2>2, <3>1 DEF Report, DuplicateCompletion, storeVars, IInv, TypeOK,
                              Lease, Ack, HeldAreStored
    <3>3. AcksAgree'
      BY <1>6, <2>2, <3>1 DEF Report, DuplicateCompletion, storeVars, IInv, AcksAgree
    <3> QED
      BY <2>2, <3>2, <3>3, TablesUntouched DEF DuplicateCompletion, storeVars, IInv
  <2> QED
    BY <1>6, <2>1, <2>2 DEF Report
<1>7. ASSUME NEW w \in Workers, GiveUp(w) PROVE IInv'
  <2>1. TypeOK' /\ HeldAreStored' /\ AcksAgree'
    BY <1>7 DEF GiveUp, storeVars, IInv, TypeOK, Phases, HeldAreStored, AcksAgree
  <2> QED
    BY <1>7, <2>1, TablesUntouched DEF GiveUp, storeVars, IInv
<1>8. CASE MoveClock
  <2>1. TypeOK'
    BY <1>8, TimesAssumption DEF MoveClock, ClockMoves, callerVars, IInv, TypeOK
  <2>2. HeldAreStored' /\ AcksAgree'
    BY <1>8 DEF MoveClock, ClockMoves, callerVars, IInv, HeldAreStored, AcksAgree
  <2> QED
    BY <1>8, <2>1, <2>2, TablesUntouched DEF MoveClock, ClockMoves, IInv
<1>9. CASE UNCHANGED vars
  <2>1. TypeOK' /\ HeldAreStored' /\ AcksAgree'
    BY <1>9 DEF vars, IInv, TypeOK, HeldAreStored, AcksAgree
  <2> QED
    BY <1>9, <2>1, TablesUntouched DEF vars, IInv
<1> QED
  BY <1>1, <1>2, <1>3, <1>4, <1>5, <1>6, <1>7, <1>8, <1>9 DEF Next, WorkerStep

(* The inductive invariant holds in every reachable state. *)
THEOREM Invariance == Spec => []IInv
<1>1. Init => IInv
  BY InitIInv
<1>2. IInv /\ [Next]_vars => IInv'
  BY NextIInv
<1> QED
  BY <1>1, <1>2, PTL DEF Spec

(* The variables keep their types, whatever callers there are. *)
THEOREM TypeCorrect == Spec => []TypeOK
<1>1. IInv => TypeOK
  BY DEF IInv
<1> QED
  BY <1>1, Invariance, PTL

(* execution_lease.py: two leases of one admission never overlap. *)
THEOREM LeasesNeverOverlap == Spec => []WindowsDisjoint
<1>1. IInv => WindowsDisjoint
  BY DEF IInv
<1> QED
  BY <1>1, Invariance, PTL

(* execution_lease_persistence.complete: only the newest lease completes, inside
   its window. *)
THEOREM OnlyNewestCompletes == Spec => []CompletionFenced
<1>1. IInv => CompletionFenced
  BY DEF IInv, RowIsNewest, CompletionRecorded, CompletionFenced
<1> QED
  BY <1>1, Invariance, PTL

(* execution_lease_persistence.complete: repeated and racing completions are
   answered alike. *)
THEOREM CompletionsAgree == Spec => []AcksAgree
<1>1. IInv => AcksAgree
  BY DEF IInv
<1> QED
  BY <1>1, Invariance, PTL
-----------------------------------------------------------------------------
(* Every step of the service is a commit the triggers accept, or leaves the two
   tables alone. *)
LEMMA StepIsCommit == IInv /\ IInv' /\ [Next]_vars => [Table!Commit]_(Table!tableVars)
<1> SUFFICES ASSUME IInv, IInv', [Next]_vars, ~ UNCHANGED <<leases, state>>
             PROVE  Table!Commit
  BY DEF Table!tableVars
<1>1. Table!OneLeasePerEpoch(leases')
  BY DEF IInv, UniqueEpochs, Table!OneLeasePerEpoch
<1>2. ASSUME NEW w \in Workers, NEW a \in Admissions, AcquireLease(w, a)
      PROVE  Table!Commit
  <2> DEFINE l == CandidateLease(a, NextEpoch(a), clock)
  <2>1. Acquire(a)
    BY <1>2 DEF AcquireLease
  <2>2. /\ l \in Lease
        /\ l.adm = a /\ l.acquired = clock
        /\ l.epoch = NextEpoch(a)
        /\ leases' = leases \cup {l}
        /\ state' = [state EXCEPT ![a] =
                      [status |-> "ACTIVE", epoch |-> l.epoch,
                       acquired |-> l.acquired, expires |-> l.expires,
                       digest |-> NoDigest, completed |-> 0]]
        /\ CurrentLease(a)' = l
    BY <2>1, AcquireWrites
  <2> HIDE DEF l
  <2>3. \A b \in Admissions : b # a => state'[b] = state[b]
    BY <2>2 DEF IInv, TypeOK
  <2>4. /\ state'[a].status = "ACTIVE" /\ state'[a].epoch = l.epoch
        /\ state'[a].acquired = clock /\ state'[a].digest = NoDigest
    BY <2>2 DEF IInv, TypeOK
  <2>5. Table!NamesStoredLease(a, state'[a], leases')
    BY <2>2 DEF Table!NamesStoredLease, CurrentLease
  <2>6. CASE state[a].status = "NONE"
    <3>1. state[a] = Table!NoState /\ l.epoch = 1
      BY <2>2, <2>6 DEF IInv, RowIsNewest, NextEpoch
    <3>2. Table!InsertGuard(a)
      BY <2>4, <2>5, <3>1 DEF Table!InsertGuard, Table!NoState
    <3> QED
      BY <1>1, <2>2, <2>3, <3>2 DEF Table!Commit
  <2>7. CASE state[a].status = "ACTIVE"
    <3>1. l.epoch = state[a].epoch + 1 /\ clock >= state[a].expires
      BY <2>1, <2>2, <2>7 DEF NextEpoch, Acquire, MayAcquire, Expired, CurrentLease
    <3>2. Table!ReacquireGuard(a)
      BY <2>4, <2>5, <2>7, <3>1 DEF Table!ReacquireGuard
    <3> QED
      BY <1>1, <2>2, <2>3, <3>2 DEF Table!Commit
  <2> QED
    BY <2>1, <2>6, <2>7 DEF Acquire, MayAcquire
<1>3. ASSUME NEW w \in Workers, Report(w) PROVE Table!Commit
  <2>1. Complete(held[w], obs[w])
    BY <1>3 DEF Report, DuplicateCompletion, storeVars
  <2> DEFINE a == held[w].adm
  <2>2. /\ a \in Admissions /\ obs[w] \in Digests /\ obs[w] # NoDigest
        /\ state[a].status = "ACTIVE" /\ CurrentLease(a) = held[w]
        /\ held[w].acquired <= clock /\ clock < held[w].expires
        /\ leases' = leases
    BY <1>3, <2>1, NoDigestAssumption
    DEF Complete, MayComplete, FenceHolds, InWindow, Report, IInv, TypeOK,
        HeldAreStored, Lease
  <2>3. state' = [state EXCEPT ![a] =
                     [state[a] EXCEPT !.status = "COMPLETED", !.digest = obs[w],
                                      !.completed = clock]]
    BY <2>1, <2>2 DEF Complete, IInv, TypeOK
  <2> HIDE DEF a
  <2>4. \A b \in Admissions : b # a => state'[b] = state[b]
    BY <2>3 DEF IInv, TypeOK
  <2>5. Table!CompleteGuard(a)
    BY <2>2, <2>3 DEF Table!CompleteGuard, CurrentLease, IInv, TypeOK
  <2> QED
    BY <1>1, <2>2, <2>4, <2>5 DEF Table!Commit
<1>4. \/ \E w \in Workers, a \in Admissions : AcquireLease(w, a)
      \/ \E w \in Workers : Report(w)
  BY DEF Next, WorkerStep, Admit, PickUp, CheckRow, Observe, GiveUp, MoveClock,
         ClockMoves, storeVars, vars
<1> QED
  BY <1>2, <1>3, <1>4

(* The service implements what migration 0013 allows: no transaction that passed
   its Python checks is ever aborted by a trigger or a UNIQUE key. *)
THEOREM Refinement == Spec => ImplementsTable
<1>1. Init => Table!Init
  BY DEF Init, StoreInit
<1>2. IInv /\ IInv' /\ [Next]_vars => [Table!Commit]_(Table!tableVars)
  BY StepIsCommit
<1> QED
  BY <1>1, <1>2, Invariance, PTL DEF Spec, ImplementsTable, Table!Spec
=============================================================================
