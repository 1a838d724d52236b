------------------------- MODULE AuthRateLimit_proofs -------------------------
(***************************************************************************)
(* Proofs about AuthRateLimit, for any number of requests at a time,       *)
(* accounts and sources, any limits and any clock.                         *)
(***************************************************************************)
EXTENDS AuthRateLimit, FiniteSetTheorems, TLAPS

(* Requests that may still be answered with a failure of key k. *)
InFlight(k) ==
    {c \in Clients : phase[c] \in {"admitted", "failed"} /\ k \in KeysOf(attempt[c])}

(* A request that is being handled asks for something. *)
Busy == \A c \in Clients : phase[c] # "idle" => attempt[c] \in Attempts

(* An open row counts exactly the failures that were answered. A blocked one
   leaves room for those that are still under way. *)
Accounted(k) ==
    /\ rows[k] = NoRow => told[k] = 0
    /\ rows[k] # NoRow /\ rows[k].blocked = 0 =>
          told[k] = rows[k].failures /\ rows[k].failures < Limit(k)
    /\ rows[k] # NoRow /\ rows[k].blocked > 0 =>
          told[k] + Cardinality(InFlight(k)) <= Limit(k) + Cardinality(Clients) - 1

(* A lockout ends at most one lockout period after the last change of its row. *)
EndsInTime == \A k \in Keys : Exists(k) => rows[k].blocked <= rows[k].updated + Lockout

IInv ==
    /\ TypeOK
    /\ Busy
    /\ \A k \in Keys : Accounted(k)
    /\ CountedTogether
    /\ EndsInTime
    /\ BootstrapOnce /\ (founded = 1 => users)
-----------------------------------------------------------------------------
(* The limits are numbers above one, and a request has keys of the table. *)
LEMMA KeysAndLimits ==
    /\ \A k \in Keys : Limit(k) \in Nat /\ Limit(k) > 1
    /\ \A a \in Attempts : KeysOf(a) \subseteq Keys
<1>1. \A k \in Keys : Limit(k) \in Nat /\ Limit(k) > 1
  BY LimitAssumption DEF Limit
<1>2. ASSUME NEW a \in Attempts PROVE KeysOf(a) \subseteq Keys
  BY DEF Attempts, Logins, Bootstraps, KeysOf, Keys, AccountKeys, SourceKeys, BootstrapKeys
<1> QED
  BY <1>1, <1>2

(* Sets of requests are finite, and their sizes are compared as usual. *)
LEMMA Sizes ==
    /\ Cardinality(Clients) \in Nat
    /\ \A S \in SUBSET Clients : Cardinality(S) \in Nat
    /\ \A S \in SUBSET Clients : \A T \in SUBSET S : Cardinality(T) <= Cardinality(S)
    /\ \A S \in SUBSET Clients : \A c \in S : \A T \in SUBSET (S \ {c}) :
          Cardinality(T) <= Cardinality(S) - 1
<1>1. \A S \in SUBSET Clients : IsFiniteSet(S) /\ Cardinality(S) \in Nat
  BY ClientsAssumption, FS_Subset, FS_CardinalityType
<1>2. \A S \in SUBSET Clients : \A T \in SUBSET S : Cardinality(T) <= Cardinality(S)
  BY <1>1, FS_Subset
<1>3. ASSUME NEW S \in SUBSET Clients, NEW c \in S, NEW T \in SUBSET (S \ {c})
      PROVE  Cardinality(T) <= Cardinality(S) - 1
  <2>1. Cardinality(S \ {c}) = Cardinality(S) - 1
    BY <1>1, FS_RemoveElement
  <2>2. S \ {c} \in SUBSET Clients
    OBVIOUS
  <2> QED
    BY <1>2, <2>1, <2>2
<1> QED
  BY <1>1, <1>2, <1>3

(* The initial states satisfy the inductive invariant. *)
LEMMA InitIInv == Init => IInv
<1> SUFFICES ASSUME Init PROVE IInv
  OBVIOUS
<1> USE DEF Init
<1>1. TypeOK /\ Busy
  BY DEF TypeOK, Busy, Phases
<1>2. \A k \in Keys : Accounted(k)
  BY DEF Accounted
<1>3. CountedTogether /\ EndsInTime /\ BootstrapOnce
  BY DEF CountedTogether, EndsInTime, BootstrapOnce, Exists
<1> QED
  BY <1>1, <1>2, <1>3 DEF IInv

(* What a failure writes is a row, dated now. *)
LEMMA CountedRow ==
    ASSUME IInv, NEW k \in Keys
    PROVE  /\ Counted(k) \in Row
           /\ Counted(k).updated - Counted(k).started < Window
           /\ Counted(k).blocked <= Counted(k).updated + Lockout
<1> USE DEF IInv
<1>1. clock \in Nat /\ Lockout \in Nat /\ Window \in Nat \ {0}
  BY TimesAssumption, WindowAssumption DEF TypeOK
<1>2. Failures(k) \in Nat
  BY DEF Failures, Restarts, Exists, TypeOK, Row
<1>3. CASE Restarts(k)
  BY <1>1, <1>2, <1>3 DEF Counted, Row
<1>4. CASE ~Restarts(k)
  <2>1. rows[k] \in Row /\ clock - rows[k].started < Window
    BY <1>1, <1>4 DEF Restarts, Exists, WindowOver, TypeOK, Row
  <2> QED
    BY <1>1, <1>2, <1>4, <2>1 DEF Counted, Row
<1> QED
  BY <1>3, <1>4

(* A lockout in force is not purged. *)
LEMMA BlockedNotPurged ==
    ASSUME IInv, NEW k \in Keys, Blocked(k)
    PROVE  k \notin Purged /\ Skips(k)
<1>1. clock \in Nat /\ Lockout \in Nat /\ Window \in Nat /\ rows[k] \in Row
  BY TimesAssumption, WindowAssumption DEF IInv, TypeOK, Blocked, Exists
<1>2. rows[k].blocked <= rows[k].updated + Lockout /\ rows[k].blocked > clock
  BY DEF IInv, EndsInTime, Blocked
<1>3. k \notin Purged
  BY <1>1, <1>2 DEF Purged, Retention, Row
<1> QED
  BY <1>3 DEF Skips
-----------------------------------------------------------------------------
(* Every step keeps the types, and a request that is handled asks for something. *)
LEMMA TypeStep == IInv /\ [Next]_vars => TypeOK' /\ Busy'
<1> SUFFICES ASSUME IInv, [Next]_vars PROVE TypeOK' /\ Busy'
  OBVIOUS
<1> USE DEF IInv
<1>1. ASSUME NEW c \in Clients, NEW a \in Attempts, Enforce(c, a) PROVE TypeOK' /\ Busy'
  BY <1>1 DEF Enforce, Forget, TypeOK, Busy, Phases
<1>2. ASSUME NEW c \in Clients, Reject(c) \/ AcceptLogin(c) \/ AcceptToken(c)
      PROVE TypeOK' /\ Busy'
  BY <1>2 DEF Reject, AcceptLogin, AcceptToken, TypeOK, Busy, Phases
<1>3. ASSUME NEW c \in Clients, Provision(c) PROVE TypeOK' /\ Busy'
  BY <1>3 DEF Provision, TypeOK, Busy, Phases
<1>4. ASSUME NEW c \in Clients, BootstrapClosed(c) \/ Die(c) PROVE TypeOK' /\ Busy'
  BY <1>4 DEF BootstrapClosed, Die, Done, TypeOK, Busy, Phases
<1>5. ASSUME NEW c \in Clients, RecordFailure(c) PROVE TypeOK' /\ Busy'
  <2>1. rows' \in [Keys -> Row \cup {NoRow}]
    BY <1>5, CountedRow DEF RecordFailure, TypeOK
  <2>2. told' \in [Keys -> Nat]
    BY <1>5 DEF RecordFailure, TypeOK
  <2> QED
    BY <1>5, <2>1, <2>2 DEF RecordFailure, Done, TypeOK, Busy, Phases
<1>6. ASSUME NEW c \in Clients, Clear(c) PROVE TypeOK' /\ Busy'
  BY <1>6 DEF Clear, Forget, Done, TypeOK, Busy, Phases
<1>7. ASSUME MoveClock PROVE TypeOK' /\ Busy'
  BY <1>7 DEF MoveClock, TypeOK, Busy
<1>8. ASSUME UNCHANGED vars PROVE TypeOK' /\ Busy'
  BY <1>8 DEF vars, TypeOK, Busy
<1> QED
  BY <1>1, <1>2, <1>3, <1>4, <1>5, <1>6, <1>7, <1>8 DEF Next

(* The rows keep their dates in order: a step leaves a row alone, deletes it or
   writes one that is dated now. *)
LEMMA DatesStep == IInv /\ [Next]_vars => CountedTogether' /\ EndsInTime'
<1> SUFFICES ASSUME IInv, [Next]_vars PROVE CountedTogether' /\ EndsInTime'
  OBVIOUS
<1>1. \A k \in Keys : rows'[k] \in {rows[k], NoRow, Counted(k)}
  <2>1. ASSUME NEW c \in Clients, NEW a \in Attempts, Enforce(c, a)
        PROVE \A k \in Keys : rows'[k] \in {rows[k], NoRow, Counted(k)}
    BY <2>1 DEF Enforce, Forget
  <2>2. ASSUME NEW c \in Clients, RecordFailure(c)
        PROVE \A k \in Keys : rows'[k] \in {rows[k], NoRow, Counted(k)}
    BY <2>2 DEF RecordFailure
  <2>3. ASSUME NEW c \in Clients, Clear(c)
        PROVE \A k \in Keys : rows'[k] \in {rows[k], NoRow, Counted(k)}
    BY <2>3 DEF Clear, Forget
  <2> QED
    BY <2>1, <2>2, <2>3 DEF Next, Reject, AcceptLogin, AcceptToken, Provision,
       BootstrapClosed, Die, MoveClock, vars
<1>2. \A k \in Keys :
         rows'[k] # NoRow => /\ rows'[k].updated - rows'[k].started < Window
                             /\ rows'[k].blocked <= rows'[k].updated + Lockout
  BY <1>1, CountedRow DEF IInv, CountedTogether, EndsInTime, Exists
<1> QED
  BY <1>2 DEF CountedTogether, EndsInTime, Exists

(* Only the first bootstrap provisions. *)
LEMMA BootstrapStep ==
    IInv /\ [Next]_vars => BootstrapOnce' /\ (founded' = 1 => users')
<1> SUFFICES ASSUME IInv, [Next]_vars PROVE BootstrapOnce' /\ (founded' = 1 => users')
  OBVIOUS
<1>1. ASSUME NEW c \in Clients, Provision(c) PROVE BootstrapOnce' /\ (founded' = 1 => users')
  <2>1. founded \in Nat /\ founded <= 1 /\ founded # 1
    BY <1>1 DEF Provision, IInv, TypeOK, BootstrapOnce
  <2>2. founded' = 1
    BY <1>1, <2>1 DEF Provision
  <2> QED
    BY <1>1, <2>2 DEF Provision, BootstrapOnce
<1>2. ASSUME UNCHANGED <<users, founded>> PROVE BootstrapOnce' /\ (founded' = 1 => users')
  BY <1>2 DEF IInv, BootstrapOnce
<1> QED
  BY <1>1, <1>2 DEF Next, Enforce, Reject, AcceptLogin, AcceptToken, BootstrapClosed,
     RecordFailure, Clear, Die, MoveClock, vars
-----------------------------------------------------------------------------
(* A key whose row and count stay as they are stays accounted for, when no new
   request comes under way for it. *)
LEMMA AccountedKept ==
    ASSUME IInv, NEW k \in Keys, rows'[k] = rows[k], told'[k] = told[k],
           InFlight(k)' \subseteq InFlight(k)
    PROVE  Accounted(k)'
<1>1. Cardinality(InFlight(k)') <= Cardinality(InFlight(k))
  BY Sizes DEF InFlight
<1>2. /\ Cardinality(InFlight(k)') \in Nat /\ Cardinality(InFlight(k)) \in Nat
      /\ Cardinality(Clients) \in Nat /\ Limit(k) \in Nat /\ told[k] \in Nat
  BY Sizes, KeysAndLimits DEF InFlight, IInv, TypeOK
<1> QED
  BY <1>1, <1>2 DEF IInv, Accounted

(* The admission of a request: a blocked row either denies it, or is over and
   is deleted. *)
LEMMA EnforceAccounted ==
    ASSUME IInv, NEW c \in Clients, NEW a \in Attempts, Enforce(c, a), NEW k \in Keys
    PROVE  Accounted(k)'
<1> DEFINE stale == {j \in KeysOf(a) : Stale(j)}
<1>1. rows' = Forget(stale) /\ told' = [j \in Keys |-> IF j \in stale THEN 0 ELSE told[j]]
  BY DEF Enforce
<1>2. CASE k \in stale
  BY <1>1, <1>2 DEF Forget, Accounted
<1>3. CASE k \notin stale
  <2>1. rows'[k] = rows[k] /\ told'[k] = told[k]
    BY <1>1, <1>3 DEF Forget
  <2>2. CASE rows[k] = NoRow \/ rows[k].blocked = 0
    <3>1. rows[k] # NoRow => rows[k] \in Row
      BY DEF IInv, TypeOK
    <3> QED
      BY <2>1, <2>2, <3>1 DEF IInv, Accounted, Row
  <2>3. CASE rows[k] # NoRow /\ rows[k].blocked # 0
    <3>1. k \in KeysOf(a) => Blocked(k)
      BY <1>3, <2>3 DEF Stale, Exists, IInv, TypeOK, Row
    <3>2. CASE k \in KeysOf(a)
      <4>1. UNCHANGED <<phase, attempt>>
        BY <3>1, <3>2 DEF Enforce, AllOpen
      <4> QED
        BY <2>1, <4>1, AccountedKept DEF InFlight
    <3>3. CASE k \notin KeysOf(a)
      <4>1. \A d \in Clients : d # c => phase'[d] = phase[d] /\ attempt'[d] = attempt[d]
        BY DEF Enforce, IInv, TypeOK
      <4>2. c \notin InFlight(k)'
        BY <3>3 DEF InFlight, Enforce, IInv, TypeOK
      <4>3. InFlight(k)' \subseteq InFlight(k)
        BY <4>1, <4>2 DEF InFlight
      <4> QED
        BY <2>1, <4>3, AccountedKept
    <3> QED
      BY <3>2, <3>3
  <2> QED
    BY <2>2, <2>3
<1> QED
  BY <1>2, <1>3

(* A failure: it fills an open row or locks it when its request is the last of
   the limit, and under a lockout it uses up the room that was left for it. *)
LEMMA RecordAccounted ==
    ASSUME IInv, NEW c \in Clients, RecordFailure(c), NEW k \in Keys
    PROVE  Accounted(k)'
<1>1. /\ c \notin InFlight(k)' /\ InFlight(k)' \subseteq InFlight(k)
      /\ InFlight(k)' \subseteq Clients \ {c}
  BY DEF RecordFailure, Done, InFlight, IInv, TypeOK
<1>2. /\ Cardinality(InFlight(k)') \in Nat /\ Cardinality(InFlight(k)) \in Nat
      /\ Cardinality(Clients) \in Nat /\ Limit(k) \in Nat /\ Limit(k) > 1
      /\ told[k] \in Nat /\ clock \in Nat /\ Lockout \in Nat \ {0}
  BY Sizes, KeysAndLimits, TimesAssumption, WindowAssumption DEF InFlight, IInv, TypeOK
<1>3. Cardinality(InFlight(k)') <= Cardinality(Clients) - 1
  BY <1>1, Sizes
<1>4. CASE k \notin KeysOf(attempt[c])
  <2>1. CASE k \in Purged
    BY <1>4, <2>1 DEF RecordFailure, Accounted
  <2>2. CASE k \notin Purged
    BY <1>1, <1>4, <2>2, AccountedKept DEF RecordFailure
  <2> QED
    BY <2>1, <2>2
<1>5. CASE k \in KeysOf(attempt[c]) /\ Skips(k)
  <2>1. rows'[k] = rows[k] /\ told'[k] = told[k] + 1
    BY <1>5 DEF RecordFailure
  <2>2. rows[k] # NoRow /\ rows[k].blocked > 0
    BY <1>2, <1>5 DEF Skips, Blocked, Exists, IInv, TypeOK, Row
  <2>3. c \in InFlight(k)
    BY <1>5 DEF RecordFailure, InFlight
  <2>4. Cardinality(InFlight(k)') <= Cardinality(InFlight(k)) - 1
    <3>1. InFlight(k) \in SUBSET Clients /\ InFlight(k)' \in SUBSET (InFlight(k) \ {c})
      BY <1>1 DEF InFlight
    <3> QED
      BY <2>3, <3>1, Sizes
  <2>5. told[k] + Cardinality(InFlight(k)) <= Limit(k) + Cardinality(Clients) - 1
    BY <2>2 DEF IInv, Accounted
  <2>6. told'[k] + Cardinality(InFlight(k)') <= Limit(k) + Cardinality(Clients) - 1
    BY <1>2, <2>1, <2>4, <2>5
  <2>7. rows'[k] # NoRow /\ rows'[k].blocked > 0 /\ rows'[k].blocked # 0
    BY <1>2, <2>1, <2>2 DEF IInv, TypeOK, Row
  <2> QED
    BY <2>6, <2>7 DEF Accounted
<1>6. CASE k \in KeysOf(attempt[c]) /\ ~Skips(k)
  <2>1. rows'[k] = Counted(k) /\ rows'[k] # NoRow
    BY <1>6, CountedRow, NoneAssumption DEF RecordFailure
  <2>2. told'[k] = Failures(k)
    <3>1. CASE Restarts(k)
      BY <1>6, <3>1 DEF RecordFailure, Failures
    <3>2. CASE ~Restarts(k)
      <4>1. rows[k] # NoRow /\ rows[k].blocked = 0
        BY <3>2 DEF Restarts, Exists, IInv, TypeOK, Row
      <4>2. told[k] = rows[k].failures
        BY <4>1 DEF IInv, Accounted
      <4> QED
        BY <1>6, <3>2, <4>2 DEF RecordFailure, Failures
    <3> QED
      BY <3>1, <3>2
  <2>3. Failures(k) \in Nat /\ Failures(k) <= Limit(k)
    <3>1. CASE Restarts(k)
      BY <1>2, <3>1 DEF Failures
    <3>2. CASE ~Restarts(k)
      <4>1. rows[k] # NoRow /\ rows[k].blocked = 0 /\ rows[k] \in Row
        BY <3>2 DEF Restarts, Exists, IInv, TypeOK, Row
      <4>2. rows[k].failures < Limit(k)
        BY <4>1 DEF IInv, Accounted
      <4> QED
        BY <1>2, <3>2, <4>1, <4>2 DEF Failures, Row
    <3> QED
      BY <3>1, <3>2
  <2>4. CASE AtLimit(k)
    <3>1. rows'[k].blocked > 0 /\ rows'[k].blocked # 0
      BY <1>2, <2>1, <2>4 DEF Counted
    <3>2. told'[k] + Cardinality(InFlight(k)') <= Limit(k) + Cardinality(Clients) - 1
      BY <1>2, <1>3, <2>2, <2>3
    <3> QED
      BY <2>1, <3>1, <3>2 DEF Accounted
  <2>5. CASE ~AtLimit(k)
    <3>1. rows'[k].blocked = 0 /\ rows'[k].failures = Failures(k)
      BY <2>1, <2>5 DEF Counted
    <3>2. Failures(k) < Limit(k)
      BY <1>2, <2>3, <2>5 DEF AtLimit
    <3> QED
      BY <2>1, <2>2, <3>1, <3>2 DEF Accounted
  <2> QED
    BY <2>4, <2>5
<1> QED
  BY <1>4, <1>5, <1>6

(* Every step keeps every key accounted for. *)
LEMMA AccountedStep == IInv /\ [Next]_vars => \A k \in Keys : Accounted(k)'
<1> SUFFICES ASSUME IInv, [Next]_vars, NEW k \in Keys PROVE Accounted(k)'
  OBVIOUS
<1>1. ASSUME NEW c \in Clients, NEW a \in Attempts, Enforce(c, a) PROVE Accounted(k)'
  BY <1>1, EnforceAccounted
<1>2. ASSUME NEW c \in Clients,
             \/ Reject(c) \/ AcceptLogin(c) \/ AcceptToken(c) \/ Provision(c)
             \/ BootstrapClosed(c) \/ Die(c)
      PROVE Accounted(k)'
  <2>1. rows'[k] = rows[k] /\ told'[k] = told[k]
    BY <1>2 DEF Reject, AcceptLogin, AcceptToken, Provision, BootstrapClosed, Die
  <2>2. \A d \in Clients : d # c => phase'[d] = phase[d] /\ attempt'[d] = attempt[d]
    BY <1>2 DEF Reject, AcceptLogin, AcceptToken, Provision, BootstrapClosed, Die, Done,
       IInv, TypeOK
  <2>3. c \in InFlight(k)' => c \in InFlight(k)
    BY <1>2 DEF Reject, AcceptLogin, AcceptToken, Provision, BootstrapClosed, Die, Done,
       InFlight, IInv, TypeOK
  <2>4. InFlight(k)' \subseteq InFlight(k)
    BY <2>2, <2>3 DEF InFlight
  <2> QED
    BY <2>1, <2>4, AccountedKept
<1>3. ASSUME NEW c \in Clients, RecordFailure(c) PROVE Accounted(k)'
  BY <1>3, RecordAccounted
<1>4. ASSUME NEW c \in Clients, Clear(c) PROVE Accounted(k)'
  <2>1. CASE k \in KeysOf(attempt[c])
    BY <1>4, <2>1 DEF Clear, Forget, Accounted
  <2>2. CASE k \notin KeysOf(attempt[c])
    <3>1. rows'[k] = rows[k] /\ told'[k] = told[k]
      BY <1>4, <2>2 DEF Clear, Forget
    <3>2. InFlight(k)' \subseteq InFlight(k)
      BY <1>4 DEF Clear, Done, InFlight, IInv, TypeOK
    <3> QED
      BY <3>1, <3>2, AccountedKept
  <2> QED
    BY <2>1, <2>2
<1>5. ASSUME MoveClock \/ UNCHANGED vars PROVE Accounted(k)'
  <2>1. rows'[k] = rows[k] /\ told'[k] = told[k] /\ InFlight(k)' = InFlight(k)
    BY <1>5 DEF MoveClock, vars, InFlight
  <2> QED
    BY <2>1, AccountedKept
<1> QED
  BY <1>1, <1>2, <1>3, <1>4, <1>5 DEF Next
-----------------------------------------------------------------------------
(* The inductive invariant holds in every reachable state. *)
THEOREM Invariance == Spec => []IInv
<1>1. IInv /\ [Next]_vars => IInv'
  BY TypeStep, DatesStep, BootstrapStep, AccountedStep DEF IInv
<1> QED
  BY InitIInv, <1>1, PTL DEF Spec

(* Types of the rate limit table and of the requests that are handled. *)
THEOREM TypeCorrect == Spec => []TypeOK
<1>1. IInv => TypeOK
  BY DEF IInv
<1> QED
  BY Invariance, <1>1, PTL

(* _enforce and _record_failure, two transactions with a password check between
   them, let through at most the limit and the requests already under way, for
   every number of concurrent requests. *)
THEOREM FailuresAreBounded == Spec => []FailuresBounded
<1>1. IInv => FailuresBounded
  <2> SUFFICES ASSUME IInv, NEW k \in Keys
               PROVE  told[k] <= Limit(k) + Cardinality(Clients) - 1
    BY DEF FailuresBounded
  <2>1. /\ Cardinality(InFlight(k)) \in Nat /\ Cardinality(Clients) \in Nat
        /\ Limit(k) \in Nat /\ Limit(k) > 1 /\ told[k] \in Nat
    BY Sizes, KeysAndLimits DEF InFlight, IInv, TypeOK
  <2>2. Accounted(k) /\ (rows[k] # NoRow => rows[k] \in Row)
    BY DEF IInv, TypeOK
  <2> QED
    BY <2>1, <2>2 DEF Accounted, Row
<1> QED
  BY Invariance, <1>1, PTL

(* Failures counted in one row of auth_rate_limits lie within one window. *)
THEOREM OneWindowPerRow == Spec => []CountedTogether
<1>1. IInv => CountedTogether
  BY DEF IInv
<1> QED
  BY Invariance, <1>1, PTL

(* bootstrap_admin provisions at most one administrator. *)
THEOREM OneBootstrap == Spec => []BootstrapOnce
<1>1. IInv => BootstrapOnce
  BY DEF IInv
<1> QED
  BY Invariance, <1>1, PTL

(* A lockout in force is only ever lifted by a success that was admitted before
   it, and never by the cleaning up in _record_failure. *)
THEOREM LockoutsAreKept == Spec => LockoutKept
<1> DEFINE Kept == \A k \in Keys :
      Blocked(k) /\ rows'[k] # rows[k] =>
          /\ rows'[k] = NoRow
          /\ \E c \in Clients : phase[c] = "granted" /\ k \in KeysOf(attempt[c])
<1>1. IInv /\ [Next]_vars => [Kept]_vars
  <2> SUFFICES ASSUME IInv, Next, NEW k \in Keys, Blocked(k), rows'[k] # rows[k]
               PROVE  /\ rows'[k] = NoRow
                      /\ \E c \in Clients : phase[c] = "granted" /\ k \in KeysOf(attempt[c])
    OBVIOUS
  <2>1. ASSUME NEW c \in Clients, NEW a \in Attempts, Enforce(c, a) PROVE FALSE
    BY <2>1 DEF Enforce, Forget, Stale
  <2>2. ASSUME NEW c \in Clients, RecordFailure(c) PROVE FALSE
    BY <2>2, BlockedNotPurged DEF RecordFailure
  <2>3. PICK c \in Clients : Clear(c)
    BY <2>1, <2>2 DEF Next, Reject, AcceptLogin, AcceptToken, Provision,
       BootstrapClosed, Die, MoveClock
  <2> QED
    BY <2>3 DEF Clear, Forget
<1> QED
  BY Invariance, <1>1, PTL DEF Spec, LockoutKept
=============================================================================
