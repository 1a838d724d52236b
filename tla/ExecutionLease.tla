--------------------------- MODULE ExecutionLease ---------------------------
(***************************************************************************)
(* Several callers of the lease store at once. A caller holds a lease,     *)
(* checks the fence, reads the provider and completes; it may be slow,     *)
(* die, or repeat a completion whose answer it lost. The fence check of    *)
(* durable_current_fence.py reads the row, closes the connection, and only *)
(* then looks at the clock, so the row can change before the provider is   *)
(* read: those are separate steps here.                                    *)
(***************************************************************************)
EXTENDS LeaseStore

CONSTANTS Workers,   \* concurrent callers
          Digests,   \* observation digests the provider READ can produce
          NoLease

ASSUME NoDigestAssumption == NoDigest \notin Digests
ASSUME NoLeaseAssumption == NoLease \notin Lease

VARIABLES phase,  \* where each caller is
          held,   \* the lease document it was handed
          obs,    \* the digest of what it observed
          acks    \* history: completions that were reported as successful

vars == <<clock, admitted, leases, state, phase, held, obs, acks>>
callerVars == <<phase, held, obs, acks>>

Phases == {"idle", "holding", "checked", "observed"}
Ack == [adm : Admissions, epoch : Nat, digest : Digests]

TypeOK ==
    /\ clock \in Nat
    /\ admitted \subseteq Admissions
    /\ leases \subseteq Lease
    /\ state \in [Admissions -> [status : {"NONE", "ACTIVE", "COMPLETED"},
                                 epoch : Nat, acquired : Nat, expires : Nat,
                                 digest : Digests \cup {NoDigest},
                                 completed : Nat]]
    /\ phase \in [Workers -> Phases]
    /\ held \in [Workers -> Lease \cup {NoLease}]
    /\ obs \in [Workers -> Digests \cup {NoDigest}]
    /\ acks \subseteq Ack

Init ==
    /\ StoreInit
    /\ phase = [w \in Workers |-> "idle"]
    /\ held = [w \in Workers |-> NoLease]
    /\ obs = [w \in Workers |-> NoDigest]
    /\ acks = {}

(* The dispatch inbox stores an admission. *)
Admit(a) ==
    /\ a \notin admitted
    /\ admitted' = admitted \cup {a}
    /\ UNCHANGED <<clock, leases, state, callerVars>>

AcquireLease(w, a) ==
    /\ phase[w] = "idle"
    /\ Acquire(a)
    /\ phase' = [phase EXCEPT ![w] = "holding"]
    /\ held' = [held EXCEPT ![w] = CandidateLease(a, NextEpoch(a), clock)]
    /\ UNCHANGED <<obs, acks>>

(* A second caller picks up the lease that is stored as current, the way the
   resume service reconstructs a prepared execution. *)
PickUp(w, a) ==
    /\ phase[w] = "idle"
    /\ IsCurrent(CurrentLease(a))
    /\ phase' = [phase EXCEPT ![w] = "holding"]
    /\ held' = [held EXCEPT ![w] = CurrentLease(a)]
    /\ UNCHANGED <<storeVars, obs, acks>>

(* assert_current, up to the end of its database read. *)
CheckRow(w) ==
    /\ phase[w] = "holding"
    /\ IsCurrent(held[w])
    /\ phase' = [phase EXCEPT ![w] = "checked"]
    /\ UNCHANGED <<storeVars, held, obs, acks>>

(* The clock half of assert_current, then the provider READ. *)
Observe(w, d) ==
    /\ phase[w] = "checked"
    /\ InWindow(held[w], clock)
    /\ phase' = [phase EXCEPT ![w] = "observed"]
    /\ obs' = [obs EXCEPT ![w] = d]
    /\ UNCHANGED <<storeVars, held, acks>>

(* A caller reports what it observed; it stays where it is, so it can report
   again when the answer was lost. *)
Report(w) ==
    /\ phase[w] = "observed"
    /\ \/ Complete(held[w], obs[w])
       \/ DuplicateCompletion(held[w], obs[w])
    /\ acks' = acks \cup {[adm |-> held[w].adm, epoch |-> held[w].epoch,
                           digest |-> obs[w]]}
    /\ UNCHANGED <<phase, held, obs>>

(* A denial, a provider failure or a crash: the caller forgets everything. *)
GiveUp(w) ==
    /\ phase[w] # "idle"
    /\ phase' = [phase EXCEPT ![w] = "idle"]
    /\ held' = [held EXCEPT ![w] = NoLease]
    /\ obs' = [obs EXCEPT ![w] = NoDigest]
    /\ UNCHANGED <<storeVars, acks>>

MoveClock == ClockMoves /\ UNCHANGED callerVars

WorkerStep(w) ==
    \/ \E a \in Admissions : AcquireLease(w, a)
    \/ \E a \in Admissions : PickUp(w, a)
    \/ CheckRow(w)
    \/ \E d \in Digests : Observe(w, d)
    \/ Report(w)
    \/ GiveUp(w)

Next ==
    \/ \E a \in Admissions : Admit(a)
    \/ \E w \in Workers : WorkerStep(w)
    \/ MoveClock

Spec == Init /\ [][Next]_vars
-----------------------------------------------------------------------------
(* Leases of one admission never overlap: a later epoch begins no earlier than
   the earlier one ended, whatever the clock did in between. Otherwise two
   callers could both pass the fence of execution_lease.py at one instant. *)
WindowsDisjoint ==
    \A l, m \in leases :
        l.adm = m.adm /\ l.epoch < m.epoch => l.expires <= m.acquired

(* A completed execution was completed by its newest lease, inside that lease's
   window: no caller of an epoch that was superseded got its result stored. *)
CompletionFenced ==
    \A a \in Admissions :
        state[a].status = "COMPLETED" =>
            /\ CurrentLease(a) \in leases
            /\ \A l \in leases : l.adm = a => l.epoch <= state[a].epoch
            /\ InWindow(CurrentLease(a), state[a].completed)

(* Every caller that was told COMPLETED or DUPLICATE_COMPLETION was told so
   about the one digest that is stored, and stays right for ever: repeated and
   racing completions of execution_lease_persistence.complete never diverge. *)
AcksAgree ==
    \A k \in acks :
        /\ state[k.adm].status = "COMPLETED"
        /\ state[k.adm].epoch = k.epoch
        /\ state[k.adm].digest = k.digest

(* The service only ever asks for what the triggers of migration 0013 allow:
   a transaction that passes the checks in Python is never aborted by SQLite. *)
ImplementsTable == Table!Spec
=============================================================================
