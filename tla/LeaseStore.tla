------------------------------ MODULE LeaseStore ------------------------------
(***************************************************************************)
(* The durable lease and epoch store: DurableExecutionLeaseService         *)
(* (execution_lease_persistence.py) over the contract of ExecutionLease    *)
(* (execution_lease.py). Every operation is one BEGIN IMMEDIATE            *)
(* transaction of db.py, so it is one atomic step here; a denial raises    *)
(* inside the transaction, which rolls back, so a denied call is a step    *)
(* that does not happen.                                                   *)
(*                                                                         *)
(* Digests are collision free, so a row and its digest are one thing, and  *)
(* lease_id, which hashes (admission_id, execution_epoch), is that pair.   *)
(***************************************************************************)
EXTENDS Naturals

CONSTANTS Admissions,    \* admissions the dispatch inbox may hold
          LeaseSeconds,  \* lease_seconds of the service
          Times,         \* instants the trusted clock may report
          NoDigest       \* the NULL completion_digest

ASSUME LeaseSecondsAssumption == LeaseSeconds \in 1..3600
ASSUME TimesAssumption == Times \subseteq Nat

VARIABLES clock,     \* what TrustedClockAuthority.witness would report now
          admitted,  \* dispatch_inbox_v1: the admissions that are stored
          leases,    \* execution_leases_v1
          state      \* execution_epoch_state_v1

storeVars == <<clock, admitted, leases, state>>

Table == INSTANCE EpochStateTable

Lease == [adm : Admissions, epoch : Nat, acquired : Nat, expires : Nat]

(* The current row of an admission, as the lease it names. *)
CurrentLease(a) == [adm |-> a, epoch |-> state[a].epoch,
                    acquired |-> state[a].acquired, expires |-> state[a].expires]

(* assert_completion_fence: this lease is the current epoch and the clock is
   inside its window. The clock may have stepped back, hence both bounds. *)
InWindow(l, t) == l.acquired <= t /\ t < l.expires
FenceWithoutClock(l, currentEpoch, t) == currentEpoch = l.epoch  \* mutant
FenceHolds(l, currentEpoch, t) == currentEpoch = l.epoch /\ InWindow(l, t)

(* A previous lease that is not expired denies with LEASE_STILL_ACTIVE. *)
ExpiredTooSoon(l, t) == t + 1 >= l.expires  \* mutant
Expired(l, t) == t >= l.expires

(* create_candidate; the mutant takes the window backwards. *)
CandidateBackwards(a, epoch, t) ==
    [adm |-> a, epoch |-> epoch, acquired |-> t, expires |-> t - LeaseSeconds]
CandidateLease(a, epoch, t) ==
    [adm |-> a, epoch |-> epoch, acquired |-> t, expires |-> t + LeaseSeconds]

(* candidate_epoch and assert_next_execution_epoch. *)
EpochFromOne(a) == 1  \* mutant
NextEpoch(a) == IF state[a].status = "NONE" THEN 1 ELSE state[a].epoch + 1

(* acquire, up to the lease it hands back. *)
MayAcquire(a) ==
    /\ a \in admitted
    /\ \/ state[a].status = "NONE"
       \/ state[a].status = "ACTIVE" /\ Expired(CurrentLease(a), clock)

Acquire(a) ==
    LET l == CandidateLease(a, NextEpoch(a), clock)
    IN  /\ MayAcquire(a)
        /\ leases' = leases \cup {l}
        /\ state' = [state EXCEPT ![a] =
                        [status |-> "ACTIVE", epoch |-> l.epoch,
                         acquired |-> l.acquired, expires |-> l.expires,
                         digest |-> NoDigest, completed |-> 0]]
        /\ UNCHANGED <<clock, admitted>>

(* complete with a lease that is current and active: COMPLETED. *)
MayComplete(l) ==
    /\ l \in leases
    /\ CurrentLease(l.adm) = l
    /\ state[l.adm].status = "ACTIVE"
    /\ FenceHolds(l, state[l.adm].epoch, clock)

Complete(l, d) ==
    /\ MayComplete(l)
    /\ state' = [state EXCEPT ![l.adm].status = "COMPLETED",
                              ![l.adm].digest = d,
                              ![l.adm].completed = clock]
    /\ UNCHANGED <<clock, admitted, leases>>

(* complete again with the digest that is stored: DUPLICATE_COMPLETION. It
   neither writes nor looks at the clock. A different digest raises
   COMPLETION_DIGEST_CONFLICT. The mutant answers without comparing. *)
DuplicateUnchecked(l, d) ==
    /\ l \in leases
    /\ CurrentLease(l.adm) = l
    /\ state[l.adm].status = "COMPLETED"
    /\ UNCHANGED storeVars

DuplicateCompletion(l, d) ==
    /\ l \in leases
    /\ CurrentLease(l.adm) = l
    /\ state[l.adm].status = "COMPLETED"
    /\ state[l.adm].digest = d
    /\ UNCHANGED storeVars

(* DurableCurrentExecutionFence.assert_current, the part that reads the
   database: the row is ACTIVE and is this very lease. *)
IsCurrent(l) ==
    /\ l \in leases
    /\ state[l.adm].status = "ACTIVE"
    /\ CurrentLease(l.adm) = l

(* The trusted clock is the system UTC clock: it moves on, and an adjustment
   may move it back. *)
ClockMoves ==
    /\ clock' \in Times \ {clock}
    /\ UNCHANGED <<admitted, leases, state>>

StoreInit ==
    /\ clock \in Times
    /\ admitted = {}
    /\ Table!Init
=============================================================================
