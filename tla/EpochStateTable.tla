--------------------------- MODULE EpochStateTable ---------------------------
(***************************************************************************)
(* What the database itself promises about execution_leases_v1 and         *)
(* execution_epoch_state_v1: the CHECKs, UNIQUE keys and triggers of       *)
(* migration 0013, independent of the service that writes the rows.        *)
(* ExecutionLease is shown to implement this specification, which means    *)
(* that no transaction of the service is ever aborted by a trigger.        *)
(***************************************************************************)
EXTENDS Naturals

CONSTANTS Admissions,   \* rows of dispatch_inbox_v1
          NoDigest      \* the NULL completion_digest

VARIABLES leases,       \* execution_leases_v1: a set of lease rows
          state         \* execution_epoch_state_v1, one row per admission

tableVars == <<leases, state>>

(* The row of an admission that has no epoch state yet. *)
NoState == [status |-> "NONE", epoch |-> 0, acquired |-> 0, expires |-> 0,
            digest |-> NoDigest, completed |-> 0]

(* current_lease_id, _digest, _acquired_at and _expires_at of a state row
   name a stored lease of that admission and epoch. *)
NamesStoredLease(a, row, stored) ==
    [adm |-> a, epoch |-> row.epoch,
     acquired |-> row.acquired, expires |-> row.expires] \in stored

(* UNIQUE(admission_id, execution_epoch) and PRIMARY KEY(lease_id). *)
OneLeasePerEpoch(stored) ==
    \A l, m \in stored : l.adm = m.adm /\ l.epoch = m.epoch => l = m

(* trg_execution_epoch_state_v1_insert_guard *)
InsertGuard(a) ==
    /\ state[a] = NoState
    /\ state'[a].epoch = 1
    /\ state'[a].status = "ACTIVE"
    /\ state'[a].digest = NoDigest
    /\ NamesStoredLease(a, state'[a], leases')

(* trg_execution_epoch_state_v1_update_guard, ACTIVE to ACTIVE. The new row's
   updated_at is the instant the new lease was acquired at. *)
ReacquireGuard(a) ==
    /\ state[a].status = "ACTIVE"
    /\ state'[a].status = "ACTIVE"
    /\ state'[a].epoch = state[a].epoch + 1
    /\ state'[a].acquired >= state[a].expires
    /\ state'[a].digest = NoDigest
    /\ NamesStoredLease(a, state'[a], leases')

(* trg_execution_epoch_state_v1_update_guard, ACTIVE to COMPLETED. *)
CompleteGuard(a) ==
    /\ state[a].status = "ACTIVE"
    /\ state'[a].status = "COMPLETED"
    /\ state'[a].epoch = state[a].epoch
    /\ state'[a].acquired = state[a].acquired
    /\ state'[a].expires = state[a].expires
    /\ state'[a].digest # NoDigest
    /\ state'[a].acquired <= state'[a].completed
    /\ state'[a].completed < state'[a].expires

Init ==
    /\ leases = {}
    /\ state = [a \in Admissions |-> NoState]

(* One committed transaction: leases are append-only (the immutable_update and
   immutable_delete triggers), and a state row only changes through a guard. *)
Commit ==
    /\ leases \subseteq leases'
    /\ OneLeasePerEpoch(leases')
    /\ \A a \in Admissions :
          \/ state'[a] = state[a]
          \/ InsertGuard(a)
          \/ ReacquireGuard(a)
          \/ CompleteGuard(a)

Spec == Init /\ [][Commit]_tableVars
=============================================================================
