---------------------------- MODULE AuthRateLimit ----------------------------
(***************************************************************************)
(* The limits on failed logins and failed bootstraps (auth_rate_limit.py), *)
(* as the two handlers of api.py use them, and the bootstrap itself        *)
(* (bootstrap.py).                                                         *)
(*                                                                         *)
(* A handler enforces the limit, checks the credential, and then records   *)
(* the failure or clears the counters: three transactions, so requests     *)
(* that were admitted together are counted one after the other. The clock  *)
(* is read before a transaction begins and may have been stepped back;     *)
(* both are a clock that has any value when the transaction runs. What a   *)
(* handler does after clearing (it issues a session) touches none of this. *)
(***************************************************************************)
EXTENDS Integers, FiniteSets

CONSTANTS Clients,            \* requests that are handled at the same time
          Accounts, Sources,  \* normalized user names and client addresses
          BootstrapSources,   \* addresses that bootstraps come from
          MaxFailures,        \* auth_max_failures
          SourceMaxFailures,  \* auth_source_max_failures
          Window,             \* auth_window_seconds
          Lockout,            \* auth_lockout_seconds
          Times,              \* bound: the instants the clock shows
          NoRow, NoAttempt

ASSUME ClientsAssumption == IsFiniteSet(Clients)
ASSUME LimitAssumption ==
    /\ MaxFailures \in Nat \ {0, 1}
    /\ SourceMaxFailures \in Nat /\ MaxFailures <= SourceMaxFailures
ASSUME WindowAssumption == Window \in Nat \ {0} /\ Lockout \in Nat \ {0}
ASSUME TimesAssumption == Times \subseteq Nat

Logins == [scope : {"login"}, account : Accounts, source : Sources]
Bootstraps == [scope : {"bootstrap"}, source : BootstrapSources]
Attempts == Logins \cup Bootstraps

(* _login_keys and _bootstrap_keys. *)
AccountKeys == {"login.account"} \X Accounts
SourceKeys == {"login.source"} \X Sources
BootstrapKeys == {"bootstrap.source"} \X BootstrapSources
Keys == AccountKeys \cup SourceKeys \cup BootstrapKeys
KeysOf(a) ==
    IF a.scope = "login"
    THEN {<<"login.account", a.account>>, <<"login.source", a.source>>}
    ELSE {<<"bootstrap.source", a.source>>}
Limit(k) == IF k[1] = "login.source" THEN SourceMaxFailures ELSE MaxFailures

Row == [failures : Nat, started : Nat, blocked : Nat, updated : Nat]

ASSUME NoneAssumption == NoRow \notin Row /\ NoAttempt \notin Attempts

VARIABLES clock,
          rows,     \* auth_rate_limits; NoRow where there is none
          users,    \* the users table is not empty
          attempt,  \* what each request asks for
          phase,    \* where its handler is
          told,     \* history: failures answered since a key was last open
          founded   \* history: how many administrators were bootstrapped

vars == <<clock, rows, users, attempt, phase, told, founded>>

Phases == {"idle", "admitted", "failed", "trusted", "granted"}

TypeOK ==
    /\ clock \in Times
    /\ rows \in [Keys -> Row \cup {NoRow}]
    /\ users \in BOOLEAN
    /\ attempt \in [Clients -> Attempts \cup {NoAttempt}]
    /\ phase \in [Clients -> Phases]
    /\ told \in [Keys -> Nat]
    /\ founded \in Nat

Init ==
    /\ clock \in Times
    /\ rows = [k \in Keys |-> NoRow]
    /\ users \in BOOLEAN  \* a new database, or one that was in use before
    /\ attempt = [c \in Clients |-> NoAttempt]
    /\ phase = [c \in Clients |-> "idle"]
    /\ told = [k \in Keys |-> 0]
    /\ founded = 0
-----------------------------------------------------------------------------
Exists(k) == rows[k] # NoRow

(* A row that counts nothing any more: its lockout is over, or it was never
   blocked and its window is over. The mutant keeps counting one second too
   long. *)
Blocked(k) == Exists(k) /\ rows[k].blocked > clock
WindowOverLate(r) == clock - r.started > Window  \* mutant
WindowOver(r) == clock - r.started >= Window
Stale(k) == Exists(k) /\ ~Blocked(k) /\ (rows[k].blocked > 0 \/ WindowOver(rows[k]))

Forget(S) == [k \in Keys |-> IF k \in S THEN NoRow ELSE rows[k]]

Done(c) ==
    /\ phase' = [phase EXCEPT ![c] = "idle"]
    /\ attempt' = [attempt EXCEPT ![c] = NoAttempt]

(* _enforce: what is stale is deleted even when another key denies the
   request. The mutant is content with one open key. *)
FirstOpen(a) == \E k \in KeysOf(a) : ~Blocked(k)  \* mutant
AllOpen(a) == \A k \in KeysOf(a) : ~Blocked(k)

Enforce(c, a) ==
    /\ phase[c] = "idle"
    /\ LET stale == {k \in KeysOf(a) : Stale(k)}
       IN /\ rows' = Forget(stale)
          /\ told' = [k \in Keys |-> IF k \in stale THEN 0 ELSE told[k]]
    /\ IF AllOpen(a)
       THEN /\ phase' = [phase EXCEPT ![c] = "admitted"]
            /\ attempt' = [attempt EXCEPT ![c] = a]
       ELSE UNCHANGED <<phase, attempt>>
    /\ UNCHANGED <<clock, users, founded>>

(* authenticate, or the comparison of the bootstrap token. An account that
   does not exist fails like a wrong password. *)
Reject(c) ==
    /\ phase[c] = "admitted"
    /\ phase' = [phase EXCEPT ![c] = "failed"]
    /\ UNCHANGED <<clock, rows, users, attempt, told, founded>>

AcceptLogin(c) ==
    /\ phase[c] = "admitted"
    /\ attempt[c].scope = "login"
    /\ users
    /\ phase' = [phase EXCEPT ![c] = "granted"]
    /\ UNCHANGED <<clock, rows, users, attempt, told, founded>>

AcceptToken(c) ==
    /\ phase[c] = "admitted"
    /\ attempt[c].scope = "bootstrap"
    /\ phase' = [phase EXCEPT ![c] = "trusted"]
    /\ UNCHANGED <<clock, rows, users, attempt, told, founded>>

(* The transaction of bootstrap_admin. A bootstrap that is closed is neither
   recorded as a failure nor cleared. The mutant counts the users before its
   transaction begins. *)
ProvisionUnchecked(c) ==
    /\ phase[c] = "trusted"
    /\ users' = TRUE
    /\ founded' = founded + 1
    /\ phase' = [phase EXCEPT ![c] = "granted"]
    /\ UNCHANGED <<clock, rows, attempt, told>>

Provision(c) ==
    /\ phase[c] = "trusted"
    /\ ~users
    /\ users' = TRUE
    /\ founded' = founded + 1
    /\ phase' = [phase EXCEPT ![c] = "granted"]
    /\ UNCHANGED <<clock, rows, attempt, told>>

BootstrapClosed(c) ==
    /\ phase[c] = "trusted"
    /\ users
    /\ Done(c)
    /\ UNCHANGED <<clock, rows, users, told, founded>>
-----------------------------------------------------------------------------
(* _record_failure: rows that nobody has touched for twice the longer of the
   two periods go first, whatever their key is. The mutant keeps rows for a
   window only. *)
ShortRetention == Window  \* mutant
Retention == 2 * (IF Window > Lockout THEN Window ELSE Lockout)
Purged == {k \in Keys : Exists(k) /\ rows[k].updated < clock - Retention}

(* What the failure makes of the row of a key that is not blocked. *)
Restarts(k) ==
    k \in Purged \/ ~Exists(k) \/ rows[k].blocked > 0 \/ WindowOver(rows[k])
Failures(k) == IF Restarts(k) THEN 1 ELSE rows[k].failures + 1
AtLimit(k) == Failures(k) >= Limit(k)

(* The row that is written. The mutant subtracts the lockout. *)
CountedBackwards(k) ==
    [failures |-> Failures(k), started |-> clock,
     blocked |-> IF AtLimit(k) THEN clock - Lockout ELSE 0, updated |-> clock]

Counted(k) ==
    [failures |-> Failures(k),
     started |-> IF Restarts(k) THEN clock ELSE rows[k].started,
     blocked |-> IF AtLimit(k) THEN clock + Lockout ELSE 0,
     updated |-> clock]

Skips(k) == k \notin Purged /\ Blocked(k)

RecordFailure(c) ==
    /\ phase[c] = "failed"
    /\ rows' = [k \in Keys |->
                  IF k \in KeysOf(attempt[c])
                  THEN IF Skips(k) THEN rows[k] ELSE Counted(k)
                  ELSE IF k \in Purged THEN NoRow ELSE rows[k]]
    /\ told' = [k \in Keys |->
                  IF k \in KeysOf(attempt[c])
                  THEN IF ~Skips(k) /\ Restarts(k) THEN 1 ELSE told[k] + 1
                  ELSE IF k \in Purged THEN 0 ELSE told[k]]
    /\ Done(c)
    /\ UNCHANGED <<clock, users, founded>>

(* _clear, after a success. *)
Clear(c) ==
    /\ phase[c] = "granted"
    /\ rows' = Forget(KeysOf(attempt[c]))
    /\ told' = [k \in Keys |-> IF k \in KeysOf(attempt[c]) THEN 0 ELSE told[k]]
    /\ Done(c)
    /\ UNCHANGED <<clock, users, founded>>

(* The process dies in the middle of a request: nobody is answered. *)
Die(c) ==
    /\ phase[c] # "idle"
    /\ Done(c)
    /\ UNCHANGED <<clock, rows, users, told, founded>>

MoveClock ==
    /\ clock' \in Times \ {clock}
    /\ UNCHANGED <<rows, users, attempt, phase, told, founded>>

Next ==
    \/ \E c \in Clients :
          \/ \E a \in Attempts : Enforce(c, a)
          \/ Reject(c)
          \/ AcceptLogin(c)
          \/ AcceptToken(c)
          \/ Provision(c)
          \/ BootstrapClosed(c)
          \/ RecordFailure(c)
          \/ Clear(c)
          \/ Die(c)
    \/ MoveClock

Spec == Init /\ [][Next]_vars
-----------------------------------------------------------------------------
(* A key answers at most its limit of failures before it locks, and afterwards
   only those that were already under way: with n requests at a time, n - 1
   more. One request at a time gives the policy of the runbook exactly. *)
FailuresBounded ==
    \A k \in Keys : told[k] <= Limit(k) + Cardinality(Clients) - 1

(* A lockout in force is neither lifted nor extended by other requests, by the
   cleaning up of old rows or by its own late failures: only a success of a
   request that was admitted before it lifts it. *)
LockoutKept ==
    [][\A k \in Keys :
          Blocked(k) /\ rows'[k] # rows[k] =>
              /\ rows'[k] = NoRow
              /\ \E c \in Clients : phase[c] = "granted" /\ k \in KeysOf(attempt[c])]_vars

(* Failures that are counted together happened within one window, or the clock
   was stepped back between them. *)
CountedTogether ==
    \A k \in Keys : Exists(k) => rows[k].updated - rows[k].started < Window

(* The first administrator is provisioned once, however many bootstraps with
   the right token run at the same time or after a crash. *)
BootstrapOnce == founded <= 1
=============================================================================
