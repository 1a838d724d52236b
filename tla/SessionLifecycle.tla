--------------------------- MODULE SessionLifecycle ---------------------------
(***************************************************************************)
(* Bearer sessions: a login issues one (identity.py, session_lifecycle.py, *)
(* security.py), a request presents one, and a logout or an administrator  *)
(* ends them. A handler is a sequence of transactions, so logins, requests *)
(* and revocations overtake each other.                                    *)
(*                                                                         *)
(* A token is its claims. It is only known to clients once it was handed   *)
(* out. The rate limit of the login is the subject of AuthRateLimit.       *)
(***************************************************************************)
EXTENDS Integers, Accounts

CONSTANTS SessionIds,     \* nonces
          Clients,        \* requests that are handled at the same time
          Times,          \* bound: the instants the clock shows
          Ttl,            \* token_ttl_seconds
          Skew,           \* _CLOCK_SKEW_SECONDS
          NoSession

Session == [user : Users, issued : Nat, expires : Nat]

ASSUME AdminsAssumption == Admins \subseteq Users
ASSUME SomeAssumption == Users # {} /\ SessionIds # {}
ASSUME SessionTimesAssumption == Times \subseteq Nat
ASSUME TtlAssumption == Ttl \in Nat \ {0} /\ Skew \in Nat
ASSUME NoSessionAssumption == NoSession \notin Session

VARIABLES clock,
          tokens,   \* the claims of every token that was ever made
          handed,   \* the tokens that were given to a client
          table,    \* active_sessions
          phase,    \* where each handler is
          who, sid, \* the user and the session it is about
          late,     \* history: its session had been ended when it began
          ended     \* history: sessions that were logged out or revoked

request == <<phase, who, sid, late>>
vars == <<clock, active, tokens, handed, table, request, ended>>

Phases == {"idle", "authentic", "minted", "presented", "checked", "principal"}

TypeOK ==
    /\ clock \in Times
    /\ active \subseteq Users
    /\ tokens \in [SessionIds -> Session \cup {NoSession}]
    /\ handed \subseteq SessionIds
    /\ table \in [SessionIds -> Session \cup {NoSession}]
    /\ phase \in [Clients -> Phases]
    /\ who \in [Clients -> Users]
    /\ sid \in [Clients -> SessionIds]
    /\ late \in [Clients -> BOOLEAN]
    /\ ended \subseteq SessionIds

Init ==
    /\ clock \in Times
    /\ active = Users
    /\ tokens = [s \in SessionIds |-> NoSession]
    /\ handed = {}
    /\ table = [s \in SessionIds |-> NoSession]
    /\ phase = [c \in Clients |-> "idle"]
    /\ who = [c \in Clients |-> CHOOSE u \in Users : TRUE]
    /\ sid = [c \in Clients |-> CHOOSE s \in SessionIds : TRUE]
    /\ late = [c \in Clients |-> FALSE]
    /\ ended = {}

Goto(c, from, to) == phase[c] = from /\ phase' = [phase EXCEPT ![c] = to]

(* verify_session_token: the signature is right, the token is not from the
   future and not expired. *)
Valid(t) == t.issued <= clock + Skew /\ t.expires > clock
-----------------------------------------------------------------------------
(* The login handler, once the password was accepted. *)
Authenticate(c, u) ==
    /\ Goto(c, "idle", "authentic")
    /\ u \in active
    /\ who' = [who EXCEPT ![c] = u]
    /\ UNCHANGED <<clock, active, tokens, handed, table, sid, late, ended>>

(* issue_token. The mutant subtracts the lifetime. *)
ExpiryBackwards(t) == t - Ttl  \* mutant
Expiry(t) == t + Ttl

IssueToken(c, s) ==
    /\ Goto(c, "authentic", "minted")
    /\ tokens[s] = NoSession
    /\ tokens' = [tokens EXCEPT ![s] =
                    [user |-> who[c], issued |-> clock, expires |-> Expiry(clock)]]
    /\ sid' = [sid EXCEPT ![c] = s]
    /\ UNCHANGED <<clock, active, handed, table, who, late, ended>>

(* What is deleted whenever a session is registered. The mutant deletes what
   was issued before now. *)
IssuedBefore == {s \in SessionIds : table[s] # NoSession /\ table[s].issued <= clock}  \* mutant
Expired == {s \in SessionIds : table[s] # NoSession /\ table[s].expires <= clock}

(* register_session; the token is handed out when the transaction is done. The
   new token was verified before, under the clock of that moment: it may expire
   until it is registered. *)
RegisterSession(c) ==
    /\ Goto(c, "minted", "idle")
    /\ table' = [s \in SessionIds |->
                   IF s = sid[c] THEN tokens[s]
                   ELSE IF s \in Expired THEN NoSession ELSE table[s]]
    /\ handed' = handed \cup {sid[c]}
    /\ UNCHANGED <<clock, active, tokens, who, sid, late, ended>>
-----------------------------------------------------------------------------
(* A request with a bearer token arrives. *)
Present(c, s) ==
    /\ Goto(c, "idle", "presented")
    /\ s \in handed
    /\ who' = [who EXCEPT ![c] = tokens[s].user]
    /\ sid' = [sid EXCEPT ![c] = s]
    /\ late' = [late EXCEPT ![c] = s \in ended \/ tokens[s].user \notin active]
    /\ UNCHANGED <<clock, active, tokens, handed, table, ended>>

(* authenticate_bearer: the token, then the row of the session, then the user. *)
RequireActiveSession(c) ==
    /\ Goto(c, "presented", "checked")
    /\ Valid(tokens[sid[c]])
    /\ table[sid[c]] = tokens[sid[c]]
    /\ UNCHANGED <<clock, active, tokens, handed, table, who, sid, late, ended>>

GetActiveUser(c) ==
    /\ Goto(c, "checked", "principal")
    /\ who[c] \in active
    /\ UNCHANGED <<clock, active, tokens, handed, table, who, sid, late, ended>>

(* What the principal then does: log out, which verifies the token once more,
   revoke the sessions of a user, or something that leaves sessions alone. *)
RevokeSession(c) ==
    /\ Goto(c, "principal", "idle")
    /\ Valid(tokens[sid[c]])
    /\ table[sid[c]] # NoSession
    /\ table' = [table EXCEPT ![sid[c]] = NoSession]
    /\ ended' = ended \cup {sid[c]}
    /\ UNCHANGED <<clock, active, tokens, handed, who, sid, late>>

(* Every session of the user; the mutant leaves the one that acts. *)
OtherSessions(c, u) ==  \* mutant
    {s \in SessionIds \ {sid[c]} : table[s] # NoSession /\ table[s].user = u}
SessionsOf(c, u) == {s \in SessionIds : table[s] # NoSession /\ table[s].user = u}

RevokeAllSessions(c, u) ==
    /\ Goto(c, "principal", "idle")
    /\ who[c] \in Admins
    /\ table' = [s \in SessionIds |->
                   IF s \in SessionsOf(c, u) THEN NoSession ELSE table[s]]
    /\ ended' = ended \cup {s \in handed : tokens[s].user = u}
    /\ UNCHANGED <<clock, active, tokens, handed, who, sid, late>>

Serve(c) ==
    /\ Goto(c, "principal", "idle")
    /\ UNCHANGED <<clock, active, tokens, handed, table, who, sid, late, ended>>

(* A check raises, or the process dies. *)
Fail(c) ==
    /\ phase[c] # "idle"
    /\ phase' = [phase EXCEPT ![c] = "idle"]
    /\ UNCHANGED <<clock, active, tokens, handed, table, who, sid, late, ended>>

(* An operator deactivates an account in the database; the product has no
   operation for it. *)
Deactivate(u) ==
    /\ u \in active
    /\ active' = active \ {u}
    /\ UNCHANGED <<clock, tokens, handed, table, request, ended>>

MoveClock ==
    /\ clock' \in Times \ {clock}
    /\ UNCHANGED <<active, tokens, handed, table, request, ended>>

Next ==
    \/ \E c \in Clients :
          \/ \E u \in Users : Authenticate(c, u) \/ RevokeAllSessions(c, u)
          \/ \E s \in SessionIds : IssueToken(c, s) \/ Present(c, s)
          \/ RegisterSession(c)
          \/ RequireActiveSession(c)
          \/ GetActiveUser(c)
          \/ RevokeSession(c)
          \/ Serve(c)
          \/ Fail(c)
    \/ \E u \in Users : Deactivate(u)
    \/ MoveClock

Spec == Init /\ [][Next]_vars
-----------------------------------------------------------------------------
(* A request that arrives after its session was logged out or revoked with all
   the others, or after its user was deactivated, never becomes a principal,
   however often it is sent and whatever the clock does. *)
EndedNeverActs == \A c \in Clients : phase[c] = "principal" => ~late[c]

(* A session disappears from the allowlist because it has expired or because
   somebody ended it: other logins do not throw users out. *)
SessionsLast ==
    [][\A s \in SessionIds :
          table[s] # NoSession /\ table'[s] = NoSession =>
              table[s].expires <= clock \/ s \in ended']_vars
=============================================================================
