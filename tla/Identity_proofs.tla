---------------------------- MODULE Identity_proofs ----------------------------
(***************************************************************************)
(* Proofs about who acts (SessionLifecycle) and what they may do           *)
(* (WorkspaceGovernance), for any sets of accounts, sessions, concurrent   *)
(* requests, workspaces and identities, any lifetime of a token and any    *)
(* clock. Each theorem is about one of the two specifications. They share  *)
(* the accounts and which of them are active (Accounts).                   *)
(***************************************************************************)
EXTENDS SessionLifecycle, WorkspaceGovernance, FiniteSetTheorems, TLAPS
-----------------------------------------------------------------------------
(* Sessions *)

(* Where a handler acts for a session that a client presented. *)
Bearing == {"presented", "checked", "principal"}

(* What a client was given is a token, and a token has the user it was made for
   as long as it exists. *)
HandedAreTokens == \A s \in handed : tokens[s] \in Session

(* A login that has made a token has not given it away: nobody else has it. *)
MintedIsOwn ==
    \A c \in Clients : phase[c] = "minted" =>
        /\ tokens[sid[c]] \in Session
        /\ sid[c] \notin handed
        /\ \A d \in Clients : phase[d] = "minted" /\ sid[d] = sid[c] => d = c

(* The allowlist holds the tokens it was given, and only those handed out. *)
TableIsOfTokens ==
    \A s \in SessionIds : table[s] # NoSession => table[s] = tokens[s] /\ s \in handed

(* What was ended was handed out and is not on the allowlist any more. *)
EndedAreGone == \A s \in ended : s \in handed /\ table[s] = NoSession

(* A request carries the session of its user that a client was given. One that
   came late has a session that is off the allowlist, or an inactive user. *)
BearersAreBound ==
    \A c \in Clients : phase[c] \in Bearing =>
        /\ sid[c] \in handed
        /\ who[c] = tokens[sid[c]].user
        /\ late[c] => sid[c] \in ended \/ who[c] \notin active
        /\ phase[c] \in {"checked", "principal"} /\ late[c] => who[c] \notin active

SessionInv ==
    /\ TypeOK
    /\ HandedAreTokens
    /\ MintedIsOwn
    /\ TableIsOfTokens
    /\ EndedAreGone
    /\ BearersAreBound
    /\ EndedNeverActs
-----------------------------------------------------------------------------
(* The initial states satisfy the inductive invariant. *)
LEMMA SessionInitInv == Init => SessionInv
<1> SUFFICES ASSUME Init PROVE SessionInv
  OBVIOUS
<1>1. (CHOOSE u \in Users : TRUE) \in Users /\ (CHOOSE s \in SessionIds : TRUE) \in SessionIds
  BY SomeAssumption
<1>2. TypeOK
  BY <1>1 DEF Init, TypeOK, Phases
<1> QED
  BY <1>2 DEF Init, SessionInv, HandedAreTokens, MintedIsOwn, TableIsOfTokens, EndedAreGone,
              BearersAreBound, Bearing, EndedNeverActs

(* A new token is a session. *)
LEMMA NewToken ==
    ASSUME TypeOK, NEW c \in Clients
    PROVE  [user |-> who[c], issued |-> clock, expires |-> Expiry(clock)] \in Session
BY SessionTimesAssumption, TtlAssumption DEF TypeOK, Session, Expiry

(* The login handler. *)
LEMMA LoginStep ==
    ASSUME SessionInv, NEW c \in Clients,
           \/ \E u \in Users : Authenticate(c, u)
           \/ \E s \in SessionIds : IssueToken(c, s)
           \/ RegisterSession(c)
    PROVE  SessionInv'
<1> USE DEF SessionInv
<1>1. ASSUME NEW u \in Users, Authenticate(c, u) PROVE SessionInv'
  <2>1. TypeOK'
    BY <1>1 DEF Authenticate, Goto, TypeOK, Phases
  <2> QED
    BY <1>1, <2>1 DEF Authenticate, Goto, TypeOK, HandedAreTokens, MintedIsOwn,
                      TableIsOfTokens, EndedAreGone, BearersAreBound, Bearing, EndedNeverActs
<1>2. ASSUME NEW s \in SessionIds, IssueToken(c, s) PROVE SessionInv'
  <2> DEFINE t == [user |-> who[c], issued |-> clock, expires |-> Expiry(clock)]
  <2>1. t \in Session /\ t # NoSession
    BY NewToken, NoSessionAssumption
  <2>2. TypeOK'
    BY <1>2, <2>1 DEF IssueToken, Goto, TypeOK, Phases
  <2>3. s \notin handed /\ table[s] = NoSession
    BY <1>2, NoSessionAssumption DEF IssueToken, HandedAreTokens, TableIsOfTokens, TypeOK
  <2>4. \A d \in Clients : phase[d] = "minted" => sid[d] # s
    BY <1>2, NoSessionAssumption DEF IssueToken, MintedIsOwn
  <2>5. HandedAreTokens' /\ TableIsOfTokens' /\ EndedAreGone'
    BY <1>2, <2>3 DEF IssueToken, TypeOK, HandedAreTokens, TableIsOfTokens, EndedAreGone
  <2>6. MintedIsOwn'
    BY <1>2, <2>1, <2>3, <2>4 DEF IssueToken, Goto, TypeOK, MintedIsOwn
  <2>7. BearersAreBound' /\ EndedNeverActs'
    BY <1>2, <2>3 DEF IssueToken, Goto, TypeOK, BearersAreBound, Bearing, EndedNeverActs
  <2> QED
    BY <2>2, <2>5, <2>6, <2>7
<1>3. ASSUME RegisterSession(c) PROVE SessionInv'
  <2>1. TypeOK'
    BY <1>3 DEF RegisterSession, Goto, TypeOK, Phases
  <2>2. tokens[sid[c]] \in Session /\ sid[c] \notin handed
    BY <1>3 DEF RegisterSession, Goto, MintedIsOwn
  <2>3. HandedAreTokens' /\ TableIsOfTokens' /\ EndedAreGone'
    BY <1>3, <2>2 DEF RegisterSession, TypeOK, HandedAreTokens, TableIsOfTokens, EndedAreGone
  <2>4. MintedIsOwn'
    BY <1>3 DEF RegisterSession, Goto, TypeOK, MintedIsOwn
  <2>5. BearersAreBound' /\ EndedNeverActs'
    BY <1>3 DEF RegisterSession, Goto, TypeOK, BearersAreBound, Bearing, EndedNeverActs
  <2> QED
    BY <2>1, <2>3, <2>4, <2>5
<1> QED
  BY <1>1, <1>2, <1>3

(* The request handler up to the principal. The check of the allowlist is where
   a late request can only get past because its user is inactive, and the check
   of the user is where it ends. *)
LEMMA RequestStep ==
    ASSUME SessionInv, NEW c \in Clients,
           \/ \E s \in SessionIds : Present(c, s)
           \/ RequireActiveSession(c)
           \/ GetActiveUser(c)
    PROVE  SessionInv'
<1> USE DEF SessionInv
<1>1. ASSUME NEW s \in SessionIds, Present(c, s) PROVE SessionInv'
  <2>1. tokens[s] \in Session /\ tokens[s].user \in Users
    BY <1>1 DEF Present, HandedAreTokens, Session
  <2>2. TypeOK'
    BY <1>1, <2>1 DEF Present, Goto, TypeOK, Phases
  <2>3. HandedAreTokens' /\ TableIsOfTokens' /\ EndedAreGone' /\ MintedIsOwn'
    BY <1>1 DEF Present, Goto, TypeOK, HandedAreTokens, TableIsOfTokens, EndedAreGone, MintedIsOwn
  <2>4. BearersAreBound' /\ EndedNeverActs'
    BY <1>1 DEF Present, Goto, TypeOK, BearersAreBound, Bearing, EndedNeverActs
  <2> QED
    BY <2>2, <2>3, <2>4
<1>2. ASSUME RequireActiveSession(c) PROVE SessionInv'
  <2>1. TypeOK'
    BY <1>2 DEF RequireActiveSession, Goto, TypeOK, Phases
  <2>2. sid[c] \notin ended
    BY <1>2, NoSessionAssumption
    DEF RequireActiveSession, Goto, EndedAreGone, BearersAreBound, Bearing, HandedAreTokens
  <2>3. HandedAreTokens' /\ TableIsOfTokens' /\ EndedAreGone' /\ MintedIsOwn'
    BY <1>2 DEF RequireActiveSession, Goto, TypeOK, HandedAreTokens, TableIsOfTokens,
                EndedAreGone, MintedIsOwn
  <2>4. BearersAreBound' /\ EndedNeverActs'
    BY <1>2, <2>2 DEF RequireActiveSession, Goto, TypeOK, BearersAreBound, Bearing, EndedNeverActs
  <2> QED
    BY <2>1, <2>3, <2>4
<1>3. ASSUME GetActiveUser(c) PROVE SessionInv'
  <2>1. TypeOK'
    BY <1>3 DEF GetActiveUser, Goto, TypeOK, Phases
  <2>2. HandedAreTokens' /\ TableIsOfTokens' /\ EndedAreGone' /\ MintedIsOwn'
    BY <1>3 DEF GetActiveUser, Goto, TypeOK, HandedAreTokens, TableIsOfTokens,
                EndedAreGone, MintedIsOwn
  <2>3. BearersAreBound' /\ EndedNeverActs'
    BY <1>3 DEF GetActiveUser, Goto, TypeOK, BearersAreBound, Bearing, EndedNeverActs
  <2> QED
    BY <2>1, <2>2, <2>3
<1> QED
  BY <1>1, <1>2, <1>3

(* What a principal does. Every session that is meant to end was handed out, so
   the allowlist has it under its own user, and it is deleted. *)
LEMMA PrincipalStep ==
    ASSUME SessionInv, NEW c \in Clients,
           \/ RevokeSession(c)
           \/ \E u \in Users : RevokeAllSessions(c, u)
           \/ Serve(c)
           \/ Fail(c)
    PROVE  SessionInv'
<1> USE DEF SessionInv
<1>1. ASSUME RevokeSession(c) PROVE SessionInv'
  <2>1. TypeOK'
    BY <1>1 DEF RevokeSession, Goto, TypeOK, Phases
  <2>2. HandedAreTokens' /\ TableIsOfTokens' /\ EndedAreGone' /\ MintedIsOwn'
    BY <1>1 DEF RevokeSession, Goto, TypeOK, HandedAreTokens, TableIsOfTokens,
                EndedAreGone, MintedIsOwn
  <2>3. BearersAreBound' /\ EndedNeverActs'
    BY <1>1 DEF RevokeSession, Goto, TypeOK, BearersAreBound, Bearing, EndedNeverActs
  <2> QED
    BY <2>1, <2>2, <2>3
<1>2. ASSUME NEW u \in Users, RevokeAllSessions(c, u) PROVE SessionInv'
  <2>1. TypeOK'
    BY <1>2 DEF RevokeAllSessions, Goto, TypeOK, Phases
  <2>2. HandedAreTokens' /\ TableIsOfTokens' /\ EndedAreGone'
    BY <1>2 DEF RevokeAllSessions, SessionsOf, TypeOK, HandedAreTokens, TableIsOfTokens,
                EndedAreGone
  <2>3. MintedIsOwn' /\ BearersAreBound' /\ EndedNeverActs'
    BY <1>2 DEF RevokeAllSessions, Goto, TypeOK, MintedIsOwn, BearersAreBound, Bearing,
                EndedNeverActs
  <2> QED
    BY <2>1, <2>2, <2>3
<1>3. CASE Serve(c) \/ Fail(c)
  <2>1. TypeOK'
    BY <1>3 DEF Serve, Fail, Goto, TypeOK, Phases
  <2>2. HandedAreTokens' /\ TableIsOfTokens' /\ EndedAreGone' /\ MintedIsOwn'
    BY <1>3 DEF Serve, Fail, Goto, TypeOK, HandedAreTokens, TableIsOfTokens, EndedAreGone,
                MintedIsOwn
  <2>3. BearersAreBound' /\ EndedNeverActs'
    BY <1>3 DEF Serve, Fail, Goto, TypeOK, BearersAreBound, Bearing, EndedNeverActs
  <2> QED
    BY <2>1, <2>2, <2>3
<1> QED
  BY <1>1, <1>2, <1>3

(* The rest of the world. *)
LEMMA WorldStep ==
    ASSUME SessionInv, (\E u \in Users : Deactivate(u)) \/ MoveClock \/ UNCHANGED vars
    PROVE  SessionInv'
BY DEF SessionInv, Deactivate, MoveClock, vars, request, TypeOK, HandedAreTokens, MintedIsOwn,
       TableIsOfTokens, EndedAreGone, BearersAreBound, Bearing, EndedNeverActs

(* Every step preserves the inductive invariant. *)
LEMMA SessionNextInv == SessionInv /\ [Next]_vars => SessionInv'
BY LoginStep, RequestStep, PrincipalStep, WorldStep DEF Next
-----------------------------------------------------------------------------
(* The inductive invariant holds in every reachable state. *)
THEOREM SessionInvariance == Spec => []SessionInv
BY SessionInitInv, SessionNextInv, PTL DEF Spec

(* Every variable of the session handlers keeps its type. *)
THEOREM SessionTypeCorrect == Spec => []TypeOK
<1>1. SessionInv => TypeOK
  BY DEF SessionInv
<1> QED
  BY <1>1, SessionInvariance, PTL

(* A request that arrives after its session was logged out or revoked, or its
   user deactivated, never becomes a principal (authenticate_bearer,
   revoke_session, revoke_all_sessions), for any number of requests at once. *)
THEOREM EndedSessionsNeverAct == Spec => []EndedNeverActs
<1>1. SessionInv => EndedNeverActs
  BY DEF SessionInv
<1> QED
  BY <1>1, SessionInvariance, PTL

(* No step takes a session off the allowlist unless it has expired or somebody
   ended it: the purge of register_session and the delete of revoke-all touch
   nothing else. *)
THEOREM SessionsAreKept == Spec => SessionsLast
<1> DEFINE Kept == \A s \in SessionIds :
                      table[s] # NoSession /\ table'[s] = NoSession =>
                          table[s].expires <= clock \/ s \in ended'
<1>1. ASSUME SessionInv, [Next]_vars PROVE [Kept]_vars
  <2> USE <1>1 DEF SessionInv
  <2>1. ASSUME NEW c \in Clients, RegisterSession(c) PROVE Kept
    <3>1. tokens[sid[c]] # NoSession
      BY <2>1, NoSessionAssumption DEF RegisterSession, Goto, MintedIsOwn
    <3> QED
      BY <2>1, <3>1 DEF RegisterSession, Expired
  <2>2. ASSUME NEW c \in Clients, RevokeSession(c) PROVE Kept
    BY <2>2 DEF RevokeSession, TypeOK
  <2>3. ASSUME NEW c \in Clients, NEW u \in Users, RevokeAllSessions(c, u) PROVE Kept
    BY <2>3 DEF RevokeAllSessions, SessionsOf, TableIsOfTokens
  <2>4. ASSUME UNCHANGED table PROVE Kept
    BY <2>4
  <2>5. CASE Next
    BY <2>1, <2>2, <2>3, <2>4, <2>5
    DEF Next, Authenticate, IssueToken, Present, RequireActiveSession, GetActiveUser, Serve,
        Fail, Deactivate, MoveClock
  <2> QED
    BY <2>5
<1> QED
  BY <1>1, SessionInvariance, PTL DEF Spec, SessionsLast
-----------------------------------------------------------------------------
(* Workspaces, permissions and external identities *)

(* Members are those whose last audited event is their admission. *)
TrailTellsMembers ==
    \A w \in Workspaces, u \in Users : Member(w, u) <=> trail[w][u] = "add"

(* The unique constraints of the table, over enabled and disabled bindings. *)
UniqueBindings ==
    \A b, d \in bindings :
        /\ b.id = d.id => b = d
        /\ b.issuer = d.issuer /\ (b.subject = d.subject \/ b.user = d.user) => b = d

(* Whom an identity has stood for is still written in the table. *)
ResolvedIsBound ==
    \A i \in Issuers, s \in Subjects : \A u \in resolved[<<i, s>>] :
        \E b \in bindings : b.issuer = i /\ b.subject = s /\ b.user = u

GovInv ==
    /\ GovTypeOK
    /\ TrailTellsMembers
    /\ EveryWorkspaceOwned
    /\ UniqueBindings
    /\ ResolvedIsBound
-----------------------------------------------------------------------------
(* The initial states satisfy the inductive invariant. *)
LEMMA GovInitInv == GovInit => GovInv
<1> SUFFICES ASSUME GovInit PROVE GovInv
  OBVIOUS
<1> USE DEF GovInit
<1>1. GovTypeOK
  BY DEF GovTypeOK, Roles
<1>2. TrailTellsMembers /\ EveryWorkspaceOwned
  BY DEF TrailTellsMembers, EveryWorkspaceOwned, Created, Member
<1>3. UniqueBindings /\ ResolvedIsBound
  BY DEF UniqueBindings, ResolvedIsBound
<1> QED
  BY <1>1, <1>2, <1>3 DEF GovInv

(* A step that leaves a part of the state alone keeps what is said about it. *)
LEMMA MembersKept ==
    ASSUME GovInv, UNCHANGED <<members, trail>>
    PROVE  TrailTellsMembers' /\ EveryWorkspaceOwned'
BY DEF GovInv, TrailTellsMembers, EveryWorkspaceOwned, Created, Member, Owners

(* The same for bindings. *)
LEMMA BindingsKept ==
    ASSUME GovInv, UNCHANGED <<bindings, resolved>>
    PROVE  UniqueBindings' /\ ResolvedIsBound'
BY DEF GovInv, UniqueBindings, ResolvedIsBound

(* Membership changes. An owner who may be removed is not the only one. *)
LEMMA CreateWorkspaceStep ==
    ASSUME GovInv, NEW actor \in Users, NEW w \in Workspaces, CreateWorkspace(actor, w)
    PROVE  GovInv'
<1> USE DEF GovInv
<1>1. GovTypeOK'
  BY DEF CreateWorkspace, GovTypeOK, Roles
<1>2. TrailTellsMembers'
  BY DEF CreateWorkspace, GovTypeOK, TrailTellsMembers, Member
<1>3. EveryWorkspaceOwned'
  <2>1. \A v \in Workspaces : v # w /\ Created(v)' => Created(v)
    BY DEF CreateWorkspace, GovTypeOK, Created
  <2>2. \A v \in Workspaces : Owners(v) \subseteq Owners(v)'
    BY DEF CreateWorkspace, GovTypeOK, Owners
  <2>3. actor \in Owners(w)'
    BY DEF CreateWorkspace, GovTypeOK, Owners
  <2> QED
    BY <2>1, <2>2, <2>3 DEF EveryWorkspaceOwned
<1> QED
  BY <1>1, <1>2, <1>3, BindingsKept DEF CreateWorkspace

(* A new member takes nobody's place. *)
LEMMA AddMemberStep ==
    ASSUME GovInv, NEW actor \in Users, NEW w \in Workspaces, NEW u \in Users,
           NEW role \in Roles, AddMember(actor, w, u, role)
    PROVE  GovInv'
<1> USE DEF GovInv
<1>1. GovTypeOK'
  BY DEF AddMember, GovTypeOK, Roles
<1>2. TrailTellsMembers'
  BY DEF AddMember, GovTypeOK, Roles, TrailTellsMembers, Member
<1>3. EveryWorkspaceOwned'
  <2>1. \A v \in Workspaces : Created(v)' => Created(v)
    BY DEF AddMember, GovTypeOK, Created
  <2>2. \A v \in Workspaces : Owners(v) \subseteq Owners(v)'
    BY DEF AddMember, GovTypeOK, Owners, Member
  <2> QED
    BY <2>1, <2>2 DEF EveryWorkspaceOwned
<1> QED
  BY <1>1, <1>2, <1>3, BindingsKept DEF AddMember

(* The last owner is not removed. *)
LEMMA RemoveMemberStep ==
    ASSUME GovInv, NEW actor \in Users, NEW w \in Workspaces, NEW u \in Users,
           RemoveMember(actor, w, u)
    PROVE  GovInv'
<1> USE DEF GovInv
<1>1. GovTypeOK'
  BY DEF RemoveMember, GovTypeOK, Roles
<1>2. TrailTellsMembers'
  BY DEF RemoveMember, GovTypeOK, TrailTellsMembers, Member
<1>3. EveryWorkspaceOwned'
  <2>1. \A v \in Workspaces : Created(v)' => Created(v)
    BY DEF RemoveMember, GovTypeOK, Created, Member, TrailTellsMembers
  <2>2. \A v \in Workspaces : Owners(v) \ {u} \subseteq Owners(v)'
    BY DEF RemoveMember, GovTypeOK, Owners
  <2>3. \A v \in Workspaces : v # w => Owners(v)' = Owners(v)
    BY DEF RemoveMember, GovTypeOK, Owners
  <2>4. Owners(w) # {u}
    <3> SUFFICES ASSUME Owners(w) = {u} PROVE FALSE
      OBVIOUS
    <3>1. Cardinality(Owners(w)) = 1
      BY FS_Singleton
    <3>2. members[w][u] = "owner"
      BY DEF Owners
    <3> QED
      BY <3>1, <3>2 DEF RemoveMember, LastOwner
  <2> QED
    BY <2>1, <2>2, <2>3, <2>4 DEF EveryWorkspaceOwned
<1> QED
  BY <1>1, <1>2, <1>3, BindingsKept DEF RemoveMember
-----------------------------------------------------------------------------
(* Bindings are only added where they are unique, and stay when disabled. *)
LEMMA CreateBindingStep ==
    ASSUME GovInv, NEW actor \in Users, NEW id \in BindingIds, NEW i \in Issuers,
           NEW s \in Subjects, NEW u \in Users, CreateBinding(actor, id, i, s, u)
    PROVE  GovInv'
<1> USE DEF GovInv
<1> DEFINE new == [id |-> id, issuer |-> i, subject |-> s, user |-> u, active |-> TRUE]
<1>1. bindings' = bindings \cup {new} /\ new \in Binding
  BY DEF CreateBinding, Binding
<1>2. GovTypeOK'
  BY <1>1 DEF CreateBinding, GovTypeOK
<1>3. UniqueBindings'
  <2>1. \A b \in bindings : b.id # id /\ (b.issuer = i => b.subject # s /\ b.user # u)
    BY DEF CreateBinding, Free
  <2> HIDE DEF new
  <2>2. new.id = id /\ new.issuer = i /\ new.subject = s /\ new.user = u
    BY DEF new
  <2> QED
    BY <1>1, <2>1, <2>2 DEF UniqueBindings
<1>4. ResolvedIsBound'
  BY <1>1 DEF CreateBinding, ResolvedIsBound
<1> QED
  BY <1>2, <1>3, <1>4, MembersKept DEF CreateBinding

(* A disabled binding keeps its names. *)
LEMMA DisableBindingStep ==
    ASSUME GovInv, NEW actor \in Users, NEW b \in bindings, DisableBinding(actor, b)
    PROVE  GovInv'
<1> USE DEF GovInv
<1> DEFINE off == [b EXCEPT !.active = FALSE]
<1>1. bindings' = (bindings \ {b}) \cup {off}
  BY DEF DisableBinding
<1>2. /\ off \in Binding /\ off.id = b.id /\ off.issuer = b.issuer
      /\ off.subject = b.subject /\ off.user = b.user
  BY DEF GovTypeOK, Binding
<1> HIDE DEF off
<1>3. GovTypeOK'
  BY <1>1, <1>2 DEF DisableBinding, GovTypeOK
<1>4. UniqueBindings'
  BY <1>1, <1>2 DEF UniqueBindings
<1>5. ResolvedIsBound'
  BY <1>1, <1>2 DEF DisableBinding, ResolvedIsBound
<1> QED
  BY <1>3, <1>4, <1>5, MembersKept DEF DisableBinding

(* An identity is resolved to the user of its binding. *)
LEMMA ResolveBindingStep ==
    ASSUME GovInv, NEW b \in bindings, ResolveBinding(b)
    PROVE  GovInv'
<1> USE DEF GovInv
<1>1. b \in Binding /\ <<b.issuer, b.subject>> \in Issuers \X Subjects
  BY DEF GovTypeOK, Binding
<1>2. GovTypeOK'
  BY <1>1 DEF ResolveBinding, GovTypeOK, Binding
<1>3. ResolvedIsBound'
  BY <1>1 DEF ResolveBinding, ResolvedIsBound, GovTypeOK
<1>4. UniqueBindings'
  BY DEF ResolveBinding, UniqueBindings
<1> QED
  BY <1>2, <1>3, <1>4, MembersKept DEF ResolveBinding

(* The inductive invariant holds in every reachable state. *)
THEOREM GovInvariance == GovSpec => []GovInv
<1>1. GovInv /\ [GovNext]_govVars => GovInv'
  <2> SUFFICES ASSUME GovInv, [GovNext]_govVars PROVE GovInv'
    OBVIOUS
  <2>1. ASSUME NEW u \in Users, DeactivateAccount(u) PROVE GovInv'
    <3>1. GovTypeOK'
      BY <2>1 DEF DeactivateAccount, GovInv, GovTypeOK
    <3> QED
      BY <2>1, <3>1, MembersKept, BindingsKept DEF DeactivateAccount, GovInv
  <2>2. ASSUME UNCHANGED govVars PROVE GovInv'
    <3>1. GovTypeOK'
      BY <2>2 DEF govVars, GovInv, GovTypeOK
    <3> QED
      BY <2>2, <3>1, MembersKept, BindingsKept DEF govVars, GovInv
  <2> QED
    BY <2>1, <2>2, CreateWorkspaceStep, AddMemberStep, RemoveMemberStep,
       CreateBindingStep, DisableBindingStep, ResolveBindingStep DEF GovNext
<1> QED
  BY GovInitInv, <1>1, PTL DEF GovSpec

(* Types of the membership and binding tables. *)
THEOREM GovTypeCorrect == GovSpec => []GovTypeOK
<1>1. GovInv => GovTypeOK
  BY DEF GovInv
<1> QED
  BY GovInvariance, <1>1, PTL

(* No sequence of create_workspace, add_member and remove_member leaves a
   workspace without an owner. *)
THEOREM WorkspacesStayOwned == GovSpec => []EveryWorkspaceOwned
<1>1. GovInv => EveryWorkspaceOwned
  BY DEF GovInv
<1> QED
  BY GovInvariance, <1>1, PTL

(* The permission decision only grants what the audit trail explains. *)
THEOREM GrantsFollowAudit == GovSpec => []GrantsAreAudited
<1>1. GovInv => GrantsAreAudited
  BY DEF GovInv, GrantsAreAudited, Granted, TrailTellsMembers
<1> QED
  BY GovInvariance, <1>1, PTL

(* resolve_active_binding never answers with two users for one identity, over
   the whole life of the database. *)
THEOREM IdentitiesAreStable == GovSpec => []IdentityNamesOneUser
<1>1. GovInv => IdentityNamesOneUser
  <2> SUFFICES ASSUME GovInv PROVE IdentityNamesOneUser
    OBVIOUS
  <2>1. \A i \in Issuers, s, t \in Subjects :
           \A u \in resolved[<<i, s>>], v \in resolved[<<i, t>>] :
              /\ s = t => u = v
              /\ u = v => s = t
    BY DEF GovInv, ResolvedIsBound, UniqueBindings
  <2>2. ASSUME NEW x \in DOMAIN resolved PROVE Cardinality(resolved[x]) <= 1
    <3>1. PICK i \in Issuers, s \in Subjects : x = <<i, s>>
      BY DEF GovInv, GovTypeOK
    <3>2. CASE resolved[x] = {}
      BY <3>2, FS_EmptySet
    <3>3. CASE resolved[x] # {}
      <4>1. PICK u \in resolved[x] : TRUE
        BY <3>3
      <4>2. resolved[x] = {u}
        BY <2>1, <3>1, <4>1
      <4> QED
        BY <4>2, FS_Singleton
    <3> QED
      BY <3>2, <3>3
  <2>3. \A i \in Issuers, s, t \in Subjects :
           resolved[<<i, s>>] \cap resolved[<<i, t>>] # {} => s = t
    BY <2>1
  <2> QED
    BY <2>2, <2>3 DEF IdentityNamesOneUser
<1> QED
  BY GovInvariance, <1>1, PTL
=============================================================================
