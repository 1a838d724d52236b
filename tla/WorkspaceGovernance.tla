------------------------- MODULE WorkspaceGovernance -------------------------
(***************************************************************************)
(* Who may do what: workspaces and their members (workspace.py), the       *)
(* permission decision (permission_authority.py) and the bindings of       *)
(* external identities (external_identity_service.py). Every operation is  *)
(* one transaction; what is hard is which sequences of them are allowed.   *)
(***************************************************************************)
EXTENDS Naturals, FiniteSets, Accounts

CONSTANTS Allowed,        \* the accounts whose role has the permission asked for
          Workspaces,
          Issuers, Subjects, BindingIds

ASSUME RolesAssumption == Admins \subseteq Allowed /\ Allowed \subseteq Users

VARIABLES members,   \* workspace_memberships: a role per member
          bindings,  \* external_identity_bindings
          trail,     \* audit_events: the last one about each membership
          resolved   \* history: the users an external identity has stood for

govVars == <<active, members, bindings, trail, resolved>>

Roles == {"member", "owner"}
Binding == [id : BindingIds, issuer : Issuers, subject : Subjects,
            user : Users, active : BOOLEAN]

GovTypeOK ==
    /\ active \subseteq Users
    /\ members \in [Workspaces -> [Users -> Roles \cup {"none"}]]
    /\ bindings \subseteq Binding
    /\ trail \in [Workspaces -> [Users -> {"none", "add", "remove"}]]
    /\ resolved \in [Issuers \X Subjects -> SUBSET Users]

GovInit ==
    /\ active = Users
    /\ members = [w \in Workspaces |-> [u \in Users |-> "none"]]
    /\ bindings = {}
    /\ trail = [w \in Workspaces |-> [u \in Users |-> "none"]]
    /\ resolved = [x \in Issuers \X Subjects |-> {}]
-----------------------------------------------------------------------------
Member(w, u) == members[w][u] # "none"
Owners(w) == {u \in Users : members[w][u] = "owner"}

(* A workspace row is only written together with its first owner, and never
   deleted. *)
Created(w) == \E u \in Users : trail[w][u] # "none"

CreateWorkspace(actor, w) ==
    /\ ~Created(w)
    /\ actor \in active
    /\ members' = [members EXCEPT ![w][actor] = "owner"]
    /\ trail' = [trail EXCEPT ![w][actor] = "add"]
    /\ UNCHANGED <<active, bindings, resolved>>

(* _require_membership_manager. *)
Manages(actor, w) ==
    actor \in active /\ (actor \in Admins \/ members[w][actor] = "owner")

AddMember(actor, w, u, role) ==
    /\ Created(w)
    /\ Manages(actor, w)
    /\ u \in active
    /\ ~Member(w, u)
    /\ members' = [members EXCEPT ![w][u] = role]
    /\ trail' = [trail EXCEPT ![w][u] = "add"]
    /\ UNCHANGED <<active, bindings, resolved>>

(* The last owner stays. The mutant protects the last member instead. *)
LastMember(w, u) == {v \in Users : Member(w, v)} = {u}  \* mutant
LastOwner(w, u) == members[w][u] = "owner" /\ Cardinality(Owners(w)) <= 1

(* remove_member. The mutant marks the row and keeps it. *)
RemoveMemberSoftly(actor, w, u) ==
    /\ Manages(actor, w)
    /\ Member(w, u)
    /\ ~LastOwner(w, u)
    /\ members' = [members EXCEPT ![w][u] = "removed"]
    /\ trail' = [trail EXCEPT ![w][u] = "remove"]
    /\ UNCHANGED <<active, bindings, resolved>>

RemoveMember(actor, w, u) ==
    /\ Manages(actor, w)
    /\ Member(w, u)
    /\ ~LastOwner(w, u)
    /\ members' = [members EXCEPT ![w][u] = "none"]
    /\ trail' = [trail EXCEPT ![w][u] = "remove"]
    /\ UNCHANGED <<active, bindings, resolved>>

(* decide_database_permission_on_connection, for a query that names the
   environment of the workspace. The mutant lets administrators in everywhere. *)
GrantedByRole(u, w) ==  \* mutant
    Created(w) /\ u \in active /\ u \in Allowed /\ (u \in Admins \/ Member(w, u))
Granted(u, w) == Created(w) /\ u \in active /\ u \in Allowed /\ Member(w, u)
-----------------------------------------------------------------------------
(* The unique constraints of the table cover disabled bindings. The mutant only
   compares with the ones in use. *)
FreeAmongActive(i, s, u) ==  \* mutant
    \A b \in bindings :
        b.issuer = i /\ b.active => b.subject # s /\ b.user # u
Free(i, s, u) == \A b \in bindings : b.issuer = i => b.subject # s /\ b.user # u

Governs(actor) == actor \in active /\ actor \in Admins

CreateBinding(actor, id, i, s, u) ==
    /\ Governs(actor)
    /\ u \in active
    /\ actor # u
    /\ \A b \in bindings : b.id # id
    /\ Free(i, s, u)
    /\ bindings' = bindings \cup
         {[id |-> id, issuer |-> i, subject |-> s, user |-> u, active |-> TRUE]}
    /\ UNCHANGED <<active, members, trail, resolved>>

DisableBinding(actor, b) ==
    /\ Governs(actor)
    /\ b.active
    /\ actor # b.user
    /\ bindings' = (bindings \ {b}) \cup {[b EXCEPT !.active = FALSE]}
    /\ UNCHANGED <<active, members, trail, resolved>>

(* resolve_active_binding. *)
ResolveBinding(b) ==
    /\ b.active
    /\ b.user \in active
    /\ resolved' = [resolved EXCEPT ![<<b.issuer, b.subject>>] = @ \cup {b.user}]
    /\ UNCHANGED <<active, members, bindings, trail>>

(* An operator deactivates an account in the database; the product has no
   operation for it. *)
DeactivateAccount(u) ==
    /\ u \in active
    /\ active' = active \ {u}
    /\ UNCHANGED <<members, bindings, trail, resolved>>

GovNext ==
    \/ \E actor \in Users, w \in Workspaces :
          \/ CreateWorkspace(actor, w)
          \/ \E u \in Users :
                \/ RemoveMember(actor, w, u)
                \/ \E role \in Roles : AddMember(actor, w, u, role)
    \/ \E actor \in Users :
          \/ \E id \in BindingIds, i \in Issuers, s \in Subjects, u \in Users :
                CreateBinding(actor, id, i, s, u)
          \/ \E b \in bindings : DisableBinding(actor, b)
    \/ \E b \in bindings : ResolveBinding(b)
    \/ \E u \in Users : DeactivateAccount(u)

GovSpec == GovInit /\ [][GovNext]_govVars
-----------------------------------------------------------------------------
(* A workspace keeps an owner for ever, whoever adds and removes members in
   whatever order, administrators from outside included. *)
EveryWorkspaceOwned == \A w \in Workspaces : Created(w) => Owners(w) # {}

(* Whoever is granted a permission in a workspace was let into it by an audited
   decision that has not been taken back since; the role alone never suffices. *)
GrantsAreAudited ==
    \A u \in Users, w \in Workspaces : Granted(u, w) => trail[w][u] = "add"

(* An external identity never stands for two users, also when its binding was
   disabled in between, nor a user for two identities of one issuer at once:
   what was recorded under it keeps its meaning. *)
IdentityNamesOneUser ==
    /\ \A x \in DOMAIN resolved : Cardinality(resolved[x]) <= 1
    /\ \A i \in Issuers, s, t \in Subjects :
          resolved[<<i, s>>] \cap resolved[<<i, t>>] # {} => s = t
=============================================================================
