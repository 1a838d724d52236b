------------------------ MODULE ControlPlaneRegistry ------------------------
(***************************************************************************)
(* The control plane: the durable registries of projects, connectors, MCP  *)
(* servers and shared state (control_plane_registry_persistence.py), the   *)
(* reconciler and event log behind the shared state                        *)
(* (control_plane_foundation.py) and the recorder of READ operations       *)
(* (control_plane_runtime.py), used by concurrent clients of one database. *)
(*                                                                         *)
(* The rows live in runtime_flags; every write of one appends to the audit *)
(* trail in the same transaction. A transaction that writes once is a      *)
(* step; the recorder's, which appends five events, is a step for each of  *)
(* its statements. What a client has read outside a transaction it keeps   *)
(* in memory until it writes, and it may stop, or be refused, in between.  *)
(*                                                                         *)
(* A digest is the value it is the digest of: the state hash of a state is *)
(* the state.                                                              *)
(***************************************************************************)
EXTENDS Integers, Sequences, FiniteSets

CONSTANTS Clients,
          Descriptors,     \* project descriptors somebody may register
          Connectors,
          Servers,
          Capabilities,    \* definition identities a snapshot may list
          Executable,      \* those the capability registry defines
          Genesis,         \* the state hash before the first transition
          States,          \* the states a project may be in afterwards
          Events,          \* events clients submit, and submit again
          Executions,      \* READ executions that have a terminal result
          Recorder,        \* the project each client's recorder is bound to
          Lineages,            \* one for each time five events get their identities
          Causes,          \* events a caller may name as the cause of a READ
          MaxGeneration,   \* bound: generations of a connector or server
          MaxWrites,       \* bound: transactions in the trail
          Absent

ASSUME ControlPlaneAssumption ==
    /\ Executable \subseteq Capabilities
    /\ Genesis \notin States
    /\ Recorder \in [Clients -> Descriptors]
    /\ MaxGeneration \in Nat /\ MaxWrites \in Nat

VARIABLES projects,    \* registered descriptors
          connectors,  \* the current snapshot of each connector
          servers,     \* the current descriptor of each MCP server
          shared,      \* the shared-state pointer of each project
          trail,       \* the audit ledger, as it is committed
          txn,         \* the recorder's transaction that is open, if one is
          mem          \* what each client is about to write

rows == <<projects, connectors, servers, shared>>
registryVars == <<rows, trail, txn, mem>>

Maybe(S) == S \cup {Absent}
ProjectIds == {d.id : d \in Descriptors}

(* ConnectorCapabilitySnapshot and MCPServerDescriptor: what is revoked is not
   available. *)
DescriptorFormed(n) == n.status = "REVOKED" => ~n.available
Statuses == {"VERIFIED", "REVOKED"}
ConnectorSnapshot ==
    {n \in [generation : 1..MaxGeneration, available : BOOLEAN,
            status : Statuses, capabilities : SUBSET Capabilities] : DescriptorFormed(n)}
ServerDescriptor ==
    {n \in [generation : 1..MaxGeneration, available : BOOLEAN,
            status : Statuses, connector : Connectors] : DescriptorFormed(n)}

(* StateTransition and ControlPlaneEvent: a transition never leads back to
   genesis. *)
Transition == [previous : States \cup {Genesis}, next : States]
Valid(e) == e.project \in Descriptors /\ e.transition \in Maybe(Transition)

ASSUME EventAssumption == \A e \in Events : Valid(e)

(* SharedStatePointer; revision zero is genesis and claims no event. *)
Pointer == [revision : Nat, state : States \cup {Genesis}, event : Maybe({e.id : e \in Events})]
GenesisPointer == [revision |-> 0, state |-> Genesis, event |-> Absent]
PointerOf(p) == IF shared[p] = Absent THEN GenesisPointer ELSE shared[p]

ASSUME AbsentAssumption ==
    Absent \notin ConnectorSnapshot \cup ServerDescriptor \cup Pointer

RegistryInit ==
    /\ projects = {}
    /\ connectors = [c \in Connectors |-> Absent]
    /\ servers = [s \in Servers |-> Absent]
    /\ shared = [p \in ProjectIds |-> Absent]
    /\ trail = <<>>
    /\ txn = Absent
    /\ mem = [w \in Clients |-> Absent]

Entry(action, target, record) == [action |-> action, target |-> target, record |-> record]

(* BEGIN IMMEDIATE: one transaction writes at a time. *)
Alone == txn = Absent
Append1(e) == Alone /\ trail' = Append(trail, e) /\ txn' = txn

(* The five events of a READ are one transaction. *)
Transactions == {i \in 1..Len(trail) :
                   trail[i].action = "read" => trail[i].record.stage = "prepared"}
LedgerRoom == Cardinality(Transactions) < MaxWrites
Free(w) == mem[w] = Absent
Keeps(w, m) == Free(w) /\ mem' = [mem EXCEPT ![w] = m]
Done(w) == mem' = [mem EXCEPT ![w] = Absent]
-----------------------------------------------------------------------------
(* Projects *)

Names(d) == {d.id} \cup d.aliases

(* ProjectDescriptor and ImmutableProjectRegistry: every name and every
   repository leads to one project. *)
Collides(S, d) ==
    \/ d.id \in d.aliases
    \/ \E e \in S : Names(e) \cap Names(d) # {} \/ e.repository = d.repository

RegisterProject(d) ==
    /\ LedgerRoom
    /\ ~Collides(projects, d)
    /\ projects' = projects \cup {d}
    /\ Append1(Entry("project", d.id, d))
    /\ UNCHANGED <<connectors, servers, shared, mem>>
-----------------------------------------------------------------------------
(* Connectors and MCP servers *)

(* _record_generation: the first generation is 1, then one more each time. *)
NextGeneration(row, n) ==
    n.generation = IF row = Absent THEN 1 ELSE row.generation + 1

RecordConnector(c, n) ==
    /\ LedgerRoom
    /\ n.capabilities \subseteq Executable
    /\ NextGeneration(connectors[c], n)
    /\ connectors' = [connectors EXCEPT ![c] = n]
    /\ Append1(Entry("connector", c, n))
    /\ UNCHANGED <<projects, servers, shared, mem>>

(* record_mcp_server looks at the connector first, outside the transaction. *)
CheckConnector(w, s, n) ==
    /\ LedgerRoom
    /\ connectors[n.connector] # Absent
    /\ ~(connectors[n.connector].status = "REVOKED" /\ n.available)
    /\ Keeps(w, [op |-> "server", server |-> s, row |-> n])
    /\ UNCHANGED <<rows, trail, txn>>

RecordServer(w) ==
    LET m == mem[w] IN
    /\ LedgerRoom
    /\ ~Free(w) /\ m.op = "server"
    /\ NextGeneration(servers[m.server], m.row)
    /\ servers' = [servers EXCEPT ![m.server] = m.row]
    /\ Append1(Entry("server", m.server, m.row))
    /\ Done(w)
    /\ UNCHANGED <<projects, connectors, shared>>
-----------------------------------------------------------------------------
(* Shared state *)

(* append_and_reconcile resolves the project first; the event has to name it
   exactly as it is registered. *)
ResolveProject(w, e) ==
    /\ LedgerRoom
    /\ e.project \in projects
    /\ Keeps(w, [op |-> "event", event |-> e])
    /\ UNCHANGED <<rows, trail, txn>>

(* ControlPlaneReconciler.apply. An event without a transition changes nothing;
   a transition has to start at the state the pointer is at. *)
ExtendsAnything(p, e) == TRUE  \* mutant
Extends(p, e) == e.transition # Absent => e.transition.previous = p.state

Apply(p, e) ==
    IF e.transition = Absent THEN p
    ELSE [revision |-> p.revision + 1, state |-> e.transition.next, event |-> e.id]

(* The event is logged either way, and the pointer moved with it. *)
AppendAndReconcile(w) ==
    LET e == mem[w].event
        p == e.project.id
    IN  /\ LedgerRoom
        /\ ~Free(w) /\ mem[w].op = "event"
        /\ Extends(PointerOf(p), e)
        /\ Append1(Entry("event", p, [id |-> e.id, transition |-> e.transition]))
        /\ shared' = IF Apply(PointerOf(p), e) = PointerOf(p) THEN shared
                     ELSE [shared EXCEPT ![p] = Apply(PointerOf(p), e)]
        /\ Done(w)
        /\ UNCHANGED <<projects, connectors, servers>>
-----------------------------------------------------------------------------
(* READ operations *)

(* The wrapped runtime has answered, freshly or resumed, and the answer passed
   the binding checks, which gave the five events their identities. Until the
   recorder commits nothing of it is in the trail. *)
Reads(w) == ~Free(w) /\ mem[w].op = "read"

FreshLineage(r) ==
    /\ \A v \in Clients : Reads(v) => mem[v].lineage # r
    /\ \A i \in 1..Len(trail) : trail[i].action = "read" => trail[i].record.lineage # r

RunRead(w, x, verdict, r, cause) ==
    /\ LedgerRoom
    /\ FreshLineage(r)
    /\ Keeps(w, [op |-> "read", lineage |-> r, execution |-> x, project |-> Recorder[w],
                 verdict |-> verdict, cause |-> cause])
    /\ UNCHANGED <<rows, trail, txn>>

ReadStages == <<"prepared", "runner", "completed", "verifier", "verification">>

(* The five events, each caused by the one before it; the cause of the first is
   the caller's. *)
EventId(r, i) == <<r, ReadStages[i]>>
ReadEvents(m) ==
    [i \in 1..5 |->
        Entry("read", m.project.id,
              [lineage |-> m.lineage, stage |-> ReadStages[i], execution |-> m.execution,
               cause |-> IF i = 1 THEN m.cause ELSE EventId(m.lineage, i - 1),
               status |-> IF i \in {2, 4} THEN "OBSERVED"
                          ELSE IF i = 5 /\ m.verdict # "VERIFIED" THEN "FAILED"
                          ELSE "VERIFIED"])]

(* _record_result appends all five in one transaction, one after the other. *)
Recording(w) == txn # Absent /\ txn.client = w

BeginRecord(w) ==
    /\ LedgerRoom
    /\ Alone /\ Reads(w)
    /\ txn' = [client |-> w, written |-> <<>>]
    /\ UNCHANGED <<rows, trail, mem>>

NextEvent(w) == ReadEvents(mem[w])[Len(txn.written) + 1]

AppendsAlone(w) ==  \* mutant: an event is committed as soon as it is appended
    /\ Recording(w) /\ Len(txn.written) < 5
    /\ trail' = Append(trail, NextEvent(w))
    /\ txn' = [txn EXCEPT !.written = Append(@, NextEvent(w))]
    /\ UNCHANGED <<rows, mem>>

AppendEvent(w) ==
    /\ Recording(w) /\ Len(txn.written) < 5
    /\ txn' = [txn EXCEPT !.written = Append(@, NextEvent(w))]
    /\ UNCHANGED <<rows, trail, mem>>

CommitRecord(w) ==
    /\ Recording(w) /\ Len(txn.written) = 5
    /\ trail' = trail \o txn.written
    /\ txn' = Absent
    /\ Done(w)
    /\ UNCHANGED rows
-----------------------------------------------------------------------------
(* The client stops, or its transaction is refused or fails: what it has
   written is rolled back. *)
ClientStops(w) ==
    /\ ~Free(w)
    /\ txn' = IF Recording(w) THEN Absent ELSE txn
    /\ Done(w)
    /\ UNCHANGED <<rows, trail>>

RegistryNext ==
    \/ \E d \in Descriptors : RegisterProject(d)
    \/ \E c \in Connectors, n \in ConnectorSnapshot : RecordConnector(c, n)
    \/ \E w \in Clients :
          \/ \E s \in Servers, n \in ServerDescriptor : CheckConnector(w, s, n)
          \/ RecordServer(w)
          \/ \E e \in Events : ResolveProject(w, e)
          \/ AppendAndReconcile(w)
          \/ \E x \in Executions, v \in {"VERIFIED", "NOT_VERIFIED"}, r \in Lineages,
                cause \in Maybe(Causes) : RunRead(w, x, v, r, cause)
          \/ BeginRecord(w)
          \/ AppendEvent(w)
          \/ CommitRecord(w)
          \/ ClientStops(w)

RegistrySpec == RegistryInit /\ [][RegistryNext]_registryVars
-----------------------------------------------------------------------------
(* Where the trail tells of one subject *)
About(action, target) ==
    {i \in 1..Len(trail) : trail[i].action = action /\ trail[i].target = target}

Transitions(p) == {i \in About("event", p) : trail[i].record.transition # Absent}

IsFirst(I, i) == \A j \in I : i <= j
IsLast(I, i) == \A j \in I : j <= i
Follows(I, i, j) == i < j /\ \A k \in I : k <= i \/ j <= k

(* A row is what the last entry about it says, and the entries count it up
   without a gap. *)
TellsGenerations(row, I) ==
    /\ row = Absent <=> I = {}
    /\ \A i \in I :
          /\ trail[i].record.generation = Cardinality({j \in I : j <= i})
          /\ IsLast(I, i) => row = trail[i].record

(* The pointer is at the end of a chain of transitions that begins at genesis,
   and its revision is their number. *)
TellsState(p, I) ==
    /\ PointerOf(p).revision = Cardinality(I)
    /\ \A i \in I :
          /\ IsFirst(I, i) => trail[i].record.transition.previous = Genesis
          /\ \A j \in I : Follows(I, i, j) =>
                trail[j].record.transition.previous = trail[i].record.transition.next
          /\ IsLast(I, i) =>
                /\ shared[p].state = trail[i].record.transition.next
                /\ shared[p].event = trail[i].record.id

(* Part of RowsFollowTrail: any name or repository resolves to one project,
   whoever registered in which order, so project_registry() can always be built
   again from the rows; and every event and pointer belongs to a registered
   project. *)
NamesResolve ==
    /\ \A d, e \in projects :
          d # e => Names(d) \cap Names(e) = {} /\ d.repository # e.repository
    /\ \A i \in 1..Len(trail) :
          trail[i].action = "event" =>
              \E d \in projects : d.id = trail[i].target

(* The registries are projections of the audit trail: whatever two clients
   write at the same time, each current row is what its last audit entry
   recorded, generations have no gap, and the shared state is the end of an
   unbroken chain of the logged transitions, as long as its revision says; and
   names resolve (_record_generation, append_and_reconcile). *)
RowsFollowTrail ==
    /\ NamesResolve
    /\ \A c \in Connectors : TellsGenerations(connectors[c], About("connector", c))
    /\ \A s \in Servers : TellsGenerations(servers[s], About("server", s))
    /\ \A p \in ProjectIds : TellsState(p, Transitions(p))

(* Entry i is the k-th of the five of one READ, each of which names the one
   before it as its cause. *)
InLineage(i, k) ==
    /\ trail[i].record.stage = ReadStages[k]
    /\ i - k >= 0 /\ i - k + 5 <= Len(trail)
    /\ \A j \in 1..5 :
          LET e == trail[i - k + j] IN
          /\ e.action = "read" /\ e.target = trail[i].target
          /\ e.record.lineage = trail[i].record.lineage
          /\ e.record.execution = trail[i].record.execution
          /\ e.record.stage = ReadStages[j]
          /\ j > 1 => e.record.cause = EventId(trail[i].record.lineage, j - 1)

(* The lineage of a READ operation is in the committed trail completely or not
   at all, and once: every event of one has its cause right before it and the
   chain runs on to the verification, about the same execution and project,
   whatever other clients append, and at whichever of the five appends this one
   stops or fails (_record_result). *)
LineageIsWhole ==
    /\ \A i \in 1..Len(trail) :
          trail[i].action = "read" => \E k \in 1..5 : InLineage(i, k)
    /\ \A i, j \in 1..Len(trail) :
          /\ trail[i].action = "read" /\ trail[j].action = "read"
          /\ trail[i].record.lineage = trail[j].record.lineage
          /\ trail[i].record.stage = trail[j].record.stage
          => i = j
=============================================================================
