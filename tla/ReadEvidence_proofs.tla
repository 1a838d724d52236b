-------------------------- MODULE ReadEvidence_proofs --------------------------
(***************************************************************************)
(* Proofs about what a READ leaves behind: the control plane's registry    *)
(* and its trail (ControlPlaneRegistry), the graph of runtime objects that *)
(* a READ runs through (ReadAssembly), and the documents it makes          *)
(* (EvidenceChain). Each theorem is about one of the three specifications, *)
(* which share no variable, for every value of its constants.              *)
(***************************************************************************)
EXTENDS ControlPlaneRegistry, ReadAssembly, EvidenceChain,
        FiniteSetTheorems, SequenceTheorems, TLAPS

(* The registry of the control plane *)

(* What a client keeps in memory *)
ServerWrite == [op : {"server"}, server : Servers, row : ServerDescriptor]
EventWrite == [op : {"event"}, event : Events]
ReadWrite == [op : {"read"}, lineage : Lineages, execution : Executions, project : Descriptors,
              verdict : {"VERIFIED", "NOT_VERIFIED"}, cause : Maybe(Causes)]

(* What the trail is made of *)
EventRecord == [id : {e.id : e \in Events}, transition : Maybe(Transition)]
Stages == {ReadStages[i] : i \in 1..5}
ReadRecord == [lineage : Lineages, stage : Stages, execution : Executions,
               cause : Maybe(Causes) \cup Lineages \X Stages, status : {"OBSERVED", "VERIFIED", "FAILED"}]
Logged == [action : {"project", "connector", "server", "event", "read"},
           target : ProjectIds \cup Connectors \cup Servers,
           record : Descriptors \cup ConnectorSnapshot \cup ServerDescriptor
                       \cup EventRecord \cup ReadRecord]

(* The recorder's transaction *)
Recordings == [client : Clients, written : Seq(Logged)]

RegistryTypeOK ==
    /\ projects \subseteq Descriptors
    /\ connectors \in [Connectors -> Maybe(ConnectorSnapshot)]
    /\ servers \in [Servers -> Maybe(ServerDescriptor)]
    /\ shared \in [ProjectIds -> Maybe(Pointer)]
    /\ trail \in Seq(Logged)
    /\ txn \in Maybe(Recordings)
    /\ mem \in [Clients -> Maybe(ServerWrite \cup EventWrite \cup ReadWrite)]

(* An event that is about to be logged is of a registered project. *)
PendingIsRegistered ==
    \A w \in Clients : mem[w] # Absent /\ mem[w].op = "event" => mem[w].event.project \in projects

(* A row is what the trail says of it and knows how often it was written; a
   pointer is there when something moved it. *)
ConnectorFollows(c) ==
    /\ TellsGenerations(connectors[c], About("connector", c))
    /\ connectors[c] # Absent =>
          connectors[c].generation = Cardinality(About("connector", c))
ServerFollows(s) ==
    /\ TellsGenerations(servers[s], About("server", s))
    /\ servers[s] # Absent =>
          servers[s].generation = Cardinality(About("server", s))
PointerFollows(p) ==
    /\ TellsState(p, Transitions(p))
    /\ shared[p] = Absent <=> Transitions(p) = {}

(* What the open transaction has written is the beginning of the lineage its
   client is about to record. *)
OpenIsBeginning ==
    txn # Absent =>
        /\ Reads(txn.client)
        /\ Len(txn.written) <= 5
        /\ \A j \in 1..Len(txn.written) : txn.written[j] = ReadEvents(mem[txn.client])[j]

(* The identities of events that are yet to be recorded are nobody else's. *)
LineagesAreOnce ==
    /\ \A v, w \in Clients : Reads(v) /\ Reads(w) /\ mem[v].lineage = mem[w].lineage => v = w
    /\ \A w \in Clients, i \in 1..Len(trail) :
          Reads(w) /\ trail[i].action = "read" => trail[i].record.lineage # mem[w].lineage

RegistryInv ==
    /\ RegistryTypeOK
    /\ PendingIsRegistered
    /\ NamesResolve
    /\ \A c \in Connectors : ConnectorFollows(c)
    /\ \A s \in Servers : ServerFollows(s)
    /\ \A p \in ProjectIds : PointerFollows(p)
    /\ OpenIsBeginning
    /\ LineagesAreOnce
    /\ LineageIsWhole
-----------------------------------------------------------------------------
(* The trail is only ever extended. *)
Grown ==
    /\ trail \in Seq(Logged) /\ trail' \in Seq(Logged)
    /\ Len(trail) <= Len(trail')
    /\ \A i \in 1..Len(trail) : trail'[i] = trail[i]

(* One entry e is added. *)
Added(e) ==
    /\ Grown
    /\ Len(trail') = Len(trail) + 1
    /\ trail'[Len(trail) + 1] = e

(* An entry that is appended is the last one, and the others stay. *)
LEMMA AppendAdds ==
    ASSUME trail \in Seq(Logged), NEW e \in Logged, trail' = Append(trail, e)
    PROVE  Added(e)
BY DEF Added, Grown

(* Positions of a trail are finitely many. *)
LEMMA AboutFinite ==
    ASSUME trail \in Seq(Logged), NEW a, NEW t
    PROVE  /\ About(a, t) \in SUBSET (1..Len(trail)) /\ IsFiniteSet(About(a, t))
           /\ Transitions(t) \in SUBSET (1..Len(trail)) /\ IsFiniteSet(Transitions(t))
<1>1. IsFiniteSet(1..Len(trail))
  BY FS_Interval
<1>2. About(a, t) \in SUBSET (1..Len(trail))
  BY DEF About
<1>3. Transitions(t) \in SUBSET (1..Len(trail))
  BY DEF Transitions, About
<1> QED
  BY <1>1, <1>2, <1>3, FS_Subset

(* Entries about something else do not count. *)
LEMMA AboutKept ==
    ASSUME Grown, NEW a, NEW t,
           \A i \in 1..Len(trail') :
               i > Len(trail) => trail'[i].action # a \/ trail'[i].target # t
    PROVE  About(a, t)' = About(a, t)
BY DEF Grown, About

(* The same for the transitions of a project *)
LEMMA TransitionsKept ==
    ASSUME Grown, NEW t,
           \A i \in 1..Len(trail') : i > Len(trail) =>
              \/ trail'[i].action # "event" \/ trail'[i].target # t
              \/ trail'[i].record.transition = Absent
    PROVE  Transitions(t)' = Transitions(t)
BY DEF Grown, About, Transitions

(* The entry that is added is one more. *)
LEMMA AboutAdded ==
    ASSUME NEW e, Added(e)
    PROVE  About(e.action, e.target)' = About(e.action, e.target) \cup {Len(trail) + 1}
<1> DEFINE n == Len(trail)
<1>1. n \in Nat /\ Len(trail') = n + 1 /\ 1..(n + 1) = (1..n) \cup {n + 1}
  BY DEF Added, Grown
<1> QED
  BY <1>1 DEF Added, Grown, About

(* The same for a transition *)
LEMMA TransitionsAdded ==
    ASSUME NEW e, Added(e), e.action = "event", e.record.transition # Absent
    PROVE  Transitions(e.target)' = Transitions(e.target) \cup {Len(trail) + 1}
<1> DEFINE n == Len(trail)
<1>1. n \in Nat /\ Len(trail') = n + 1 /\ 1..(n + 1) = (1..n) \cup {n + 1}
  BY DEF Added, Grown
<1>2. About(e.action, e.target)' = About(e.action, e.target) \cup {Len(trail) + 1}
  BY AboutAdded
<1>3. About("event", e.target) \subseteq 1..n
  BY DEF About
<1> QED
  BY <1>1, <1>2, <1>3 DEF Added, Grown, Transitions

(* A set of positions and one after all of them *)
LEMMA OneMore ==
    ASSUME NEW n \in Nat, NEW I \in SUBSET (1..n)
    PROVE  /\ Cardinality(I \cup {n + 1}) = Cardinality(I) + 1
           /\ {j \in I \cup {n + 1} : j <= n + 1} = I \cup {n + 1}
           /\ \A i \in I : {j \in I \cup {n + 1} : j <= i} = {j \in I : j <= i}
<1>1. IsFiniteSet(1..n) /\ IsFiniteSet(I)
  <2>1. IsFiniteSet(1..n)
    BY FS_Interval
  <2> QED
    BY <2>1, FS_Subset
<1>2. n + 1 \notin I
  OBVIOUS
<1>3. Cardinality(I \cup {n + 1}) = Cardinality(I) + 1
  BY <1>1, <1>2, FS_AddElement
<1>4. {j \in I \cup {n + 1} : j <= n + 1} = I \cup {n + 1}
  <2>1. \A j \in I \cup {n + 1} : j <= n + 1
    OBVIOUS
  <2> QED
    BY <2>1
<1>5. ASSUME NEW i \in I PROVE {j \in I \cup {n + 1} : j <= i} = {j \in I : j <= i}
  BY ~(n + 1 <= i)
<1> QED
  BY <1>3, <1>4, <1>5
-----------------------------------------------------------------------------
(* A row that nobody writes still follows a trail that grows elsewhere. *)
LEMMA RowKept ==
    ASSUME Grown, NEW row, NEW I \in SUBSET (1..Len(trail)), TellsGenerations(row, I)
    PROVE  TellsGenerations(row, I)'
BY DEF Grown, TellsGenerations, IsLast

(* A row that is written with the next generation follows the trail with the
   entry of it. *)
LEMMA RowWritten ==
    ASSUME NEW e, Added(e), NEW row, NEW I \in SUBSET (1..Len(trail)),
           TellsGenerations(row, I), e.record # Absent,
           NextGeneration(row, e.record),
           row # Absent => row.generation = Cardinality(I),
           NEW J, J = I \cup {Len(trail) + 1}
    PROVE  TellsGenerations(e.record, J)' /\ e.record.generation = Cardinality(J)
<1> DEFINE n == Len(trail)
<1>1. n \in Nat
  BY DEF Added, Grown
<1>2. /\ Cardinality(J) = Cardinality(I) + 1
      /\ {j \in J : j <= n + 1} = J
      /\ \A i \in I : {j \in J : j <= i} = {j \in I : j <= i}
  BY <1>1, OneMore
<1>3. e.record.generation = Cardinality(J)
  <2>1. CASE row = Absent
    <3>1. Cardinality(I) = 0
      BY <2>1, FS_EmptySet DEF TellsGenerations
    <3> QED
      BY <2>1, <3>1, <1>2 DEF NextGeneration
  <2>2. CASE row # Absent
    BY <2>2, <1>2 DEF NextGeneration
  <2> QED
    BY <2>1, <2>2
<1>4. \A i \in J : trail'[i].record.generation = Cardinality({j \in J : j <= i})
  <2>1. trail'[n + 1] = e
    BY DEF Added
  <2>2. \A i \in I : trail'[i] = trail[i]
    BY <1>1 DEF Added, Grown
  <2>3. ASSUME NEW i \in I PROVE trail'[i].record.generation = Cardinality({j \in J : j <= i})
    <3>1. trail[i].record.generation = Cardinality({j \in I : j <= i})
      BY DEF TellsGenerations
    <3>2. {j \in J : j <= i} = {j \in I : j <= i} /\ trail'[i] = trail[i]
      BY <1>2, <2>2
    <3> QED
      BY <3>1, <3>2
  <2>4. trail'[n + 1].record.generation = Cardinality({j \in J : j <= n + 1})
    BY <1>2, <1>3, <2>1
  <2> QED
    BY <2>3, <2>4
<1>5. \A i \in J : (\A j \in J : j <= i) => e.record = trail'[i].record
  <2>1. \A i \in I : ~(n + 1 <= i)
    BY <1>1
  <2> QED
    BY <2>1 DEF Added
<1>6. J # {}
  OBVIOUS
<1>7. TellsGenerations(e.record, J)'
  BY <1>4, <1>5, <1>6 DEF TellsGenerations, IsLast
<1> QED
  BY <1>3, <1>7

(* A pointer that nobody moves is still where the transitions lead. *)
LEMMA StateKept ==
    ASSUME Grown, NEW p, NEW I \in SUBSET (1..Len(trail)), TellsState(p, I),
           shared'[p] = shared[p]
    PROVE  TellsState(p, I)'
<1>1. PointerOf(p)' = PointerOf(p) /\ \A i \in I : trail'[i] = trail[i]
  BY DEF Grown, PointerOf
<1>2. PointerOf(p)'.revision = Cardinality(I)
  BY <1>1 DEF TellsState
<1>3. ASSUME NEW i \in I
      PROVE  /\ IsFirst(I, i) => trail'[i].record.transition.previous = Genesis
             /\ IsLast(I, i) => /\ shared'[p].state = trail'[i].record.transition.next
                               /\ shared'[p].event = trail'[i].record.id
  BY <1>1 DEF TellsState
<1>4. ASSUME NEW i \in I, NEW j \in I, Follows(I, i, j)
      PROVE  trail'[j].record.transition.previous = trail'[i].record.transition.next
  BY <1>1, <1>4 DEF TellsState
<1> QED
  BY <1>2, <1>3, <1>4 DEF TellsState, IsFirst, IsLast, Follows

(* A pointer that is moved by a transition from where it was is where the
   longer chain leads. *)
LEMMA StateMoved ==
    ASSUME NEW e, Added(e), NEW p, NEW I \in SUBSET (1..Len(trail)), TellsState(p, I),
           shared[p] = Absent <=> I = {},
           e.record.transition.previous = PointerOf(p).state,
           shared'[p] = [revision |-> PointerOf(p).revision + 1,
                         state |-> e.record.transition.next, event |-> e.record.id],
           shared'[p] # Absent,
           NEW J, J = I \cup {Len(trail) + 1}
    PROVE  TellsState(p, J)'
<1> DEFINE n == Len(trail)
<1>1. n \in Nat
  BY DEF Added, Grown
<1>2. Cardinality(J) = Cardinality(I) + 1
  BY <1>1, OneMore
<1>3. PointerOf(p)'.revision = Cardinality(J)
  BY <1>2 DEF PointerOf, TellsState
<1>4. /\ trail'[n + 1] = e
      /\ \A i \in I : trail'[i] = trail[i]
  BY <1>1 DEF Added, Grown
<1>5. \A i \in I : i < n + 1 /\ ~(n + 1 <= i)
  BY <1>1
<1>6. \A i \in J : IsFirst(J, i) => trail'[i].record.transition.previous = Genesis
  <2>1. CASE I = {}
    <3>1. PointerOf(p).state = Genesis
      BY <2>1 DEF PointerOf, GenesisPointer
    <3> QED
      BY <2>1, <3>1, <1>4
  <2>2. ASSUME I # {}, NEW i \in J, IsFirst(J, i)
        PROVE  trail'[i].record.transition.previous = Genesis
    <3>1. i \in I /\ IsFirst(I, i)
      BY <2>2, <1>5 DEF IsFirst
    <3> QED
      BY <3>1, <1>4 DEF TellsState
  <2> QED
    BY <2>1, <2>2
<1>7. ASSUME NEW i \in J, NEW j \in J, Follows(J, i, j)
      PROVE  trail'[j].record.transition.previous = trail'[i].record.transition.next
  <2>1. i \in I
    <3>1. i < j /\ i \in Int /\ j \in Int
      BY <1>7, <1>1 DEF Follows
    <3>2. j <= n + 1
      BY <1>1
    <3> QED
      BY <3>1, <3>2, <1>1
  <2>2. CASE j \in I
    <3>1. Follows(I, i, j)
      BY <1>7 DEF Follows
    <3> QED
      BY <2>1, <2>2, <3>1, <1>4 DEF TellsState
  <2>3. CASE j = n + 1
    <3>1. IsLast(I, i)
      BY <1>7, <2>3, <1>5 DEF Follows, IsLast
    <3>2. PointerOf(p).state = trail[i].record.transition.next
      BY <2>1, <3>1 DEF TellsState, PointerOf
    <3> QED
      BY <2>1, <2>3, <3>2, <1>4
  <2> QED
    BY <2>2, <2>3
<1>8. ASSUME NEW i \in J, IsLast(J, i)
      PROVE  /\ shared'[p].state = trail'[i].record.transition.next
             /\ shared'[p].event = trail'[i].record.id
  <2>1. i = n + 1
    BY <1>5, <1>8 DEF IsLast
  <2> QED
    BY <2>1, <1>4
<1> QED
  BY <1>3, <1>6, <1>7, <1>8 DEF TellsState, IsFirst, IsLast, Follows
-----------------------------------------------------------------------------
(* The lineage around an entry is not disturbed by a longer trail. *)
LEMMA LineageStays ==
    ASSUME Grown, NEW i \in 1..Len(trail), NEW k \in 1..5, InLineage(i, k)
    PROVE  InLineage(i, k)'
<1>1. i - k >= 0 /\ i - k + 5 <= Len(trail)
  BY Zenon DEF InLineage
<1>2. Len(trail) \in Nat /\ Len(trail') \in Nat /\ Len(trail) <= Len(trail')
  BY DEF Grown
<1>3. i - k >= 0 /\ i - k + 5 <= Len(trail) /\ Len(trail) \in Nat /\ Len(trail') \in Nat
      /\ Len(trail) <= Len(trail')
  BY <1>1, <1>2
<1>4. trail'[i] = trail[i] /\ \A j \in 1..5 : trail'[i - k + j] = trail[i - k + j]
  <2>1. ASSUME NEW j \in 1..5 PROVE i - k + j \in 1..Len(trail)
    BY <1>3
  <2>2. \A m \in 1..Len(trail) : trail'[m] = trail[m]
    BY DEF Grown
  <2> QED
    BY <2>1, <2>2
<1>5. i - k + 5 <= Len(trail')
  BY <1>3
<1> QED
  BY <1>4, <1>5 DEF InLineage

(* Lineages stay whole under entries that are not of one. *)
LEMMA LineageKept ==
    ASSUME Grown, LineageIsWhole,
           \A i \in 1..Len(trail') : i > Len(trail) => trail'[i].action # "read"
    PROVE  LineageIsWhole'
<1>1. ASSUME NEW i \in 1..Len(trail'), trail'[i].action = "read"
      PROVE  i \in 1..Len(trail) /\ trail'[i] = trail[i]
  BY <1>1 DEF Grown
<1>2. ASSUME NEW i \in 1..Len(trail'), trail'[i].action = "read"
      PROVE  \E k \in 1..5 : InLineage(i, k)'
  <2>1. PICK k \in 1..5 : InLineage(i, k)
    BY <1>1, <1>2 DEF LineageIsWhole
  <2> QED
    BY <1>1, <1>2, <2>1, LineageStays
<1>3. \A i, j \in 1..Len(trail') :
         /\ trail'[i].action = "read" /\ trail'[j].action = "read"
         /\ trail'[i].record.lineage = trail'[j].record.lineage
         /\ trail'[i].record.stage = trail'[j].record.stage
         => i = j
  BY <1>1 DEF LineageIsWhole
<1> QED
  BY <1>2, <1>3 DEF LineageIsWhole

(* Nobody else gets the identities of a READ by entries that are not of one, or
   by clients that give up. *)
LEMMA LineagesKept ==
    ASSUME Grown, LineagesAreOnce,
           \A i \in 1..Len(trail') : i > Len(trail) => trail'[i].action # "read",
           \A v \in Clients : Reads(v)' => Reads(v) /\ mem'[v] = mem[v]
    PROVE  LineagesAreOnce'
<1>1. ASSUME NEW i \in 1..Len(trail'), trail'[i].action = "read"
      PROVE  i \in 1..Len(trail) /\ trail'[i] = trail[i]
  BY <1>1 DEF Grown
<1>2. \A v, w \in Clients :
         Reads(v)' /\ Reads(w)' /\ mem'[v].lineage = mem'[w].lineage => v = w
  BY DEF LineagesAreOnce
<1>3. \A w \in Clients, i \in 1..Len(trail') :
         Reads(w)' /\ trail'[i].action = "read" => trail'[i].record.lineage # mem'[w].lineage
  BY <1>1 DEF LineagesAreOnce
<1> QED
  BY <1>2, <1>3 DEF LineagesAreOnce

(* What a step leaves alone and does not log still follows. *)
LEMMA ConnectorKept ==
    ASSUME Grown, NEW c \in Connectors, ConnectorFollows(c), connectors'[c] = connectors[c],
           \A i \in 1..Len(trail') : i > Len(trail) =>
              trail'[i].action # "connector" \/ trail'[i].target # c
    PROVE  ConnectorFollows(c)'
<1>1. About("connector", c)' = About("connector", c)
  BY AboutKept
<1>2. About("connector", c) \in SUBSET (1..Len(trail))
  BY DEF About
<1>3. TellsGenerations(connectors[c], About("connector", c))'
  BY <1>1, <1>2, RowKept DEF ConnectorFollows
<1> QED
  BY <1>1, <1>3 DEF ConnectorFollows

(* The same for an MCP server, *)
LEMMA ServerKept ==
    ASSUME Grown, NEW s \in Servers, ServerFollows(s), servers'[s] = servers[s],
           \A i \in 1..Len(trail') : i > Len(trail) =>
              trail'[i].action # "server" \/ trail'[i].target # s
    PROVE  ServerFollows(s)'
<1>1. About("server", s)' = About("server", s)
  BY AboutKept
<1>2. About("server", s) \in SUBSET (1..Len(trail))
  BY DEF About
<1>3. TellsGenerations(servers[s], About("server", s))'
  BY <1>1, <1>2, RowKept DEF ServerFollows
<1> QED
  BY <1>1, <1>3 DEF ServerFollows

(* and for the pointer of a project. *)
LEMMA PointerKept ==
    ASSUME Grown, NEW p \in ProjectIds, PointerFollows(p), shared'[p] = shared[p],
           \A i \in 1..Len(trail') : i > Len(trail) =>
              \/ trail'[i].action # "event" \/ trail'[i].target # p
              \/ trail'[i].record.transition = Absent
    PROVE  PointerFollows(p)'
<1>1. Transitions(p)' = Transitions(p)
  BY TransitionsKept
<1>2. Transitions(p) \in SUBSET (1..Len(trail))
  BY DEF Transitions, About
<1>3. TellsState(p, Transitions(p))'
  BY <1>1, <1>2, StateKept DEF PointerFollows
<1> QED
  BY <1>1, <1>3 DEF PointerFollows

(* What is logged from one entry on, in a step of one entry *)
LEMMA OnlyAdded ==
    ASSUME NEW e, Added(e)
    PROVE  Grown /\ \A i \in 1..Len(trail') : i > Len(trail) => trail'[i] = e
BY DEF Added, Grown

(* Names go on resolving when the entry is not an event. *)
LEMMA NamesKept ==
    ASSUME Grown, NamesResolve, projects' = projects,
           \A i \in 1..Len(trail') : i > Len(trail) => trail'[i].action # "event"
    PROVE  NamesResolve'
BY DEF Grown, NamesResolve
-----------------------------------------------------------------------------
(* The initial states satisfy the inductive invariant. *)
LEMMA RegistryInitInv == RegistryInit => RegistryInv
<1> SUFFICES ASSUME RegistryInit PROVE RegistryInv
  OBVIOUS
<1> USE DEF RegistryInit
<1>1. RegistryTypeOK /\ PendingIsRegistered
  BY DEF RegistryTypeOK, PendingIsRegistered, Maybe
<1>2. NamesResolve /\ LineageIsWhole /\ OpenIsBeginning /\ LineagesAreOnce
  BY DEF NamesResolve, LineageIsWhole, OpenIsBeginning, LineagesAreOnce, Reads, Free
<1>3. /\ \A a, t : About(a, t) = {}
      /\ \A t : Transitions(t) = {}
  BY DEF About, Transitions
<1>4. \A c \in Connectors : ConnectorFollows(c)
  BY <1>3 DEF ConnectorFollows, TellsGenerations
<1>5. \A s \in Servers : ServerFollows(s)
  BY <1>3 DEF ServerFollows, TellsGenerations
<1>6. \A p \in ProjectIds : PointerFollows(p)
  BY <1>3, FS_EmptySet DEF PointerFollows, TellsState, PointerOf, GenesisPointer
<1> QED
  BY <1>1, <1>2, <1>4, <1>5, <1>6 DEF RegistryInv

(* A step of memory alone *)
LEMMA MemoryStep ==
    ASSUME RegistryInv, UNCHANGED <<rows, trail>>, RegistryTypeOK', PendingIsRegistered',
           OpenIsBeginning', LineagesAreOnce'
    PROVE  RegistryInv'
<1> USE DEF RegistryInv, rows
<1>1. Grown /\ Len(trail') = Len(trail)
  BY DEF Grown, RegistryTypeOK
<1>2. \A i \in 1..Len(trail') : ~(i > Len(trail))
  BY <1>1 DEF Grown
<1>3. \A c \in Connectors : ConnectorFollows(c)'
  BY <1>1, <1>2, ConnectorKept
<1>4. \A s \in Servers : ServerFollows(s)'
  BY <1>1, <1>2, ServerKept
<1>5. \A p \in ProjectIds : PointerFollows(p)'
  BY <1>1, <1>2, PointerKept
<1>6. NamesResolve' /\ LineageIsWhole'
  BY <1>1, <1>2, NamesKept, LineageKept
<1> QED
  BY <1>3, <1>4, <1>5, <1>6

(* A client that writes or stops forgets, and the others keep what they have. *)
LEMMA GivesUp ==
    ASSUME NEW w \in Clients, mem' = [mem EXCEPT ![w] = Absent],
           mem \in [Clients -> Maybe(ServerWrite \cup EventWrite \cup ReadWrite)]
    PROVE  \A v \in Clients : Reads(v)' => v # w /\ Reads(v) /\ mem'[v] = mem[v]
BY DEF Reads, Free

(* A client that takes something else into memory does not disturb a READ. *)
LEMMA OthersKept ==
    ASSUME RegistryInv, NEW w \in Clients, NEW m, m.op # "read",
           Keeps(w, m), UNCHANGED <<trail, txn>>
    PROVE  OpenIsBeginning' /\ LineagesAreOnce'
<1> USE DEF RegistryInv
<1>1. Grown /\ \A i \in 1..Len(trail') : ~(i > Len(trail))
  BY DEF Grown, RegistryTypeOK
<1>2. \A v \in Clients : Reads(v)' => Reads(v) /\ mem'[v] = mem[v]
  BY DEF Keeps, Reads, Free, RegistryTypeOK
<1>3. LineagesAreOnce'
  BY <1>1, <1>2, LineagesKept
<1>4. ASSUME txn # Absent PROVE txn.client \in Clients /\ txn.client # w
  BY <1>4 DEF RegistryTypeOK, Maybe, Recordings, OpenIsBeginning, Keeps, Reads
<1>5. ASSUME txn # Absent PROVE mem'[txn.client] = mem[txn.client]
  BY <1>4, <1>5 DEF Keeps, RegistryTypeOK
<1>6. OpenIsBeginning'
  BY <1>5 DEF OpenIsBeginning, Reads, Free
<1> QED
  BY <1>3, <1>6

(* Clients that read, or stop. *)
LEMMA ClientStep ==
    ASSUME RegistryInv, NEW w \in Clients,
           \/ \E s \in Servers, n \in ServerDescriptor : CheckConnector(w, s, n)
           \/ \E e \in Events : ResolveProject(w, e)
           \/ \E x \in Executions, v \in {"VERIFIED", "NOT_VERIFIED"}, r \in Lineages,
                 cause \in Maybe(Causes) : RunRead(w, x, v, r, cause)
           \/ ClientStops(w)
    PROVE  RegistryInv'
<1> USE DEF RegistryInv
<1>1. ASSUME NEW s \in Servers, NEW n \in ServerDescriptor, CheckConnector(w, s, n)
      PROVE  RegistryInv'
  <2>1. [op |-> "server", server |-> s, row |-> n] \in ServerWrite
    BY DEF ServerWrite
  <2>2. RegistryTypeOK'
    BY <1>1, <2>1 DEF CheckConnector, Keeps, RegistryTypeOK, Maybe, rows
  <2>3. PendingIsRegistered'
    BY <1>1 DEF CheckConnector, Keeps, RegistryTypeOK, PendingIsRegistered, rows
  <2>4. OpenIsBeginning' /\ LineagesAreOnce'
    <3>1. Keeps(w, [op |-> "server", server |-> s, row |-> n]) /\ UNCHANGED <<trail, txn>>
      BY <1>1 DEF CheckConnector
    <3>2. [op |-> "server", server |-> s, row |-> n].op # "read"
      OBVIOUS
    <3> QED
      BY <3>1, <3>2, OthersKept
  <2> QED
    BY <1>1, <2>2, <2>3, <2>4, MemoryStep DEF CheckConnector
<1>2. ASSUME NEW e \in Events, ResolveProject(w, e) PROVE RegistryInv'
  <2>1. [op |-> "event", event |-> e] \in EventWrite
    BY DEF EventWrite
  <2>2. RegistryTypeOK'
    BY <1>2, <2>1 DEF ResolveProject, Keeps, RegistryTypeOK, Maybe, rows
  <2>3. PendingIsRegistered'
    BY <1>2 DEF ResolveProject, Keeps, RegistryTypeOK, PendingIsRegistered, rows
  <2>4. OpenIsBeginning' /\ LineagesAreOnce'
    <3>1. Keeps(w, [op |-> "event", event |-> e]) /\ UNCHANGED <<trail, txn>>
      BY <1>2 DEF ResolveProject
    <3>2. [op |-> "event", event |-> e].op # "read"
      OBVIOUS
    <3> QED
      BY <3>1, <3>2, OthersKept
  <2> QED
    BY <1>2, <2>2, <2>3, <2>4, MemoryStep DEF ResolveProject
<1>3. ASSUME NEW x \in Executions, NEW v \in {"VERIFIED", "NOT_VERIFIED"}, NEW r \in Lineages,
             NEW cause \in Maybe(Causes), RunRead(w, x, v, r, cause)
      PROVE  RegistryInv'
  <2> DEFINE m == [op |-> "read", lineage |-> r, execution |-> x, project |-> Recorder[w],
                   verdict |-> v, cause |-> cause]
  <2>1. m \in ReadWrite
    BY ControlPlaneAssumption DEF ReadWrite
  <2>2. /\ Free(w) /\ mem' = [mem EXCEPT ![w] = m] /\ m.lineage = r /\ m.op = "read"
        /\ FreshLineage(r) /\ UNCHANGED <<rows, trail, txn>>
    BY <1>3 DEF RunRead, Keeps
  <2> HIDE DEF m
  <2>3. RegistryTypeOK'
    BY <2>1, <2>2 DEF RegistryTypeOK, Maybe, rows
  <2>4. PendingIsRegistered'
    BY <2>2 DEF RegistryTypeOK, PendingIsRegistered, rows
  <2>5. mem'[w] = m /\ \A u \in Clients : u # w => mem'[u] = mem[u]
    BY <2>2 DEF RegistryTypeOK
  <2>6. LineagesAreOnce'
    <3>1. \A u \in Clients : u # w /\ Reads(u)' => Reads(u) /\ mem'[u] = mem[u] /\ mem[u].lineage # r
      BY <2>2, <2>5 DEF Reads, Free, FreshLineage
    <3>2. \A u \in Clients, t \in Clients :
             Reads(u)' /\ Reads(t)' /\ mem'[u].lineage = mem'[t].lineage => u = t
      BY <2>2, <2>5, <3>1 DEF LineagesAreOnce
    <3>3. \A u \in Clients, i \in 1..Len(trail') :
             Reads(u)' /\ trail'[i].action = "read" => trail'[i].record.lineage # mem'[u].lineage
      BY <2>2, <2>5, <3>1 DEF LineagesAreOnce, FreshLineage
    <3> QED
      BY <3>2, <3>3 DEF LineagesAreOnce
  <2>7. OpenIsBeginning'
    <3>1. ASSUME txn # Absent PROVE txn.client \in Clients /\ txn.client # w
      BY <3>1, <2>2 DEF RegistryTypeOK, Maybe, Recordings, OpenIsBeginning, Reads
    <3>2. ASSUME txn # Absent PROVE mem'[txn.client] = mem[txn.client]
      BY <3>1, <3>2, <2>5
    <3> QED
      BY <2>2, <3>2 DEF OpenIsBeginning, Reads, Free
  <2> QED
    BY <2>2, <2>3, <2>4, <2>6, <2>7, MemoryStep
<1>4. ASSUME ClientStops(w) PROVE RegistryInv'
  <2>1. /\ mem' = [mem EXCEPT ![w] = Absent] /\ UNCHANGED <<rows, trail>>
        /\ txn' = IF Recording(w) THEN Absent ELSE txn
    BY <1>4 DEF ClientStops, Done
  <2>2. RegistryTypeOK'
    BY <2>1 DEF RegistryTypeOK, Maybe, rows
  <2>3. PendingIsRegistered'
    BY <2>1 DEF RegistryTypeOK, PendingIsRegistered, rows
  <2>4. LineagesAreOnce'
    <3>1. \A v \in Clients : Reads(v)' => Reads(v) /\ mem'[v] = mem[v]
      BY <2>1, GivesUp DEF RegistryTypeOK
    <3>2. Grown /\ \A i \in 1..Len(trail') : ~(i > Len(trail))
      BY <2>1 DEF Grown, RegistryTypeOK
    <3> QED
      BY <3>1, <3>2, LineagesKept
  <2>5. OpenIsBeginning'
    <3>1. ASSUME txn' # Absent
          PROVE  txn' = txn /\ txn.client \in Clients /\ txn.client # w
      BY <3>1, <2>1 DEF RegistryTypeOK, Maybe, Recordings, Recording
    <3>2. ASSUME txn' # Absent PROVE mem'[txn.client] = mem[txn.client]
      BY <3>1, <3>2, <2>1 DEF RegistryTypeOK
    <3> QED
      BY <3>1, <3>2 DEF OpenIsBeginning, Reads, Free
  <2> QED
    BY <2>1, <2>2, <2>3, <2>4, <2>5, MemoryStep
<1> QED
  BY <1>1, <1>2, <1>3, <1>4

(* A project is registered under names and a repository nobody has. *)
LEMMA RegisterProjectStep ==
    ASSUME RegistryInv, NEW d \in Descriptors, RegisterProject(d)
    PROVE  RegistryInv'
<1> USE DEF RegistryInv
<1> DEFINE e == Entry("project", d.id, d)
<1>1. e \in Logged /\ e.action = "project"
  BY DEF Entry, Logged, ProjectIds
<1>2. Added(e)
  BY <1>1, AppendAdds DEF RegisterProject, Append1, RegistryTypeOK
<1>11. txn' = Absent /\ mem' = mem
  BY DEF RegisterProject, Append1, Alone
<1>3. Grown /\ \A i \in 1..Len(trail') : i > Len(trail) => trail'[i] = e
  BY <1>2, OnlyAdded
<1> HIDE DEF e
<1>4. RegistryTypeOK'
  BY <1>3, <1>11 DEF RegisterProject, RegistryTypeOK, Grown, Maybe
<1>5. PendingIsRegistered'
  BY DEF RegisterProject, PendingIsRegistered
<1>6. NamesResolve'
  <2>1. \A x, y \in projects' :
           x # y => Names(x) \cap Names(y) = {} /\ x.repository # y.repository
    BY DEF RegisterProject, Collides, NamesResolve
  <2>2. \A i \in 1..Len(trail') : trail'[i].action = "event" =>
           \E x \in projects' : x.id = trail'[i].target
    <3> SUFFICES ASSUME NEW i \in 1..Len(trail'), trail'[i].action = "event"
                 PROVE  \E x \in projects' : x.id = trail'[i].target
      OBVIOUS
    <3>1. i \in 1..Len(trail) /\ trail'[i] = trail[i]
      BY <1>1, <1>3 DEF Grown
    <3>2. \E x \in projects : x.id = trail[i].target
      BY <3>1 DEF NamesResolve
    <3> QED
      BY <3>1, <3>2 DEF RegisterProject
  <2> QED
    BY <2>1, <2>2 DEF NamesResolve
<1>7. \A c \in Connectors : ConnectorFollows(c)'
  BY <1>1, <1>3, ConnectorKept DEF RegisterProject
<1>8. \A s \in Servers : ServerFollows(s)'
  BY <1>1, <1>3, ServerKept DEF RegisterProject
<1>9. \A p \in ProjectIds : PointerFollows(p)'
  BY <1>1, <1>3, PointerKept DEF RegisterProject
<1>10. LineageIsWhole'
  BY <1>1, <1>3, LineageKept
<1>12. OpenIsBeginning' /\ LineagesAreOnce'
  <2>1. \A v \in Clients : Reads(v)' => Reads(v) /\ mem'[v] = mem[v]
    BY <1>11 DEF Reads, Free
  <2> QED
    BY <2>1, <1>1, <1>3, <1>11, LineagesKept DEF OpenIsBeginning
<1> QED
  BY <1>4, <1>5, <1>6, <1>7, <1>8, <1>9, <1>10, <1>12

(* A connector's snapshot is recorded. *)
LEMMA RecordConnectorStep ==
    ASSUME RegistryInv, NEW c \in Connectors, NEW n \in ConnectorSnapshot,
           RecordConnector(c, n)
    PROVE  RegistryInv'
<1> USE DEF RegistryInv
<1> DEFINE e == Entry("connector", c, n)
<1>1. e \in Logged /\ e.action = "connector" /\ e.target = c /\ e.record = n
  BY DEF Entry, Logged
<1>2. Added(e)
  BY <1>1, AppendAdds DEF RecordConnector, Append1, RegistryTypeOK
<1>10. txn' = Absent /\ mem' = mem
  BY DEF RecordConnector, Append1, Alone
<1>3. Grown /\ \A i \in 1..Len(trail') : i > Len(trail) => trail'[i] = e
  BY <1>2, OnlyAdded
<1> HIDE DEF e
<1>4. RegistryTypeOK'
  BY <1>3, <1>10 DEF RecordConnector, RegistryTypeOK, Grown, Maybe
<1>5. PendingIsRegistered'
  BY DEF RecordConnector, PendingIsRegistered
<1>6. NamesResolve' /\ LineageIsWhole'
  BY <1>1, <1>3, NamesKept, LineageKept DEF RecordConnector
<1>7. ASSUME NEW b \in Connectors PROVE ConnectorFollows(b)'
  <2>1. CASE b # c
    BY <2>1, <1>1, <1>3, ConnectorKept DEF RecordConnector, RegistryTypeOK
  <2>2. CASE b = c
    <3>1. connectors'[c] = n /\ n # Absent
      BY AbsentAssumption DEF RecordConnector, RegistryTypeOK
    <3>2. About("connector", c)' = About("connector", c) \cup {Len(trail) + 1}
      BY <1>1, <1>2, AboutAdded
    <3>3. About("connector", c) \in SUBSET (1..Len(trail))
      BY DEF About
    <3>4. TellsGenerations(connectors[c], About("connector", c))'
      BY <1>1, <1>2, <3>1, <3>2, <3>3, RowWritten DEF ConnectorFollows, RecordConnector
    <3>5. n.generation = Cardinality(About("connector", c)')
      BY <1>1, <1>2, <3>1, <3>2, <3>3, RowWritten DEF ConnectorFollows, RecordConnector
    <3> QED
      BY <2>2, <3>1, <3>4, <3>5 DEF ConnectorFollows
  <2> QED
    BY <2>1, <2>2
<1>8. \A s \in Servers : ServerFollows(s)'
  BY <1>1, <1>3, ServerKept DEF RecordConnector
<1>9. \A p \in ProjectIds : PointerFollows(p)'
  BY <1>1, <1>3, PointerKept DEF RecordConnector
<1>11. OpenIsBeginning' /\ LineagesAreOnce'
  <2>1. \A v \in Clients : Reads(v)' => Reads(v) /\ mem'[v] = mem[v]
    BY <1>10 DEF Reads, Free
  <2> QED
    BY <2>1, <1>1, <1>3, <1>10, LineagesKept DEF OpenIsBeginning
<1> QED
  BY <1>4, <1>5, <1>6, <1>7, <1>8, <1>9, <1>11

(* The MCP server that a client checked is recorded: the generation is compared
   again in the transaction, whatever was recorded in between. *)
LEMMA RecordServerStep ==
    ASSUME RegistryInv, NEW w \in Clients, RecordServer(w)
    PROVE  RegistryInv'
<1> USE DEF RegistryInv
<1> DEFINE m == mem[w]
           e == Entry("server", m.server, m.row)
<1>1. m \in ServerWrite
  BY DEF RecordServer, Free, RegistryTypeOK, Maybe, ServerWrite, EventWrite, ReadWrite
<1>2. m.server \in Servers /\ m.row \in ServerDescriptor /\ m.row # Absent
  BY <1>1, AbsentAssumption DEF ServerWrite
<1>3. PICK s \in Servers, n \in ServerDescriptor : s = m.server /\ n = m.row
  BY <1>2
<1>4. e \in Logged /\ e.action = "server" /\ e.target = s /\ e.record = n
  BY <1>3 DEF Entry, Logged
<1>5. /\ trail' = Append(trail, e) /\ NextGeneration(servers[s], n)
      /\ servers' = [servers EXCEPT ![s] = n] /\ mem' = [mem EXCEPT ![w] = Absent]
      /\ UNCHANGED <<projects, connectors, shared>> /\ txn' = Absent
  BY <1>3 DEF RecordServer, Append1, Alone, Done
<1>6. PICK f \in Logged : f = e
  BY <1>4
<1>7. Added(f) /\ f.action = "server" /\ f.target = s /\ f.record = n
  BY <1>4, <1>5, <1>6, AppendAdds DEF RegistryTypeOK
<1>8. Grown /\ \A i \in 1..Len(trail') : i > Len(trail) => trail'[i] = f
  BY <1>7, OnlyAdded
<1> HIDE DEF e, m
<1>9. RegistryTypeOK'
  BY <1>5, <1>8 DEF RegistryTypeOK, Grown, Maybe
<1>15. OpenIsBeginning' /\ LineagesAreOnce'
  BY <1>5, <1>7, <1>8, GivesUp, LineagesKept DEF OpenIsBeginning, RegistryTypeOK
<1>10. PendingIsRegistered'
  BY <1>5 DEF PendingIsRegistered, RegistryTypeOK
<1>11. NamesResolve' /\ LineageIsWhole'
  BY <1>5, <1>7, <1>8, NamesKept, LineageKept
<1>12. ASSUME NEW b \in Servers PROVE ServerFollows(b)'
  <2>1. CASE b # s
    BY <2>1, <1>5, <1>7, <1>8, ServerKept DEF RegistryTypeOK
  <2>2. CASE b = s
    <3>1. servers'[s] = n /\ n # Absent
      BY <1>2, <1>3, <1>5 DEF RegistryTypeOK
    <3>2. About("server", s)' = About("server", s) \cup {Len(trail) + 1}
      BY <1>7, AboutAdded
    <3>3. About("server", s) \in SUBSET (1..Len(trail))
      BY DEF About
    <3>4. TellsGenerations(servers[s], About("server", s))'
      BY <1>5, <1>7, <3>1, <3>2, <3>3, RowWritten DEF ServerFollows
    <3>5. n.generation = Cardinality(About("server", s)')
      BY <1>5, <1>7, <3>1, <3>2, <3>3, RowWritten DEF ServerFollows
    <3> QED
      BY <2>2, <3>1, <3>4, <3>5 DEF ServerFollows
  <2> QED
    BY <2>1, <2>2
<1>13. \A c \in Connectors : ConnectorFollows(c)'
  BY <1>5, <1>7, <1>8, ConnectorKept
<1>14. \A p \in ProjectIds : PointerFollows(p)'
  BY <1>5, <1>7, <1>8, PointerKept
<1> QED
  BY <1>9, <1>10, <1>11, <1>12, <1>13, <1>14, <1>15

(* An event is logged, and the pointer moves when it carries a transition from
   where the pointer is. *)
LEMMA ReconcileStep ==
    ASSUME RegistryInv, NEW w \in Clients, AppendAndReconcile(w)
    PROVE  RegistryInv'
<1> USE DEF RegistryInv
<1>1. mem[w] \in EventWrite
  BY DEF AppendAndReconcile, Free, RegistryTypeOK, Maybe, ServerWrite, EventWrite, ReadWrite
<1>2. PICK e \in Events : e = mem[w].event
  BY <1>1 DEF EventWrite
<1>3. Valid(e) /\ e.project \in projects
  BY <1>2, EventAssumption DEF AppendAndReconcile, Free, PendingIsRegistered
<1>4. PICK p \in ProjectIds : p = e.project.id
  BY <1>3 DEF Valid, ProjectIds
<1>5. PICK r \in EventRecord : r = [id |-> e.id, transition |-> e.transition]
  BY <1>3 DEF Valid, EventRecord
<1>6. PICK f \in Logged : f = Entry("event", p, r)
  BY DEF Entry, Logged
<1>7. f.action = "event" /\ f.target = p /\ f.record = r
  BY <1>6 DEF Entry
<1>8. /\ trail' = Append(trail, f) /\ Extends(PointerOf(p), e)
      /\ shared' = IF Apply(PointerOf(p), e) = PointerOf(p) THEN shared
                   ELSE [shared EXCEPT ![p] = Apply(PointerOf(p), e)]
      /\ mem' = [mem EXCEPT ![w] = Absent]
      /\ UNCHANGED <<projects, connectors, servers>> /\ txn' = Absent
  BY <1>2, <1>4, <1>5, <1>6 DEF AppendAndReconcile, Append1, Alone, Done
<1>9. Added(f)
  BY <1>8, AppendAdds DEF RegistryTypeOK
<1>10. Grown /\ \A i \in 1..Len(trail') : i > Len(trail) => trail'[i] = f
  BY <1>9, OnlyAdded
<1>11. PointerOf(p) \in Pointer
  BY DEF RegistryTypeOK, PointerOf, GenesisPointer, Pointer, Maybe
<1>12. /\ e.transition # Absent => e.transition \in Transition
       /\ e.id \in {x.id : x \in Events}
  BY <1>3 DEF Valid, Maybe
<1>13. e.transition # Absent => Apply(PointerOf(p), e) \in Pointer
  BY <1>11, <1>12 DEF Apply, Pointer, Transition, Maybe
<1>14. e.transition # Absent => Apply(PointerOf(p), e) # PointerOf(p)
  BY <1>11 DEF Apply, Pointer
<1>15. e.transition = Absent => shared' = shared
  BY <1>8 DEF Apply
<1>16. e.transition # Absent =>
         shared' = [shared EXCEPT ![p] = Apply(PointerOf(p), e)]
  BY <1>8, <1>14
<1>17. RegistryTypeOK'
  <2>1. shared' \in [ProjectIds -> Maybe(Pointer)]
    BY <1>13, <1>15, <1>16 DEF RegistryTypeOK, Maybe
  <2> QED
    BY <2>1, <1>8, <1>10 DEF RegistryTypeOK, Grown, Maybe
<1>18. PendingIsRegistered'
  BY <1>8 DEF PendingIsRegistered, RegistryTypeOK
<1>19. NamesResolve'
  <2>1. \A i \in 1..Len(trail') : trail'[i].action = "event" =>
           \E x \in projects' : x.id = trail'[i].target
    <3> SUFFICES ASSUME NEW i \in 1..Len(trail'), trail'[i].action = "event"
                 PROVE  \E x \in projects : x.id = trail'[i].target
      BY <1>8
    <3>1. CASE i > Len(trail)
      BY <3>1, <1>3, <1>4, <1>7, <1>10
    <3>2. CASE ~(i > Len(trail))
      <4>1. i \in 1..Len(trail) /\ trail'[i] = trail[i]
        BY <3>2, <1>10 DEF Grown
      <4> QED
        BY <4>1 DEF NamesResolve
    <3> QED
      BY <3>1, <3>2
  <2> QED
    BY <2>1, <1>8 DEF NamesResolve
<1>20. LineageIsWhole'
  BY <1>7, <1>10, LineageKept
<1>24. OpenIsBeginning' /\ LineagesAreOnce'
  BY <1>7, <1>8, <1>10, GivesUp, LineagesKept DEF OpenIsBeginning, RegistryTypeOK
<1>21. \A c \in Connectors : ConnectorFollows(c)'
  BY <1>7, <1>8, <1>10, ConnectorKept
<1>22. \A s \in Servers : ServerFollows(s)'
  BY <1>7, <1>8, <1>10, ServerKept
<1>23. ASSUME NEW q \in ProjectIds PROVE PointerFollows(q)'
  <2>1. CASE e.transition = Absent
    BY <2>1, <1>5, <1>7, <1>10, <1>15, PointerKept
  <2>2. CASE e.transition # Absent /\ q # p
    <3>1. shared'[q] = shared[q]
      BY <2>2, <1>16 DEF RegistryTypeOK
    <3> QED
      BY <2>2, <3>1, <1>7, <1>10, PointerKept
  <2>3. CASE e.transition # Absent /\ q = p
    <3>1. f.record.transition = e.transition /\ f.record.id = e.id
      BY <1>5, <1>7
    <3>2. shared'[p] = [revision |-> PointerOf(p).revision + 1,
                        state |-> f.record.transition.next, event |-> f.record.id]
      BY <2>3, <3>1, <1>16 DEF Apply, RegistryTypeOK
    <3>3. shared'[p] # Absent
      BY <2>3, <1>13, <1>16, AbsentAssumption DEF RegistryTypeOK
    <3>4. f.record.transition.previous = PointerOf(p).state
      BY <2>3, <3>1, <1>8 DEF Extends
    <3>5. Transitions(p)' = Transitions(p) \cup {Len(trail) + 1}
      BY <2>3, <3>1, <1>7, <1>9, TransitionsAdded
    <3>6. Transitions(p) \in SUBSET (1..Len(trail))
      BY DEF Transitions, About
    <3>7. TellsState(p, Transitions(p)) /\ (shared[p] = Absent <=> Transitions(p) = {})
      BY DEF PointerFollows
    <3>8. TellsState(p, Transitions(p))'
      BY <3>2, <3>3, <3>4, <3>5, <3>6, <3>7, <1>9, StateMoved
    <3> QED
      BY <2>3, <3>3, <3>5, <3>8 DEF PointerFollows
  <2> QED
    BY <2>1, <2>2, <2>3
<1> QED
  BY <1>17, <1>18, <1>19, <1>20, <1>21, <1>22, <1>23, <1>24

(* The five events of what a client has read *)
LEMMA EventsLogged ==
    ASSUME NEW m \in ReadWrite, NEW i \in 1..5
    PROVE  /\ ReadEvents(m)[i] \in Logged
           /\ ReadEvents(m)[i].action = "read"
           /\ ReadEvents(m)[i].target = m.project.id
           /\ ReadEvents(m)[i].record.lineage = m.lineage
           /\ ReadEvents(m)[i].record.execution = m.execution
           /\ ReadEvents(m)[i].record.stage = ReadStages[i]
           /\ i > 1 => ReadEvents(m)[i].record.cause = EventId(m.lineage, i - 1)
<1>1. ReadStages[i] \in Stages /\ (i # 1 => EventId(m.lineage, i - 1) \in Lineages \X Stages)
  BY DEF Stages, EventId, ReadWrite
<1>2. m.project.id \in ProjectIds /\ m.execution \in Executions /\ m.lineage \in Lineages
      /\ m.cause \in Maybe(Causes)
  BY DEF ReadWrite, ProjectIds
<1>3. ReadEvents(m)[i].record \in ReadRecord
  BY <1>1, <1>2 DEF ReadEvents, Entry, ReadRecord
<1>4. ReadEvents(m)[i] = Entry("read", m.project.id, ReadEvents(m)[i].record)
  BY DEF ReadEvents, Entry
<1>5. ReadEvents(m)[i] \in Logged
  BY <1>2, <1>3, <1>4 DEF Entry, Logged
<1>6. /\ ReadEvents(m)[i].action = "read" /\ ReadEvents(m)[i].target = m.project.id
      /\ ReadEvents(m)[i].record.lineage = m.lineage
      /\ ReadEvents(m)[i].record.execution = m.execution
      /\ ReadEvents(m)[i].record.stage = ReadStages[i]
      /\ i > 1 => ReadEvents(m)[i].record.cause = EventId(m.lineage, i - 1)
  BY DEF ReadEvents, Entry
<1> QED
  BY <1>5, <1>6

(* Who reads has a READ in memory. *)
LEMMA ReadsRead ==
    ASSUME RegistryTypeOK, NEW w \in Clients, Reads(w)
    PROVE  mem[w] \in ReadWrite
BY DEF RegistryTypeOK, Reads, Free, Maybe, ServerWrite, EventWrite, ReadWrite

(* The recorder's transaction begins. *)
LEMMA BeginStep ==
    ASSUME RegistryInv, NEW w \in Clients, BeginRecord(w)
    PROVE  RegistryInv'
<1> USE DEF RegistryInv
<1>1. UNCHANGED <<rows, trail, mem>> /\ txn' = [client |-> w, written |-> <<>>] /\ Reads(w)
  BY DEF BeginRecord
<1>2. txn' \in Recordings /\ txn'.client = w /\ txn'.written = <<>>
  BY <1>1 DEF Recordings
<1>3. RegistryTypeOK' /\ PendingIsRegistered'
  BY <1>1, <1>2 DEF RegistryTypeOK, PendingIsRegistered, Maybe, rows
<1>4. LineagesAreOnce'
  BY <1>1 DEF LineagesAreOnce, Reads, Free
<1>5. OpenIsBeginning'
  BY <1>1, <1>2 DEF OpenIsBeginning, Reads, Free
<1> QED
  BY <1>1, <1>3, <1>4, <1>5, MemoryStep

(* One more of its events is written, where nobody else sees it. *)
LEMMA AppendStep ==
    ASSUME RegistryInv, NEW w \in Clients, AppendEvent(w)
    PROVE  RegistryInv'
<1> USE DEF RegistryInv
<1>1. /\ txn # Absent /\ txn.client = w /\ Len(txn.written) < 5
      /\ txn' = [txn EXCEPT !.written = Append(txn.written, NextEvent(w))]
      /\ UNCHANGED <<rows, trail, mem>>
  BY DEF AppendEvent, Recording
<1>2. txn \in Recordings /\ Reads(w)
  BY <1>1 DEF RegistryTypeOK, Maybe, OpenIsBeginning
<1>3. PICK n \in 0..4 : n = Len(txn.written)
  <2>1. txn.written \in Seq(Logged)
    BY <1>2 DEF Recordings
  <2>2. Len(txn.written) \in Nat
    BY <2>1
  <2>3. PICK l : l = Len(txn.written)
    OBVIOUS
  <2>4. l \in 0..4
    <3>1. l \in Nat /\ l < 5
      BY <1>1, <2>2, <2>3, Zenon
    <3> HIDE DEF RegistryInv
    <3> QED
      BY <3>1
  <2> QED
    BY <2>3, <2>4
<1>4. PICK e \in Logged : e = NextEvent(w) /\ e = ReadEvents(mem[w])[n + 1]
  <2>1. mem[w] \in ReadWrite
    BY <1>2, ReadsRead
  <2>2. n + 1 \in 1..5
    OBVIOUS
  <2>3. ReadEvents(mem[w])[n + 1] \in Logged
    BY <2>1, <2>2, EventsLogged
  <2> QED
    BY <1>3, <2>3 DEF NextEvent
<1>5. PICK s \in Seq(Logged) : s = txn.written
  BY <1>2 DEF Recordings
<1>6. /\ txn' \in Recordings /\ txn'.client = w /\ txn'.written = Append(s, e)
  BY SMTT(20), <1>1, <1>2, <1>4, <1>5 DEF Recordings
<1>7. RegistryTypeOK' /\ PendingIsRegistered'
  BY <1>1, <1>6 DEF RegistryTypeOK, PendingIsRegistered, Maybe, rows
<1>8. LineagesAreOnce'
  BY <1>1 DEF LineagesAreOnce, Reads, Free
<1>9. OpenIsBeginning'
  <2>1. Reads(w)' /\ ReadEvents(mem[w])' = ReadEvents(mem[w])
    BY <1>1, <1>2 DEF Reads, Free, ReadEvents
  <2>2. Len(txn'.written) = n + 1
    BY <1>3, <1>5, <1>6
  <2>3. ASSUME NEW j \in 1..(n + 1) PROVE txn'.written[j] = ReadEvents(mem[w])[j]
    <3>1. CASE j = n + 1
      BY <3>1, <1>3, <1>4, <1>5, <1>6
    <3>2. CASE j # n + 1
      <4>1. j \in 1..Len(txn.written) /\ txn'.written[j] = s[j]
        BY <3>2, <1>3, <1>5, <1>6
      <4> QED
        BY <4>1, <1>1, <1>5 DEF OpenIsBeginning
    <3> QED
      BY <3>1, <3>2
  <2> QED
    BY <2>1, <2>2, <2>3, <1>6 DEF OpenIsBeginning
<1> QED
  BY <1>1, <1>7, <1>8, <1>9, MemoryStep

(* The five events get into the trail together. *)
LEMMA CommitStep ==
    ASSUME RegistryInv, NEW w \in Clients, CommitRecord(w)
    PROVE  RegistryInv'
<1> USE DEF RegistryInv
<1>1. /\ txn # Absent /\ txn.client = w /\ Len(txn.written) = 5 /\ txn' = Absent
      /\ trail' = trail \o txn.written /\ mem' = [mem EXCEPT ![w] = Absent]
      /\ UNCHANGED <<projects, connectors, servers, shared>>
  BY DEF CommitRecord, Recording, Done, rows
<1>2. PICK m \in ReadWrite : m = mem[w]
  <2>1. Reads(w)
    BY <1>1 DEF OpenIsBeginning
  <2> QED
    BY <2>1, ReadsRead
<1>3. PICK s \in Seq(Logged) : s = txn.written /\ Len(s) = 5
  BY <1>1 DEF RegistryTypeOK, Maybe, Recordings
<1>4. \A j \in 1..5 :
         /\ s[j].action = "read" /\ s[j].target = m.project.id
         /\ s[j].record.lineage = m.lineage
         /\ s[j].record.execution = m.execution
         /\ s[j].record.stage = ReadStages[j]
         /\ j > 1 => s[j].record.cause = EventId(m.lineage, j - 1)
  <2>1. \A j \in 1..5 : s[j] = ReadEvents(m)[j]
    BY <1>1, <1>2, <1>3 DEF OpenIsBeginning
  <2> QED
    BY <2>1, EventsLogged
<1>5. trail' = trail \o s
  BY <1>1, <1>3
<1>6. /\ trail \in Seq(Logged) /\ trail' \in Seq(Logged) /\ Len(trail') = Len(trail) + 5
      /\ \A i \in 1..Len(trail) : trail'[i] = trail[i]
      /\ \A j \in 1..5 : trail'[Len(trail) + j] = s[j]
  <2>1. trail \in Seq(Logged)
    BY DEF RegistryTypeOK
  <2>2. /\ trail' \in Seq(Logged) /\ Len(trail') = Len(trail) + Len(s)
        /\ \A i \in 1..Len(trail) + Len(s) :
              trail'[i] = IF i <= Len(trail) THEN trail[i] ELSE s[i - Len(trail)]
    BY <2>1, <1>5, ConcatProperties
  <2>3. \A i \in 1..Len(trail) : trail'[i] = trail[i]
    BY <1>3, <2>1, <2>2
  <2>4. ASSUME NEW j \in 1..5 PROVE trail'[Len(trail) + j] = s[j]
    <3>1. Len(trail) + j \in 1..Len(trail) + Len(s) /\ ~(Len(trail) + j <= Len(trail))
          /\ (Len(trail) + j) - Len(trail) = j
      BY <1>3, <2>1
    <3> QED
      BY <2>2, <3>1
  <2> QED
    BY <1>3, <2>1, <2>2, <2>3, <2>4
<1>7. Grown
  BY <1>6 DEF Grown
<1>8. \A i \in 1..Len(trail') : i > Len(trail) => \E k \in 1..5 : i = Len(trail) + k
  <2> SUFFICES ASSUME NEW i \in 1..Len(trail'), i > Len(trail)
               PROVE  \E k \in 1..5 : i = Len(trail) + k
    OBVIOUS
  <2>1. PICK n \in Nat : n = Len(trail) /\ i \in 1..(n + 5) /\ i > n
    BY <1>6
  <2>2. i - n \in 1..5 /\ i = n + (i - n)
    BY <2>1
  <2> QED
    BY <2>1, <2>2
<1>9. \A i \in 1..Len(trail') : i > Len(trail) =>
         trail'[i].action = "read" /\ trail'[i].record.lineage = m.lineage
  <2> SUFFICES ASSUME NEW i \in 1..Len(trail'), i > Len(trail)
               PROVE  trail'[i].action = "read" /\ trail'[i].record.lineage = m.lineage
    OBVIOUS
  <2>1. PICK k \in 1..5 : i = Len(trail) + k
    BY <1>8
  <2>2. trail'[i] = s[k]
    BY <1>6, <2>1
  <2> QED
    BY <1>4, <2>2
<1>10. RegistryTypeOK'
  BY <1>1, <1>6 DEF RegistryTypeOK, Maybe
<1>11. PendingIsRegistered'
  BY <1>1 DEF PendingIsRegistered, RegistryTypeOK
<1>12. NamesResolve'
  BY <1>1, <1>7, <1>9, NamesKept
<1>13. \A c \in Connectors : ConnectorFollows(c)'
  BY <1>1, <1>7, <1>9, ConnectorKept
<1>14. \A x \in Servers : ServerFollows(x)'
  BY <1>1, <1>7, <1>9, ServerKept
<1>15. \A p \in ProjectIds : PointerFollows(p)'
  BY <1>1, <1>7, <1>9, PointerKept
<1>16. OpenIsBeginning'
  BY <1>1 DEF OpenIsBeginning
<1>17. \A i \in 1..Len(trail) : trail[i].action = "read" => trail[i].record.lineage # m.lineage
  <2>1. Reads(w)
    BY <1>1 DEF OpenIsBeginning
  <2> QED
    BY <2>1, <1>2 DEF LineagesAreOnce
<1>18. LineagesAreOnce'
  <2>1. \A v \in Clients : Reads(v)' => v # w /\ Reads(v) /\ mem'[v] = mem[v]
    BY <1>1, GivesUp DEF RegistryTypeOK
  <2>2. Reads(w)
    BY <1>1 DEF OpenIsBeginning
  <2>3. \A v \in Clients : Reads(v)' => mem[v].lineage # m.lineage
    BY <2>1, <2>2, <1>2 DEF LineagesAreOnce
  <2>4. \A u, v \in Clients :
           Reads(u)' /\ Reads(v)' /\ mem'[u].lineage = mem'[v].lineage => u = v
    BY <2>1 DEF LineagesAreOnce
  <2>5. ASSUME NEW v \in Clients, NEW i \in 1..Len(trail'), Reads(v)',
               trail'[i].action = "read"
        PROVE  trail'[i].record.lineage # mem'[v].lineage
    <3>1. CASE i > Len(trail)
      BY <3>1, <2>1, <2>3, <2>5, <1>9
    <3>2. CASE ~(i > Len(trail))
      <4>1. i \in 1..Len(trail) /\ trail'[i] = trail[i]
        BY <3>2, <1>6
      <4> QED
        BY <4>1, <2>1, <2>5 DEF LineagesAreOnce
    <3> QED
      BY <3>1, <3>2
  <2> QED
    BY <2>4, <2>5 DEF LineagesAreOnce
<1>19. ASSUME NEW i \in 1..Len(trail'), trail'[i].action = "read"
       PROVE  \E k \in 1..5 : InLineage(i, k)'
  <2>1. CASE i > Len(trail)
    <3>1. PICK k \in 1..5 : i = Len(trail) + k
      BY <2>1, <1>8
    <3>2. i - k >= 0 /\ i - k + 5 <= Len(trail')
      BY <3>1, <1>6
    <3>3. trail'[i] = s[k] /\ \A j \in 1..5 : trail'[i - k + j] = s[j]
      <4>1. \A j \in 1..5 : trail'[Len(trail) + j] = s[j]
        BY <1>6
      <4>2. ASSUME NEW j \in 1..5 PROVE trail'[i - k + j] = s[j]
        <5>1. i - k + j = Len(trail) + j
          BY <3>1, <1>6
        <5>2. trail'[Len(trail) + j] = s[j]
          BY <4>1
        <5> QED
          BY <5>1, <5>2, Zenon
      <4>3. trail'[i] = s[k]
        BY <3>1, <4>1, Zenon
      <4> QED
        BY <4>2, <4>3, Zenon
    <3>4. ASSUME NEW j \in 1..5
          PROVE  /\ trail'[i - k + j].action = "read"
                 /\ trail'[i - k + j].target = trail'[i].target
                 /\ trail'[i - k + j].record.lineage = trail'[i].record.lineage
                 /\ trail'[i - k + j].record.execution = trail'[i].record.execution
                 /\ trail'[i - k + j].record.stage = ReadStages[j]
                 /\ j > 1 => trail'[i - k + j].record.cause
                                = EventId(trail'[i].record.lineage, j - 1)
      <4>1. trail'[i - k + j] = s[j] /\ trail'[i] = s[k]
        BY <3>3
      <4>2. /\ s[j].action = "read" /\ s[j].target = s[k].target
            /\ s[j].record.lineage = s[k].record.lineage
            /\ s[j].record.execution = s[k].record.execution
            /\ s[j].record.stage = ReadStages[j]
            /\ j > 1 => s[j].record.cause = EventId(s[k].record.lineage, j - 1)
        BY <1>4
      <4> QED
        BY <4>1, <4>2, Zenon
    <3>5. trail'[i].record.stage = ReadStages[k]
      BY <3>3, <1>4
    <3> QED
      BY <3>2, <3>4, <3>5, Zenon DEF InLineage
  <2>2. CASE ~(i > Len(trail))
    <3>1. i \in 1..Len(trail) /\ trail'[i] = trail[i]
      BY <2>2, <1>6
    <3>2. PICK k \in 1..5 : InLineage(i, k)
      BY <3>1, <1>19 DEF LineageIsWhole
    <3> QED
      BY <3>1, <3>2, <1>7, LineageStays
  <2> QED
    BY <2>1, <2>2
<1>20. ASSUME NEW i \in 1..Len(trail'), NEW j \in 1..Len(trail'),
              trail'[i].action = "read", trail'[j].action = "read",
              trail'[i].record.lineage = trail'[j].record.lineage,
              trail'[i].record.stage = trail'[j].record.stage
       PROVE  i = j
  <2>1. CASE i > Len(trail) /\ j > Len(trail)
    <3>1. PICK k \in 1..5 : i = Len(trail) + k
      BY <2>1, <1>8
    <3>2. PICK l \in 1..5 : j = Len(trail) + l
      BY <2>1, <1>8
    <3>3. ReadStages[k] = ReadStages[l]
      BY <3>1, <3>2, <1>4, <1>6, <1>20
    <3>4. k = l
      BY <3>3 DEF ReadStages
    <3> QED
      BY <3>1, <3>2, <3>4
  <2>2. CASE ~(i > Len(trail)) /\ ~(j > Len(trail))
    <3>1. /\ i \in 1..Len(trail) /\ trail'[i] = trail[i]
          /\ j \in 1..Len(trail) /\ trail'[j] = trail[j]
      BY SMTT(20), <2>2, <1>6
    <3> QED
      BY <3>1, <1>20 DEF LineageIsWhole
  <2>3. CASE ~(i > Len(trail)) /\ j > Len(trail)
    <3>1. i \in 1..Len(trail) /\ trail'[i] = trail[i]
      BY SMTT(20), <2>3, <1>6
    <3> QED
      BY <2>3, <3>1, <1>9, <1>17, <1>20
  <2>4. CASE i > Len(trail) /\ ~(j > Len(trail))
    <3>1. j \in 1..Len(trail) /\ trail'[j] = trail[j]
      BY <2>4, <1>6
    <3> QED
      BY <2>4, <3>1, <1>9, <1>17, <1>20
  <2> QED
    BY <2>1, <2>2, <2>3, <2>4
<1>21. LineageIsWhole'
  BY <1>19, <1>20 DEF LineageIsWhole
<1> QED
  BY <1>10, <1>11, <1>12, <1>13, <1>14, <1>15, <1>16, <1>18, <1>21

(* Every step preserves the inductive invariant. *)
LEMMA RegistryNextInv == RegistryInv /\ [RegistryNext]_registryVars => RegistryInv'
<1> SUFFICES ASSUME RegistryInv, [RegistryNext]_registryVars PROVE RegistryInv'
  OBVIOUS
<1>1. CASE RegistryNext
  BY <1>1, RegisterProjectStep, RecordConnectorStep, RecordServerStep, ReconcileStep,
     BeginStep, AppendStep, CommitStep, ClientStep DEF RegistryNext
<1>2. CASE UNCHANGED registryVars
  <2>1. /\ RegistryTypeOK' /\ PendingIsRegistered' /\ UNCHANGED <<rows, trail>>
        /\ OpenIsBeginning' /\ LineagesAreOnce'
    BY <1>2 DEF registryVars, rows, RegistryInv, RegistryTypeOK, PendingIsRegistered,
                OpenIsBeginning, LineagesAreOnce, Reads, Free
  <2> QED
    BY <2>1, MemoryStep
<1> QED
  BY <1>1, <1>2
-----------------------------------------------------------------------------
(* The inductive invariant holds in every reachable state. *)
THEOREM RegistryInvariance == RegistrySpec => []RegistryInv
BY RegistryInitInv, RegistryNextInv, PTL DEF RegistrySpec

(* For any number of clients, projects, connectors and events and a trail of any
   length, the registries are projections of the audit trail
   (_record_generation, append_and_reconcile). *)
THEOREM RowsAlwaysFollowTrail == RegistrySpec => []RowsFollowTrail
<1>1. RegistryInv => RowsFollowTrail
  BY DEF RegistryInv, RowsFollowTrail, ConnectorFollows, ServerFollows, PointerFollows
<1> QED
  BY <1>1, RegistryInvariance, PTL

(* At whichever of the five appends the recorder stops or fails, and whatever is
   written around them, the lineage of a READ is in the trail completely or not
   at all, once, each event caused by the one before it (_record_result). *)
THEOREM LineageAlwaysWhole == RegistrySpec => []LineageIsWhole
<1>1. RegistryInv => LineageIsWhole
  BY DEF RegistryInv
<1> QED
  BY <1>1, RegistryInvariance, PTL
-----------------------------------------------------------------------------
(* The runtime graph of a READ *)

ResumeReads == [role : {"resume"}, db : {Db}, fence : {Db}, stores : {"bound"}]
ProviderReads ==
    [role : Roles, token : Tokens, class : {c.class : c \in AllCredentials}, db : {Db},
     repository : Repositories, seen : [Roles -> AllPrincipals]]

AssemblyTypeOK ==
    /\ provider \in [Tokens -> [user : Principals \cup {Missing},
                                repositories : SUBSET Repositories]]
    /\ settings \in Configurations \cup {Missing}
    /\ sources \in [Sources -> Binding \cup {Missing}]
    /\ pack \in Pack \cup {Missing}
    /\ reads \in Seq(ResumeReads \cup ProviderReads)
    /\ changes \in Nat

(* An installation's source holds a token of the shape. *)
AppsHoldAppTokens ==
    \A s \in Sources : sources[s] # Missing /\ sources[s].kind # "user" =>
        sources[s].token \in AppTokens

Runner == sources[pack.runner]
Verifier == sources[pack.verifier]

(* A pack keeps two sources that exist, and its anchors are their pins. *)
PackAnchored ==
    pack # Missing =>
        /\ Runner # Missing /\ Verifier # Missing
        /\ Distinct(Runner, Verifier)
        /\ pack.anchors # Missing =>
              pack.anchors = [db |-> Db, clock |-> "runner",
                              runner |-> pack.runner, verifier |-> pack.verifier,
                              runnerPin |-> Pin(Runner), verifierPin |-> Pin(Verifier)]

(* What the first assembly established and nothing undoes: sources and anchors
   are never replaced. *)
Assembled ==
    /\ pack # Missing /\ pack.anchors # Missing
    /\ Runner.class # Verifier.class
    /\ Verifier.kind = "app"

GraphAssembled == graph # Missing => Assembled

Uses(t) ==
    /\ t.runner = pack.runner /\ t.verifier = pack.verifier
    /\ t.runnerPin = Pin(Runner) /\ t.verifierPin = Pin(Verifier)

CallShaped(c) ==
    /\ c = [runner |-> c.runner, verifier |-> c.verifier, role |-> c.role,
            repository |-> c.repository, step |-> c.step, seen |-> c.seen, db |-> c.db]
    /\ c.role \in Roles /\ c.repository \in Repositories /\ c.db = Db
    /\ c.seen \in [Roles -> AllPrincipals \cup {Missing}]

(* A call runs on the assembled credentials, and what it has seen of them by
   each step is what they were assembled as. *)
CallBound ==
    call # Missing =>
        /\ Assembled /\ CallShaped(call)
        /\ Uses(call.runner) /\ Uses(call.verifier)
        /\ call.step \in {"verifierPin", "revalidate", "read"} =>
              call.seen["runner"] = Runner.principal
        /\ call.step \in {"revalidate", "read"} =>
              call.seen["verifier"] = Verifier.principal
        /\ call.step = "read" /\ call.role = "verifier" =>
              call.repository = Verifier.repository

AssemblyInv ==
    /\ AssemblyTypeOK
    /\ AppsHoldAppTokens
    /\ PackAnchored
    /\ GraphAssembled
    /\ CallBound
    /\ reads # <<>> => Assembled
    /\ ReadsAreIndependent
-----------------------------------------------------------------------------
(* Who a credential belongs to is a principal. *)
LEMMA ObservedPrincipal ==
    ASSUME AssemblyTypeOK, NEW c, c.token \in Tokens,
           c.installation \in {x.installation : x \in AllCredentials}, Observed(c) # Missing
    PROVE  /\ Observed(c) \in AllPrincipals
           /\ c.kind # "user" => c.token \in AppTokens
<1>1. CASE c.kind = "user"
  BY <1>1 DEF Observed, UserPrincipal, AssemblyTypeOK, AllPrincipals
<1>2. CASE c.kind # "user"
  BY <1>2 DEF Observed, AppPrincipal, AllPrincipals
<1> QED
  BY <1>1, <1>2

(* The initial states satisfy the inductive invariant. *)
LEMMA AssemblyInitInv == AssemblyInit => AssemblyInv
<1> SUFFICES ASSUME AssemblyInit PROVE AssemblyInv
  OBVIOUS
<1> USE DEF AssemblyInit
<1>1. AssemblyTypeOK
  <2>1. provider \in [Tokens -> [user : Principals \cup {Missing},
                                 repositories : SUBSET Repositories]]
    OBVIOUS
  <2> QED
    BY <2>1 DEF AssemblyTypeOK
<1>2. AppsHoldAppTokens /\ PackAnchored /\ GraphAssembled /\ CallBound
  BY DEF AppsHoldAppTokens, PackAnchored, GraphAssembled, CallBound
<1>3. ReadsAreIndependent
  BY DEF ReadsAreIndependent
<1> QED
  BY <1>1, <1>2, <1>3 DEF AssemblyInv

(* What is assembled stays as it is. *)
LEMMA StaysAssembled ==
    ASSUME AssemblyInv, pack' = pack,
           \A s \in Sources : sources[s] # Missing => sources'[s] = sources[s]
    PROVE  /\ pack # Missing => Runner' = Runner /\ Verifier' = Verifier
           /\ Assembled => Assembled'
           /\ PackAnchored'
<1> USE DEF AssemblyInv
<1>1. pack # Missing => pack.runner \in Sources /\ pack.verifier \in Sources
  BY DEF AssemblyTypeOK, Pack
<1>2. pack # Missing => Runner' = Runner /\ Verifier' = Verifier
  BY <1>1 DEF PackAnchored, Runner, Verifier
<1>3. Assembled => Assembled'
  BY <1>2 DEF Assembled
<1>4. PackAnchored'
  BY <1>2 DEF PackAnchored
<1> QED
  BY <1>2, <1>3, <1>4

(* So calls and reads keep what they rest on. *)
LEMMA RestKept ==
    ASSUME AssemblyInv, pack' = pack, call' = call, reads' = reads,
           \A s \in Sources : sources[s] # Missing => sources'[s] = sources[s]
    PROVE  CallBound' /\ (reads' # <<>> => Assembled') /\ ReadsAreIndependent'
<1> USE DEF AssemblyInv
<1>1. /\ pack # Missing => Runner' = Runner /\ Verifier' = Verifier
      /\ Assembled => Assembled'
  BY StaysAssembled
<1>2. CallBound'
  <2>1. CASE call = Missing
    BY <2>1 DEF CallBound
  <2>2. CASE call # Missing
    <3>1. Assembled /\ Assembled' /\ Runner' = Runner /\ Verifier' = Verifier
      BY <2>2, <1>1 DEF CallBound, Assembled
    <3> QED
      BY <2>2, <3>1 DEF CallBound, Uses, CallShaped
  <2> QED
    BY <2>1, <2>2
<1>3. ReadsAreIndependent'
  <2>1. CASE reads = <<>>
    BY <2>1 DEF ReadsAreIndependent
  <2>2. CASE reads # <<>>
    <3>1. Runner' = Runner /\ Verifier' = Verifier
      BY <2>2, <1>1 DEF Assembled
    <3> QED
      BY <3>1 DEF ReadsAreIndependent, IndependentRead, Runner, Verifier
  <2> QED
    BY <2>1, <2>2
<1> QED
  BY <1>1, <1>2, <1>3

(* Configuration and the provider's own changes *)
LEMMA OutsideStep ==
    ASSUME AssemblyInv,
           \/ \E c \in Configurations : LoadSettings(c)
           \/ \E t \in Tokens : ProviderChanges(t)
           \/ graph # Missing /\ \E f \in DOMAIN Alternatives : Rebind(f)
           \/ UNCHANGED assemblyVars
    PROVE  AssemblyInv'
<1> USE DEF AssemblyInv
<1>1. /\ sources' = sources /\ pack' = pack /\ call' = call /\ reads' = reads
      /\ graph' # Missing => graph # Missing
  BY DEF LoadSettings, ProviderChanges, Rebind, assemblyVars
<1>2. AssemblyTypeOK'
  <2>1. ASSUME NEW c \in Configurations, LoadSettings(c) PROVE AssemblyTypeOK'
    BY <2>1 DEF LoadSettings, AssemblyTypeOK
  <2>2. ASSUME NEW t \in Tokens, ProviderChanges(t) PROVE AssemblyTypeOK'
    <3>1. PICK u \in Principals \cup {Missing}, S \in SUBSET Repositories :
             provider' = [provider EXCEPT ![t] = [user |-> u, repositories |-> S]]
      BY <2>2 DEF ProviderChanges
    <3>2. provider' \in [Tokens -> [user : Principals \cup {Missing},
                                    repositories : SUBSET Repositories]]
      BY <3>1 DEF AssemblyTypeOK
    <3> QED
      BY <2>2, <3>2 DEF ProviderChanges, AssemblyTypeOK
  <2>3. ASSUME NEW f, Rebind(f) PROVE AssemblyTypeOK'
    BY <2>3 DEF Rebind, AssemblyTypeOK
  <2>4. CASE UNCHANGED assemblyVars
    BY <2>4 DEF assemblyVars, AssemblyTypeOK
  <2> QED
    BY <2>1, <2>2, <2>3, <2>4
<1>3. AppsHoldAppTokens'
  BY <1>1 DEF AppsHoldAppTokens
<1>4. PackAnchored' /\ (Assembled => Assembled')
  BY <1>1, StaysAssembled
<1>5. GraphAssembled'
  BY <1>1, <1>4 DEF GraphAssembled
<1>6. CallBound' /\ (reads' # <<>> => Assembled') /\ ReadsAreIndependent'
  BY <1>1, RestKept
<1> QED
  BY <1>2, <1>3, <1>4, <1>5, <1>6

(* A source is created with the principal the provider attests. *)
LEMMA CreateSourceStep ==
    ASSUME AssemblyInv, NEW s \in Sources, NEW c, CreateSource(s, c)
    PROVE  AssemblyInv'
<1> USE DEF AssemblyInv
<1>1. c \in AllCredentials
  BY DEF CreateSource, AllCredentials, AssemblyTypeOK
<1>2. Observed(c) \in AllPrincipals /\ (c.kind # "user" => c.token \in AppTokens)
  BY <1>1, TokenAssumption, ObservedPrincipal DEF CreateSource
<1> DEFINE b == [token |-> c.token, class |-> c.class, kind |-> c.kind,
                 installation |-> c.installation, repository |-> c.repository,
                 principal |-> Observed(c)]
<1>3. b \in Binding
  BY <1>1, <1>2 DEF Binding
<1>4. sources' = [sources EXCEPT ![s] = b]
  BY DEF CreateSource
<1>5. b.kind # "user" => b.token \in AppTokens
  BY <1>2
<1> HIDE DEF b
<1>6. \A x \in Sources : sources[x] # Missing => sources'[x] = sources[x]
  BY <1>4 DEF CreateSource, AssemblyTypeOK
<1>7. AssemblyTypeOK'
  BY <1>3, <1>4 DEF CreateSource, AssemblyTypeOK
<1>8. AppsHoldAppTokens'
  BY <1>4, <1>5 DEF AppsHoldAppTokens, AssemblyTypeOK
<1>9. PackAnchored' /\ (Assembled => Assembled')
  BY <1>6, StaysAssembled DEF CreateSource
<1>10. GraphAssembled'
  BY <1>9 DEF CreateSource, GraphAssembled
<1>11. CallBound' /\ (reads' # <<>> => Assembled') /\ ReadsAreIndependent'
  BY <1>6, RestKept DEF CreateSource
<1> QED
  BY <1>7, <1>8, <1>9, <1>10, <1>11

(* Nothing rests on a pack before it has anchors. *)
LEMMA NothingYet ==
    ASSUME AssemblyInv, pack = Missing \/ pack.anchors = Missing
    PROVE  graph = Missing /\ call = Missing /\ reads = <<>>
BY DEF AssemblyInv, Assembled, GraphAssembled, CallBound

(* A pack is built from two sources, then anchored. *)
LEMMA BuildPackStep ==
    ASSUME AssemblyInv, NEW r \in Sources, NEW v \in Sources,
           NEW p \in Profiles \cup {ConfiguredProfile(settings)},
           NEW w \in Wirings \cup {ConfiguredWiring}, BuildPack(r, v, p, w)
    PROVE  AssemblyInv'
<1> USE DEF AssemblyInv
<1>1. graph' = Missing /\ call' = Missing /\ reads' = <<>>
  BY NothingYet DEF BuildPack
<1> DEFINE k == [runner |-> r, verifier |-> v, profile |-> p, wiring |-> w, anchors |-> Missing]
<1>2. k \in Pack
  <2>1. settings \in Configurations
    BY DEF BuildPack, AssemblyTypeOK
  <2>2. p \in Profiles \cup {ConfiguredProfile(c) : c \in Configurations}
    BY <2>1
  <2> QED
    BY <2>2 DEF Pack
<1>3. /\ pack' = k /\ sources' = sources
      /\ sources[r] # Missing /\ sources[v] # Missing /\ Distinct(sources[r], sources[v])
  BY DEF BuildPack
<1>4. k.runner = r /\ k.verifier = v /\ k.anchors = Missing
  OBVIOUS
<1> HIDE DEF k
<1>5. AssemblyTypeOK'
  BY <1>2, <1>3 DEF BuildPack, AssemblyTypeOK
<1>6. AppsHoldAppTokens'
  BY <1>3 DEF AppsHoldAppTokens
<1>7. PackAnchored'
  BY <1>3, <1>4 DEF PackAnchored, Runner, Verifier
<1>8. GraphAssembled' /\ CallBound' /\ ReadsAreIndependent'
  BY <1>1 DEF GraphAssembled, CallBound, ReadsAreIndependent
<1> QED
  BY <1>1, <1>5, <1>6, <1>7, <1>8

(* The anchors of the build are the bindings and the pins of that moment. *)
LEMMA TakeAnchorsStep ==
    ASSUME AssemblyInv, TakeAnchors
    PROVE  AssemblyInv'
<1> USE DEF AssemblyInv
<1>1. graph' = Missing /\ call' = Missing /\ reads' = <<>>
  BY NothingYet DEF TakeAnchors
<1>2. pack \in Pack
  BY DEF TakeAnchors, AssemblyTypeOK
<1> DEFINE a == [db |-> Db, clock |-> "runner", runner |-> pack.runner,
                 verifier |-> pack.verifier, runnerPin |-> Pin(Runner),
                 verifierPin |-> Pin(Verifier)]
<1>3. Runner \in Binding /\ Verifier \in Binding
  BY <1>2 DEF TakeAnchors, PackAnchored, AssemblyTypeOK, Runner, Verifier, Pack
<1>4. a \in Anchors
  BY <1>2, <1>3 DEF Anchors, Pins, Pack
<1>5. pack' = [pack EXCEPT !.anchors = a]
  BY DEF TakeAnchors, Runner, Verifier
<1>6. pack' \in Pack /\ pack'.runner = pack.runner /\ pack'.verifier = pack.verifier
      /\ pack'.anchors = a
  BY <1>2, <1>4, <1>5 DEF Pack
<1>7. sources' = sources
  BY DEF TakeAnchors
<1>8. Runner' = Runner /\ Verifier' = Verifier
  BY <1>6, <1>7 DEF Runner, Verifier
<1>9. AssemblyTypeOK'
  BY <1>6 DEF TakeAnchors, AssemblyTypeOK
<1>10. AppsHoldAppTokens'
  BY <1>7 DEF AppsHoldAppTokens
<1>11. PackAnchored'
  BY <1>6, <1>8 DEF PackAnchored, TakeAnchors
<1>12. GraphAssembled' /\ CallBound' /\ ReadsAreIndependent'
  BY <1>1 DEF GraphAssembled, CallBound, ReadsAreIndependent
<1> QED
  BY <1>1, <1>9, <1>10, <1>11, <1>12

(* The first assembly finds two classes, and an installation behind the
   verifier. *)
LEMMA BuildRuntimeStep ==
    ASSUME AssemblyInv, BuildRuntime
    PROVE  AssemblyInv'
<1> USE DEF AssemblyInv
<1>1. /\ sources' = sources /\ pack' = pack /\ call' = call /\ reads' = reads
      /\ pack # Missing /\ pack.anchors # Missing
      /\ FirstAssembly(Runner, Verifier)
  BY DEF BuildRuntime, Runner, Verifier
<1>2. Assembled
  BY <1>1 DEF FirstAssembly, WithinCeiling, Assembled
<1>3. AssemblyTypeOK'
  BY DEF BuildRuntime, AssemblyTypeOK
<1>4. AppsHoldAppTokens'
  BY <1>1 DEF AppsHoldAppTokens
<1>5. PackAnchored' /\ (Assembled => Assembled')
  BY <1>1, StaysAssembled
<1>6. GraphAssembled'
  BY <1>2, <1>5 DEF GraphAssembled
<1>7. CallBound' /\ (reads' # <<>> => Assembled') /\ ReadsAreIndependent'
  BY <1>1, RestKept
<1> QED
  BY <1>3, <1>4, <1>5, <1>6, <1>7
-----------------------------------------------------------------------------
(* A step of a call leaves the assembly alone. *)
Still == UNCHANGED <<provider, settings, sources, pack, graph, changes>>

(* A step of a call that reads nothing only has to keep the call bound. *)
LEMMA CallMoves ==
    ASSUME AssemblyInv, Still, CallBound', reads' = reads
    PROVE  AssemblyInv'
<1> USE DEF AssemblyInv
<1>1. AssemblyTypeOK'
  BY DEF Still, AssemblyTypeOK
<1>2. AppsHoldAppTokens' /\ GraphAssembled' /\ PackAnchored'
  BY DEF Still, AppsHoldAppTokens, GraphAssembled, PackAnchored, Assembled, Runner, Verifier
<1>3. (reads' # <<>> => Assembled') /\ ReadsAreIndependent'
  BY DEF Still, Assembled, ReadsAreIndependent, IndependentRead, Runner, Verifier
<1> QED
  BY <1>1, <1>2, <1>3

(* What matches the anchors uses the assembled credentials. *)
LEMMA MatchingUses ==
    ASSUME AssemblyInv, Assembled, NEW t, NEW role, MatchesAssembly(t, role)
    PROVE  Uses(t)
BY DEF AssemblyInv, Assembled, PackAnchored, MatchesAssembly, Uses

(* The terminal checks the graph and runs on its snapshot. *)
LEMMA StartRunStep ==
    ASSUME AssemblyInv, NEW q \in Repositories, StartRun(q)
    PROVE  AssemblyInv'
<1> USE DEF AssemblyInv
<1>1. Assembled
  BY DEF StartRun, GraphAssembled
<1>2. Uses(graph.runner) /\ Uses(graph.verifier)
  BY <1>1, MatchingUses DEF StartRun
<1>3. pack.anchors.db = Db
  BY <1>1 DEF PackAnchored, Assembled
<1> DEFINE c == [runner |-> graph.runner, verifier |-> graph.verifier, role |-> "runner",
                 repository |-> q, step |-> "handler", seen |-> [x \in Roles |-> Missing],
                 db |-> pack.anchors.db]
<1>4. call' = c
  BY DEF StartRun
<1>5. CallShaped(c) /\ c.runner = graph.runner /\ c.verifier = graph.verifier
      /\ c.step = "handler"
  BY <1>3 DEF CallShaped, Roles
<1> HIDE DEF c
<1>6. Still /\ reads' = reads
  BY DEF StartRun, Still
<1>7. Runner' = Runner /\ Verifier' = Verifier /\ pack' = pack
  BY <1>6 DEF Still, Runner, Verifier
<1>8. CallBound'
  BY <1>1, <1>2, <1>4, <1>5, <1>7 DEF CallBound, Assembled, Uses, CallShaped
<1> QED
  BY <1>6, <1>8, CallMoves

(* What the call uses is bound like the rest of it. *)
LEMMA UsedIsBound ==
    ASSUME AssemblyInv, call # Missing
    PROVE  /\ Assembled /\ CallShaped(call) /\ Uses(Used)
           /\ sources[Used.runner] = Runner /\ sources[Used.verifier] = Verifier
BY DEF AssemblyInv, CallBound, Used, Uses, Runner, Verifier

(* The handler checks again; the pair transport asks about the runner's
   credential, *)
LEMMA EnterHandlerStep ==
    ASSUME AssemblyInv, EnterHandler
    PROVE  AssemblyInv'
<1> USE DEF AssemblyInv
<1>1. Still /\ reads' = reads /\ call # Missing /\ call' = [call EXCEPT !.step = "runnerPin"]
  BY DEF EnterHandler, Moves, Still, At
<1>2. Assembled /\ CallShaped(call)
  BY <1>1 DEF CallBound
<1>3. /\ CallShaped(call') /\ call'.step = "runnerPin"
      /\ call'.runner = call.runner /\ call'.verifier = call.verifier
  BY <1>1, <1>2 DEF CallShaped
<1>4. Runner' = Runner /\ Verifier' = Verifier /\ pack' = pack
  BY <1>1 DEF Still, Runner, Verifier
<1>5. CallBound'
  BY <1>1, <1>2, <1>3, <1>4 DEF CallBound, Assembled, Uses, CallShaped
<1> QED
  BY <1>1, <1>5, CallMoves

(* The runner's pin still answers with the principal it was bound to. *)
LEMMA CheckRunnerPinStep ==
    ASSUME AssemblyInv, CheckRunnerPin
    PROVE  AssemblyInv'
<1> USE DEF AssemblyInv
<1>1. call # Missing
  BY DEF CheckRunnerPin, At
<1>2. Assembled /\ CallShaped(call) /\ sources[Used.runner] = Runner
  BY <1>1, UsedIsBound
<1>3. Runner.principal \in AllPrincipals
  BY <1>2 DEF Assembled, PackAnchored, AssemblyTypeOK, Runner, Pack, Binding
<1>4. /\ Still /\ reads' = reads
      /\ call' = [call EXCEPT !.step = "verifierPin", !.seen["runner"] = Runner.principal]
  BY <1>2 DEF CheckRunnerPin, Moves, Still, Validated
<1>5. /\ CallShaped(call') /\ call'.step = "verifierPin"
      /\ call'.runner = call.runner /\ call'.verifier = call.verifier
      /\ call'.seen["runner"] = Runner.principal
  BY <1>2, <1>3, <1>4 DEF CallShaped, Roles
<1>6. Runner' = Runner /\ Verifier' = Verifier /\ pack' = pack
  BY <1>4 DEF Still, Runner, Verifier
<1>7. CallBound'
  BY <1>1, <1>2, <1>5, <1>6 DEF CallBound, Assembled, Uses, CallShaped
<1> QED
  BY <1>4, <1>7, CallMoves

(* And so does the verifier's. *)
LEMMA CheckVerifierPinStep ==
    ASSUME AssemblyInv, CheckVerifierPin
    PROVE  AssemblyInv'
<1> USE DEF AssemblyInv
<1>1. call # Missing /\ call.step = "verifierPin"
  BY DEF CheckVerifierPin, At
<1>2. Assembled /\ CallShaped(call) /\ sources[Used.verifier] = Verifier
  BY <1>1, UsedIsBound
<1>3. Verifier.principal \in AllPrincipals
  BY <1>2 DEF Assembled, PackAnchored, AssemblyTypeOK, Verifier, Pack, Binding
<1>4. /\ Still /\ reads' = reads
      /\ call' = [call EXCEPT !.step = "revalidate", !.seen["verifier"] = Verifier.principal]
  BY <1>2 DEF CheckVerifierPin, Moves, Still, Validated
<1>5. /\ CallShaped(call') /\ call'.step = "revalidate"
      /\ call'.runner = call.runner /\ call'.verifier = call.verifier
      /\ call'.seen["runner"] = call.seen["runner"]
      /\ call'.seen["verifier"] = Verifier.principal
  BY <1>2, <1>3, <1>4 DEF CallShaped, Roles
<1>6. Runner' = Runner /\ Verifier' = Verifier /\ pack' = pack
  BY <1>4 DEF Still, Runner, Verifier
<1>7. CallBound'
  BY <1>1, <1>2, <1>5, <1>6 DEF CallBound, Assembled, Uses, CallShaped
<1> QED
  BY <1>4, <1>7, CallMoves

(* Revalidation is against the anchors of the build. *)
LEMMA RevalidateStep ==
    ASSUME AssemblyInv, Revalidate
    PROVE  AssemblyInv'
<1> USE DEF AssemblyInv
<1>1. call # Missing /\ call.step = "revalidate"
  BY DEF Revalidate, At
<1>2. /\ Assembled /\ CallShaped(call)
      /\ sources[Used.runner] = Runner /\ sources[Used.verifier] = Verifier
  BY <1>1, UsedIsBound
<1>3. PICK o : o = IF call.role = "runner" THEN Runner.principal ELSE Verifier.principal
  OBVIOUS
<1>4. o \in AllPrincipals
  BY <1>2, <1>3 DEF Assembled, PackAnchored, AssemblyTypeOK, Runner, Verifier, Pack, Binding
<1>5. /\ Still /\ reads' = reads
      /\ call' = [call EXCEPT !.step = "read", !.seen[call.role] = o]
  BY <1>2, <1>3 DEF Revalidate, Moves, Still, Validated
<1>6. call.role # "runner" => call.repository = Verifier.repository
  BY <1>2 DEF Revalidate, Assembled
<1>7. call.role \in Roles /\ call.seen \in [Roles -> AllPrincipals \cup {Missing}]
  BY <1>2 DEF CallShaped
<1>8. /\ CallShaped(call') /\ call'.step = "read"
      /\ call'.runner = call.runner /\ call'.verifier = call.verifier
      /\ call'.role = call.role /\ call'.repository = call.repository
      /\ call'.seen = [call.seen EXCEPT ![call.role] = o]
  BY <1>2, <1>4, <1>5, <1>7 DEF CallShaped
<1>9. call'.seen["runner"] = Runner.principal /\ call'.seen["verifier"] = Verifier.principal
  BY <1>1, <1>3, <1>7, <1>8 DEF CallBound, Roles
<1>10. Runner' = Runner /\ Verifier' = Verifier /\ pack' = pack
  BY <1>5 DEF Still, Runner, Verifier
<1>11. CallBound'
  BY <1>1, <1>2, <1>6, <1>8, <1>9, <1>10 DEF CallBound, Assembled, Uses, CallShaped
<1> QED
  BY <1>5, <1>11, CallMoves

(* A read that is independent is added to the others. *)
LEMMA ReadAdded ==
    ASSUME AssemblyInv, Still, Assembled, CallBound',
           NEW e \in ResumeReads \cup ProviderReads, IndependentRead(e),
           reads' = Append(reads, e)
    PROVE  AssemblyInv'
<1> USE DEF AssemblyInv
<1>1. AssemblyTypeOK'
  BY DEF Still, AssemblyTypeOK
<1>2. AppsHoldAppTokens' /\ GraphAssembled' /\ PackAnchored' /\ Assembled'
  BY DEF Still, AppsHoldAppTokens, GraphAssembled, PackAnchored, Assembled, Runner, Verifier
<1>3. \A f : IndependentRead(f) => IndependentRead(f)'
  BY DEF Still, IndependentRead
<1>4. \A i \in 1..Len(reads') : reads'[i] = e \/ (i \in 1..Len(reads) /\ reads'[i] = reads[i])
  BY DEF AssemblyTypeOK
<1>5. ReadsAreIndependent'
  BY <1>3, <1>4 DEF ReadsAreIndependent
<1> QED
  BY <1>1, <1>2, <1>5

(* The provider is read with what the steps before established. *)
LEMMA ReadRefStep ==
    ASSUME AssemblyInv, ReadRef
    PROVE  AssemblyInv'
<1> USE DEF AssemblyInv
<1>1. call # Missing /\ call.step = "read"
  BY DEF ReadRef, At
<1>2. /\ Assembled /\ CallShaped(call)
      /\ sources[Used.runner] = Runner /\ sources[Used.verifier] = Verifier
  BY <1>1, UsedIsBound
<1>3. /\ Runner \in Binding /\ Verifier \in Binding /\ Distinct(Runner, Verifier)
      /\ Verifier.token \in AppTokens
  BY <1>2 DEF Assembled, PackAnchored, AssemblyTypeOK, AppsHoldAppTokens, Runner, Verifier, Pack
<1>4. PICK b \in Binding : b = IF call.role = "runner" THEN Runner ELSE Verifier
  BY <1>3
<1> DEFINE e == [role |-> call.role, token |-> b.token, class |-> b.class, db |-> call.db,
                 repository |-> call.repository, seen |-> call.seen]
<1>5. reads' = Append(reads, e) /\ Still
  BY <1>2, <1>4 DEF ReadRef, Moves, Still
<1>6. /\ call.role \in Roles /\ call.repository \in Repositories /\ call.db = Db
      /\ call.seen \in [Roles -> AllPrincipals \cup {Missing}]
      /\ call.seen["runner"] = Runner.principal /\ call.seen["verifier"] = Verifier.principal
      /\ call.role = "verifier" => call.repository = Verifier.repository
  BY <1>1, <1>2 DEF CallShaped, CallBound
<1>7. Runner.principal \in AllPrincipals /\ Verifier.principal \in AllPrincipals
  BY <1>3 DEF Binding
<1>8. call.seen = [x \in Roles |-> IF x = "runner" THEN Runner.principal ELSE Verifier.principal]
  BY <1>6 DEF Roles
<1>9. b.token \in Tokens /\ b.class \in {c.class : c \in AllCredentials}
  BY TokenAssumption DEF Binding
<1>10. e \in ProviderReads
  BY <1>6, <1>7, <1>8, <1>9 DEF ProviderReads
<1>11. IndependentRead(e)
  <2>1. /\ e.role = call.role /\ e.token = b.token /\ e.db = Db /\ e.seen = call.seen
        /\ e.repository = call.repository /\ e.role # "resume"
    BY <1>6 DEF Roles
  <2>2. Runner.token # Verifier.token /\ Runner.principal # Verifier.principal
        /\ Runner.class # Verifier.class
    BY <1>2, <1>3 DEF Distinct, Assembled
  <2> HIDE DEF e
  <2>3. e.seen["runner"] # e.seen["verifier"]
    BY <2>1, <2>2, <1>6
  <2>4. e.token = IF e.role = "runner" THEN Runner.token ELSE Verifier.token
    BY <2>1, <1>4
  <2>5. e.role = "verifier" => Verifier.token \in AppTokens /\ e.repository = Verifier.repository
    BY <2>1, <1>3, <1>6
  <2> QED
    BY <2>1, <2>2, <2>3, <2>4, <2>5, <1>8 DEF IndependentRead, Runner, Verifier
<1> HIDE DEF e
<1>12. CallBound'
  <2>1. CASE call.role = "runner"
    <3>1. call' = [call EXCEPT !.role = "verifier", !.step = "handler"]
      BY <2>1 DEF ReadRef, Moves
    <3>2. /\ CallShaped(call') /\ call'.step = "handler"
          /\ call'.runner = call.runner /\ call'.verifier = call.verifier
      BY <1>2, <3>1 DEF CallShaped, Roles
    <3>3. Runner' = Runner /\ Verifier' = Verifier /\ pack' = pack
      BY <1>5 DEF Still, Runner, Verifier
    <3> QED
      BY <1>1, <1>2, <3>2, <3>3 DEF CallBound, Assembled, Uses, CallShaped
  <2>2. CASE call.role # "runner"
    BY <2>2 DEF ReadRef, Moves, CallBound
  <2> QED
    BY <2>1, <2>2
<1> QED
  BY <1>2, <1>5, <1>10, <1>11, <1>12, ReadAdded

(* A resume reads nothing at the provider; its stores are the assembled ones. *)
LEMMA ResumeReadStep ==
    ASSUME AssemblyInv, ResumeRead
    PROVE  AssemblyInv'
<1> USE DEF AssemblyInv
<1>1. Assembled
  BY DEF ResumeRead, GraphAssembled
<1>2. pack.anchors.db = Db
  BY <1>1 DEF PackAnchored, Assembled
<1> DEFINE e == [role |-> "resume", db |-> graph.resumeDb, fence |-> pack.anchors.db,
                 stores |-> graph.stores]
<1>3. Still /\ reads' = Append(reads, e) /\ call' = Missing
  BY DEF ResumeRead, Still
<1>4. e \in ResumeReads /\ IndependentRead(e)
  BY <1>2 DEF ResumeRead, ResumeReads, IndependentRead
<1>5. CallBound'
  BY <1>3 DEF CallBound
<1> HIDE DEF e
<1> QED
  BY <1>1, <1>3, <1>4, <1>5, ReadAdded

(* A call that fails leaves nothing. *)
LEMMA CallFailsStep ==
    ASSUME AssemblyInv, CallFails
    PROVE  AssemblyInv'
BY CallMoves DEF CallFails, Moves, Still, CallBound

(* Every step preserves the inductive invariant. *)
LEMMA AssemblyNextInv == AssemblyInv /\ [AssemblyNext]_assemblyVars => AssemblyInv'
<1> SUFFICES ASSUME AssemblyInv, [AssemblyNext]_assemblyVars PROVE AssemblyInv'
  OBVIOUS
<1> QED
  BY OutsideStep, CreateSourceStep, BuildPackStep, TakeAnchorsStep, BuildRuntimeStep,
     StartRunStep, EnterHandlerStep, CheckRunnerPinStep, CheckVerifierPinStep,
     RevalidateStep, ReadRefStep, ResumeReadStep, CallFailsStep DEF AssemblyNext

(* The inductive invariant holds in every reachable state. *)
THEOREM AssemblyInvariance == AssemblySpec => []AssemblyInv
BY AssemblyInitInv, AssemblyNextInv, PTL DEF AssemblySpec

(* For any sources, tokens, configurations and any number of changes between a
   check and the use of what was checked, provider reads and resumes use what
   was assembled, attested again as two principals (StartRun, MatchesAssembly,
   Validated and the pair transport together). *)
THEOREM ReadsStayIndependent == AssemblySpec => []ReadsAreIndependent
<1>1. AssemblyInv => ReadsAreIndependent
  BY DEF AssemblyInv
<1> QED
  BY <1>1, AssemblyInvariance, PTL
-----------------------------------------------------------------------------
(* The documents of a READ *)

Runs == {Execution} \X Nat

(* What a document says of the ones it was made from, as far as the property
   needs it. *)
EntryFrom(e, g) ==
    /\ e.grant = g.digest /\ e.execution = g.execution /\ e.terms = g.terms
    /\ e.binding = g.binding
AdmissionFrom(a, e) ==
    a.entry = e.digest /\ a.execution = e.execution /\ a.capsule = e.binding.capsule
LeaseFrom(l, a) ==
    /\ l.admission = a.digest /\ l.execution = a.execution /\ l.capsule = a.capsule
    /\ RunOf(l) = Run(l.epoch)
PreparedFrom(p, l) ==
    /\ p.lease = l /\ RunOf(p) = RunOf(l)
    /\ p.boundary.digest = <<"boundary", RunOf(l)>>
    /\ p.boundary.lease = l.digest /\ p.decision.lease = l.digest
    /\ p.boundary.execution = l.execution /\ p.boundary.epoch = l.epoch
    /\ p.boundary.capsule = l.capsule
    /\ p.decision.class = p.boundary.credentialClass
    /\ p.bootstrap.instance = p.runner.instance
ActivationFrom(a, p) ==
    /\ RunOf(a) = RunOf(p) /\ a.instance = p.bootstrap.instance
    /\ a.boundary = p.boundary.digest /\ a.lease = p.lease.digest
    /\ a.execution = p.lease.execution /\ a.epoch = p.lease.epoch
ObservationFrom(o, a) ==
    /\ RunOf(o) = RunOf(a) /\ o.activation = a.digest
    /\ o.boundary = a.boundary /\ o.lease = a.lease
    /\ o.execution = a.execution /\ o.epoch = a.epoch
VerificationFrom(vb, o, p) ==
    /\ RunOf(vb) = RunOf(o) /\ vb.observation = o.digest
    /\ vb.execution = o.execution /\ vb.epoch = o.epoch /\ vb.target = o.target
    /\ p.boundary.digest = o.boundary
    /\ vb.verifierInstance # p.runner.instance
    /\ vb.verifierClass # p.boundary.credentialClass
CredentialFrom(d, vb) ==
    /\ RunOf(d) = RunOf(vb) /\ d.verification = vb.digest
    /\ d.observation = vb.observation /\ d.target = vb.target
    /\ d.execution = vb.execution /\ d.epoch = vb.epoch
    /\ d.class = vb.verifierClass
ReadbackFrom(vo, vb, d) ==
    /\ RunOf(vo) = RunOf(vb) /\ vo.verification = vb.digest /\ vo.decision = d.digest
    /\ d.verification = vb.digest
    /\ vo.observation = vb.observation /\ vo.target = vb.target
    /\ vo.execution = vb.execution /\ vo.epoch = vb.epoch
    /\ vo.instance = vb.verifierInstance
    /\ d.from <= vo.accessed /\ vo.accessed < d.until /\ vo.accessed <= vo.at
ResultFrom(r, o, vo, vb, s, t) ==
    /\ r.observation = o.digest /\ r.readback = vo.digest /\ r.verification = vb.digest
    /\ r.state = s.digest /\ r.strength = t.digest
    /\ vb.observation = o.digest /\ vo.verification = vb.digest
    /\ s.readback = vo.digest /\ t.readback = vo.digest
    /\ r.execution = vo.execution /\ r.epoch = vo.epoch /\ r.target = vo.target
    /\ r.verdict = "VERIFIED" => vo.sha = o.sha
    /\ o.at <= vo.at /\ r.at = vo.at

(* Every document of the operation goes back to documents of the operation, and
   one that is made together with another is there with it. *)
TracedOutbox(e) ==
    /\ \E k \in issued["consumption"] : RunOf(k) = RunOf(e)
    /\ \E g \in issued["grant"] : EntryFrom(e, g)
TracedEnvelope(e) == \E a \in issued["admission"] : RunOf(a) = RunOf(e)
TracedAdmission(a) == \E e \in issued["outbox"] : AdmissionFrom(a, e)
TracedLease(l) == \E a \in issued["admission"] : LeaseFrom(l, a)
TracedPrepared(p) ==
    /\ \E l \in issued["lease"] : PreparedFrom(p, l)
    /\ \E c \in registry.capsules :
          c.digest = p.boundary.capsule /\ p.boundary.definition = c.definition
TracedActivation(a) == \E p \in issued["prepared"] : ActivationFrom(a, p)
TracedObservation(o) ==
    /\ \E a \in issued["activation"] : ObservationFrom(o, a)
    /\ \E l \in issued["lease"] : o.lease = l.digest /\ l.from <= o.at
TracedVerification(vb) ==
    \E o \in issued["observation"], p \in issued["prepared"] : VerificationFrom(vb, o, p)
TracedCredential(d) == \E vb \in issued["verification"] : CredentialFrom(d, vb)
TracedReadback(vo) ==
    \E vb \in issued["verification"], d \in issued["credential"] : ReadbackFrom(vo, vb, d)
TracedPart(s) == \E r \in issued["result"] : RunOf(r) = RunOf(s)
TracedResult(r) ==
    \E o \in issued["observation"], vo \in issued["readback"], vb \in issued["verification"],
       s \in issued["postState"], t \in issued["strength"] : ResultFrom(r, o, vo, vb, s, t)
TracedTerminal(x) ==
    \E r \in issued["result"], o \in Docs("observation"), vo \in Docs("readback"),
       done \in Docs("completion") :
        /\ x.result = r.digest /\ x.completion = done.digest
        /\ o.digest = r.observation /\ vo.digest = r.readback
        /\ r.target = Snapshot.terms.target
        /\ done.of = o.digest /\ done.lease = o.lease /\ x.lease = o.lease
        /\ x.decision = vo.decision
TracedReceipt(x) == x.grant = <<"grant", Authority>>
TracedProof(x) ==
    \E receipt \in issued["receipt"], r \in issued["result"] :
        /\ x.receipt = receipt.digest /\ x.result = r.digest
        /\ receipt.target = r.target /\ receipt.recorded <= r.at
        /\ r.verdict = "VERIFIED"

Traced(kind, d) ==
    /\ kind = "grant" => GrantInsideSnapshot(d) /\ RunOf(d) = Authority
    /\ kind = "outbox" => TracedOutbox(d)
    /\ kind = "envelope" => TracedEnvelope(d)
    /\ kind = "admission" => TracedAdmission(d)
    /\ kind = "lease" => TracedLease(d)
    /\ kind = "prepared" => TracedPrepared(d)
    /\ kind = "activation" => TracedActivation(d)
    /\ kind = "observation" => TracedObservation(d)
    /\ kind = "verification" => TracedVerification(d)
    /\ kind = "credential" => TracedCredential(d)
    /\ kind = "readback" => TracedReadback(d)
    /\ kind \in {"postState", "strength"} => TracedPart(d)
    /\ kind = "result" => TracedResult(d)
    /\ kind = "terminal" => TracedTerminal(d)
    /\ kind = "receipt" => TracedReceipt(d)
    /\ kind = "proof" => TracedProof(d)

(* A document belongs to a run of the operation, and a run makes one of a kind. *)
Own(kind, d) == RunOf(d) \in Runs /\ d.digest = <<kind, RunOf(d)>>

DocumentsInv ==
    \A kind \in DocumentKinds : \A d \in issued[kind] :
        /\ Own(kind, d)
        /\ Traced(kind, d)
        /\ \A e \in issued[kind] : RunOf(e) = RunOf(d) => e = d

(* Leases count their epochs up, and began before now. *)
LeasesCounted ==
    /\ IsFiniteSet(Epochs)
    /\ \A l \in Leases : l.epoch \in 1..Cardinality(Epochs) /\ l.from \in Nat /\ l.from <= now

(* What a read or an issuance in progress has checked *)
HandAuthorized ==
    /\ hand.step \in {"precondition", "witnessed"} =>
          /\ ~Made("grant", Authority)
          /\ hand.authority.terms = Snapshot.terms /\ hand.authority.from = Snapshot.at
          /\ hand.authority.until \in Nat /\ hand.authority.until <= Snapshot.until
          /\ hand.capsule \in registry.capsules
          /\ hand.capsule.definition = Snapshot.terms.definition
    /\ hand.step = "witnessed" =>
          /\ hand.witness.target = Snapshot.terms.target
          /\ hand.witness.observed = hand.witness.expected
          /\ hand.witness.checked \in Nat /\ Snapshot.at <= hand.witness.checked
HandRuns ==
    hand.step = "runner" =>
        /\ ~Made("observation", hand.run)
        /\ hand.activation \in issued["activation"] /\ RunOf(hand.activation) = hand.run
        /\ \E l \in issued["lease"] : hand.activation.lease = l.digest /\ l.from <= now
HandVerifies ==
    hand.step = "verifier" =>
        /\ ~Made("readback", hand.run)
        /\ hand.boundary \in issued["verification"] /\ RunOf(hand.boundary) = hand.run
        /\ hand.decision \in issued["credential"]
        /\ hand.decision.verification = hand.boundary.digest
        /\ hand.target = hand.boundary.target
        /\ hand.verifier.instance = hand.boundary.verifierInstance
        /\ hand.decision.from <= hand.accessed /\ hand.accessed < hand.decision.until
        /\ hand.accessed \in Nat /\ hand.accessed <= now

ChainInv ==
    /\ registry \in Registries /\ now \in Nat
    /\ DocumentsInv
    /\ LeasesCounted
    /\ HandAuthorized
    /\ HandRuns
    /\ HandVerifies
-----------------------------------------------------------------------------
(* A digest names the operation's documents apart from those of others. *)
LEMMA DigestsName ==
    ASSUME DocumentsInv, NEW kind \in DocumentKinds, NEW d \in Docs(kind)
    PROVE  /\ d.digest[1] = kind
           /\ OfOther(d.digest) => d \in Others[kind]
           /\ ~OfOther(d.digest) => d \in issued[kind]
           /\ \A e \in Docs(kind) : e.digest = d.digest => e = d
<1>1. ASSUME NEW e \in issued[kind]
      PROVE  e.digest[1] = kind /\ ~OfOther(e.digest)
            /\ \A f \in issued[kind] : f.digest = e.digest => f = e
  <2>1. Own(kind, e) /\ \A f \in issued[kind] : RunOf(f) = RunOf(e) => f = e
    BY DEF DocumentsInv
  <2> QED
    BY <2>1 DEF Own, Runs, RunOf, OfOther
<1>2. ASSUME NEW e \in Others[kind]
      PROVE  e.digest[1] = kind /\ OfOther(e.digest)
            /\ \A f \in Others[kind] : f.digest = e.digest => f = e
  BY OtherDocumentsAssumption DEF Others
<1> QED
  BY <1>1, <1>2 DEF Docs

(* A document is the one its digest names. *)
LEMMA DigestFinds ==
    ASSUME DocumentsInv, NEW kind \in DocumentKinds, NEW d \in Docs(kind)
    PROVE  Doc(d.digest) = d
<1>1. d.digest[1] = kind /\ \A e \in Docs(kind) : e.digest = d.digest => e = d
  BY DigestsName
<1> QED
  BY <1>1 DEF Doc

(* What is issued is found by its digest, and has its parents. *)
LEMMA IssuedFound ==
    ASSUME DocumentsInv, NEW kind \in DocumentKinds, NEW d \in issued[kind]
    PROVE  Doc(d.digest) = d /\ Own(kind, d) /\ Traced(kind, d)
<1>1. Doc(d.digest) = d
  BY DigestFinds DEF Docs
<1> QED
  BY <1>1 DEF DocumentsInv

(* A runtime of the operation is the one its boundary names. *)
LEMMA BoundaryFinds ==
    ASSUME DocumentsInv, NEW p \in issued["prepared"]
    PROVE  /\ RuntimeOf(p.boundary.digest) = p
           /\ \A q \in Docs("prepared") : q.boundary.digest = p.boundary.digest => q = p
<1> "prepared" \in DocumentKinds
  BY DEF DocumentKinds
<1>1. ASSUME NEW q \in issued["prepared"]
      PROVE  q.boundary.digest = <<"boundary", RunOf(q)>> /\ RunOf(q) \in Runs
  BY IssuedFound, "prepared" = "prepared" DEF Traced, TracedPrepared, PreparedFrom, Own
<1>2. ASSUME NEW q \in Others["prepared"]
      PROVE  OfOther(q.boundary.digest)
  BY OtherDocumentsAssumption
<1>3. ~OfOther(p.boundary.digest)
  BY <1>1 DEF OfOther, Runs
<1>4. \A q \in Docs("prepared") : q.boundary.digest = p.boundary.digest => q = p
  BY <1>1, <1>2, <1>3 DEF Docs, DocumentsInv
<1> QED
  BY <1>4 DEF RuntimeOf, Docs

(* The lease of the operation goes back to a grant inside the snapshot. *)
LEMMA LeaseGranted ==
    ASSUME DocumentsInv, NEW l \in issued["lease"]
    PROVE  /\ GrantOf(l) \in issued["grant"] /\ GrantOf(l).digest = <<"grant", Authority>>
           /\ GrantInsideSnapshot(GrantOf(l))
           /\ l.execution = Execution /\ l.capsule = GrantOf(l).binding.capsule
<1> "lease" \in DocumentKinds /\ "admission" \in DocumentKinds /\ "outbox" \in DocumentKinds
    /\ "grant" \in DocumentKinds
  BY DEF DocumentKinds
<1>1. PICK a \in issued["admission"] : LeaseFrom(l, a)
  BY IssuedFound DEF Traced, TracedLease
<1>2. PICK e \in issued["outbox"] : AdmissionFrom(a, e)
  BY IssuedFound DEF Traced, TracedAdmission
<1>3. PICK g \in issued["grant"] : EntryFrom(e, g)
  BY IssuedFound DEF Traced, TracedOutbox
<1>4. GrantInsideSnapshot(g) /\ g.digest = <<"grant", Authority>>
  BY IssuedFound DEF Traced, Own
<1>5. Doc(l.admission) = a
  BY <1>1, IssuedFound DEF LeaseFrom
<1>6. Doc(a.entry) = e
  BY <1>2, IssuedFound DEF AdmissionFrom
<1>7. Doc(e.grant) = g
  BY <1>3, IssuedFound DEF EntryFrom
<1>8. GrantOf(l) = g
  BY <1>5, <1>6, <1>7 DEF GrantOf
<1>9. l.execution = Execution /\ l.capsule = g.binding.capsule
  BY <1>1, <1>2, <1>3, <1>4 DEF LeaseFrom, AdmissionFrom, EntryFrom, GrantInsideSnapshot
<1> QED
  BY <1>4, <1>8, <1>9

(* The documents a verification result goes back to, found by their digests *)
ResultChain(r, o, vo, vb, s, t, d, a, p, l) ==
    /\ o \in issued["observation"] /\ vo \in issued["readback"]
    /\ vb \in issued["verification"] /\ d \in issued["credential"]
    /\ a \in issued["activation"] /\ p \in issued["prepared"] /\ l \in issued["lease"]
    /\ Doc(r.observation) = o /\ Doc(r.readback) = vo /\ Doc(r.verification) = vb
    /\ Doc(r.state) = s /\ Doc(r.strength) = t /\ Doc(vo.decision) = d
    /\ Doc(o.activation) = a /\ Doc(o.lease) = l
    /\ RuntimeOf(o.boundary) = p /\ p.lease = l
    /\ ResultFrom(r, o, vo, vb, s, t) /\ VerificationFrom(vb, o, p)
    /\ ReadbackFrom(vo, vb, d) /\ CredentialFrom(d, vb)
    /\ ObservationFrom(o, a) /\ ActivationFrom(a, p) /\ PreparedFrom(p, l)
    /\ l.from <= o.at

(* Every result of the operation has such a chain. *)
LEMMA ResultHasChain ==
    ASSUME DocumentsInv, NEW r \in issued["result"]
    PROVE  \E o, vo, vb, s, t, d, a, p, l : ResultChain(r, o, vo, vb, s, t, d, a, p, l)
<1> /\ "lease" \in DocumentKinds /\ "prepared" \in DocumentKinds
    /\ "activation" \in DocumentKinds /\ "observation" \in DocumentKinds
    /\ "verification" \in DocumentKinds /\ "credential" \in DocumentKinds
    /\ "readback" \in DocumentKinds /\ "postState" \in DocumentKinds
    /\ "strength" \in DocumentKinds /\ "result" \in DocumentKinds
  BY DEF DocumentKinds
<1>1. PICK o \in issued["observation"], vo \in issued["readback"],
          vb \in issued["verification"], s \in issued["postState"],
          t \in issued["strength"] : ResultFrom(r, o, vo, vb, s, t)
  BY IssuedFound DEF Traced, TracedResult
<1>2. PICK o1 \in issued["observation"], p \in issued["prepared"] :
          VerificationFrom(vb, o1, p)
  BY IssuedFound DEF Traced, TracedVerification
<1>3. Doc(o.digest) = o /\ Doc(o1.digest) = o1
  BY IssuedFound
<1>4. o1 = o
  BY <1>1, <1>2, <1>3 DEF ResultFrom, VerificationFrom
<1>5. PICK vb1 \in issued["verification"], d \in issued["credential"] :
          ReadbackFrom(vo, vb1, d)
  BY IssuedFound DEF Traced, TracedReadback
<1>6. Doc(vb.digest) = vb /\ Doc(vb1.digest) = vb1
  BY IssuedFound
<1>7. vb1 = vb
  BY <1>1, <1>5, <1>6 DEF ResultFrom, ReadbackFrom
<1>8. PICK vb2 \in issued["verification"] : CredentialFrom(d, vb2)
  BY IssuedFound DEF Traced, TracedCredential
<1>9. Doc(vb2.digest) = vb2
  BY IssuedFound
<1>10. vb2 = vb
  BY <1>5, <1>6, <1>7, <1>8, <1>9 DEF CredentialFrom, ReadbackFrom
<1>11. PICK a \in issued["activation"] : ObservationFrom(o, a)
  BY IssuedFound DEF Traced, TracedObservation
<1>12. PICK p1 \in issued["prepared"] : ActivationFrom(a, p1)
  BY IssuedFound DEF Traced, TracedActivation
<1>13. RuntimeOf(p.boundary.digest) = p /\ RuntimeOf(p1.boundary.digest) = p1
  BY BoundaryFinds
<1>14. p1 = p /\ RuntimeOf(o.boundary) = p
  BY <1>2, <1>4, <1>11, <1>12, <1>13 DEF VerificationFrom, ObservationFrom, ActivationFrom
<1>15. PICK l \in issued["lease"] : PreparedFrom(p, l)
  BY IssuedFound DEF Traced, TracedPrepared
<1>16. PICK l1 \in issued["lease"] : o.lease = l1.digest /\ l1.from <= o.at
  BY IssuedFound DEF Traced, TracedObservation
<1>17. Doc(l.digest) = l /\ Doc(l1.digest) = l1
  BY IssuedFound
<1>18. l1 = l /\ Doc(o.lease) = l
  BY <1>11, <1>12, <1>14, <1>15, <1>16, <1>17
     DEF PreparedFrom, ObservationFrom, ActivationFrom
<1>19. Doc(s.digest) = s /\ Doc(t.digest) = t /\ Doc(vo.digest) = vo /\ Doc(d.digest) = d
       /\ Doc(a.digest) = a
  BY IssuedFound
<1>20. Doc(r.observation) = o /\ Doc(r.readback) = vo /\ Doc(r.verification) = vb
       /\ Doc(r.state) = s /\ Doc(r.strength) = t
  BY <1>1, <1>3, <1>6, <1>19 DEF ResultFrom
<1>21. Doc(vo.decision) = d /\ Doc(o.activation) = a /\ p.lease = l
  BY <1>5, <1>11, <1>15, <1>19 DEF ReadbackFrom, ObservationFrom, PreparedFrom
<1>22. ResultChain(r, o, vo, vb, s, t, d, a, p, l)
  BY <1>1, <1>2, <1>4, <1>5, <1>7, <1>8, <1>10, <1>11, <1>12, <1>14, <1>15, <1>16,
     <1>18, <1>20, <1>21 DEF ResultChain
<1> QED
  BY <1>22

(* So a result is of one lease. *)
LEMMA ResultIsOfOneLease ==
    ASSUME registry \in Registries, DocumentsInv, NEW r \in issued["result"]
    PROVE  ResultOfOneLease(r)
<1>1. PICK o, vo, vb, s, t, d, a, p, l : ResultChain(r, o, vo, vb, s, t, d, a, p, l)
  BY ResultHasChain
<1>2. /\ Doc(r.observation) = o /\ Doc(r.readback) = vo /\ Doc(r.verification) = vb
      /\ Doc(r.state) = s /\ Doc(r.strength) = t /\ Doc(vo.decision) = d
      /\ Doc(o.activation) = a /\ RuntimeOf(o.boundary) = p /\ p.lease = l
      /\ l \in issued["lease"] /\ p \in issued["prepared"]
  BY <1>1 DEF ResultChain
<1>3. /\ ResultFrom(r, o, vo, vb, s, t) /\ VerificationFrom(vb, o, p)
      /\ ReadbackFrom(vo, vb, d) /\ CredentialFrom(d, vb)
      /\ ObservationFrom(o, a) /\ ActivationFrom(a, p) /\ PreparedFrom(p, l)
      /\ l.from <= o.at
  BY <1>1 DEF ResultChain
<1>4. GrantInsideSnapshot(GrantOf(l)) /\ l.execution = Execution
      /\ l.capsule = GrantOf(l).binding.capsule
  BY <1>2, LeaseGranted
<1>5. {o.lease, a.lease, p.boundary.lease, p.decision.lease} = {l.digest}
  BY <1>3 DEF ObservationFrom, ActivationFrom, PreparedFrom
<1>6. RunOf(o) = RunOf(l)
  BY <1>3 DEF ObservationFrom, ActivationFrom, PreparedFrom
<1>7. ASSUME NEW x \in {r, o, vo, vb, d, a}
      PROVE  x.execution = Execution /\ x.epoch = l.epoch
  BY <1>3, <1>4 DEF ResultFrom, VerificationFrom, ReadbackFrom, CredentialFrom,
     ObservationFrom, ActivationFrom, PreparedFrom
<1>8. {<<x.execution, x.epoch>> : x \in {r, o, vo, vb, d, a}} = {<<Execution, l.epoch>>}
  BY <1>7
<1>9. ASSUME NEW x \in {r, o, vo, vb, d}
      PROVE  x.target = o.target
  BY <1>3 DEF ResultFrom, VerificationFrom, ReadbackFrom, CredentialFrom
<1>10. {x.target : x \in {r, o, vo, vb, d}} = {o.target}
  BY <1>9
<1>11. {vb.observation, vo.observation, d.observation} = {o.digest}
  BY <1>3 DEF ResultFrom, VerificationFrom, ReadbackFrom, CredentialFrom
<1>12. s.readback = vo.digest /\ t.readback = vo.digest
  BY <1>3 DEF ResultFrom
<1>13. vo.instance # a.instance /\ d.class # p.decision.class
  BY <1>3 DEF VerificationFrom, ReadbackFrom, CredentialFrom, ActivationFrom, PreparedFrom
<1>14. p.boundary.definition = Snapshot.terms.definition
  <2>1. PICK c \in registry.capsules :
            c.digest = p.boundary.capsule /\ p.boundary.definition = c.definition
    BY <1>2, IssuedFound DEF Traced, TracedPrepared, DocumentKinds
  <2>2. PICK e \in registry.capsules :
            e.digest = GrantOf(l).binding.capsule /\ e.definition = Snapshot.terms.definition
    BY <1>4 DEF GrantInsideSnapshot
  <2>3. p.boundary.capsule = GrantOf(l).binding.capsule
    BY <1>3, <1>4 DEF PreparedFrom
  <2>4. c = e
    BY <2>1, <2>2, <2>3, CapsuleDigestAssumption
  <2> QED
    BY <2>1, <2>2, <2>4
<1>15. l.from <= o.at /\ o.at <= vo.at
       /\ d.from <= vo.accessed /\ vo.accessed < d.until /\ vo.accessed <= vo.at
  BY <1>3 DEF ResultFrom, ReadbackFrom
<1> QED
  BY <1>2, <1>4, <1>5, <1>6, <1>8, <1>10, <1>11, <1>12, <1>13, <1>14, <1>15
     DEF ResultOfOneLease

(* A digest of a document of the operation names nothing else. *)
LEMMA FoundAmongAll ==
    ASSUME DocumentsInv, NEW kind \in DocumentKinds, NEW d \in Docs(kind),
           NEW x, x = d.digest
    PROVE  Doc(x) = d
BY DigestFinds

(* The invariant holds the property. *)
LEMMA ChainInvEvidence ==
    ASSUME ChainInv
    PROVE  EvidenceIsOfOne
<1> DocumentsInv /\ registry \in Registries
  BY DEF ChainInv
<1> /\ "grant" \in DocumentKinds /\ "result" \in DocumentKinds /\ "terminal" \in DocumentKinds
    /\ "proof" \in DocumentKinds /\ "observation" \in DocumentKinds
    /\ "readback" \in DocumentKinds /\ "completion" \in DocumentKinds
    /\ "receipt" \in DocumentKinds
  BY DEF DocumentKinds
<1>1. \A g \in issued["grant"] : GrantInsideSnapshot(g)
  BY IssuedFound DEF Traced
<1>2. \A r \in issued["result"] : ResultOfOneLease(r)
  BY ResultIsOfOneLease
<1>3. ASSUME NEW x \in issued["terminal"]
      PROVE  LET r == Doc(x.result)
                 o == Doc(r.observation)
             IN  /\ ResultOfOneLease(r) /\ r.target = Snapshot.terms.target
                 /\ Doc(x.completion).of = o.digest
                 /\ {Doc(x.completion).lease, x.lease} = {o.lease}
                 /\ x.decision = Doc(r.readback).decision
  <2>1. PICK r \in issued["result"], o \in Docs("observation"), vo \in Docs("readback"),
             done \in Docs("completion") :
            /\ x.result = r.digest /\ x.completion = done.digest
            /\ o.digest = r.observation /\ vo.digest = r.readback
            /\ r.target = Snapshot.terms.target
            /\ done.of = o.digest /\ done.lease = o.lease /\ x.lease = o.lease
            /\ x.decision = vo.decision
    BY IssuedFound DEF Traced, TracedTerminal
  <2>2. Doc(x.result) = r
    BY <2>1, IssuedFound
  <2>3. Doc(r.observation) = o
    BY <2>1, FoundAmongAll
  <2>4. Doc(r.readback) = vo
    BY <2>1, FoundAmongAll
  <2>5. Doc(x.completion) = done
    BY <2>1, FoundAmongAll
  <2> QED
    BY <1>2, <2>1, <2>2, <2>3, <2>4, <2>5
<1>4. ASSUME NEW x \in issued["proof"]
      PROVE  LET r == Doc(x.result)
                 o == Doc(r.observation)
                 receipt == Doc(x.receipt)
             IN  /\ ResultOfOneLease(r) /\ o.sha = Doc(r.readback).sha
                 /\ receipt.target = o.target
                 /\ receipt.grant = GrantOf(Doc(o.lease)).digest
                 /\ receipt.recorded <= Doc(r.readback).at
  <2>1. PICK receipt \in issued["receipt"], r \in issued["result"] :
            /\ x.receipt = receipt.digest /\ x.result = r.digest
            /\ receipt.target = r.target /\ receipt.recorded <= r.at
            /\ r.verdict = "VERIFIED"
    BY IssuedFound DEF Traced, TracedProof
  <2>2. Doc(x.result) = r /\ Doc(x.receipt) = receipt
    BY <2>1, IssuedFound
  <2>3. PICK o, vo, vb, s, t, d, a, p, l : ResultChain(r, o, vo, vb, s, t, d, a, p, l)
    BY ResultHasChain
  <2>4. Doc(r.observation) = o /\ Doc(r.readback) = vo /\ Doc(o.lease) = l
        /\ l \in issued["lease"]
        /\ ResultFrom(r, o, vo, vb, s, t) /\ VerificationFrom(vb, o, p)
        /\ ReadbackFrom(vo, vb, d)
    BY <2>3 DEF ResultChain
  <2>5. r.target = o.target /\ o.sha = vo.sha /\ r.at = vo.at
    BY <2>1, <2>4 DEF ResultFrom, VerificationFrom, ReadbackFrom
  <2>6. receipt.grant = GrantOf(l).digest
    <3>1. GrantOf(l).digest = <<"grant", Authority>>
      BY <2>4, LeaseGranted
    <3>2. receipt.grant = <<"grant", Authority>>
      BY IssuedFound DEF Traced, TracedReceipt
    <3> QED
      BY <3>1, <3>2
  <2> QED
    BY <1>2, <2>1, <2>2, <2>4, <2>5, <2>6
<1> QED
  BY <1>1, <1>2, <1>3, <1>4 DEF EvidenceIsOfOne
-----------------------------------------------------------------------------
(* Documents are only added. *)
Grows == \A kind \in DocumentKinds : issued[kind] \subseteq issued'[kind]

(* A document keeps its parents while documents are added. *)
LEMMA TracedStays ==
    ASSUME registry' = registry, Grows, NEW kind \in DocumentKinds, NEW d, Traced(kind, d)
    PROVE  Traced(kind, d)'
<1>1. CASE kind = "grant"
  BY <1>1 DEF Traced, GrantInsideSnapshot
<1>2. CASE kind = "outbox"
  BY <1>2 DEF Traced, TracedOutbox, Grows, DocumentKinds
<1>3. CASE kind = "envelope"
  BY <1>3 DEF Traced, TracedEnvelope, Grows, DocumentKinds
<1>4. CASE kind = "admission"
  BY <1>4 DEF Traced, TracedAdmission, Grows, DocumentKinds
<1>5. CASE kind = "lease"
  BY <1>5 DEF Traced, TracedLease, Grows, DocumentKinds
<1>6. CASE kind = "prepared"
  BY <1>6 DEF Traced, TracedPrepared, Grows, DocumentKinds
<1>7. CASE kind = "activation"
  BY <1>7 DEF Traced, TracedActivation, Grows, DocumentKinds
<1>8. CASE kind = "observation"
  BY <1>8 DEF Traced, TracedObservation, Grows, DocumentKinds
<1>9. CASE kind = "verification"
  BY <1>9 DEF Traced, TracedVerification, Grows, DocumentKinds
<1>10. CASE kind = "credential"
  BY <1>10 DEF Traced, TracedCredential, Grows, DocumentKinds
<1>11. CASE kind = "readback"
  BY <1>11 DEF Traced, TracedReadback, Grows, DocumentKinds
<1>12. CASE kind \in {"postState", "strength"}
  BY <1>12 DEF Traced, TracedPart, Grows, DocumentKinds
<1>13. CASE kind = "result"
  BY <1>13 DEF Traced, TracedResult, Grows, DocumentKinds
<1>14. CASE kind = "terminal"
  <2>1. issued["result"] \subseteq issued'["result"]
        /\ Docs("observation") \subseteq Docs("observation")'
        /\ Docs("readback") \subseteq Docs("readback")'
        /\ Docs("completion") \subseteq Docs("completion")'
    BY DEF Grows, DocumentKinds, Docs
  <2>2. TracedTerminal(d)
    BY <1>14 DEF Traced
  <2>3. TracedTerminal(d)'
    BY <2>1, <2>2 DEF TracedTerminal
  <2> QED
    BY <1>14, <2>3 DEF Traced
<1>15. CASE kind = "receipt"
  BY <1>15 DEF Traced, TracedReceipt
<1>16. CASE kind = "proof"
  BY <1>16 DEF Traced, TracedProof, Grows, DocumentKinds
<1>17. CASE kind \in {"consumption", "completion"}
  BY <1>17 DEF Traced
<1> QED
  BY <1>1, <1>2, <1>3, <1>4, <1>5, <1>6, <1>7, <1>8, <1>9, <1>10, <1>11, <1>12, <1>13,
     <1>14, <1>15, <1>16, <1>17 DEF DocumentKinds

(* New documents: each the first of its kind in its run *)
FreshOne(kind, d) == kind \in DocumentKinds /\ Own(kind, d) /\ ~Made(kind, RunOf(d))
Fresh(ds) ==
    /\ \A d \in ds : FreshOne(d.digest[1], d)
    /\ \A d, e \in ds : d.digest[1] = e.digest[1] => d = e
AllTraced(ds) == \A d \in ds : Traced(d.digest[1], d)

(* What Issue does to each kind *)
LEMMA IssueAdds ==
    ASSUME NEW ds, Issue(ds)
    PROVE  /\ Grows
           /\ \A kind \in DocumentKinds :
                 /\ issued'[kind] = issued[kind] \cup {d \in ds : d.digest[1] = kind}
                 /\ (\A d \in ds : d.digest[1] # kind) => issued'[kind] = issued[kind]
<1>1. \A kind \in DocumentKinds :
          issued'[kind] = issued[kind] \cup {d \in ds : d.digest[1] = kind}
  BY DEF Issue
<1>2. Grows
  BY <1>1 DEF Grows
<1>3. ASSUME NEW kind \in DocumentKinds, \A d \in ds : d.digest[1] # kind
      PROVE  issued'[kind] = issued[kind]
  BY <1>1, <1>3
<1> QED
  BY <1>1, <1>2, <1>3

(* Issuing fresh documents that go back to others keeps what is issued in order. *)
LEMMA IssueKeeps ==
    ASSUME DocumentsInv, registry' = registry, NEW ds, Issue(ds), Fresh(ds), AllTraced(ds)'
    PROVE  DocumentsInv'
<1>1. \A kind \in DocumentKinds :
          issued'[kind] = issued[kind] \cup {d \in ds : d.digest[1] = kind}
  BY IssueAdds
<1>2. Grows
  BY IssueAdds
<1>3. ASSUME NEW kind \in DocumentKinds, NEW d \in issued'[kind]
      PROVE  Own(kind, d) /\ Traced(kind, d)'
             /\ \A e \in issued'[kind] : RunOf(e) = RunOf(d) => e = d
  <2>1. ASSUME NEW e \in ds, e.digest[1] = kind
        PROVE  Own(kind, e) /\ (\A f \in issued[kind] : RunOf(f) # RunOf(e))
    BY <2>1 DEF Fresh, FreshOne, Made
  <2>2. CASE d \in issued[kind]
    <3>1. Own(kind, d) /\ Traced(kind, d)
          /\ \A e \in issued[kind] : RunOf(e) = RunOf(d) => e = d
      BY <2>2 DEF DocumentsInv
    <3>2. Traced(kind, d)'
      BY <1>2, <3>1, TracedStays
    <3> QED
      BY <1>1, <2>1, <2>2, <3>1, <3>2
  <2>3. CASE d \in ds /\ d.digest[1] = kind
    <3>1. Traced(kind, d)'
      BY <2>3 DEF AllTraced
    <3>2. \A e \in ds : e.digest[1] = kind => e = d
      BY <2>3 DEF Fresh
    <3> QED
      BY <1>1, <2>1, <2>3, <3>1, <3>2
  <2> QED
    BY <1>1, <2>2, <2>3
<1> QED
  BY <1>3 DEF DocumentsInv

(* Time does not go back. *)
Onward == now \in Nat /\ now' \in Nat /\ now <= now'

(* Leases stay counted unless one is added. *)
LEMMA LeasesStayCounted ==
    ASSUME LeasesCounted, Onward, issued'["lease"] = issued["lease"]
    PROVE  LeasesCounted'
<1>1. Leases' = Leases /\ Epochs' = Epochs
  BY DEF Leases, Epochs
<1>2. ASSUME NEW l \in Leases
      PROVE  l.epoch \in 1..Cardinality(Epochs) /\ l.from \in Nat /\ l.from <= now'
  BY DEF LeasesCounted, Onward
<1> QED
  BY <1>1, <1>2 DEF LeasesCounted

(* An idle hand has checked nothing. *)
LEMMA IdleHand ==
    ASSUME hand' = Idle
    PROVE  HandAuthorized' /\ HandRuns' /\ HandVerifies'
<1>1. hand'.step = "idle"
  BY DEF Idle
<1> QED
  BY <1>1 DEF HandAuthorized, HandRuns, HandVerifies

(* A hand keeps what it has checked while its kinds of documents are not made. *)
LEMMA HandKept ==
    ASSUME LeasesCounted, HandAuthorized, HandRuns, HandVerifies, Onward, Grows,
           UNCHANGED <<registry, hand>>,
           issued'["grant"] = issued["grant"],
           issued'["observation"] = issued["observation"],
           issued'["readback"] = issued["readback"]
    PROVE  HandAuthorized' /\ HandRuns' /\ HandVerifies'
<1>1. PICK h : h = hand
  OBVIOUS
<1>2. hand' = h
  BY <1>1
<1>3. HandAuthorized'
  BY <1>1, <1>2 DEF HandAuthorized, Made
<1>4. HandRuns'
  <2>1. SUFFICES ASSUME h.step = "runner"
                 PROVE  HandRuns'
    BY <1>2 DEF HandRuns
  <2>2. /\ ~Made("observation", h.run)
        /\ h.activation \in issued["activation"] /\ RunOf(h.activation) = h.run
    BY <1>1, <2>1 DEF HandRuns
  <2>3. PICK l \in issued["lease"] : h.activation.lease = l.digest /\ l.from <= now
    BY <1>1, <2>1 DEF HandRuns
  <2>4. (~Made("observation", h.run))'
    BY <2>2 DEF Made
  <2>5. h.activation \in issued'["activation"] /\ l \in issued'["lease"]
    BY <2>2, <2>3 DEF Grows, DocumentKinds
  <2>6. l.from <= now'
    BY <2>3 DEF Onward, LeasesCounted, Leases
  <2> QED
    BY <1>2, <2>2, <2>3, <2>4, <2>5, <2>6 DEF HandRuns
<1>5. HandVerifies'
  <2>1. SUFFICES ASSUME h.step = "verifier"
                 PROVE  HandVerifies'
    BY <1>2 DEF HandVerifies
  <2>2. /\ ~Made("readback", h.run)
        /\ h.boundary \in issued["verification"] /\ RunOf(h.boundary) = h.run
        /\ h.decision \in issued["credential"]
        /\ h.decision.verification = h.boundary.digest
        /\ h.target = h.boundary.target
        /\ h.verifier.instance = h.boundary.verifierInstance
        /\ h.decision.from <= h.accessed /\ h.accessed < h.decision.until
        /\ h.accessed \in Nat /\ h.accessed <= now
    BY <1>1, <2>1 DEF HandVerifies
  <2>3. (~Made("readback", h.run))'
    BY <2>2 DEF Made
  <2>4. h.boundary \in issued'["verification"] /\ h.decision \in issued'["credential"]
    BY <2>2 DEF Grows, DocumentKinds
  <2>5. h.accessed <= now'
    BY <2>2 DEF Onward
  <2> QED
    BY <1>2, <2>2, <2>3, <2>4, <2>5 DEF HandVerifies
<1> QED
  BY <1>3, <1>4, <1>5

(* A step that makes no document *)
LEMMA QuietStep ==
    ASSUME ChainInv, Onward, UNCHANGED <<registry, issued>>,
           HandAuthorized', HandRuns', HandVerifies'
    PROVE  ChainInv'
<1>1. Grows
  BY DEF Grows
<1>2. DocumentsInv'
  <2>1. ASSUME NEW kind \in DocumentKinds, NEW d \in issued[kind]
        PROVE  Own(kind, d) /\ Traced(kind, d)'
              /\ \A e \in issued[kind] : RunOf(e) = RunOf(d) => e = d
    BY <1>1, TracedStays DEF ChainInv, DocumentsInv
  <2> QED
    BY <2>1 DEF DocumentsInv
<1>3. LeasesCounted'
  BY LeasesStayCounted DEF ChainInv
<1> QED
  BY <1>2, <1>3 DEF ChainInv, Onward

(* A step that makes documents no read or issuance in progress is about, and no
   lease *)
LEMMA IssueStep ==
    ASSUME ChainInv, NEW ds, Issue(ds), Fresh(ds), AllTraced(ds)',
           UNCHANGED <<registry, now, hand>>,
           \A d \in ds : d.digest[1] \notin {"grant", "observation", "readback", "lease"}
    PROVE  ChainInv'
<1>1. Onward
  BY DEF Onward, ChainInv
<1>2. Grows /\ issued'["grant"] = issued["grant"] /\ issued'["lease"] = issued["lease"]
      /\ issued'["observation"] = issued["observation"]
      /\ issued'["readback"] = issued["readback"]
  <2>1. ASSUME NEW kind \in {"grant", "observation", "readback", "lease"}
        PROVE  issued'[kind] = issued[kind]
    <3>1. kind \in DocumentKinds
      BY DEF DocumentKinds
    <3>2. \A d \in ds : d.digest[1] # kind
      OBVIOUS
    <3> QED
      BY <3>1, <3>2, IssueAdds
  <2>2. Grows
    BY IssueAdds
  <2> QED
    BY <2>1, <2>2
<1>3. DocumentsInv'
  BY IssueKeeps DEF ChainInv
<1>4. LeasesCounted'
  BY <1>1, <1>2, LeasesStayCounted DEF ChainInv
<1>5. HandAuthorized' /\ HandRuns' /\ HandVerifies'
  BY <1>1, <1>2, HandKept DEF ChainInv
<1> QED
  BY <1>3, <1>4, <1>5 DEF ChainInv

(* A step that ends a read or an issuance with its document *)
LEMMA HandIssues ==
    ASSUME ChainInv, NEW ds, Issue(ds), Fresh(ds), AllTraced(ds)', hand' = Idle,
           UNCHANGED <<registry, now>>, \A d \in ds : d.digest[1] # "lease"
    PROVE  ChainInv'
<1>1. Onward
  BY DEF Onward, ChainInv
<1>2. issued'["lease"] = issued["lease"]
  BY IssueAdds DEF DocumentKinds
<1>3. DocumentsInv'
  BY IssueKeeps DEF ChainInv
<1>4. LeasesCounted'
  BY <1>1, <1>2, LeasesStayCounted DEF ChainInv
<1>5. HandAuthorized' /\ HandRuns' /\ HandVerifies'
  BY IdleHand
<1> QED
  BY <1>3, <1>4, <1>5 DEF ChainInv
-----------------------------------------------------------------------------
(* One fresh document that goes back to others *)
LEMMA OneDocument ==
    ASSUME NEW kind, NEW d, d.digest[1] = kind, FreshOne(kind, d), Traced(kind, d)'
    PROVE  Fresh({d}) /\ AllTraced({d})'
BY DEF Fresh, AllTraced

(* The run that prepares the execution, and its documents, are the operation's. *)
LEMMA AuthorityRuns ==
    /\ Authority \in Runs
    /\ \A kind, d : d.digest = <<kind, Authority>> =>
          Own(kind, d) /\ d.digest[1] = kind /\ RunOf(d) = Authority
BY DEF Authority, Runs, Own, RunOf

(* AuthoritativeGrantIssuer.issue up to the observation: the constraint narrows
   the snapshot's scope. *)
LEMMA PreconditionReadStep ==
    ASSUME ChainInv, NEW until \in {Snapshot.until, Snapshot.until + 1}, NEW c, NEW q, NEW b,
           NEW o,
           PreconditionRead(AuthorityConstraint(AuthorityScope(Snapshot), Snapshot.terms,
                                                Snapshot.at, until), c, q, b, o)
    PROVE  ChainInv'
<1>1. PICK authority : authority = AuthorityConstraint(AuthorityScope(Snapshot),
                                       Snapshot.terms, Snapshot.at, until)
  OBVIOUS
<1>2. PICK h : h = hand'
  OBVIOUS
<1>3. /\ ~Made("grant", Authority)
      /\ Narrows(AuthorityScope(Snapshot), authority)
      /\ Eligible(registry, Snapshot.terms.definition, Snapshot.terms.environment,
                  Snapshot.terms.kind, c)
      /\ UNCHANGED <<registry, now, ref, moved, issued>>
      /\ h.step = "precondition" /\ h.authority = authority /\ h.capsule = c
  BY <1>1, <1>2 DEF PreconditionRead
<1>4. authority.terms = Snapshot.terms /\ authority.from = Snapshot.at
      /\ authority.until = until
  BY <1>1 DEF AuthorityConstraint
<1>5. until \in Nat /\ until <= Snapshot.until
  <2>1. authority.until <= AuthorityScope(Snapshot).until
    BY <1>3 DEF Narrows
  <2> QED
    BY <1>4, <2>1, ChainAssumption DEF AuthorityScope
<1>6. c \in registry.capsules /\ c.definition = Snapshot.terms.definition
  BY <1>3 DEF Eligible
<1>7. (~Made("grant", Authority))'
  BY <1>3 DEF Made
<1>8. HandAuthorized'
  BY <1>2, <1>3, <1>4, <1>5, <1>6, <1>7 DEF HandAuthorized
<1>9. HandRuns' /\ HandVerifies'
  BY <1>2, <1>3 DEF HandRuns, HandVerifies
<1>10. Onward
  BY <1>3 DEF Onward, ChainInv
<1> QED
  BY <1>3, <1>8, <1>9, <1>10, QuietStep

(* PreconditionGuard.witness: the clock was inside the window. *)
LEMMA WitnessPreconditionStep ==
    ASSUME ChainInv, WitnessPrecondition
    PROVE  ChainInv'
<1>1. PICK h, k, t : h = hand /\ k = hand' /\ t = now
  OBVIOUS
<1> DEFINE parent == AuthorityScope(Snapshot)
           decision == MonotonicDecision(parent, h.authority)
           e == Expectation(parent, h.authority, h.requirement, Snapshot.terms.kind,
                            Snapshot.terms.target, h.expected)
           o == PreconditionObservation(h.requirement, Snapshot.terms.kind,
                    Snapshot.terms.target, h.observer, h.state, t)
<1>2. /\ h.step = "precondition"
      /\ MayWitness(parent, h.authority, decision, h.requirement, e, o)
      /\ k = [step |-> "witnessed", authority |-> h.authority, capsule |-> h.capsule,
              witness |-> PreconditionWitness(h.authority, h.requirement, e, o)]
      /\ UNCHANGED <<registry, now, ref, moved, issued>>
  BY <1>1 DEF WitnessPrecondition
<1>3. /\ ~Made("grant", Authority)
      /\ h.authority.terms = Snapshot.terms /\ h.authority.from = Snapshot.at
      /\ h.authority.until \in Nat /\ h.authority.until <= Snapshot.until
      /\ h.capsule \in registry.capsules
      /\ h.capsule.definition = Snapshot.terms.definition
  BY <1>1, <1>2 DEF ChainInv, HandAuthorized
<1>4. e.state = o.state /\ h.authority.from <= o.at
  BY <1>2 DEF MayWitness
<1>5. o.at = t /\ t \in Nat
  BY <1>1 DEF PreconditionObservation, ChainInv
<1>6. k.step = "witnessed" /\ k.authority = h.authority /\ k.capsule = h.capsule
  BY <1>2
<1>7. /\ k.witness.target = Snapshot.terms.target
      /\ k.witness.observed = k.witness.expected
      /\ k.witness.checked = t
  <2>1. k.witness = PreconditionWitness(h.authority, h.requirement, e, o)
    BY <1>2
  <2> HIDE DEF e, o
  <2> QED
    BY <1>3, <1>4, <1>5, <2>1 DEF PreconditionWitness
<1>8. (~Made("grant", Authority))'
  BY <1>2, <1>3 DEF Made
<1>9. HandAuthorized'
  BY <1>1, <1>2, <1>3, <1>4, <1>5, <1>6, <1>7, <1>8 DEF HandAuthorized
<1>10. HandRuns' /\ HandVerifies'
  BY <1>1, <1>6 DEF HandRuns, HandVerifies
<1>11. Onward
  BY <1>2 DEF Onward, ChainInv
<1> QED
  BY <1>2, <1>9, <1>10, <1>11, QuietStep

(* ExecutionGrantV2._issue: the grant is inside the snapshot. *)
LEMMA IssueGrantStep ==
    ASSUME ChainInv, IssueGrantDocument
    PROVE  ChainInv'
<1>1. PICK h, t : h = hand /\ t = now
  OBVIOUS
<1>2. PICK expires : expires = IF t + GrantSeconds <= h.authority.until
                               THEN t + GrantSeconds ELSE h.authority.until
  OBVIOUS
<1>3. PICK g : g = GrantDocument(Authority, Snapshot, h.authority, h.witness,
                     ExecutionBinding(Snapshot.terms.environment, h.capsule), t, expires)
  OBVIOUS
<1>4. /\ h.step = "witnessed" /\ h.witness.checked <= t /\ t < h.authority.until
      /\ t - h.witness.checked <= WitnessSeconds
      /\ Issue({g}) /\ hand' = Idle
      /\ UNCHANGED <<registry, now, ref, moved>>
  BY <1>1, <1>2, <1>3 DEF IssueGrantDocument
<1>5. /\ ~Made("grant", Authority)
      /\ h.authority.terms = Snapshot.terms
      /\ h.authority.until \in Nat /\ h.authority.until <= Snapshot.until
      /\ h.capsule \in registry.capsules
      /\ h.capsule.definition = Snapshot.terms.definition
      /\ h.witness.target = Snapshot.terms.target
      /\ h.witness.observed = h.witness.expected
      /\ h.witness.checked \in Nat /\ Snapshot.at <= h.witness.checked
  BY <1>1, <1>4 DEF ChainInv, HandAuthorized
<1>6. t < expires /\ expires <= Snapshot.until
  BY <1>1, <1>2, <1>4, <1>5, ChainAssumption DEF ChainInv
<1>7. /\ g.digest = <<"grant", Authority>> /\ g.execution = Execution
      /\ g.terms = h.authority.terms /\ g.witness = h.witness
      /\ g.binding.capsule = h.capsule.digest /\ g.issued = t /\ g.expires = expires
  BY <1>3 DEF GrantDocument, ExecutionBinding, Execution
<1>8. GrantInsideSnapshot(g)'
  <2>1. h.capsule \in registry'.capsules
    BY <1>4, <1>5
  <2> QED
    BY <1>4, <1>5, <1>6, <1>7, <2>1 DEF GrantInsideSnapshot
<1>9. Own("grant", g) /\ g.digest[1] = "grant" /\ RunOf(g) = Authority
  BY <1>7, AuthorityRuns
<1>10. FreshOne("grant", g) /\ Traced("grant", g)'
  BY <1>5, <1>8, <1>9 DEF FreshOne, DocumentKinds, Traced
<1>11. Fresh({g}) /\ AllTraced({g})'
  BY <1>9, <1>10, OneDocument
<1>12. \A d \in {g} : d.digest[1] # "lease"
  BY <1>9
<1> QED
  BY <1>4, <1>11, <1>12, HandIssues

(* A denial or a failed read makes nothing. *)
LEMMA GiveUpStep ==
    ASSUME ChainInv, GiveUp
    PROVE  ChainInv'
<1>1. HandAuthorized' /\ HandRuns' /\ HandVerifies'
  BY IdleHand DEF GiveUp
<1>2. Onward
  BY DEF Onward, ChainInv, GiveUp
<1> QED
  BY <1>1, <1>2, QuietStep DEF GiveUp

(* consume_and_enqueue: the entry is of the grant that was consumed. *)
LEMMA ConsumeGrantStep ==
    ASSUME ChainInv, NEW g \in issued["grant"], NEW c, NEW e, NEW presented \in Docs("grant"),
           ConsumeGrant(g, c, e, presented)
    PROVE  ChainInv'
<1> DocumentsInv /\ "grant" \in DocumentKinds /\ "outbox" \in DocumentKinds
    /\ "consumption" \in DocumentKinds
  BY DEF ChainInv, DocumentKinds
<1>1. PICK k : k = GrantConsumption(Authority, g, ConformanceWitness(g, c), now)
  OBVIOUS
<1>2. PICK x : x = OutboxEntry(Authority, presented, k)
  OBVIOUS
<1>3. /\ ~Made("consumption", Authority) /\ ConsumptionBinds(k, presented)
      /\ Issue({k, x}) /\ UNCHANGED <<registry, now, ref, moved, hand>>
  BY <1>1, <1>2 DEF ConsumeGrant
<1>4. presented = g
  <2>1. g.digest = presented.digest
    BY <1>1, <1>3 DEF ConsumptionBinds, GrantConsumption
  <2>2. g \in Docs("grant")
    BY DEF Docs
  <2> QED
    BY <2>1, <2>2, DigestsName
<1>5. k.digest = <<"consumption", Authority>> /\ x.digest = <<"outbox", Authority>>
  BY <1>1, <1>2 DEF GrantConsumption, OutboxEntry
<1>6. EntryFrom(x, g)
  BY <1>2, <1>4 DEF EntryFrom, OutboxEntry
<1>7. /\ Own("consumption", k) /\ k.digest[1] = "consumption" /\ RunOf(k) = Authority
      /\ Own("outbox", x) /\ x.digest[1] = "outbox" /\ RunOf(x) = Authority
  BY <1>5, AuthorityRuns
<1>8. ~Made("outbox", Authority)
  BY <1>3, IssuedFound DEF Made, Traced, TracedOutbox
<1>9. k \in issued'["consumption"] /\ g \in issued'["grant"]
  BY <1>3, <1>7, IssueAdds DEF Grows
<1>10. Traced("consumption", k)' /\ Traced("outbox", x)'
  <2>1. TracedOutbox(x)'
    BY <1>6, <1>7, <1>9 DEF TracedOutbox
  <2> QED
    BY <2>1 DEF Traced
<1>11. Fresh({k, x})
  BY <1>3, <1>7, <1>8 DEF Fresh, FreshOne
<1>12. AllTraced({k, x})'
  BY <1>7, <1>10 DEF AllTraced
<1>13. \A d \in {k, x} : d.digest[1] \notin {"grant", "observation", "readback", "lease"}
  BY <1>7
<1> QED
  BY <1>3, <1>11, <1>12, <1>13, IssueStep

(* DispatchInboxAdmission.create: the admission is of the envelope's own entry. *)
LEMMA AdmitEnvelopeStep ==
    ASSUME ChainInv, NEW entry \in issued["outbox"], NEW presented \in Docs("outbox"),
           AdmitEnvelope(entry, presented)
    PROVE  ChainInv'
<1> DocumentsInv /\ "envelope" \in DocumentKinds /\ "outbox" \in DocumentKinds
    /\ "admission" \in DocumentKinds
  BY DEF ChainInv, DocumentKinds
<1>1. PICK k : k = Envelope(Authority, entry)
  OBVIOUS
<1>2. PICK x : x = Admission(Authority, k, presented)
  OBVIOUS
<1>3. /\ ~Made("admission", Authority) /\ EnvelopeBound(k, presented)
      /\ Issue({k, x}) /\ UNCHANGED <<registry, now, ref, moved, hand>>
  BY <1>1, <1>2 DEF AdmitEnvelope
<1>4. presented = entry
  <2>1. entry.digest = presented.digest
    BY <1>1, <1>3 DEF EnvelopeBound, Envelope, DispatchId
  <2>2. entry \in Docs("outbox")
    BY DEF Docs
  <2> QED
    BY <2>1, <2>2, DigestsName
<1>5. k.digest = <<"envelope", Authority>> /\ x.digest = <<"admission", Authority>>
  BY <1>1, <1>2 DEF Envelope, Admission
<1>6. AdmissionFrom(x, entry)
  BY <1>2, <1>4 DEF AdmissionFrom, Admission
<1>7. /\ Own("envelope", k) /\ k.digest[1] = "envelope" /\ RunOf(k) = Authority
      /\ Own("admission", x) /\ x.digest[1] = "admission" /\ RunOf(x) = Authority
  BY <1>5, AuthorityRuns
<1>8. ~Made("envelope", Authority)
  BY <1>3, IssuedFound DEF Made, Traced, TracedEnvelope
<1>9. x \in issued'["admission"] /\ entry \in issued'["outbox"]
  BY <1>3, <1>7, IssueAdds DEF Grows
<1>10. Traced("envelope", k)' /\ Traced("admission", x)'
  <2>1. TracedEnvelope(k)' /\ TracedAdmission(x)'
    BY <1>6, <1>7, <1>9 DEF TracedEnvelope, TracedAdmission
  <2> QED
    BY <2>1 DEF Traced
<1>11. Fresh({k, x})
  BY <1>3, <1>7, <1>8 DEF Fresh, FreshOne
<1>12. AllTraced({k, x})'
  BY <1>7, <1>10 DEF AllTraced
<1>13. \A d \in {k, x} : d.digest[1] \notin {"grant", "observation", "readback", "lease"}
  BY <1>7
<1> QED
  BY <1>3, <1>11, <1>12, <1>13, IssueStep

(* The lease store: the new lease has the next epoch. *)
LEMMA AcquireLeaseStep ==
    ASSUME ChainInv, NEW a \in issued["admission"], AcquireLeaseDocument(a)
    PROVE  ChainInv'
<1> DocumentsInv /\ "lease" \in DocumentKinds /\ "admission" \in DocumentKinds
    /\ now \in Nat /\ LeasesCounted
  BY DEF ChainInv, DocumentKinds
<1>1. PICK n : n = Cardinality(Epochs) + 1
  OBVIOUS
<1>2. PICK l : l = LeaseDocument(Run(n), a, n, now, now + LeaseSeconds)
  OBVIOUS
<1>3. Issue({l}) /\ UNCHANGED <<registry, now, ref, moved, hand>>
  BY <1>1, <1>2 DEF AcquireLeaseDocument
<1>4. IsFiniteSet(Epochs) /\ Cardinality(Epochs) \in Nat
  BY FS_CardinalityType DEF LeasesCounted
<1>5. n \notin Epochs /\ n \in Nat
  <2>1. \A k \in Leases : k.epoch \in 1..Cardinality(Epochs)
    BY DEF LeasesCounted
  <2> QED
    BY <1>1, <1>4, <2>1 DEF Epochs
<1>6. l.digest = <<"lease", Run(n)>> /\ l.epoch = n /\ l.from = now /\ LeaseFrom(l, a)
  BY <1>2 DEF LeaseDocument, LeaseFrom, RunOf
<1>7. Own("lease", l) /\ l.digest[1] = "lease" /\ RunOf(l) = Run(n)
  BY <1>5, <1>6 DEF Own, RunOf, Run, Runs
<1>8. ~Made("lease", Run(n))
  <2>1. ASSUME NEW k \in issued["lease"]
        PROVE  RunOf(k) = Run(k.epoch) /\ k.epoch \in Epochs
    BY IssuedFound DEF Traced, TracedLease, LeaseFrom, Leases, Epochs
  <2> QED
    BY <1>5, <2>1 DEF Made, Run
<1>9. Grows /\ issued'["lease"] = issued["lease"] \cup {l} /\ a \in issued'["admission"]
  BY <1>3, <1>7, IssueAdds DEF Grows
<1>10. Traced("lease", l)'
  BY <1>6, <1>9 DEF Traced, TracedLease
<1>11. Fresh({l}) /\ AllTraced({l})'
  BY <1>7, <1>8, <1>10, OneDocument DEF FreshOne
<1>12. DocumentsInv'
  BY <1>3, <1>11, IssueKeeps
<1>13. LeasesCounted'
  <2>1. Leases' = Leases \cup {l} /\ Epochs' = Epochs \cup {n}
    BY <1>6, <1>9 DEF Leases, Epochs
  <2>2. IsFiniteSet(Epochs') /\ Cardinality(Epochs') = n
    BY <1>1, <1>4, <1>5, <2>1, FS_AddElement
  <2>3. ASSUME NEW k \in Leases
        PROVE  k.epoch \in 1..n /\ k.from \in Nat /\ k.from <= now
    BY <1>1, <1>4 DEF LeasesCounted
  <2>4. l.epoch \in 1..n /\ l.from \in Nat /\ l.from <= now
    BY <1>1, <1>4, <1>6
  <2>5. now' = now
    BY <1>3
  <2> QED
    BY <2>1, <2>2, <2>3, <2>4, <2>5 DEF LeasesCounted
<1>14. /\ issued'["grant"] = issued["grant"]
       /\ issued'["observation"] = issued["observation"]
       /\ issued'["readback"] = issued["readback"]
  <2>1. ASSUME NEW kind \in {"grant", "observation", "readback"}
        PROVE  issued'[kind] = issued[kind]
    BY <1>3, <1>7, IssueAdds DEF DocumentKinds
  <2> QED
    BY <2>1
<1>15. HandAuthorized' /\ HandRuns' /\ HandVerifies'
  BY <1>3, <1>9, <1>14, HandKept DEF ChainInv, Onward
<1> QED
  BY <1>3, <1>12, <1>13, <1>15 DEF ChainInv

(* IsolatedRunnerAdapter.prepare: everything is of the lease it was asked for. *)
LEMMA PrepareRuntimeStep ==
    ASSUME ChainInv, NEW l \in issued["lease"], NEW c \in registry.capsules, NEW d,
           NEW bootstrap, NEW policy, PrepareRuntime(l, c, d, bootstrap, policy)
    PROVE  ChainInv'
<1> DocumentsInv /\ "lease" \in DocumentKinds /\ "prepared" \in DocumentKinds
  BY DEF ChainInv, DocumentKinds
<1>1. PICK i : i = RunnerIdentity(bootstrap)
  OBVIOUS
<1>2. PICK b : b = RunnerBoundary(RunOf(l), i, l, c, d)
  OBVIOUS
<1>3. PICK k : k = AccessDecision(RunOf(l), b, l, policy)
  OBVIOUS
<1>4. PICK p : p = PreparedRuntime(RunOf(l), bootstrap, i, b, k, l)
  OBVIOUS
<1>5. /\ ~Made("prepared", RunOf(l)) /\ BoundaryAllowed(i, l, c, d)
      /\ Issue({p}) /\ UNCHANGED <<registry, now, ref, moved, hand>>
  BY <1>1, <1>2, <1>3, <1>4 DEF PrepareRuntime
<1>6. c.digest = l.capsule /\ d.id = c.definition
  BY <1>5 DEF BoundaryAllowed
<1>7. /\ b.digest = <<"boundary", RunOf(l)>> /\ b.lease = l.digest
      /\ b.execution = l.execution /\ b.epoch = l.epoch /\ b.capsule = l.capsule
      /\ b.capsule = c.digest /\ b.definition = c.definition
  BY <1>2, <1>6 DEF RunnerBoundary
<1>8. k.lease = l.digest /\ k.class = b.credentialClass /\ i.instance = bootstrap.instance
  BY <1>1, <1>3 DEF AccessDecision, RunnerIdentity
<1>9. /\ p.digest = <<"prepared", RunOf(l)>> /\ p.bootstrap = bootstrap /\ p.runner = i
      /\ p.boundary = b /\ p.decision = k /\ p.lease = l
  BY <1>4 DEF PreparedRuntime
<1>10. RunOf(p) = RunOf(l) /\ p.digest[1] = "prepared"
  BY <1>9 DEF RunOf
<1>11. PreparedFrom(p, l)
  BY <1>7, <1>8, <1>9, <1>10 DEF PreparedFrom
<1>12. Own("prepared", p)
  BY <1>9, <1>10, IssuedFound DEF Own
<1>13. l \in issued'["lease"] /\ c \in registry'.capsules
  BY <1>5, IssueAdds DEF Grows
<1>14. Traced("prepared", p)'
  BY <1>7, <1>9, <1>11, <1>13 DEF Traced, TracedPrepared
<1>15. Fresh({p}) /\ AllTraced({p})'
  BY <1>5, <1>10, <1>12, <1>14, OneDocument DEF FreshOne
<1>16. \A x \in {p} : x.digest[1] \notin {"grant", "observation", "readback", "lease"}
  BY <1>10
<1> QED
  BY <1>5, <1>15, <1>16, IssueStep

(* activate: the activation of the runtime that was prepared *)
LEMMA ActivateRuntimeStep ==
    ASSUME ChainInv, NEW p \in issued["prepared"], ActivateRuntime(p)
    PROVE  ChainInv'
<1> DocumentsInv /\ "activation" \in DocumentKinds /\ "prepared" \in DocumentKinds
  BY DEF ChainInv, DocumentKinds
<1>1. PICK a : a = RuntimeActivation(RunOf(p), p)
  OBVIOUS
<1>2. /\ ~Made("activation", RunOf(p))
      /\ Issue({a}) /\ UNCHANGED <<registry, now, ref, moved, hand>>
  BY <1>1 DEF ActivateRuntime
<1>3. a.digest = <<"activation", RunOf(p)>>
  BY <1>1 DEF RuntimeActivation
<1>4. RunOf(a) = RunOf(p) /\ a.digest[1] = "activation"
  BY <1>3 DEF RunOf
<1>5. ActivationFrom(a, p)
  BY <1>1, <1>4 DEF ActivationFrom, RuntimeActivation
<1>6. Own("activation", a)
  BY <1>3, <1>4, IssuedFound DEF Own
<1>7. p \in issued'["prepared"]
  BY <1>2, IssueAdds DEF Grows
<1>8. Traced("activation", a)'
  BY <1>5, <1>7 DEF Traced, TracedActivation
<1>9. Fresh({a}) /\ AllTraced({a})'
  BY <1>2, <1>4, <1>6, <1>8, OneDocument DEF FreshOne
<1>10. \A x \in {a} : x.digest[1] \notin {"grant", "observation", "readback", "lease"}
  BY <1>4
<1> QED
  BY <1>2, <1>9, <1>10, IssueStep

(* The documents of another operation do not name a document of this one. *)
LEMMA OwnDigest ==
    ASSUME DocumentsInv, NEW kind \in DocumentKinds, NEW d \in issued[kind]
    PROVE  ~OfOther(d.digest)
BY IssuedFound DEF Own, Runs, RunOf, OfOther

(* GitHubReadHandler.observe_ref before the read: the activation is the runtime's
   own and the lease has begun. *)
LEMMA RunnerReadsStep ==
    ASSUME ChainInv, NEW p \in issued["prepared"], NEW a \in Docs("activation"),
           NEW target, RunnerReads(p, a, target)
    PROVE  ChainInv'
<1> DocumentsInv /\ "activation" \in DocumentKinds /\ "prepared" \in DocumentKinds
    /\ "lease" \in DocumentKinds
  BY DEF ChainInv, DocumentKinds
<1>1. PICK h : h = hand'
  OBVIOUS
<1>2. /\ ~Made("observation", RunOf(p)) /\ ActivationBound(p, a) /\ Current(p.lease)
      /\ UNCHANGED <<registry, now, ref, moved, issued>>
      /\ h.step = "runner" /\ h.run = RunOf(p) /\ h.activation = a
  BY <1>1 DEF RunnerReads
<1>3. p.lease \in issued["lease"] /\ p.lease.from <= now
  BY <1>2 DEF Current, Leases
<1>4. a.lease = p.lease.digest /\ a.boundary = p.boundary.digest
  BY <1>2 DEF ActivationBound
<1>5. a \in issued["activation"]
  <2>1. ~OfOther(a.lease)
    BY <1>3, <1>4, OwnDigest
  <2> QED
    BY <2>1, OtherDocumentsAssumption DEF Docs
<1>6. PICK q \in issued["prepared"] : ActivationFrom(a, q)
  BY <1>5, IssuedFound DEF Traced, TracedActivation
<1>7. q = p
  BY <1>4, <1>6, BoundaryFinds DEF ActivationFrom, Docs
<1>8. RunOf(a) = RunOf(p)
  BY <1>6, <1>7 DEF ActivationFrom
<1>9. (~Made("observation", RunOf(p)))'
  BY <1>2 DEF Made
<1>10. PICK l : l = p.lease
  OBVIOUS
<1>11. HandRuns'
  BY <1>1, <1>2, <1>3, <1>4, <1>5, <1>8, <1>9, <1>10 DEF HandRuns
<1>12. HandAuthorized' /\ HandVerifies'
  BY <1>1, <1>2 DEF HandAuthorized, HandVerifies
<1>13. Onward
  BY <1>2 DEF Onward, ChainInv
<1> QED
  BY <1>2, <1>11, <1>12, <1>13, QuietStep

(* GitHubRefObservation.create: the observation is the activation's. *)
LEMMA RunnerObservesStep ==
    ASSUME ChainInv, RunnerObserves
    PROVE  ChainInv'
<1> DocumentsInv /\ "activation" \in DocumentKinds /\ "observation" \in DocumentKinds
    /\ "lease" \in DocumentKinds
  BY DEF ChainInv, DocumentKinds
<1>1. PICK h, t : h = hand /\ t = now
  OBVIOUS
<1>2. PICK o : o = RunnerObservation(h.run, h.target, h.sha, h.activation, t)
  OBVIOUS
<1>3. /\ h.step = "runner" /\ Issue({o}) /\ hand' = Idle
      /\ UNCHANGED <<registry, now, ref, moved>>
  BY <1>1, <1>2 DEF RunnerObserves
<1>4. /\ ~Made("observation", h.run)
      /\ h.activation \in issued["activation"] /\ RunOf(h.activation) = h.run
  BY <1>1, <1>3 DEF ChainInv, HandRuns
<1>5. PICK l \in issued["lease"] : h.activation.lease = l.digest /\ l.from <= t
  BY <1>1, <1>3 DEF ChainInv, HandRuns
<1>6. /\ o.digest = <<"observation", h.run>> /\ o.at = t
      /\ o.lease = h.activation.lease /\ o.activation = h.activation.digest
      /\ o.boundary = h.activation.boundary /\ o.execution = h.activation.execution
      /\ o.epoch = h.activation.epoch
  BY <1>2 DEF RunnerObservation
<1>7. RunOf(o) = h.run /\ o.digest[1] = "observation"
  BY <1>6 DEF RunOf
<1>8. ObservationFrom(o, h.activation)
  BY <1>4, <1>6, <1>7 DEF ObservationFrom
<1>9. Own("observation", o)
  BY <1>4, <1>6, <1>7, IssuedFound DEF Own
<1>10. h.activation \in issued'["activation"] /\ l \in issued'["lease"]
  BY <1>3, <1>4, IssueAdds DEF Grows
<1>11. Traced("observation", o)'
  <2>1. TracedObservation(o)'
    BY <1>5, <1>6, <1>8, <1>10 DEF TracedObservation
  <2> QED
    BY <2>1 DEF Traced
<1>12. Fresh({o}) /\ AllTraced({o})'
  BY <1>4, <1>7, <1>9, <1>11, OneDocument DEF FreshOne
<1>13. \A x \in {o} : x.digest[1] # "lease"
  BY <1>7
<1> QED
  BY <1>3, <1>12, <1>13, HandIssues

(* complete: once, under the current lease *)
LEMMA CompleteExecutionStep ==
    ASSUME ChainInv, NEW l \in issued["lease"], NEW o, CompleteExecution(l, o)
    PROVE  ChainInv'
<1> DocumentsInv /\ "completion" \in DocumentKinds /\ "lease" \in DocumentKinds
  BY DEF ChainInv, DocumentKinds
<1>1. PICK x : x = [digest |-> <<"completion", RunOf(l)>>, lease |-> l.digest,
                    execution |-> l.execution, epoch |-> l.epoch, of |-> o.digest]
  OBVIOUS
<1>2. Issue({x}) /\ UNCHANGED <<registry, now, ref, moved, hand>> /\ Current(l)
  BY <1>1 DEF CompleteExecution
<1>3. RunOf(x) = RunOf(l) /\ x.digest[1] = "completion" /\ x.digest = <<"completion", RunOf(l)>>
  BY <1>1 DEF RunOf
<1>4. ~Made("completion", RunOf(x))
  BY <1>2 DEF Current, Completed, Made
<1>5. Own("completion", x)
  BY <1>3, IssuedFound DEF Own
<1>6. Traced("completion", x)'
  BY DEF Traced
<1>7. Fresh({x}) /\ AllTraced({x})'
  BY <1>3, <1>4, <1>5, <1>6, OneDocument DEF FreshOne
<1>8. \A y \in {x} : y.digest[1] \notin {"grant", "observation", "readback", "lease"}
  BY <1>3
<1> QED
  BY <1>2, <1>7, <1>8, IssueStep

(* IndependentVerificationBoundary.create: the runtime is the observation's. *)
LEMMA OpenVerificationStep ==
    ASSUME ChainInv, NEW o \in issued["observation"], NEW v, NEW p \in Docs("prepared"),
           OpenVerification(v, p, o)
    PROVE  ChainInv'
<1> DocumentsInv /\ "observation" \in DocumentKinds /\ "activation" \in DocumentKinds
    /\ "verification" \in DocumentKinds /\ "prepared" \in DocumentKinds
  BY DEF ChainInv, DocumentKinds
<1>1. PICK vb : vb = VerificationBoundary(RunOf(o), v, p.runner, p.boundary, o)
  OBVIOUS
<1>2. /\ ~Made("verification", RunOf(o)) /\ Independent(v, p.runner, p.boundary, o)
      /\ Issue({vb}) /\ UNCHANGED <<registry, now, ref, moved, hand>>
  BY <1>1 DEF OpenVerification
<1>3. /\ o.boundary = p.boundary.digest /\ v.instance # p.runner.instance
      /\ v.credentialClass # p.boundary.credentialClass
  BY <1>2 DEF Independent, RunnerEvidenceBound
<1>4. PICK a \in issued["activation"] : ObservationFrom(o, a)
  BY IssuedFound DEF Traced, TracedObservation
<1>5. PICK q \in issued["prepared"] : ActivationFrom(a, q)
  BY IssuedFound DEF Traced, TracedActivation
<1>6. p = q
  <2>1. p.boundary.digest = q.boundary.digest
    BY <1>3, <1>4, <1>5 DEF ObservationFrom, ActivationFrom
  <2> QED
    BY <2>1, BoundaryFinds
<1>7. /\ vb.digest = <<"verification", RunOf(o)>> /\ vb.observation = o.digest
      /\ vb.execution = o.execution /\ vb.epoch = o.epoch /\ vb.target = o.target
      /\ vb.verifierInstance = v.instance /\ vb.verifierClass = v.credentialClass
  BY <1>1 DEF VerificationBoundary
<1>8. RunOf(vb) = RunOf(o) /\ vb.digest[1] = "verification"
  BY <1>7 DEF RunOf
<1>9. VerificationFrom(vb, o, p)
  BY <1>3, <1>7, <1>8 DEF VerificationFrom
<1>10. Own("verification", vb)
  BY <1>7, <1>8, IssuedFound DEF Own
<1>11. o \in issued'["observation"] /\ p \in issued'["prepared"]
  BY <1>2, <1>6, IssueAdds DEF Grows
<1>12. Traced("verification", vb)'
  BY <1>9, <1>11 DEF Traced, TracedVerification
<1>13. Fresh({vb}) /\ AllTraced({vb})'
  BY <1>2, <1>8, <1>10, <1>12, OneDocument DEF FreshOne
<1>14. \A x \in {vb} : x.digest[1] \notin {"grant", "observation", "readback", "lease"}
  BY <1>8
<1> QED
  BY <1>2, <1>13, <1>14, IssueStep

(* VerifierCredentialDecision.create: for the boundary's verifier *)
LEMMA DecideVerifierStep ==
    ASSUME ChainInv, NEW vb \in issued["verification"], NEW v, NEW policy, NEW from,
           NEW seconds, DecideVerifier(v, vb, policy, from, seconds)
    PROVE  ChainInv'
<1> DocumentsInv /\ "verification" \in DocumentKinds /\ "credential" \in DocumentKinds
  BY DEF ChainInv, DocumentKinds
<1>1. PICK d : d = VerifierDecision(RunOf(vb), v, vb, policy, from, from + seconds)
  OBVIOUS
<1>2. /\ ~Made("credential", RunOf(vb))
      /\ VerifierAccessAllowed(v, vb, policy, from, from + seconds)
      /\ Issue({d}) /\ UNCHANGED <<registry, now, ref, moved, hand>>
  BY <1>1 DEF DecideVerifier
<1>3. vb.verifierClass = policy.class
  BY <1>2 DEF VerifierAccessAllowed
<1>4. /\ d.digest = <<"credential", RunOf(vb)>> /\ d.verification = vb.digest
      /\ d.observation = vb.observation /\ d.target = vb.target
      /\ d.execution = vb.execution /\ d.epoch = vb.epoch /\ d.class = policy.class
  BY <1>1 DEF VerifierDecision
<1>5. RunOf(d) = RunOf(vb) /\ d.digest[1] = "credential"
  BY <1>4 DEF RunOf
<1>6. CredentialFrom(d, vb)
  BY <1>3, <1>4, <1>5 DEF CredentialFrom
<1>7. Own("credential", d)
  BY <1>4, <1>5, IssuedFound DEF Own
<1>8. vb \in issued'["verification"]
  BY <1>2, IssueAdds DEF Grows
<1>9. Traced("credential", d)'
  BY <1>6, <1>8 DEF Traced, TracedCredential
<1>10. Fresh({d}) /\ AllTraced({d})'
  BY <1>2, <1>5, <1>7, <1>9, OneDocument DEF FreshOne
<1>11. \A x \in {d} : x.digest[1] \notin {"grant", "observation", "readback", "lease"}
  BY <1>5
<1> QED
  BY <1>2, <1>10, <1>11, IssueStep

(* VerifierGitHubReadHandler.observe_ref before the read: the credential is the
   boundary's own and holds. *)
LEMMA VerifierReadsStep ==
    ASSUME ChainInv, NEW vb \in issued["verification"], NEW v, NEW d \in Docs("credential"),
           NEW target, VerifierReads(v, vb, d, target)
    PROVE  ChainInv'
<1> DocumentsInv /\ "verification" \in DocumentKinds /\ "credential" \in DocumentKinds
    /\ now \in Nat
  BY DEF ChainInv, DocumentKinds
<1>1. PICK h, t : h = hand' /\ t = now
  OBVIOUS
<1>2. /\ ~Made("readback", RunOf(vb)) /\ VerifierBound(v, vb, d, target)
      /\ CredentialHolds(d, t)
      /\ UNCHANGED <<registry, now, ref, moved, issued>>
      /\ h.step = "verifier" /\ h.run = RunOf(vb) /\ h.verifier = v /\ h.boundary = vb
      /\ h.decision = d /\ h.target = target /\ h.accessed = t
  BY <1>1 DEF VerifierReads
<1>3. /\ d.verification = vb.digest /\ target = vb.target
      /\ v.instance = vb.verifierInstance
  BY <1>2 DEF VerifierBound
<1>4. d.from <= t /\ t < d.until
  BY <1>2 DEF CredentialHolds
<1>5. d \in issued["credential"]
  <2>1. ~OfOther(d.verification)
    BY <1>3, OwnDigest
  <2> QED
    BY <2>1, OtherDocumentsAssumption DEF Docs
<1>6. (~Made("readback", RunOf(vb)))'
  BY <1>2 DEF Made
<1>7. HandVerifies'
  BY <1>1, <1>2, <1>3, <1>4, <1>5, <1>6 DEF HandVerifies
<1>8. HandAuthorized' /\ HandRuns'
  BY <1>1, <1>2 DEF HandAuthorized, HandRuns
<1>9. Onward
  BY <1>2 DEF Onward, ChainInv
<1> QED
  BY <1>2, <1>7, <1>8, <1>9, QuietStep

(* The read-back is the boundary's, under its credential. *)
LEMMA VerifierObservesStep ==
    ASSUME ChainInv, VerifierObserves
    PROVE  ChainInv'
<1> DocumentsInv /\ "verification" \in DocumentKinds /\ "credential" \in DocumentKinds
    /\ "readback" \in DocumentKinds
  BY DEF ChainInv, DocumentKinds
<1>1. PICK h, t : h = hand /\ t = now
  OBVIOUS
<1>2. PICK vb, d : vb = h.boundary /\ d = h.decision
  OBVIOUS
<1>3. PICK vo : vo = VerifierObservation(h.run, h.target, h.sha, h.verifier, vb, d,
                                         h.accessed, t)
  OBVIOUS
<1>4. /\ h.step = "verifier" /\ Issue({vo}) /\ hand' = Idle
      /\ UNCHANGED <<registry, now, ref, moved>>
  BY <1>1, <1>2, <1>3 DEF VerifierObserves
<1>5. /\ ~Made("readback", h.run)
      /\ vb \in issued["verification"] /\ RunOf(vb) = h.run
      /\ d \in issued["credential"] /\ d.verification = vb.digest
      /\ h.target = vb.target /\ h.verifier.instance = vb.verifierInstance
      /\ d.from <= h.accessed /\ h.accessed < d.until /\ h.accessed <= t
  BY <1>1, <1>2, <1>4 DEF ChainInv, HandVerifies
<1>6. /\ vo.digest = <<"readback", h.run>> /\ vo.verification = vb.digest
      /\ vo.decision = d.digest /\ vo.observation = vb.observation
      /\ vo.target = h.target /\ vo.execution = vb.execution /\ vo.epoch = vb.epoch
      /\ vo.instance = h.verifier.instance /\ vo.accessed = h.accessed /\ vo.at = t
  BY <1>3 DEF VerifierObservation
<1>7. RunOf(vo) = h.run /\ vo.digest[1] = "readback"
  BY <1>6 DEF RunOf
<1>8. ReadbackFrom(vo, vb, d)
  BY <1>5, <1>6, <1>7 DEF ReadbackFrom
<1>9. Own("readback", vo)
  BY <1>5, <1>6, <1>7, IssuedFound DEF Own
<1>10. vb \in issued'["verification"] /\ d \in issued'["credential"]
  BY <1>4, <1>5, IssueAdds DEF Grows
<1>11. Traced("readback", vo)'
  BY <1>8, <1>10 DEF Traced, TracedReadback
<1>12. Fresh({vo}) /\ AllTraced({vo})'
  BY <1>5, <1>7, <1>9, <1>11, OneDocument DEF FreshOne
<1>13. \A x \in {vo} : x.digest[1] # "lease"
  BY <1>7
<1> QED
  BY <1>4, <1>12, <1>13, HandIssues

(* verify_github_ref_readback: observation, boundary and read-back are of one
   another. *)
LEMMA VerifyStep ==
    ASSUME ChainInv, NEW o \in issued["observation"], NEW vo \in Docs("readback"),
           NEW vb \in Docs("verification"), Verify(o, vo, vb)
    PROVE  ChainInv'
<1> DocumentsInv /\ "verification" \in DocumentKinds /\ "observation" \in DocumentKinds
    /\ "readback" \in DocumentKinds /\ "postState" \in DocumentKinds
    /\ "strength" \in DocumentKinds /\ "result" \in DocumentKinds
  BY DEF ChainInv, DocumentKinds
<1>1. PICK n, s, t : n = RunOf(o) /\ s = ObservedPostState(n, vo, vb)
                     /\ t = VerificationStrength(n, vo, vb)
  OBVIOUS
<1>2. PICK r : r = VerificationResult(n, o, vo, vb, s, t)
  OBVIOUS
<1>3. /\ ~Made("result", n) /\ VerificationEvidenceBound(o, vo, vb)
      /\ Issue({s, t, r}) /\ UNCHANGED <<registry, now, ref, moved, hand>>
  BY <1>1, <1>2 DEF Verify
<1>4. /\ vb.observation = o.digest /\ vo.observation = o.digest
      /\ vo.verification = vb.digest /\ o.at <= vo.at
  BY <1>3 DEF VerificationEvidenceBound
<1>5. vb \in issued["verification"] /\ vo \in issued["readback"]
  <2>1. ~OfOther(vb.observation) /\ ~OfOther(vo.observation)
    BY <1>4, OwnDigest
  <2> QED
    BY <2>1, OtherDocumentsAssumption DEF Docs
<1>6. s.digest = <<"postState", n>> /\ s.readback = vo.digest
      /\ t.digest = <<"strength", n>> /\ t.readback = vo.digest
  BY <1>1 DEF ObservedPostState, VerificationStrength
<1>7. /\ r.digest = <<"result", n>> /\ r.observation = o.digest /\ r.readback = vo.digest
      /\ r.verification = vb.digest /\ r.state = s.digest /\ r.strength = t.digest
      /\ r.execution = vo.execution /\ r.epoch = vo.epoch /\ r.target = vo.target
      /\ r.at = vo.at
  BY <1>2 DEF VerificationResult
<1>8. r.verdict = "VERIFIED" => vo.sha = o.sha
  BY <1>2 DEF VerificationResult
<1>9. ResultFrom(r, o, vo, vb, s, t)
  BY <1>4, <1>6, <1>7, <1>8 DEF ResultFrom
<1>10. /\ RunOf(s) = n /\ s.digest[1] = "postState" /\ RunOf(t) = n
       /\ t.digest[1] = "strength" /\ RunOf(r) = n /\ r.digest[1] = "result"
  BY <1>6, <1>7 DEF RunOf
<1>11. Own("postState", s) /\ Own("strength", t) /\ Own("result", r)
  <2>1. n \in Runs
    BY <1>1, IssuedFound DEF Own
  <2> QED
    BY <1>6, <1>7, <1>10, <2>1 DEF Own
<1>12. ~Made("postState", n) /\ ~Made("strength", n)
  BY <1>3, IssuedFound DEF Made, Traced, TracedPart
<1>13. /\ o \in issued'["observation"] /\ vo \in issued'["readback"]
       /\ vb \in issued'["verification"] /\ s \in issued'["postState"]
       /\ t \in issued'["strength"] /\ r \in issued'["result"]
  BY <1>3, <1>5, <1>10, IssueAdds DEF Grows
<1>14. Traced("postState", s)' /\ Traced("strength", t)'
  BY <1>10, <1>13 DEF Traced, TracedPart
<1>15. Traced("result", r)'
  BY <1>9, <1>13 DEF Traced, TracedResult
<1>16. Fresh({s, t, r})
  BY <1>3, <1>10, <1>11, <1>12 DEF Fresh, FreshOne
<1>17. AllTraced({s, t, r})'
  BY <1>10, <1>14, <1>15 DEF AllTraced
<1>18. \A d \in {s, t, r} :
          d.digest[1] \notin {"grant", "observation", "readback", "lease"}
  BY <1>10
<1> QED
  BY <1>3, <1>16, <1>17, <1>18, IssueStep

(* _bind_read_result: result, observation, completion and lease are of one
   another. *)
LEMMA BindReadStep ==
    ASSUME ChainInv, BindRead
    PROVE  ChainInv'
<1> DocumentsInv /\ "result" \in DocumentKinds /\ "observation" \in DocumentKinds
    /\ "readback" \in DocumentKinds /\ "completion" \in DocumentKinds
    /\ "terminal" \in DocumentKinds
  BY DEF ChainInv, DocumentKinds
<1>1. ~Made("terminal", Authority) /\ UNCHANGED <<registry, now, ref, moved, hand>>
  BY DEF BindRead
<1>2. PICK r \in {x \in Docs("result") : x.execution = Execution} :
         \E vo \in Named("readback", r.readback), vb \in Named("verification", r.verification),
            o \in Named("observation", r.observation), l \in Docs("lease"), v \in Verifiers :
         /\ ResultOf(l, v, r)
         /\ \E s \in Docs("postState"), t \in Docs("strength"), d \in Docs("credential"),
               done \in Docs("completion") :
            /\ r.state = s.digest /\ r.strength = t.digest
            /\ ReadBack(l, o, v, vb, d, vo) /\ ObservedUnder(l, o, done)
            /\ \E a \in Docs("admission"), envelope \in Docs("envelope"),
                  entry \in Docs("outbox"), g \in Docs("grant") :
               /\ PreparedBound(l, a, envelope, entry, g)
               /\ Issue({[digest |-> <<"terminal", Authority>>, grant |-> g.digest,
                          lease |-> l.digest, completion |-> done.digest,
                          result |-> r.digest, decision |-> d.digest]})
  BY Zenon DEF BindRead
<1>3. PICK vo \in Named("readback", r.readback), vb \in Named("verification", r.verification),
           o \in Named("observation", r.observation), l \in Docs("lease"), v \in Verifiers :
         /\ ResultOf(l, v, r)
         /\ \E s \in Docs("postState"), t \in Docs("strength"), d \in Docs("credential"),
               done \in Docs("completion") :
            /\ r.state = s.digest /\ r.strength = t.digest
            /\ ReadBack(l, o, v, vb, d, vo) /\ ObservedUnder(l, o, done)
            /\ \E a \in Docs("admission"), envelope \in Docs("envelope"),
                  entry \in Docs("outbox"), g \in Docs("grant") :
               /\ PreparedBound(l, a, envelope, entry, g)
               /\ Issue({[digest |-> <<"terminal", Authority>>, grant |-> g.digest,
                          lease |-> l.digest, completion |-> done.digest,
                          result |-> r.digest, decision |-> d.digest]})
  BY <1>2, Zenon
<1>4. PICK d \in Docs("credential"), done \in Docs("completion") :
         /\ ReadBack(l, o, v, vb, d, vo) /\ ObservedUnder(l, o, done)
         /\ \E g \in Docs("grant") :
               Issue({[digest |-> <<"terminal", Authority>>, grant |-> g.digest,
                       lease |-> l.digest, completion |-> done.digest,
                       result |-> r.digest, decision |-> d.digest]})
  BY <1>3, Zenon
<1>5. PICK g \in Docs("grant") :
          Issue({[digest |-> <<"terminal", Authority>>, grant |-> g.digest,
                  lease |-> l.digest, completion |-> done.digest,
                  result |-> r.digest, decision |-> d.digest]})
  BY <1>4, Zenon
<1>6. PICK x : x = [digest |-> <<"terminal", Authority>>, grant |-> g.digest,
                    lease |-> l.digest, completion |-> done.digest,
                    result |-> r.digest, decision |-> d.digest]
  OBVIOUS
<1>7. Issue({x})
  BY <1>5, <1>6
<1>8. r \in issued["result"]
  BY OtherDocumentsAssumption DEF Docs
<1>9. o \in Docs("observation") /\ o.digest = r.observation
      /\ vo \in Docs("readback") /\ vo.digest = r.readback
  BY DEF Named
<1>10. /\ r.target = Snapshot.terms.target /\ done.of = o.digest
      /\ done.lease = o.lease /\ l.digest = o.lease /\ vo.decision = d.digest
  BY <1>3, <1>4 DEF ResultOf, ObservedUnder, ReadBack
<1>11. /\ x.digest = <<"terminal", Authority>> /\ x.lease = l.digest
      /\ x.completion = done.digest /\ x.result = r.digest /\ x.decision = d.digest
  BY <1>6
<1>12. Own("terminal", x) /\ x.digest[1] = "terminal" /\ RunOf(x) = Authority
  BY <1>11, AuthorityRuns
<1>13. r \in issued'["result"] /\ o \in Docs("observation")' /\ vo \in Docs("readback")'
       /\ done \in Docs("completion")'
  BY <1>7, <1>8, <1>9, IssueAdds DEF Grows, Docs
<1>14. Traced("terminal", x)'
  <2>1. TracedTerminal(x)'
    BY <1>9, <1>10, <1>11, <1>13 DEF TracedTerminal
  <2> QED
    BY <2>1 DEF Traced
<1>15. Fresh({x}) /\ AllTraced({x})'
  BY <1>1, <1>12, <1>14, OneDocument DEF FreshOne
<1>16. \A y \in {x} : y.digest[1] \notin {"grant", "observation", "readback", "lease"}
  BY <1>12
<1> QED
  BY <1>1, <1>7, <1>15, <1>16, IssueStep

(* ExecutionReceiptV2: of the operation's grant *)
LEMMA RecordReceiptStep ==
    ASSUME ChainInv, NEW g \in issued["grant"], RecordReceipt(g)
    PROVE  ChainInv'
<1> DocumentsInv /\ "grant" \in DocumentKinds /\ "receipt" \in DocumentKinds
  BY DEF ChainInv, DocumentKinds
<1>1. PICK x : x = Receipt(g, now)
  OBVIOUS
<1>2. /\ ~Made("receipt", Authority) /\ Issue({x})
      /\ UNCHANGED <<registry, now, ref, moved, hand>>
  BY <1>1 DEF RecordReceipt
<1>3. x.digest = <<"receipt", Authority>> /\ x.grant = g.digest
  BY <1>1 DEF Receipt
<1>4. g.digest = <<"grant", Authority>>
  BY IssuedFound DEF Traced, Own
<1>5. Own("receipt", x) /\ x.digest[1] = "receipt" /\ RunOf(x) = Authority
  BY <1>3, AuthorityRuns
<1>6. Traced("receipt", x)'
  BY <1>3, <1>4 DEF Traced, TracedReceipt
<1>7. Fresh({x}) /\ AllTraced({x})'
  BY <1>2, <1>5, <1>6, OneDocument DEF FreshOne
<1>8. \A y \in {x} : y.digest[1] \notin {"grant", "observation", "readback", "lease"}
  BY <1>5
<1> QED
  BY <1>2, <1>7, <1>8, IssueStep

(* OperationProofV2.create: receipt and result are of the same execution and
   target, and the receipt was recorded first. *)
LEMMA ProveStep ==
    ASSUME ChainInv, NEW r \in issued["result"], NEW receipt \in Docs("receipt"),
           Prove(receipt, r)
    PROVE  ChainInv'
<1> DocumentsInv /\ "result" \in DocumentKinds /\ "receipt" \in DocumentKinds
    /\ "proof" \in DocumentKinds
  BY DEF ChainInv, DocumentKinds
<1>1. PICK x : x = [digest |-> <<"proof", Authority>>, receipt |-> receipt.digest,
                    result |-> r.digest, execution |-> r.execution, epoch |-> r.epoch,
                    recorded |-> receipt.recorded, checked |-> r.at]
  OBVIOUS
<1>2. /\ ~Made("proof", Authority) /\ Issue({x})
      /\ receipt.execution = r.execution /\ receipt.target = r.target
      /\ r.verdict = "VERIFIED" /\ receipt.recorded <= r.at
      /\ UNCHANGED <<registry, now, ref, moved, hand>>
  BY <1>1 DEF Prove
<1>3. x.digest = <<"proof", Authority>> /\ x.receipt = receipt.digest /\ x.result = r.digest
  BY <1>1
<1>4. r.execution = Execution
  <2>1. PICK o, vo, vb, s, t, d, a, p, l : ResultChain(r, o, vo, vb, s, t, d, a, p, l)
    BY ResultHasChain
  <2>2. l \in issued["lease"] /\ r.execution = l.execution
    BY <2>1 DEF ResultChain, ResultFrom, ReadbackFrom, VerificationFrom, ObservationFrom,
       ActivationFrom, PreparedFrom
  <2> QED
    BY <2>2, LeaseGranted
<1>5. receipt \in issued["receipt"]
  BY <1>2, <1>4, OtherDocumentsAssumption DEF Docs
<1>6. Own("proof", x) /\ x.digest[1] = "proof" /\ RunOf(x) = Authority
  BY <1>3, AuthorityRuns
<1>7. receipt \in issued'["receipt"] /\ r \in issued'["result"]
  BY <1>2, <1>5, IssueAdds DEF Grows
<1>8. Traced("proof", x)'
  <2>1. TracedProof(x)'
    BY <1>2, <1>3, <1>7 DEF TracedProof
  <2> QED
    BY <2>1 DEF Traced
<1>9. Fresh({x}) /\ AllTraced({x})'
  BY <1>2, <1>6, <1>8, OneDocument DEF FreshOne
<1>10. \A y \in {x} : y.digest[1] \notin {"grant", "observation", "readback", "lease"}
  BY <1>6
<1> QED
  BY <1>2, <1>9, <1>10, IssueStep

(* The clock, the provider's refs and stuttering change no document. *)
LEMMA SurroundingsStep ==
    ASSUME ChainInv, Onward, UNCHANGED <<registry, issued, hand>>
    PROVE  ChainInv'
<1>1. Grows
  BY DEF Grows
<1>2. HandAuthorized' /\ HandRuns' /\ HandVerifies'
  BY <1>1, HandKept DEF ChainInv
<1> QED
  BY <1>2, QuietStep
-----------------------------------------------------------------------------
(* At first there is no document. *)
LEMMA ChainInitInv ==
    ASSUME ChainInit
    PROVE  ChainInv
<1>1. \A kind \in DocumentKinds : issued[kind] = {}
  BY DEF ChainInit
<1>2. Leases = {} /\ Epochs = {}
  BY <1>1 DEF Leases, Epochs, DocumentKinds
<1>3. hand.step = "idle"
  BY DEF ChainInit, Idle
<1>4. DocumentsInv
  BY <1>1 DEF DocumentsInv
<1>5. IsFiniteSet(Epochs)
  BY <1>2, FS_EmptySet
<1>6. LeasesCounted
  BY <1>2, <1>5 DEF LeasesCounted
<1>7. HandAuthorized /\ HandRuns /\ HandVerifies
  BY <1>3 DEF HandAuthorized, HandRuns, HandVerifies
<1> QED
  BY <1>4, <1>6, <1>7 DEF ChainInv, ChainInit

(* Every step keeps the invariant. *)
LEMMA ChainNextInv ==
    ASSUME ChainInv, [ChainNext]_chainVars
    PROVE  ChainInv'
<1>1. ASSUME NEW until \in {Snapshot.until, Snapshot.until + 1},
             NEW c \in registry.capsules, NEW q \in registry.requirements,
             NEW b \in registry.binders, NEW o \in registry.observers,
             PreconditionRead(AuthorityConstraint(AuthorityScope(Snapshot), Snapshot.terms,
                                                  Snapshot.at, until), c, q, b, o)
      PROVE  ChainInv'
  BY <1>1, PreconditionReadStep
<1>2. CASE WitnessPrecondition
  BY <1>2, WitnessPreconditionStep
<1>3. CASE IssueGrantDocument
  BY <1>3, IssueGrantStep
<1>4. CASE GiveUp
  BY <1>4, GiveUpStep
<1>5. ASSUME NEW g \in issued["grant"], NEW c \in registry.capsules,
             NEW e \in registry.evidence, NEW presented \in Docs("grant"),
             ConsumeGrant(g, c, e, presented)
      PROVE  ChainInv'
  BY <1>5, ConsumeGrantStep
<1>6. ASSUME NEW entry \in issued["outbox"], NEW presented \in Docs("outbox"),
             AdmitEnvelope(entry, presented)
      PROVE  ChainInv'
  BY <1>6, AdmitEnvelopeStep
<1>7. ASSUME NEW a \in issued["admission"], AcquireLeaseDocument(a)
      PROVE  ChainInv'
  BY <1>7, AcquireLeaseStep
<1>8. ASSUME NEW l \in issued["lease"], NEW c \in registry.capsules,
             NEW d \in registry.definitions, NEW bootstrap \in Bootstraps,
             NEW policy \in BrokerPolicies, PrepareRuntime(l, c, d, bootstrap, policy)
      PROVE  ChainInv'
  BY <1>8, PrepareRuntimeStep
<1>9. ASSUME NEW p \in issued["prepared"], ActivateRuntime(p)
      PROVE  ChainInv'
  BY <1>9, ActivateRuntimeStep
<1>10. ASSUME NEW p \in issued["prepared"], NEW a \in Docs("activation"),
              NEW target \in Targets, RunnerReads(p, a, target)
       PROVE  ChainInv'
  BY <1>10, RunnerReadsStep
<1>11. CASE RunnerObserves
  BY <1>11, RunnerObservesStep
<1>12. ASSUME NEW l \in issued["lease"], NEW o \in Docs("observation"),
              CompleteExecution(l, o)
       PROVE  ChainInv'
  BY <1>12, CompleteExecutionStep
<1>13. ASSUME NEW o \in issued["observation"], NEW v \in Verifiers,
              NEW p \in Docs("prepared"), OpenVerification(v, p, o)
       PROVE  ChainInv'
  BY <1>13, OpenVerificationStep
<1>14. ASSUME NEW vb \in issued["verification"], NEW v \in Verifiers,
              NEW policy \in VerifierPolicies, NEW from \in VerifierStarts,
              NEW seconds \in VerifierSeconds, DecideVerifier(v, vb, policy, from, seconds)
       PROVE  ChainInv'
  BY <1>14, DecideVerifierStep
<1>15. ASSUME NEW vb \in issued["verification"], NEW v \in Verifiers,
              NEW d \in Docs("credential"), NEW target \in Targets,
              VerifierReads(v, vb, d, target)
       PROVE  ChainInv'
  BY <1>15, VerifierReadsStep
<1>16. CASE VerifierObserves
  BY <1>16, VerifierObservesStep
<1>17. ASSUME NEW o \in issued["observation"], NEW vo \in Docs("readback"),
              NEW vb \in Docs("verification"), Verify(o, vo, vb)
       PROVE  ChainInv'
  BY <1>17, VerifyStep
<1>18. CASE BindRead
  BY <1>18, BindReadStep
<1>19. ASSUME NEW g \in issued["grant"], RecordReceipt(g)
       PROVE  ChainInv'
  BY <1>19, RecordReceiptStep
<1>20. ASSUME NEW r \in issued["result"], NEW receipt \in Docs("receipt"),
              Prove(receipt, r)
       PROVE  ChainInv'
  BY <1>20, ProveStep
<1>21. CASE TimePasses
  <2>1. Onward /\ UNCHANGED <<registry, issued, hand>>
    BY <1>21 DEF TimePasses, Onward, ChainInv
  <2> QED
    BY <2>1, SurroundingsStep
<1>22. ASSUME NEW target \in Targets, NEW sha \in Shas, RefMoves(target, sha)
       PROVE  ChainInv'
  <2>1. Onward /\ UNCHANGED <<registry, issued, hand>>
    BY <1>22 DEF RefMoves, Onward, ChainInv
  <2> QED
    BY <2>1, SurroundingsStep
<1>23. CASE UNCHANGED chainVars
  <2>1. Onward /\ UNCHANGED <<registry, issued, hand>>
    BY <1>23 DEF chainVars, Onward, ChainInv
  <2> QED
    BY <2>1, SurroundingsStep
<1> QED
  BY <1>1, <1>2, <1>3, <1>4, <1>5, <1>6, <1>7, <1>8, <1>9, <1>10, <1>11, <1>12, <1>13,
     <1>14, <1>15, <1>16, <1>17, <1>18, <1>19, <1>20, <1>21, <1>22, <1>23 DEF ChainNext

(* The documents of a READ always go back to one another as the invariant says,
   for every registry, policy, deployment and set of foreign documents. *)
THEOREM ChainInvariance == ChainSpec => []ChainInv
<1>1. ChainInit => ChainInv
  BY ChainInitInv
<1>2. ChainInv /\ [ChainNext]_chainVars => ChainInv'
  BY ChainNextInv
<1> QED
  BY <1>1, <1>2, PTL DEF ChainSpec

(* Evidence of two leases, operations, targets or read-backs never comes together
   in one verification result, bound terminal result or operation proof
   (verification_result._assert_verification_evidence_bound,
   control_plane_runtime._bind_read_result, OperationProofV2.create). *)
THEOREM EvidenceAlwaysOfOne == ChainSpec => []EvidenceIsOfOne
<1>1. ChainInv => EvidenceIsOfOne
  BY ChainInvEvidence
<1> QED
  BY <1>1, ChainInvariance, PTL
================================================================================
