-------------------- MODULE CheckpointPublication_proofs --------------------
(***************************************************************************)
(* Proofs about CheckpointPublication, for any number of captures and      *)
(* finalizers, commits and prepared candidates, and any number of changes  *)
(* around them.                                                            *)
(***************************************************************************)
EXTENDS CheckpointPublication, TLAPS

Tree == Trees(Names)

(* Where a capture has a staging directory, where that has its documents, and
   where the candidate is its own. *)
Staged == {"begun", "source", "stable", "smoked", "runtime", "built", "documented",
           "sealed", "verified", "promotable", "open"}
Written == {"documented", "sealed", "verified", "promotable", "open"}
Shown == {"published", "resealed", "reverified"}

(* The completion marker is this capture's, about the commit it observed. *)
Marked(t, p) == t # NoTree /\ Has(t, "completion") /\ t.files["completion"] = About(seen[p], p)

CaptureKnows(p) ==
    LET candidate == disk["candidate"] IN
    /\ pc[p] \in Staged \cup Shown => seen[p] \in Commits
    /\ pc[p] \in Staged => disk[p] # NoTree
    /\ pc[p] \in Written => Marked(disk[p], p)
    /\ pc[p] \in Shown => disk[p] = NoTree /\ Marked(candidate, p)
    /\ pc[p] \in Shown \cup {"open"} => p \notin images
    /\ pc[p] \in {"resealed", "reverified"} =>
          candidate.sealed = TRUE /\ ~Has(candidate, "metadata")
    /\ pc[p] = "reverified" => ValidWithoutWarnings(candidate)

(* Where a finalizer has its copy, where the copy has its new manifest, where the
   checkpoint is its own, and where all of that is still to come. *)
Copied == {"copied", "frozen", "open"}
Frozen == {"frozen", "open"}
Final == {"published", "resealed", "finalized"}

SameContent(t, s) == t.files = s.files /\ t.manifest = s.manifest
NewManifest(t) == Remanifested(t).manifest

(* Between the first snapshot and the second: what is verified is what was seen,
   or the candidate has been changed, and has to be changed back to be taken. *)
FinalizerSaw(p) ==
    LET candidate == disk["candidate"] IN
    /\ pc[p] \in {"snapshot", "accepted"} => candidate # NoTree
    /\ pc[p] = "snapshot" => SameContent(candidate, seen[p]) \/ faults >= 1
    /\ pc[p] = "accepted" =>
          \/ Valid(seen[p])
          \/ faults >= 1 /\ ~SameContent(candidate, seen[p])
          \/ faults >= 2
    /\ pc[p] \in {"copying"} \cup Copied \cup Final /\ faults < 2 => Valid(seen[p])

FinalizerKnows(p) ==
    LET checkpoint == disk["checkpoint"] IN
    /\ pc[p] \in {"snapshot", "accepted", "copying"} \cup Copied \cup Final => seen[p] \in Tree
    /\ FinalizerSaw(p)
    /\ pc[p] \in Copied => disk[p] # NoTree
    /\ pc[p] \in Frozen \cup Final => Has(seen[p], "runtime")
    /\ pc[p] \in Frozen => disk[p].manifest = NewManifest(seen[p])
    /\ pc[p] \in Final => checkpoint # NoTree /\ checkpoint.manifest = NewManifest(seen[p])
    /\ pc[p] \in {"resealed", "finalized"} => checkpoint.sealed = TRUE
    /\ pc[p] = "finalized" => ValidWithoutWarnings(checkpoint)

(* A process has nothing before it begins, and is done once it has reported. *)
Tidy(p) ==
    /\ pc[p] = "idle" => disk[p] = NoTree /\ p \notin images /\ lock # p
    /\ report[p] # "none" => pc[p] = "done"
    /\ report[p] \in {"captured", "finalized", "failed"} =>
          disk[p] = NoTree /\ p \notin images /\ lock # p

Knows(p) ==
    /\ Tidy(p)
    /\ p \in Capturers => CaptureKnows(p)
    /\ p \in Finalizers => FinalizerKnows(p)

IInv == TypeOK /\ \A p \in Procs : Knows(p)
-----------------------------------------------------------------------------
(* Files by name, as functions. *)
LEMMA FilesAre ==
    ASSUME NEW f
    PROVE  f \in Files(Names) <=> DOMAIN f \subseteq Names /\ f \in [DOMAIN f -> Contents]
BY DEF Files

(* Tree u is t with bytes b in the files N. *)
Wrote(u, t, N, b) ==
    /\ u \in Tree
    /\ u.manifest = t.manifest
    /\ u.sealed = t.sealed
    /\ DOMAIN u.files = DOMAIN t.files \cup N
    /\ \A m \in N : u.files[m] = b
    /\ \A m \in DOMAIN t.files \ N : u.files[m] = t.files[m]

(* What is added to a tree, taken from it or said of its root. *)
LEMMA FilesAdded ==
    ASSUME NEW t \in Tree, NEW N \in SUBSET Names, NEW b \in Contents
    PROVE  Wrote(WithFiles(t, N, b), t, N, b)
<1> DEFINE f == [m \in DOMAIN t.files \cup N |-> IF m \in N THEN b ELSE t.files[m]]
<1>1. f \in Files(Names)
  <2>1. DOMAIN t.files \subseteq Names /\ t.files \in [DOMAIN t.files -> Contents]
    BY FilesAre DEF Tree, Trees
  <2>2. DOMAIN f \subseteq Names /\ f \in [DOMAIN f -> Contents]
    BY <2>1
  <2> QED
    BY <2>2, FilesAre
<1>2. WithFiles(t, N, b) = [t EXCEPT !.files = f]
  BY DEF WithFiles
<1>3. /\ DOMAIN f = DOMAIN t.files \cup N
      /\ \A m \in N : f[m] = b
      /\ \A m \in DOMAIN t.files \ N : f[m] = t.files[m]
  OBVIOUS
<1> HIDE DEF f
<1>4. /\ WithFiles(t, N, b) \in Tree
      /\ WithFiles(t, N, b).files = f
      /\ WithFiles(t, N, b).manifest = t.manifest
      /\ WithFiles(t, N, b).sealed = t.sealed
  BY <1>1, <1>2 DEF Tree, Trees
<1> QED
  BY <1>3, <1>4 DEF Wrote

(* One file added to a tree. *)
LEMMA FileAdded ==
    ASSUME NEW t \in Tree, NEW n \in Names, NEW b \in Contents
    PROVE  /\ WithFile(t, n, b) \in Tree
           /\ WithFile(t, n, b).manifest = t.manifest
           /\ WithFile(t, n, b).sealed = t.sealed
           /\ DOMAIN WithFile(t, n, b).files = DOMAIN t.files \cup {n}
           /\ WithFile(t, n, b).files[n] = b
           /\ \A m \in DOMAIN t.files \ {n} : WithFile(t, n, b).files[m] = t.files[m]
<1>1. {n} \in SUBSET Names
  OBVIOUS
<1>2. WithFile(t, n, b) = WithFiles(t, {n}, b)
  BY DEF WithFile, WithFiles
<1>3. Wrote(WithFile(t, n, b), t, {n}, b)
  BY <1>1, <1>2, FilesAdded
<1> QED
  BY <1>3 DEF Wrote

(* One file taken from a tree. *)
LEMMA FileRemoved ==
    ASSUME NEW t \in Tree, NEW n
    PROVE  /\ Without(t, n) \in Tree
           /\ Without(t, n).manifest = t.manifest
           /\ Without(t, n).sealed = t.sealed
           /\ DOMAIN Without(t, n).files = DOMAIN t.files \ {n}
           /\ \A m \in DOMAIN t.files \ {n} : Without(t, n).files[m] = t.files[m]
<1> DEFINE f == [m \in DOMAIN t.files \ {n} |-> t.files[m]]
<1>1. f \in Files(Names)
  <2>1. DOMAIN t.files \subseteq Names /\ t.files \in [DOMAIN t.files -> Contents]
    BY FilesAre DEF Tree, Trees
  <2>2. DOMAIN f \subseteq Names /\ f \in [DOMAIN f -> Contents]
    BY <2>1
  <2> QED
    BY <2>2, FilesAre
<1>2. Without(t, n) = [t EXCEPT !.files = f]
  BY DEF Without
<1> HIDE DEF f
<1>3. /\ Without(t, n) \in Tree
      /\ Without(t, n).files = f
      /\ Without(t, n).manifest = t.manifest
      /\ Without(t, n).sealed = t.sealed
  BY <1>1, <1>2 DEF Tree, Trees
<1> QED
  BY <1>3 DEF f

(* Opening or sealing the root leaves what is in it. *)
LEMMA RootSealed ==
    ASSUME NEW t \in Tree
    PROVE  /\ Sealed(t) \in Tree /\ Unsealed(t) \in Tree
           /\ Sealed(t).sealed = TRUE
           /\ SameContent(Sealed(t), t) /\ SameContent(Unsealed(t), t)
BY DEF Tree, Trees, Sealed, Unsealed, SameContent

(* A manifest of all the files says what they are. *)
LEMMA TreeManifested ==
    ASSUME NEW t \in Tree
    PROVE  /\ Manifested(t) \in Tree
           /\ Manifested(t).files = t.files
           /\ Manifested(t).manifest = t.files
           /\ Manifested(t).sealed = t.sealed
BY DEF Tree, Trees, Manifested

(* Nothing is nothing: no tree is NoTree, and an empty one has no manifest. *)
LEMMA TreesAre ==
    /\ NoTree \notin Tree
    /\ NoManifest \notin Files(Names)
    /\ EmptyTree \in Tree
    /\ EmptyTree.manifest = NoManifest
    /\ Junk \in Contents /\ Link \in Contents
    /\ \A t : IsTree(t) => t \in Tree
    /\ \A t \in Tree : t.files \in Files(Names)
<1>1. NoTree \notin Tree
  BY AbsentAssumption DEF Tree
<1>2. NoManifest \notin Files(Names)
  BY AbsentAssumption DEF Files
<1>3. EmptyTree \in Tree /\ EmptyTree.manifest = NoManifest
  <2>1. <<>> \in [{} -> Contents]
    OBVIOUS
  <2>2. <<>> \in Files(Names)
    BY <2>1 DEF Files
  <2> QED
    BY <2>2 DEF EmptyTree, Tree, Trees
<1>4. Junk \in Contents /\ Link \in Contents
  BY DEF Contents
<1>5. ASSUME NEW t, IsTree(t) PROVE t \in Tree
  <2>1. t.files \in Files(Names) /\ t.manifest \in Files(Names) \cup {NoManifest}
    BY <1>5, FilesAre DEF IsTree, AreFiles
  <2> QED
    BY <1>5, <2>1 DEF IsTree, Tree, Trees
<1>6. \A t \in Tree : t.files \in Files(Names)
  BY DEF Tree, Trees
<1> QED
  BY <1>1, <1>2, <1>3, <1>4, <1>5, <1>6

(* What a run writes about a commit is content. *)
LEMMA AboutIs ==
    ASSUME NEW c \in Commits, NEW p \in Procs
    PROVE  About(c, p) \in Contents
BY ProcessesAreMakers DEF About, Contents, Procs

(* The verifier looks at the content of a tree and not at its root's mode. *)
LEMMA ValidLooksAtContent ==
    ASSUME NEW s \in Tree, NEW t \in Tree, SameContent(s, t)
    PROVE  /\ Valid(s) <=> Valid(t)
           /\ ValidWithoutWarnings(s) <=> ValidWithoutWarnings(t)
<1>1. s # NoTree /\ t # NoTree /\ s.files = t.files /\ s.manifest = t.manifest
  BY TreesAre DEF SameContent
<1> QED
  BY <1>1 DEF Valid, ValidWithoutWarnings, NestedWarnings, RootIsDirectory, OuterManifestHolds,
     OnlyRegularFiles, ProvenanceAgrees, BundleMatches, SourceMatches, ArchiveMatches,
     RuntimeMatches, ExceptionReadable, WellFormed, Has

(* A valid tree holds what its manifest says. *)
LEMMA ValidIsManifested ==
    ASSUME NEW t \in Tree, Valid(t)
    PROVE  t.manifest = t.files
<1>1. /\ t.manifest # NoManifest
      /\ DOMAIN t.manifest = DOMAIN t.files
      /\ \A n \in DOMAIN t.manifest : t.manifest[n] = t.files[n]
  BY DEF Valid, OuterManifestHolds
<1>2. t.manifest \in Files(Names) /\ t.files \in Files(Names)
  BY <1>1 DEF Tree, Trees
<1>3. t.manifest \in [DOMAIN t.manifest -> Contents] /\ t.files \in [DOMAIN t.files -> Contents]
  BY <1>2, FilesAre
<1> QED
  BY <1>1, <1>3

(* The manifests written anew cover every file, and change none but their own. *)
LEMMA ManifestsRenewed ==
    ASSUME NEW t \in Tree, Has(t, "runtime")
    PROVE  /\ Remanifested(t) \in Tree
           /\ Remanifested(t).manifest \in Files(Names)
           /\ Remanifested(t).files = Remanifested(t).manifest
           /\ Payload(Remanifested(t)) = Payload(t)
<1> DEFINE b == t.files["runtime"]
<1>1. b \in Contents
  BY TreesAre, FilesAre DEF Has
<1>2. "nested" \in Names
  BY DEF Names
<1> HIDE DEF b
<1> DEFINE u == WithFile(t, "nested", b)
<1>3. Remanifested(t) = Manifested(u)
  BY DEF Remanifested, b
<1>4. /\ u \in Tree
      /\ DOMAIN u.files = DOMAIN t.files \cup {"nested"}
      /\ \A n \in DOMAIN t.files \ {"nested"} : u.files[n] = t.files[n]
  BY <1>1, <1>2, FileAdded
<1> HIDE DEF u
<1>5. /\ Manifested(u) \in Tree /\ u.files \in Files(Names)
      /\ Manifested(u).files = u.files /\ Manifested(u).manifest = u.files
  BY <1>4, TreeManifested, TreesAre
<1>6. Payload(Manifested(u)) = Payload(t)
  BY <1>4, <1>5 DEF Payload
<1> QED
  BY <1>3, <1>5, <1>6

(* The initial states satisfy the inductive invariant. *)
LEMMA InitIInv == Init => IInv
<1> SUFFICES ASSUME Init PROVE IInv
  OBVIOUS
<1>1. \A p \in Procs : pc[p] = "idle" /\ disk[p] = NoTree /\ p # NoLock /\ report[p] = "none"
  BY ProcessesAreMakers DEF Init, Procs, Paths, NoLock
<1>2. TypeOK
  <2>1. disk \in [Paths -> Tree \cup {NoTree}]
    <3>1. PICK t \in Prepared \cup {NoTree} :
             disk = [d \in Paths |-> IF d = "candidate" THEN t ELSE NoTree]
      BY DEF Init
    <3>2. t \in Tree \cup {NoTree}
      BY PreparedAssumption, TreesAre
    <3> QED
      BY <3>1, <3>2
  <2>2. pc \in [Procs -> Pcs] /\ report \in [Procs -> Reports]
    BY DEF Init, Pcs, Reports
  <2>3. repo \in [head : Commits, clean : BOOLEAN]
    BY DEF Init
  <2>4. moves \in 0..MaxMoves /\ faults \in 0..MaxFaults
    BY BoundsAssumption DEF Init
  <2> QED
    BY <2>1, <2>2, <2>3, <2>4 DEF Init, TypeOK, Tree
<1>3. \A p \in Procs : Knows(p)
  <2> SUFFICES ASSUME NEW p \in Procs PROVE Knows(p)
    OBVIOUS
  <2>1. Tidy(p)
    BY <1>1 DEF Init, Tidy
  <2>2. CaptureKnows(p)
    BY <1>1 DEF CaptureKnows, Staged, Shown, Written
  <2>3. FinalizerKnows(p)
    BY <1>1 DEF FinalizerKnows, FinalizerSaw, Copied, Frozen, Final
  <2> QED
    BY <2>1, <2>2, <2>3 DEF Knows
<1> QED
  BY <1>2, <1>3 DEF IInv
-----------------------------------------------------------------------------
(* What a step leaves alone: what is a process's own, and what is published. *)
Kept(q) ==
    /\ disk'[q] = disk[q] /\ pc'[q] = pc[q] /\ seen'[q] = seen[q] /\ report'[q] = report[q]
    /\ q \in images' <=> q \in images
    /\ lock' = q => lock = q

TreeKept(d) ==
    /\ disk'[d] # NoTree
    /\ SameContent(disk'[d], disk[d])
    /\ disk[d].sealed = TRUE => disk'[d].sealed = TRUE

SharedKept ==
    /\ disk["candidate"] # NoTree => TreeKept("candidate")
    /\ disk["checkpoint"] \notin {NoTree, EmptyTree} => TreeKept("checkpoint")

(* The checkpoint of a finalizer that has published one is not an empty directory. *)
LEMMA FinalIsNotEmpty ==
    ASSUME NEW p \in Finalizers, FinalizerKnows(p), pc[p] \in Final
    PROVE  disk["checkpoint"] \notin {NoTree, EmptyTree}
<1>1. /\ seen[p] \in Tree /\ Has(seen[p], "runtime")
      /\ disk["checkpoint"] # NoTree /\ disk["checkpoint"].manifest = NewManifest(seen[p])
  BY DEF FinalizerKnows
<1>2. NewManifest(seen[p]) # NoManifest
  BY <1>1, ManifestsRenewed, TreesAre DEF NewManifest
<1> QED
  BY <1>1, <1>2, TreesAre

(* A process that is left alone knows what it knew. *)
LEMMA OthersKnow ==
    ASSUME IInv, TypeOK', NEW q \in Procs, Kept(q), SharedKept, faults' = faults
    PROVE  Knows(q)'
<1>1. Knows(q) /\ TypeOK
  BY DEF IInv
<1>2. Tidy(q)'
  BY <1>1 DEF Knows, Tidy, Kept
<1>3. /\ disk["candidate"] \in Tree \cup {NoTree} /\ disk'["candidate"] \in Tree \cup {NoTree}
      /\ disk["checkpoint"] \in Tree \cup {NoTree} /\ disk'["checkpoint"] \in Tree \cup {NoTree}
  BY <1>1 DEF TypeOK, Paths, Tree
<1>4. ASSUME q \in Capturers PROVE CaptureKnows(q)'
  <2>1. CaptureKnows(q)
    BY <1>1, <1>4 DEF Knows
  <2>2. pc[q] \in Shown => TreeKept("candidate")
    BY <2>1 DEF CaptureKnows, Marked, SharedKept
  <2>3. pc[q] = "reverified" => ValidWithoutWarnings(disk'["candidate"])
    BY <1>3, <2>1, <2>2, ValidLooksAtContent DEF CaptureKnows, TreeKept, Shown, Marked
  <2> QED
    BY <2>1, <2>2, <2>3 DEF CaptureKnows, Kept, TreeKept, SameContent, Marked, Has, Shown
<1>5. ASSUME q \in Finalizers PROVE FinalizerKnows(q)'
  <2>1. FinalizerKnows(q)
    BY <1>1, <1>5 DEF Knows
  <2>2. pc[q] \in Final => TreeKept("checkpoint")
    BY <1>5, <2>1, FinalIsNotEmpty DEF SharedKept
  <2>3. pc[q] = "finalized" => ValidWithoutWarnings(disk'["checkpoint"])
    BY <1>3, <2>1, <2>2, ValidLooksAtContent DEF FinalizerKnows, TreeKept, Final
  <2>4. FinalizerSaw(q)'
    <3>1. pc[q] \in {"snapshot", "accepted"} => TreeKept("candidate")
      BY <2>1 DEF FinalizerKnows, FinalizerSaw, SharedKept
    <3> QED
      BY <2>1, <3>1 DEF FinalizerKnows, FinalizerSaw, Kept, TreeKept, SameContent
  <2> QED
    BY <2>1, <2>2, <2>3, <2>4 DEF FinalizerKnows, Kept, TreeKept, SameContent, Final
<1> QED
  BY <1>2, <1>4, <1>5 DEF Knows

(* A step in which a process touches only what is its own. *)
Own(p, to, t, s, r) ==
    /\ pc' = [pc EXCEPT ![p] = to]
    /\ disk' = [disk EXCEPT ![p] = t]
    /\ seen' = [seen EXCEPT ![p] = s]
    /\ report' = [report EXCEPT ![p] = r]
    /\ images' \in {images, images \cup {p}, images \ {p}} /\ images' \subseteq Capturers
    /\ lock' \in {lock, p, NoLock} /\ lock' \in Finalizers \cup {NoLock}
    /\ UNCHANGED <<repo, moves, faults>>

(* Such a step leaves every other process what it knew. *)
LEMMA OwnMoves ==
    ASSUME IInv, NEW p \in Procs, NEW to \in Pcs, NEW t \in Tree \cup {NoTree},
           NEW s \in Commits \cup Tree \cup {NoTree}, NEW r \in Reports, Own(p, to, t, s, r)
    PROVE  /\ TypeOK'
           /\ pc'[p] = to /\ disk'[p] = t /\ seen'[p] = s /\ report'[p] = r
           /\ disk'["candidate"] = disk["candidate"] /\ disk'["checkpoint"] = disk["checkpoint"]
           /\ Knows(p)' => IInv'
<1>1. p \in Paths /\ p # "candidate" /\ p # "checkpoint"
  BY ProcessesAreMakers DEF Procs, Paths
<1>2. TypeOK
  BY DEF IInv
<1>3. TypeOK'
  <2>1. disk' \in [Paths -> Tree \cup {NoTree}]
    BY <1>1, <1>2 DEF TypeOK, Own, Tree
  <2>2. pc' \in [Procs -> Pcs] /\ report' \in [Procs -> Reports]
    BY <1>2 DEF TypeOK, Own
  <2>3. seen' \in [Procs -> Commits \cup Tree \cup {NoTree}]
    BY <1>2 DEF TypeOK, Own, Tree
  <2>4. UNCHANGED <<repo, moves, faults>> /\ images' \subseteq Capturers
        /\ lock' \in Finalizers \cup {NoLock}
    BY DEF Own
  <2> QED
    BY <1>2, <2>1, <2>2, <2>3, <2>4 DEF TypeOK, Tree
<1>4. /\ pc'[p] = to /\ disk'[p] = t /\ seen'[p] = s /\ report'[p] = r
      /\ disk'["candidate"] = disk["candidate"] /\ disk'["checkpoint"] = disk["checkpoint"]
  BY <1>1, <1>2 DEF TypeOK, Own, Paths
<1>5. \A q \in Procs : q # p => Kept(q)
  <2> SUFFICES ASSUME NEW q \in Procs, q # p PROVE Kept(q)
    OBVIOUS
  <2>1. q \in Paths /\ q # NoLock
    BY ProcessesAreMakers DEF Procs, Paths, NoLock
  <2> QED
    BY <1>2, <2>1 DEF TypeOK, Own, Kept
<1>6. SharedKept
  BY <1>4 DEF SharedKept, TreeKept, SameContent
<1>7. faults' = faults
  BY DEF Own
<1>8. ASSUME Knows(p)' PROVE IInv'
  BY <1>3, <1>5, <1>6, <1>7, <1>8, OthersKnow DEF IInv
<1> QED
  BY <1>3, <1>4, <1>8
-----------------------------------------------------------------------------
(* What is known of a process before its step. *)
LEMMA Before ==
    ASSUME IInv, NEW p \in Procs
    PROVE  /\ TypeOK /\ Knows(p) /\ Tidy(p)
           /\ p \in Capturers => CaptureKnows(p) /\ p \notin Finalizers
           /\ p \in Finalizers => FinalizerKnows(p) /\ p \notin Capturers /\ p \notin images
           /\ lock = p => p \in Finalizers
           /\ pc[p] # "done" => report[p] = "none"
           /\ disk[p] \in Tree \cup {NoTree}
           /\ disk["candidate"] \in Tree \cup {NoTree}
           /\ disk["checkpoint"] \in Tree \cup {NoTree}
           /\ seen[p] \in Commits \cup Tree \cup {NoTree}
           /\ "none" \in Reports
           /\ p # NoLock
<1>1. TypeOK /\ Knows(p)
  BY DEF IInv
<1>2. p # NoLock
  BY ProcessesAreMakers DEF Procs, NoLock
<1>3. p \in Paths /\ "candidate" \in Paths /\ "checkpoint" \in Paths
  BY DEF Paths
<1> QED
  BY <1>1, <1>2, <1>3, ProcessesAreMakers DEF Knows, Tidy, TypeOK, Tree, Reports, Procs

(* A step of a capture before it publishes. *)
LEMMA StagedStep ==
    ASSUME IInv, NEW p \in Capturers, NEW to \in Staged, NEW t \in Tree, NEW s \in Commits,
           pc[p] # "done", lock' = lock, Own(p, to, t, s, report[p]),
           to \in Written =>
              Has(t, "completion") /\ t.files["completion"] = About(s, p),
           to = "open" => p \notin images'
    PROVE  IInv'
<1>1. p \in Procs /\ to \in Pcs /\ to # "idle"
  BY DEF Procs, Staged, Pcs
<1>2. report[p] = "none" /\ p \notin Finalizers /\ "none" \in Reports
  BY <1>1, Before
<1>3. Own(p, to, t, s, "none")
  BY <1>2
<1>4. /\ pc'[p] = to /\ disk'[p] = t /\ seen'[p] = s /\ report'[p] = "none"
      /\ Knows(p)' => IInv'
  BY <1>1, <1>2, <1>3, OwnMoves
<1>5. Tidy(p)'
  BY <1>1, <1>4 DEF Tidy
<1>6. CaptureKnows(p)'
  <2>1. t # NoTree
    BY TreesAre
  <2>2. to \notin Shown
    BY DEF Staged, Shown
  <2> QED
    BY <1>4, <2>1, <2>2 DEF CaptureKnows, Marked, Has, Shown
<1> QED
  BY <1>2, <1>4, <1>5, <1>6 DEF Knows

(* A step that leaves a process with nothing to know: it failed, or has not
   looked yet. *)
LEMMA IgnorantStep ==
    ASSUME IInv, NEW p \in Procs, NEW t \in Tree \cup {NoTree},
           NEW to \in {"failing", "targeted", "locked", "unlocking", "killed"},
           pc[p] # "done", Own(p, to, t, seen[p], report[p])
    PROVE  IInv'
<1>1. to \in Pcs /\ to # "idle"
  BY DEF Pcs
<1>2. report[p] = "none" /\ seen[p] \in Commits \cup Tree \cup {NoTree} /\ "none" \in Reports
  BY Before
<1>3. Own(p, to, t, seen[p], "none")
  BY <1>2
<1>4. pc'[p] = to /\ report'[p] = "none" /\ (Knows(p)' => IInv')
  BY <1>1, <1>2, <1>3, OwnMoves
<1>5. Tidy(p)'
  BY <1>1, <1>4 DEF Tidy
<1>6. CaptureKnows(p)'
  BY <1>4 DEF CaptureKnows, Staged, Shown, Written
<1>7. FinalizerKnows(p)'
  BY <1>4 DEF FinalizerKnows, FinalizerSaw, Copied, Frozen, Final
<1> QED
  BY <1>4, <1>5, <1>6, <1>7 DEF Knows

(* The end of a process: it may only say that it succeeded or plainly failed when
   nothing of it is left. *)
LEMMA DoneStep ==
    ASSUME IInv, NEW p \in Procs, NEW t \in Tree \cup {NoTree}, NEW r \in Reports,
           Own(p, "done", t, seen[p], r),
           r \in {"captured", "finalized", "failed"} =>
              t = NoTree /\ p \notin images' /\ lock' # p
    PROVE  IInv'
<1>1. "done" \in Pcs
  BY DEF Pcs
<1>2. seen[p] \in Commits \cup Tree \cup {NoTree}
  BY Before
<1>4. pc'[p] = "done" /\ report'[p] = r /\ disk'[p] = t /\ (Knows(p)' => IInv')
  BY <1>1, <1>2, OwnMoves
<1>5. Tidy(p)'
  BY <1>4 DEF Tidy
<1>6. CaptureKnows(p)'
  BY <1>4 DEF CaptureKnows, Staged, Shown, Written
<1>7. FinalizerKnows(p)'
  BY <1>4 DEF FinalizerKnows, FinalizerSaw, Copied, Frozen, Final
<1> QED
  BY <1>4, <1>5, <1>6, <1>7 DEF Knows

(* Leaving the disk, the memory or the report alone is writing what is there. *)
LEMMA Rewritten ==
    ASSUME IInv, NEW p \in Procs
    PROVE  /\ disk = [disk EXCEPT ![p] = disk[p]]
           /\ seen = [seen EXCEPT ![p] = seen[p]]
           /\ report = [report EXCEPT ![p] = report[p]]
BY DEF IInv, TypeOK, Paths

(* The same shorthand for a step that only moves on. *)
LEMMA JustGoes ==
    ASSUME IInv, NEW p \in Procs, NEW to, Goto(p, to),
           UNCHANGED <<repo, disk, images, lock, seen, report, moves, faults>>
    PROVE  Own(p, to, disk[p], seen[p], report[p]) /\ lock' = lock /\ images' = images
BY Rewritten DEF Own, Goto, IInv, TypeOK

(* A capture that goes on in its staging directory knows its commit. *)
LEMMA StagedKnows ==
    ASSUME IInv, NEW p \in Capturers, pc[p] \in Staged
    PROVE  /\ disk[p] \in Tree /\ seen[p] \in Commits /\ repo.head \in Commits
           /\ About(seen[p], p) \in Contents /\ About(repo.head, p) \in Contents
           /\ pc[p] \in Written =>
                 Has(disk[p], "completion") /\ disk[p].files["completion"] = About(seen[p], p)
<1>1. p \in Procs /\ TypeOK
  BY DEF Procs, IInv
<1>2. disk[p] \in Tree /\ seen[p] \in Commits
  BY <1>1, Before DEF CaptureKnows
<1>3. repo.head \in Commits
  BY <1>1 DEF TypeOK
<1> QED
  BY <1>1, <1>2, <1>3, Before, AboutIs DEF CaptureKnows, Marked

(* The steps of a capture in its staging directory. *)
LEMMA CaptureStages ==
    ASSUME IInv, NEW p \in Capturers,
           \/ CaptureBegins(p) \/ CaptureSource(p) \/ CheckUnchanged(p) \/ SmokePasses(p)
           \/ WriteDocuments(p) \/ SealAndManifest(p) \/ VerifyStaging(p) \/ OpenForPromotion(p)
    PROVE  IInv'
<1>1. p \in Procs /\ TypeOK
  BY DEF Procs, IInv
<1> DEFINE s == seen[p]
<1> DEFINE t == disk[p]
<1> DEFINE b == About(s, p)
<1>2. pc[p] \in Staged =>
         /\ t \in Tree /\ s \in Commits /\ b \in Contents /\ About(repo.head, p) \in Contents
         /\ pc[p] \in Written => Has(t, "completion") /\ t.files["completion"] = b
  BY StagedKnows
<1>3. /\ disk = [disk EXCEPT ![p] = t]
      /\ seen = [seen EXCEPT ![p] = s]
      /\ report = [report EXCEPT ![p] = report[p]]
  BY <1>1, Rewritten
<1>4. images \subseteq Capturers /\ lock \in Finalizers \cup {NoLock} /\ repo.head \in Commits
  BY <1>1 DEF TypeOK
<1> HIDE DEF s, t, b
<1>5. CASE CaptureBegins(p)
  <2>1. pc[p] # "done" /\ lock' = lock /\ Own(p, "begun", EmptyTree, repo.head, report[p])
    BY <1>3, <1>4, <1>5 DEF CaptureBegins, Put, Goto, Own
  <2>2. "begun" \in Staged /\ "begun" \notin Written
    BY DEF Staged, Written
  <2> QED
    BY <1>4, <2>1, <2>2, TreesAre, StagedStep
<1>6. CASE CaptureSource(p)
  <2> DEFINE u == SourceFiles(p)
  <2>1. pc[p] = "begun" /\ "begun" \in Staged /\ "source" \in Staged /\ "source" \notin Written
    BY <1>6 DEF CaptureSource, Staged, Written
  <2>2. u \in Tree
    <3>1. {"source", "archive"} \in SUBSET Names /\ "bundle" \in Names
      BY DEF Names
    <3>2. WithFiles(t, {"source", "archive"}, b) \in Tree
      BY <1>2, <2>1, <3>1, FilesAdded DEF Wrote
    <3> QED
      BY <1>2, <2>1, <3>1, <3>2, FileAdded DEF SourceFiles, s, t, b
  <2> HIDE DEF u
  <2>3. lock' = lock /\ Own(p, "source", u, s, report[p])
    BY <1>3, <1>4, <1>6 DEF CaptureSource, Put, Goto, Own, u
  <2> QED
    BY <1>2, <2>1, <2>2, <2>3, StagedStep
<1>7. CASE CheckUnchanged(p) \/ VerifyStaging(p)
  <2>1. PICK to \in {"stable", "built", "promotable", "verified"} :
           /\ pc[p] \in Staged
           /\ to \in Written => pc[p] \in Written
           /\ Goto(p, to)
           /\ UNCHANGED <<repo, disk, images, lock, seen, report, moves, faults>>
    BY <1>7 DEF CheckUnchanged, VerifyStaging, AfterCheck, Staged, Written
  <2>2. Own(p, to, t, s, report[p]) /\ lock' = lock
    BY <1>1, <2>1, JustGoes DEF t, s
  <2>3. to \in Staged /\ to # "open" /\ pc[p] # "done"
    BY <2>1 DEF Staged
  <2> QED
    BY <1>2, <2>1, <2>2, <2>3, StagedStep DEF b
<1>8. CASE SmokePasses(p)
  <2>1. /\ pc[p] = "stable" /\ "stable" \in Staged /\ "smoked" \in Staged
        /\ "smoked" \notin Written
    BY <1>8 DEF SmokePasses, Staged, Written
  <2>2. lock' = lock /\ Own(p, "smoked", t, s, report[p])
    BY <1>3, <1>4, <1>8 DEF SmokePasses, Goto, Own
  <2> QED
    BY <1>2, <2>1, <2>2, StagedStep
<1>9. CASE WriteDocuments(p)
  <2> DEFINE N == {"completion", "repository", "readme"}
  <2> DEFINE v == WithFiles(t, N, b)
  <2> DEFINE u == Sanitized(v)
  <2>1. pc[p] = "built" /\ "built" \in Staged /\ "documented" \in Staged
    BY <1>9 DEF WriteDocuments, Staged
  <2>2. t \in Tree /\ b \in Contents /\ N \in SUBSET Names /\ "completion" \in N
    BY <1>2, <2>1 DEF Names
  <2>3. v \in Tree /\ Has(v, "completion") /\ v.files["completion"] = b
    <3> HIDE DEF N
    <3> QED
      BY <2>2, FilesAdded DEF Has, Wrote
  <2>4. Documented(p) = v
    BY DEF Documented, t, b, s
  <2> HIDE DEF v
  <2>5. u \in Tree /\ Has(u, "completion") /\ u.files["completion"] = b
    <3>1. "metadata" # "completion"
      OBVIOUS
    <3>2. CASE Has(v, "metadata")
      BY <2>3, <3>1, <3>2, FileRemoved DEF Sanitized, Has
    <3>3. CASE ~Has(v, "metadata")
      BY <2>3, <3>3 DEF Sanitized
    <3> QED
      BY <3>2, <3>3
  <2>6. lock' = lock /\ Own(p, "documented", u, s, report[p])
    BY <1>3, <1>4, <1>9, <2>4 DEF WriteDocuments, Put, Goto, Own
  <2> HIDE DEF u
  <2> QED
    BY <1>2, <2>1, <2>5, <2>6, StagedStep DEF b
<1>10. CASE SealAndManifest(p)
  <2> DEFINE u == Manifested(Sealed(t))
  <2>1. /\ pc[p] = "documented" /\ "documented" \in Staged /\ "documented" \in Written
        /\ "sealed" \in Staged
    BY <1>10 DEF SealAndManifest, Staged, Written
  <2>2. u \in Tree /\ u.files = t.files
    BY <1>2, <2>1, RootSealed, TreeManifested DEF SameContent
  <2>3. lock' = lock /\ Own(p, "sealed", u, s, report[p])
    BY <1>3, <1>4, <1>10 DEF SealAndManifest, Put, Goto, Own, t
  <2> HIDE DEF u
  <2> QED
    BY <1>2, <2>1, <2>2, <2>3, StagedStep DEF b, Has
<1>11. CASE OpenForPromotion(p)
  <2> DEFINE u == Unsealed(t)
  <2>1. /\ pc[p] = "promotable" /\ "promotable" \in Staged /\ "promotable" \in Written
        /\ "open" \in Staged
    BY <1>11 DEF OpenForPromotion, Staged, Written
  <2>2. u \in Tree /\ u.files = t.files
    BY <1>2, <2>1, RootSealed DEF SameContent
  <2>3. lock' = lock /\ p \notin images' /\ Own(p, "open", u, s, report[p])
    BY <1>3, <1>4, <1>11 DEF OpenForPromotion, Put, Goto, Own, t
  <2> HIDE DEF u
  <2> QED
    BY <1>2, <2>1, <2>2, <2>3, StagedStep DEF b, Has
<1> QED
  BY <1>5, <1>6, <1>7, <1>8, <1>9, <1>10, <1>11

(* The steps of a capture that builds and fails, and its cleanup. *)
LEMMA CaptureBuilds ==
    ASSUME IInv, NEW p \in Capturers,
           BuildFails(p) \/ CheckHealth(p) \/ CaptureFails(p) \/ CleanUpCapture(p)
    PROVE  IInv'
<1>1. p \in Procs /\ TypeOK
  BY DEF Procs, IInv
<1> DEFINE s == seen[p]
<1> DEFINE t == disk[p]
<1> DEFINE b == About(s, p)
<1>2. pc[p] \in Staged => t \in Tree /\ s \in Commits /\ b \in Contents
  BY StagedKnows
<1>3. /\ disk = [disk EXCEPT ![p] = t]
      /\ seen = [seen EXCEPT ![p] = s]
      /\ report = [report EXCEPT ![p] = report[p]]
  BY <1>1, Rewritten
<1>4. images \subseteq Capturers /\ lock \in Finalizers \cup {NoLock} /\ p \notin Finalizers
      /\ t \in Tree \cup {NoTree} /\ p # NoLock
  BY <1>1, Before DEF TypeOK
<1> HIDE DEF s, t, b
<1>5. CASE CaptureFails(p)
  <2>1. pc[p] # "done" /\ Own(p, "failing", t, s, report[p])
    BY <1>1, <1>5, JustGoes DEF CaptureFails, t, s
  <2> QED
    BY <1>1, <1>4, <2>1, IgnorantStep DEF s
<1>6. CASE BuildFails(p) \/ (CheckHealth(p) /\ disk' = disk /\ Goto(p, "failing"))
  <2>1. pc[p] # "done" /\ Own(p, "failing", t, s, report[p])
    BY <1>3, <1>4, <1>6 DEF BuildFails, CheckHealth, Goto, Own
  <2> QED
    BY <1>1, <1>4, <2>1, IgnorantStep DEF s
<1>7. CASE /\ CheckHealth(p) /\ Goto(p, "runtime")
           /\ disk' = [disk EXCEPT ![p] = WithFiles(t, {"runtime", "rtbundle"}, b)]
  <2> DEFINE u == WithFiles(t, {"runtime", "rtbundle"}, b)
  <2>1. /\ pc[p] = "smoked" /\ "smoked" \in Staged /\ "runtime" \in Staged
        /\ "runtime" \notin Written
    BY <1>7 DEF CheckHealth, Staged, Written
  <2>2. u \in Tree
    <3>1. {"runtime", "rtbundle"} \in SUBSET Names
      BY DEF Names
    <3> QED
      BY <1>2, <2>1, <3>1, FilesAdded DEF Wrote
  <2>3. lock' = lock /\ Own(p, "runtime", u, s, report[p])
    BY <1>3, <1>4, <1>7 DEF CheckHealth, Own, Goto
  <2> HIDE DEF u
  <2> QED
    BY <1>2, <2>1, <2>2, <2>3, StagedStep
<1>8. CASE CleanUpCapture(p)
  <2>1. PICK imageGone \in BOOLEAN, stagingGone \in BOOLEAN :
          /\ images' = IF imageGone THEN images \ {p} ELSE images
          /\ disk' = IF stagingGone THEN [disk EXCEPT ![p] = NoTree] ELSE disk
          /\ report' = [report EXCEPT ![p] =
                IF p \in images' \/ disk'[p] # NoTree THEN "uncleaned" ELSE "failed"]
    BY <1>8 DEF CleanUpCapture
  <2>2. PICK u \in Tree \cup {NoTree} : disk' = [disk EXCEPT ![p] = u] /\ disk'[p] = u
    <3>1. DOMAIN disk = Paths /\ p \in Paths
      BY <1>1 DEF TypeOK, Paths
    <3>2. CASE stagingGone
      BY <2>1, <3>1, <3>2
    <3>3. CASE ~stagingGone
      BY <1>3, <1>4, <2>1, <3>1, <3>3 DEF t
    <3> QED
      BY <3>2, <3>3
  <2> DEFINE r == IF p \in images' \/ disk'[p] # NoTree THEN "uncleaned" ELSE "failed"
  <2>3. r \in Reports /\ (r \in {"captured", "finalized", "failed"} => p \notin images' /\ u = NoTree)
    BY <2>2 DEF Reports
  <2>4. report' = [report EXCEPT ![p] = r]
    BY <2>1
  <2> HIDE DEF r
  <2>5. images' \in {images, images \cup {p}, images \ {p}} /\ images' \subseteq Capturers
    BY <1>4, <2>1
  <2>6. Own(p, "done", u, s, r) /\ lock' = lock
    BY <1>3, <1>4, <1>8, <2>2, <2>4, <2>5 DEF CleanUpCapture, Goto, Own
  <2>7. lock' # p
    BY <1>4, <2>6
  <2> QED
    BY <1>1, <2>3, <2>6, <2>7, DoneStep DEF s
<1> QED
  <2>1. CheckHealth(p) =>
          \/ /\ Goto(p, "runtime")
             /\ disk' = [disk EXCEPT ![p] = WithFiles(t, {"runtime", "rtbundle"}, b)]
          \/ disk' = disk /\ Goto(p, "failing")
    BY DEF CheckHealth, Put, t, b, s
  <2> QED
    BY <1>5, <1>6, <1>7, <1>8, <2>1

(* A step that also changes what is published. *)
LEMMA SharedStep ==
    ASSUME IInv, NEW p \in Procs, TypeOK', SharedKept, faults' = faults, Knows(p)',
           \A q \in Procs : q # p => Kept(q)
    PROVE  IInv'
BY OthersKnow DEF IInv

(* The steps of a capture that publish its candidate and look at it. *)
LEMMA CapturePublishes ==
    ASSUME IInv, NEW p \in Capturers,
           PromoteCandidate(p) \/ SealDestination(p) \/ VerifyPromoted(p) \/ ReportCaptured(p)
    PROVE  IInv'
<1>1. /\ p \in Procs /\ TypeOK /\ p \notin Finalizers
      /\ Tidy(p) /\ CaptureKnows(p) /\ p # NoLock
      /\ pc[p] # "done" => report[p] = "none"
  BY Before DEF Procs
<1>2. p \in Paths /\ p # "candidate" /\ p # "checkpoint" /\ "candidate" \in Paths
      /\ "checkpoint" \in Paths
  BY <1>1, ProcessesAreMakers DEF Paths, Procs
<1>3. disk \in [Paths -> Tree \cup {NoTree}]
  BY <1>1 DEF TypeOK, Tree
<1>4. CASE PromoteCandidate(p)
  <2>1. /\ pc[p] = "open" /\ disk["candidate"] = NoTree
        /\ disk' = [disk EXCEPT !["candidate"] = disk[p], ![p] = NoTree]
        /\ pc' = [pc EXCEPT ![p] = "published"]
        /\ UNCHANGED <<repo, images, lock, seen, report, moves, faults>>
    BY <1>4 DEF PromoteCandidate, DestinationFree, TargetAbsent, Goto
  <2>2. /\ disk' \in [Paths -> Tree \cup {NoTree}]
        /\ disk'["candidate"] = disk[p] /\ disk'[p] = NoTree
        /\ \A d \in Paths : d # p /\ d # "candidate" => disk'[d] = disk[d]
    BY <1>2, <1>3, <2>1
  <2>3. pc' \in [Procs -> Pcs] /\ pc'[p] = "published"
        /\ \A q \in Procs : q # p => pc'[q] = pc[q]
    BY <1>1, <2>1 DEF TypeOK, Pcs
  <2>4. TypeOK'
    BY <1>1, <2>1, <2>2, <2>3 DEF TypeOK, Tree
  <2>5. SharedKept
    BY <1>2, <2>1, <2>2 DEF SharedKept, TreeKept, SameContent
  <2>6. \A q \in Procs : q # p => Kept(q)
    <3>1. \A q \in Procs : q \in Paths /\ q # "candidate"
      BY ProcessesAreMakers DEF Procs, Paths
    <3> QED
      BY <2>1, <2>2, <2>3, <3>1 DEF Kept
  <2>7. Knows(p)'
    <3>1. Tidy(p)'
      BY <1>1, <2>1, <2>3 DEF Tidy
    <3>2. CaptureKnows(p)'
      BY <1>1, <2>1, <2>2, <2>3 DEF CaptureKnows, Staged, Shown, Written, Marked, Has
    <3> QED
      BY <1>1, <3>1, <3>2 DEF Knows
  <2> QED
    BY <1>1, <2>1, <2>4, <2>5, <2>6, <2>7, SharedStep
<1>5. CASE SealDestination(p)
  <2> DEFINE t == disk["candidate"]
  <2>1. /\ pc[p] = "published" /\ RootInventoryHolds(t)
        /\ disk' = [disk EXCEPT !["candidate"] = Sealed(t)]
        /\ pc' = [pc EXCEPT ![p] = "resealed"]
        /\ UNCHANGED <<repo, images, lock, seen, report, moves, faults>>
    BY <1>5 DEF SealDestination, Put, Goto
  <2>2. t \in Tree
    BY <1>1, <1>2, <1>3, <2>1 DEF CaptureKnows, Shown, Marked
  <2>3. /\ Sealed(t) \in Tree /\ Sealed(t).sealed = TRUE /\ SameContent(Sealed(t), t)
        /\ ~Has(Sealed(t), "metadata")
    BY <2>1, <2>2, RootSealed DEF SameContent, Has, RootInventoryHolds
  <2>4. /\ disk' \in [Paths -> Tree \cup {NoTree}]
        /\ disk'["candidate"] = Sealed(t)
        /\ \A d \in Paths : d # "candidate" => disk'[d] = disk[d]
    BY <1>2, <1>3, <2>1, <2>3
  <2>5. pc' \in [Procs -> Pcs] /\ pc'[p] = "resealed"
        /\ \A q \in Procs : q # p => pc'[q] = pc[q]
    BY <1>1, <2>1 DEF TypeOK, Pcs
  <2>6. TypeOK'
    BY <1>1, <2>1, <2>4, <2>5 DEF TypeOK, Tree
  <2>7. SharedKept
    BY <1>2, <2>3, <2>4, TreesAre DEF SharedKept, TreeKept, SameContent
  <2>8. \A q \in Procs : q # p => Kept(q)
    <3>1. \A q \in Procs : q \in Paths /\ q # "candidate"
      BY ProcessesAreMakers DEF Procs, Paths
    <3> QED
      BY <2>1, <2>4, <2>5, <3>1 DEF Kept
  <2>9. Knows(p)'
    <3>1. Tidy(p)'
      BY <1>1, <1>2, <2>1, <2>4, <2>5 DEF Tidy
    <3>2. Marked(disk["candidate"], p)'
      BY <1>1, <2>1, <2>3, <2>4, TreesAre DEF CaptureKnows, Shown, Marked, SameContent, Has
    <3>3. CaptureKnows(p)'
      BY <1>1, <1>2, <2>1, <2>3, <2>4, <2>5, <3>2 DEF CaptureKnows, Staged, Shown, Written
    <3> QED
      BY <1>1, <3>1, <3>3 DEF Knows
  <2> QED
    BY <1>1, <2>1, <2>6, <2>7, <2>8, <2>9, SharedStep
<1>6. CASE VerifyPromoted(p)
  <2>1. pc[p] = "resealed" /\ ValidWithoutWarnings(disk["candidate"])
    BY <1>6 DEF VerifyPromoted
  <2>2. Own(p, "reverified", disk[p], seen[p], report[p]) /\ images' = images
    BY <1>1, <1>6, JustGoes DEF VerifyPromoted
  <2>3. disk[p] = NoTree /\ seen[p] \in Commits /\ report[p] = "none" /\ "none" \in Reports
    BY <1>1, <2>1 DEF CaptureKnows, Shown, Reports
  <2>4. "reverified" \in Pcs
    BY DEF Pcs
  <2>5. Own(p, "reverified", disk[p], seen[p], "none")
    BY <2>2, <2>3
  <2>6. /\ pc'[p] = "reverified" /\ disk'[p] = disk[p] /\ seen'[p] = seen[p]
        /\ report'[p] = "none" /\ disk'["candidate"] = disk["candidate"]
        /\ Knows(p)' => IInv'
    BY <1>1, <2>3, <2>4, <2>5, OwnMoves
  <2>7. Tidy(p)'
    BY <2>6 DEF Tidy
  <2>8. CaptureKnows(p)'
    BY <1>1, <2>1, <2>2, <2>6 DEF CaptureKnows, Staged, Shown, Written, Marked, Has
  <2> QED
    BY <1>1, <2>6, <2>7, <2>8 DEF Knows
<1>7. CASE ReportCaptured(p)
  <2>1. pc[p] = "reverified" /\ images' = images /\ lock' = lock
    BY <1>7 DEF ReportCaptured
  <2>2. disk[p] = NoTree /\ p \notin images
    BY <1>1, <2>1 DEF CaptureKnows, Shown
  <2>3. Own(p, "done", disk[p], seen[p], "captured")
    BY <1>1, <1>7, Rewritten DEF ReportCaptured, Goto, Own, TypeOK
  <2>4. "captured" \in Reports /\ lock' # p
    BY <1>1, <2>1 DEF Reports, TypeOK
  <2> QED
    BY <1>1, <2>1, <2>2, <2>3, <2>4, DoneStep
<1> QED
  BY <1>4, <1>5, <1>6, <1>7
-----------------------------------------------------------------------------
(* A finalizer that moves on has only its own knowledge to account for. *)
LEMMA FinalizerMoves ==
    ASSUME IInv, NEW p \in Finalizers, NEW to \in Pcs \ {"idle", "done"},
           NEW t \in Tree \cup {NoTree}, NEW s \in Commits \cup Tree \cup {NoTree},
           pc[p] # "done", Own(p, to, t, s, report[p])
    PROVE  /\ pc'[p] = to /\ disk'[p] = t /\ seen'[p] = s /\ faults' = faults
           /\ disk'["candidate"] = disk["candidate"] /\ disk'["checkpoint"] = disk["checkpoint"]
           /\ FinalizerKnows(p)' => IInv'
<1>1. p \in Procs /\ p \notin Capturers /\ report[p] = "none" /\ "none" \in Reports
  BY Before DEF Procs
<1>2. Own(p, to, t, s, "none")
  BY <1>1
<1>3. /\ pc'[p] = to /\ disk'[p] = t /\ seen'[p] = s /\ report'[p] = "none"
      /\ disk'["candidate"] = disk["candidate"] /\ disk'["checkpoint"] = disk["checkpoint"]
      /\ Knows(p)' => IInv'
  BY <1>1, <1>2, OwnMoves
<1>4. Tidy(p)'
  BY <1>3 DEF Tidy
<1>5. faults' = faults
  BY <1>2 DEF Own
<1> QED
  BY <1>1, <1>3, <1>4, <1>5 DEF Knows

(* The steps of a finalizer up to its copy of the candidate. *)
LEMMA FinalizeTakes ==
    ASSUME IInv, NEW p \in Finalizers,
           \/ FinalizeBegins(p) \/ AcquireLock(p) \/ FinalizeFails(p)
           \/ SnapshotCandidate(p) \/ VerifyCandidate(p) \/ CopyCandidate(p) \/ CopyTree(p)
    PROVE  IInv'
<1>1. /\ p \in Procs /\ TypeOK /\ FinalizerKnows(p)
      /\ disk[p] \in Tree \cup {NoTree} /\ disk["candidate"] \in Tree \cup {NoTree}
      /\ seen[p] \in Commits \cup Tree \cup {NoTree}
  BY Before DEF Procs
<1>2. /\ disk = [disk EXCEPT ![p] = disk[p]]
      /\ seen = [seen EXCEPT ![p] = seen[p]]
      /\ report = [report EXCEPT ![p] = report[p]]
  BY <1>1, Rewritten
<1>3. CASE FinalizeBegins(p) \/ FinalizeFails(p)
  <2>1. PICK to \in {"targeted", "failing"} :
           /\ pc[p] # "done" /\ Goto(p, to)
           /\ UNCHANGED <<repo, disk, images, lock, seen, report, moves, faults>>
    BY <1>3 DEF FinalizeBegins, FinalizeFails
  <2>2. Own(p, to, disk[p], seen[p], report[p])
    BY <1>1, <2>1, JustGoes
  <2> QED
    BY <1>1, <2>1, <2>2, IgnorantStep
<1>4. CASE AcquireLock(p)
  <2>1. PICK to \in {"locked", "unlocking"} :
           /\ pc[p] # "done" /\ Goto(p, to) /\ lock' \in {lock, p}
           /\ UNCHANGED <<repo, disk, images, seen, report, moves, faults>>
    BY <1>4 DEF AcquireLock
  <2>2. Own(p, to, disk[p], seen[p], report[p])
    BY <1>1, <1>2, <2>1 DEF Own, Goto, TypeOK
  <2> QED
    BY <1>1, <2>1, <2>2, IgnorantStep
<1>5. CASE SnapshotCandidate(p)
  <2> DEFINE s == disk["candidate"]
  <2>1. /\ pc[p] = "locked" /\ s # NoTree /\ s \in Tree
        /\ Own(p, "snapshot", disk[p], s, report[p])
    BY <1>1, <1>2, <1>5 DEF SnapshotCandidate, Snapshotable, Own, Goto, TypeOK
  <2>2. "snapshot" \in Pcs
    BY DEF Pcs
  <2>3. /\ pc'[p] = "snapshot" /\ seen'[p] = s /\ disk'["candidate"] = s
        /\ FinalizerKnows(p)' => IInv'
    BY <1>1, <2>1, <2>2, FinalizerMoves
  <2> HIDE DEF s
  <2> QED
    BY <2>1, <2>3 DEF FinalizerKnows, FinalizerSaw, Copied, Frozen, Final, SameContent
<1>6. CASE VerifyCandidate(p)
  <2>1. /\ pc[p] = "snapshot" /\ Valid(disk["candidate"])
        /\ Own(p, "accepted", disk[p], seen[p], report[p])
    BY <1>1, <1>6, JustGoes DEF VerifyCandidate, CandidateAcceptable
  <2>2. "accepted" \in Pcs
    BY DEF Pcs
  <2>3. /\ pc'[p] = "accepted" /\ seen'[p] = seen[p] /\ faults' = faults
        /\ disk'["candidate"] = disk["candidate"]
        /\ FinalizerKnows(p)' => IInv'
    BY <1>1, <2>1, <2>2, FinalizerMoves
  <2>4. /\ seen[p] \in Tree /\ disk["candidate"] # NoTree
        /\ SameContent(disk["candidate"], seen[p]) \/ faults >= 1
    BY <1>1, <2>1 DEF FinalizerKnows, FinalizerSaw
  <2>5. Valid(seen[p]) \/ (faults >= 1 /\ ~SameContent(disk["candidate"], seen[p]))
    BY <1>1, <2>1, <2>4, ValidLooksAtContent
  <2> QED
    BY <2>3, <2>4, <2>5 DEF FinalizerKnows, FinalizerSaw, Copied, Frozen, Final, SameContent
<1>7. CASE CopyCandidate(p)
  <2>1. /\ pc[p] = "accepted" /\ disk["candidate"] = seen[p]
        /\ Own(p, "copying", disk[p], seen[p], report[p])
    BY <1>1, <1>7, JustGoes DEF CopyCandidate
  <2>2. "copying" \in Pcs
    BY DEF Pcs
  <2>3. /\ pc'[p] = "copying" /\ seen'[p] = seen[p] /\ faults' = faults
        /\ FinalizerKnows(p)' => IInv'
    BY <1>1, <2>1, <2>2, FinalizerMoves
  <2>4. seen[p] \in Tree /\ (Valid(seen[p]) \/ faults >= 2)
    BY <1>1, <2>1 DEF FinalizerKnows, FinalizerSaw, SameContent
  <2>5. faults < 2 => Valid(seen[p])
    BY <1>1, <2>4 DEF TypeOK
  <2> QED
    BY <2>3, <2>4, <2>5 DEF FinalizerKnows, FinalizerSaw, Copied, Frozen, Final
<1>8. CASE CopyTree(p)
  <2> DEFINE t == disk["candidate"]
  <2>1. /\ pc[p] = "copying" /\ t # NoTree /\ t \in Tree
        /\ Own(p, "copied", t, seen[p], report[p])
    BY <1>1, <1>2, <1>8 DEF CopyTree, Put, Own, Goto, TypeOK
  <2>2. "copied" \in Pcs
    BY DEF Pcs
  <2>3. /\ pc'[p] = "copied" /\ seen'[p] = seen[p] /\ faults' = faults /\ disk'[p] = t
        /\ FinalizerKnows(p)' => IInv'
    BY <1>1, <2>1, <2>2, FinalizerMoves
  <2> HIDE DEF t
  <2>4. seen[p] \in Tree /\ (faults < 2 => Valid(seen[p]))
    BY <1>1, <2>1 DEF FinalizerKnows, FinalizerSaw
  <2> QED
    BY <2>1, <2>3, <2>4 DEF FinalizerKnows, FinalizerSaw, Copied, Frozen, Final
<1> QED
  BY <1>3, <1>4, <1>5, <1>6, <1>7, <1>8

(* The steps of a finalizer with its copy, and those that look at the checkpoint or
   end it. *)
LEMMA FinalizeFreezes ==
    ASSUME IInv, NEW p \in Finalizers,
           \/ FreezeStaging(p) \/ CheckDestination(p) \/ VerifyCheckpoint(p)
           \/ FinalizeRefused(p) \/ CleanUpFinalization(p)
    PROVE  IInv'
<1>1. /\ p \in Procs /\ TypeOK /\ FinalizerKnows(p) /\ Tidy(p)
      /\ disk[p] \in Tree \cup {NoTree} /\ disk["checkpoint"] \in Tree \cup {NoTree}
      /\ seen[p] \in Commits \cup Tree \cup {NoTree} /\ p \notin images /\ p # NoLock
  BY Before DEF Procs
<1>2. /\ disk = [disk EXCEPT ![p] = disk[p]]
      /\ seen = [seen EXCEPT ![p] = seen[p]]
      /\ report = [report EXCEPT ![p] = report[p]]
  BY <1>1, Rewritten
<1>3. CASE FreezeStaging(p)
  <2> DEFINE s == seen[p]
  <2> DEFINE u == Remanifested(s)
  <2>1. pc[p] = "copied" /\ disk[p] = s /\ Has(s, "runtime") /\ Put(p, Remanifested(disk[p]))
    BY <1>3 DEF FreezeStaging, CopyFaithful
  <2>2. s \in Tree /\ (faults < 2 => Valid(s))
    BY <1>1, <2>1 DEF FinalizerKnows, FinalizerSaw, Copied
  <2>3. u \in Tree /\ u # NoTree
    BY <2>1, <2>2, ManifestsRenewed, TreesAre
  <2>4. u = Remanifested(disk[p]) /\ u.manifest = NewManifest(s)
    BY <2>1 DEF NewManifest
  <2> HIDE DEF u
  <2>5. Own(p, "frozen", u, s, report[p])
    BY <1>1, <1>2, <1>3, <2>1, <2>4 DEF FreezeStaging, Own, Goto, Put, TypeOK
  <2>6. "frozen" \in Pcs
    BY DEF Pcs
  <2>7. /\ pc'[p] = "frozen" /\ seen'[p] = seen[p] /\ faults' = faults /\ disk'[p] = u
        /\ FinalizerKnows(p)' => IInv'
    BY <1>1, <2>1, <2>3, <2>5, <2>6, FinalizerMoves
  <2>8. NewManifest(seen[p])' = NewManifest(s)
    BY <2>7
  <2> HIDE DEF s
  <2> QED
    BY <2>1, <2>2, <2>3, <2>4, <2>7, <2>8 DEF FinalizerKnows, FinalizerSaw, Copied, Frozen, Final, s
<1>4. CASE CheckDestination(p)
  <2> DEFINE u == Unsealed(disk[p])
  <2>1. pc[p] = "frozen" /\ Own(p, "open", u, seen[p], report[p])
    BY <1>1, <1>2, <1>4 DEF CheckDestination, Own, Goto, Put, TypeOK
  <2>2. /\ seen[p] \in Tree /\ (faults < 2 => Valid(seen[p])) /\ disk[p] \in Tree
        /\ Has(seen[p], "runtime") /\ disk[p].manifest = NewManifest(seen[p])
    BY <1>1, <2>1 DEF FinalizerKnows, FinalizerSaw, Copied, Frozen
  <2>3. u \in Tree /\ u # NoTree /\ u.manifest = NewManifest(seen[p])
    BY <2>2, RootSealed, TreesAre DEF SameContent
  <2> HIDE DEF u
  <2>4. "open" \in Pcs
    BY DEF Pcs
  <2>5. /\ pc'[p] = "open" /\ seen'[p] = seen[p] /\ faults' = faults /\ disk'[p] = u
        /\ FinalizerKnows(p)' => IInv'
    BY <1>1, <2>1, <2>3, <2>4, FinalizerMoves
  <2>6. NewManifest(seen[p])' = NewManifest(seen[p])
    BY <2>5
  <2> QED
    BY <2>2, <2>3, <2>5, <2>6 DEF FinalizerKnows, FinalizerSaw, Copied, Frozen, Final
<1>5. CASE VerifyCheckpoint(p)
  <2> DEFINE c == disk["checkpoint"]
  <2>1. /\ pc[p] = "resealed" /\ ValidWithoutWarnings(c)
        /\ Own(p, "finalized", disk[p], seen[p], report[p])
    BY <1>1, <1>5, JustGoes DEF VerifyCheckpoint
  <2>2. /\ seen[p] \in Tree /\ (faults < 2 => Valid(seen[p])) /\ Has(seen[p], "runtime")
        /\ c # NoTree /\ c.manifest = NewManifest(seen[p]) /\ c.sealed = TRUE
    BY <1>1, <2>1 DEF FinalizerKnows, FinalizerSaw, Final
  <2>3. "finalized" \in Pcs
    BY DEF Pcs
  <2>4. /\ pc'[p] = "finalized" /\ seen'[p] = seen[p] /\ faults' = faults
        /\ disk'["checkpoint"] = c
        /\ FinalizerKnows(p)' => IInv'
    BY <1>1, <2>1, <2>3, FinalizerMoves
  <2>5. NewManifest(seen[p])' = NewManifest(seen[p])
    BY <2>4
  <2>6. ValidWithoutWarnings(disk["checkpoint"])'
    BY <2>1, <2>4
  <2> QED
    BY <2>2, <2>4, <2>5, <2>6 DEF FinalizerKnows, FinalizerSaw, Copied, Frozen, Final
<1>6. CASE FinalizeRefused(p)
  <2>1. pc[p] = "idle" /\ Own(p, "done", disk[p], seen[p], "failed") /\ lock' = lock
        /\ images' = images
    BY <1>1, <1>2, <1>6 DEF FinalizeRefused, Own, Goto, TypeOK
  <2>2. disk[p] = NoTree /\ lock # p /\ "failed" \in Reports
    BY <1>1, <2>1 DEF Tidy, Reports
  <2> QED
    BY <1>1, <2>1, <2>2, DoneStep
<1>7. CASE CleanUpFinalization(p)
  <2>1. PICK stagingGone \in BOOLEAN, unlinked \in BOOLEAN :
          /\ disk' = IF stagingGone THEN [disk EXCEPT ![p] = NoTree] ELSE disk
          /\ lock' = IF unlinked THEN NoLock ELSE lock
          /\ report' = [report EXCEPT ![p] =
                CASE disk'[p] # NoTree \/ lock' # NoLock -> "uncleaned"
                  [] OTHER -> IF pc[p] = "finalized" THEN "finalized" ELSE "failed"]
    BY <1>7 DEF CleanUpFinalization
  <2>2. PICK u \in Tree \cup {NoTree} : disk' = [disk EXCEPT ![p] = u] /\ disk'[p] = u
    <3>1. DOMAIN disk = Paths /\ p \in Paths
      BY <1>1 DEF TypeOK, Paths
    <3>2. CASE stagingGone
      BY <2>1, <3>1, <3>2
    <3>3. CASE ~stagingGone
      BY <1>1, <1>2, <2>1, <3>1, <3>3
    <3> QED
      BY <3>2, <3>3
  <2> DEFINE r == CASE disk'[p] # NoTree \/ lock' # NoLock -> "uncleaned"
                    [] OTHER -> IF pc[p] = "finalized" THEN "finalized" ELSE "failed"
  <2>3. r \in Reports /\ (r \in {"captured", "finalized", "failed"} => u = NoTree /\ lock' = NoLock)
    <3>1. CASE disk'[p] # NoTree \/ lock' # NoLock
      BY <3>1 DEF Reports
    <3>2. CASE ~(disk'[p] # NoTree \/ lock' # NoLock)
      BY <2>2, <3>2 DEF Reports
    <3> QED
      BY <3>1, <3>2
  <2>4. report' = [report EXCEPT ![p] = r]
    BY <2>1
  <2> HIDE DEF r
  <2>5. lock' \in {lock, NoLock} /\ lock \in Finalizers \cup {NoLock} /\ images' = images
        /\ images \subseteq Capturers
    BY <1>1, <1>7, <2>1 DEF TypeOK, CleanUpFinalization
  <2>6. Own(p, "done", u, seen[p], r)
    BY <1>2, <1>7, <2>2, <2>4, <2>5 DEF CleanUpFinalization, Goto, Own
  <2> QED
    BY <1>1, <2>3, <2>5, <2>6, DoneStep
<1> QED
  BY <1>3, <1>4, <1>5, <1>6, <1>7

(* The steps of a finalizer that publish its checkpoint and seal it. *)
LEMMA FinalizePublishes ==
    ASSUME IInv, NEW p \in Finalizers, PromoteCheckpoint(p) \/ ResealCheckpoint(p)
    PROVE  IInv'
<1>1. /\ p \in Procs /\ TypeOK /\ p \notin Capturers
      /\ Tidy(p) /\ FinalizerKnows(p)
      /\ pc[p] # "done" => report[p] = "none"
  BY Before DEF Procs
<1>2. p \in Paths /\ p # "candidate" /\ p # "checkpoint" /\ "candidate" \in Paths
      /\ "checkpoint" \in Paths
  BY <1>1, ProcessesAreMakers DEF Paths, Procs
<1>3. disk \in [Paths -> Tree \cup {NoTree}]
  BY <1>1 DEF TypeOK, Tree
<1>4. \A q \in Procs : q \in Paths /\ q # "checkpoint"
  BY ProcessesAreMakers DEF Procs, Paths
<1>5. CASE PromoteCheckpoint(p)
  <2>1. /\ pc[p] = "open" /\ disk["checkpoint"] \in {NoTree, EmptyTree}
        /\ disk' = [disk EXCEPT !["checkpoint"] = disk[p], ![p] = NoTree]
        /\ pc' = [pc EXCEPT ![p] = "published"]
        /\ UNCHANGED <<repo, images, lock, seen, report, moves, faults>>
    BY <1>5 DEF PromoteCheckpoint, RenameAllowed, Goto
  <2>2. /\ disk' \in [Paths -> Tree \cup {NoTree}]
        /\ disk'["checkpoint"] = disk[p] /\ disk'[p] = NoTree
        /\ \A d \in Paths : d # p /\ d # "checkpoint" => disk'[d] = disk[d]
    BY <1>2, <1>3, <2>1
  <2>3. pc' \in [Procs -> Pcs] /\ pc'[p] = "published"
        /\ \A q \in Procs : q # p => pc'[q] = pc[q]
    BY <1>1, <2>1 DEF TypeOK, Pcs
  <2>4. TypeOK'
    BY <1>1, <2>1, <2>2, <2>3 DEF TypeOK, Tree
  <2>5. SharedKept
    BY <1>2, <2>1, <2>2 DEF SharedKept, TreeKept, SameContent
  <2>6. \A q \in Procs : q # p => Kept(q)
    BY <1>4, <2>1, <2>2, <2>3 DEF Kept
  <2>7. Knows(p)'
    <3>1. Tidy(p)'
      BY <1>1, <2>1, <2>3 DEF Tidy
    <3>2. /\ seen[p] \in Tree /\ (faults < 2 => Valid(seen[p])) /\ Has(seen[p], "runtime")
          /\ disk[p] # NoTree /\ disk[p].manifest = NewManifest(seen[p])
      BY <1>1, <2>1 DEF FinalizerKnows, FinalizerSaw, Copied, Frozen
    <3>3. seen' = seen /\ NewManifest(seen[p])' = NewManifest(seen[p]) /\ faults' = faults
      BY <2>1
    <3>4. FinalizerKnows(p)'
      BY <2>2, <2>3, <3>2, <3>3 DEF FinalizerKnows, FinalizerSaw, Copied, Frozen, Final
    <3> QED
      BY <1>1, <3>1, <3>4 DEF Knows
  <2> QED
    BY <1>1, <2>1, <2>4, <2>5, <2>6, <2>7, SharedStep
<1>6. CASE ResealCheckpoint(p)
  <2> DEFINE t == disk["checkpoint"]
  <2>1. /\ pc[p] = "published"
        /\ disk' = [disk EXCEPT !["checkpoint"] = Sealed(t)]
        /\ pc' = [pc EXCEPT ![p] = "resealed"]
        /\ UNCHANGED <<repo, images, lock, seen, report, moves, faults>>
    BY <1>6 DEF ResealCheckpoint, Put, Goto
  <2>2. /\ seen[p] \in Tree /\ (faults < 2 => Valid(seen[p])) /\ Has(seen[p], "runtime")
        /\ t # NoTree /\ t \in Tree /\ t.manifest = NewManifest(seen[p])
    BY <1>1, <1>2, <1>3, <2>1 DEF FinalizerKnows, FinalizerSaw, Final
  <2>3. /\ Sealed(t) \in Tree /\ Sealed(t).sealed = TRUE /\ SameContent(Sealed(t), t)
        /\ Sealed(t) # NoTree
    BY <2>2, RootSealed, TreesAre
  <2>4. /\ disk' \in [Paths -> Tree \cup {NoTree}]
        /\ disk'["checkpoint"] = Sealed(t)
        /\ \A d \in Paths : d # "checkpoint" => disk'[d] = disk[d]
    BY <1>2, <1>3, <2>1, <2>3
  <2>5. pc' \in [Procs -> Pcs] /\ pc'[p] = "resealed"
        /\ \A q \in Procs : q # p => pc'[q] = pc[q]
    BY <1>1, <2>1 DEF TypeOK, Pcs
  <2>6. TypeOK'
    BY <1>1, <2>1, <2>4, <2>5 DEF TypeOK, Tree
  <2>7. SharedKept
    BY <1>2, <2>3, <2>4 DEF SharedKept, TreeKept, SameContent
  <2>8. \A q \in Procs : q # p => Kept(q)
    BY <1>4, <2>1, <2>4, <2>5 DEF Kept
  <2>9. Knows(p)'
    <3>1. Tidy(p)'
      BY <1>1, <1>2, <2>1, <2>4, <2>5 DEF Tidy
    <3>2. seen' = seen /\ NewManifest(seen[p])' = NewManifest(seen[p]) /\ faults' = faults
      BY <2>1
    <3>3. disk'["checkpoint"] # NoTree /\ disk'["checkpoint"].manifest = NewManifest(seen[p])
          /\ disk'["checkpoint"].sealed = TRUE
      BY <2>2, <2>3, <2>4 DEF SameContent
    <3>4. FinalizerKnows(p)'
      BY <2>2, <2>5, <3>2, <3>3 DEF FinalizerKnows, FinalizerSaw, Copied, Frozen, Final
    <3> QED
      BY <1>1, <3>1, <3>4 DEF Knows
  <2> QED
    BY <1>1, <2>1, <2>6, <2>7, <2>8, <2>9, SharedStep
<1> QED
  BY <1>5, <1>6
-----------------------------------------------------------------------------
(* What happens around the processes may add to a tree, and not to a sealed one. *)
Touched(d) ==
    disk[d] # NoTree =>
        /\ disk'[d] # NoTree
        /\ disk'[d].manifest = disk[d].manifest
        /\ Has(disk[d], "completion") =>
              /\ Has(disk'[d], "completion")
              /\ disk'[d].files["completion"] = disk[d].files["completion"]
        /\ disk[d].sealed = TRUE => disk'[d] = disk[d]

(* A process that something happens around knows what it knew: a finalizer, that
   there has been one change more. *)
LEMMA FaultLeaves ==
    ASSUME IInv, TypeOK', NEW q \in Procs, faults' = faults + 1,
           UNCHANGED <<images, lock, pc, seen, report>>,
           disk'[q] = NoTree <=> disk[q] = NoTree,
           Touched(q), Touched("checkpoint"),
           disk["candidate"] # NoTree => disk'["candidate"] # NoTree,
           q \in Capturers /\ pc[q] \in Shown => Touched("candidate")
    PROVE  Knows(q)'
<1>1. Knows(q) /\ TypeOK /\ faults \in Nat
  BY DEF IInv, TypeOK
<1>2. Tidy(q)'
  BY <1>1 DEF Knows, Tidy
<1>3. ASSUME q \in Capturers PROVE CaptureKnows(q)'
  <2>1. CaptureKnows(q)
    BY <1>1, <1>3 DEF Knows
  <2>2. pc[q] \in Written => Marked(disk'[q], q)
    BY <2>1 DEF CaptureKnows, Marked, Touched
  <2>3. pc[q] \in Shown => Marked(disk'["candidate"], q)
    BY <1>3, <2>1 DEF CaptureKnows, Marked, Touched
  <2>4. pc[q] \in {"resealed", "reverified"} => disk'["candidate"] = disk["candidate"]
    BY <1>3, <2>1 DEF CaptureKnows, Marked, Touched, Shown
  <2>5. pc' = pc /\ seen' = seen /\ images' = images
    OBVIOUS
  <2>6. /\ pc[q] \in {"resealed", "reverified"} =>
              disk'["candidate"].sealed = TRUE /\ ~Has(disk'["candidate"], "metadata")
        /\ pc[q] = "reverified" => ValidWithoutWarnings(disk'["candidate"])
    BY <2>1, <2>4 DEF CaptureKnows
  <2> QED
    BY <2>1, <2>2, <2>3, <2>5, <2>6 DEF CaptureKnows, Marked, Has
<1>4. ASSUME q \in Finalizers PROVE FinalizerKnows(q)'
  <2>1. FinalizerKnows(q)
    BY <1>1, <1>4 DEF Knows
  <2>2. pc' = pc /\ seen' = seen /\ faults' = faults + 1
    OBVIOUS
  <2>3. pc[q] \in Final =>
           /\ disk'["checkpoint"] # NoTree
           /\ disk'["checkpoint"].manifest = NewManifest(seen[q])
    BY <2>1 DEF FinalizerKnows, Touched
  <2>4. pc[q] \in {"resealed", "finalized"} => disk'["checkpoint"] = disk["checkpoint"]
    BY <2>1 DEF FinalizerKnows, Touched, Final
  <2>5. /\ pc[q] \in {"resealed", "finalized"} => disk'["checkpoint"].sealed = TRUE
        /\ pc[q] = "finalized" => ValidWithoutWarnings(disk'["checkpoint"])
    BY <2>1, <2>4 DEF FinalizerKnows
  <2>6. /\ pc[q] \in Copied => disk'[q] # NoTree
        /\ pc[q] \in Frozen => disk'[q].manifest = NewManifest(seen[q])
    BY <2>1 DEF FinalizerKnows, Touched, Copied, Frozen
  <2>7. FinalizerSaw(q)'
    <3>1. FinalizerSaw(q)
      BY <2>1 DEF FinalizerKnows
    <3>2. pc[q] \in {"snapshot", "accepted"} => disk'["candidate"] # NoTree
      BY <3>1 DEF FinalizerSaw
    <3>3. faults' >= 1 /\ (faults >= 1 => faults' >= 2) /\ (faults' < 2 => faults < 2)
      BY <1>1, <2>2
    <3>4. pc[q] = "accepted" => Valid(seen[q]) \/ faults' >= 2
      BY <1>1, <3>1, <3>3 DEF FinalizerSaw
    <3> QED
      BY <2>2, <3>1, <3>2, <3>3, <3>4 DEF FinalizerSaw
  <2>8. NewManifest(seen[q])' = NewManifest(seen[q])
    BY <2>2
  <2> QED
    BY <2>1, <2>2, <2>3, <2>5, <2>6, <2>7, <2>8 DEF FinalizerKnows
<1> QED
  BY <1>2, <1>3, <1>4 DEF Knows

(* A change to one path is a change to one tree. *)
LEMMA OnePath ==
    ASSUME IInv, NEW d \in Paths, NEW t \in Tree \cup {NoTree}, Put(d, t), Fault,
           UNCHANGED <<repo, images, lock, pc, seen, report, moves>>
    PROVE  /\ TypeOK' /\ disk[d] \in Tree \cup {NoTree}
           /\ disk'[d] = t /\ faults' = faults + 1
           /\ \A e \in Paths : e # d => disk'[e] = disk[e]
<1>1. TypeOK /\ disk \in [Paths -> Tree \cup {NoTree}]
  BY DEF IInv, TypeOK, Tree
<1>2. /\ disk' \in [Paths -> Tree \cup {NoTree}]
      /\ disk[d] \in Tree \cup {NoTree} /\ disk'[d] = t
      /\ \A e \in Paths : e # d => disk'[e] = disk[e]
  BY <1>1 DEF Put
<1>3. faults' = faults + 1 /\ faults' \in 0..MaxFaults
  BY <1>1, BoundsAssumption DEF Fault, TypeOK
<1> QED
  BY <1>1, <1>2, <1>3 DEF TypeOK, Tree

(* The repository moves: no process looks at it unless it takes a step. *)
LEMMA RepositoryMoves == ASSUME IInv, MoveRepository PROVE IInv'
<1>1. TypeOK
  BY DEF IInv
<1>2. TypeOK'
  BY <1>1, BoundsAssumption DEF TypeOK, MoveRepository
<1>3. \A q \in Procs : Kept(q)
  BY DEF MoveRepository, Kept
<1>4. SharedKept /\ faults' = faults
  BY DEF MoveRepository, SharedKept, TreeKept, SameContent
<1> QED
  BY <1>2, <1>3, <1>4, OthersKnow DEF IInv

(* The desktop, whoever makes a directory and whoever edits a candidate. *)
LEMMA TreesChange ==
    ASSUME IInv,
           \/ \E d \in Paths : DropMetadata(d)
           \/ \E d \in {"candidate", "checkpoint"} : MakeDirectory(d)
           \/ \E n \in Names : EditCandidate(n)
    PROVE  IInv'
<1>1. \A q \in Procs : q \in Paths /\ q # "candidate" /\ q # "checkpoint"
  BY ProcessesAreMakers DEF Procs, Paths
<1>2. "candidate" \in Paths /\ "checkpoint" \in Paths
  BY DEF Paths
<1>3. disk \in [Paths -> Tree \cup {NoTree}]
  BY DEF IInv, TypeOK, Tree
<1>4. \A d \in Paths : disk'[d] = disk[d] => Touched(d)
  BY DEF Touched
<1>5. ASSUME NEW d \in Paths, DropMetadata(d) PROVE IInv'
  <2> DEFINE t == disk[d]
  <2> DEFINE u == WithFile(t, "metadata", Junk)
  <2>1. /\ t \in Tree /\ t # NoTree /\ t.sealed # TRUE /\ Put(d, u) /\ Fault
        /\ UNCHANGED <<repo, images, lock, pc, seen, report, moves>>
    BY <1>3, <1>5 DEF DropMetadata
  <2>2. "metadata" \in Names /\ "metadata" # "completion" /\ Junk \in Contents
    BY TreesAre DEF Names
  <2>3. /\ u \in Tree /\ u.manifest = t.manifest
        /\ DOMAIN u.files = DOMAIN t.files \cup {"metadata"}
        /\ \A m \in DOMAIN t.files \ {"metadata"} : u.files[m] = t.files[m]
    BY <2>1, <2>2, FileAdded
  <2> HIDE DEF u
  <2>4. /\ TypeOK' /\ disk'[d] = u /\ faults' = faults + 1
        /\ \A e \in Paths : e # d => disk'[e] = disk[e]
    BY <2>1, <2>3, OnePath
  <2>5. Touched(d) /\ disk'[d] # NoTree
    BY <2>1, <2>2, <2>3, <2>4, TreesAre DEF Touched, Has
  <2>6. \A e \in Paths : Touched(e) /\ (disk'[e] = NoTree <=> disk[e] = NoTree)
    BY <1>4, <2>1, <2>4, <2>5
  <2>7. ASSUME NEW q \in Procs PROVE Knows(q)'
    BY <1>1, <1>2, <2>1, <2>4, <2>6, FaultLeaves
  <2> QED
    BY <2>4, <2>7 DEF IInv
<1>6. ASSUME NEW d \in {"candidate", "checkpoint"}, MakeDirectory(d) PROVE IInv'
  <2>1. PICK t \in Prepared \cup {EmptyTree} : Put(d, t)
    BY <1>6 DEF MakeDirectory
  <2>2. t \in Tree /\ t # NoTree /\ d \in Paths
    BY <1>2, PreparedAssumption, TreesAre
  <2>3. /\ disk[d] = NoTree /\ Fault
        /\ UNCHANGED <<repo, images, lock, pc, seen, report, moves>>
    BY <1>6 DEF MakeDirectory
  <2>4. /\ TypeOK' /\ disk'[d] = t /\ faults' = faults + 1
        /\ \A e \in Paths : e # d => disk'[e] = disk[e]
    BY <2>1, <2>2, <2>3, OnePath
  <2>5. Touched(d)
    BY <2>3 DEF Touched
  <2>6. \A e \in Paths : Touched(e) /\ (e # d => disk'[e] = disk[e])
    BY <1>4, <2>4, <2>5
  <2>7. ASSUME NEW q \in Procs PROVE Knows(q)'
    <3>1. q \in Paths /\ q # d
      BY <1>1
    <3>2. disk["candidate"] # NoTree => disk'["candidate"] # NoTree
      BY <1>2, <2>6 DEF Touched
    <3> QED
      BY <1>2, <2>3, <2>4, <2>6, <3>1, <3>2, FaultLeaves
  <2> QED
    BY <2>4, <2>7 DEF IInv
<1>7. ASSUME NEW n \in Names, EditCandidate(n) PROVE IInv'
  <2> DEFINE t == disk["candidate"]
  <2>1. /\ t \in Tree /\ Fault
        /\ UNCHANGED <<repo, images, lock, pc, seen, report, moves>>
        /\ \A p \in Capturers : pc[p] \notin Shown
    BY <1>2, <1>3, <1>7 DEF EditCandidate, Shown
  <2>2. PICK u \in Tree : Put("candidate", u)
    <3>1. ASSUME NEW b \in {Junk, Link} PROVE WithFile(t, n, b) \in Tree
      BY <2>1, TreesAre, FileAdded
    <3>2. Without(t, n) \in Tree
      BY <2>1, FileRemoved
    <3> QED
      BY <1>7, <3>1, <3>2 DEF EditCandidate
  <2>3. /\ TypeOK' /\ disk'["candidate"] = u /\ faults' = faults + 1
        /\ \A e \in Paths : e # "candidate" => disk'[e] = disk[e]
    BY <1>2, <2>1, <2>2, OnePath
  <2>4. disk'["candidate"] # NoTree
    BY <2>3, TreesAre
  <2>5. \A e \in Paths : e # "candidate" => Touched(e) /\ disk'[e] = disk[e]
    BY <1>4, <2>3
  <2>6. Touched("checkpoint")
    BY <1>2, <2>5
  <2>7. ASSUME NEW q \in Procs PROVE Knows(q)'
    <3>1. Touched(q) /\ disk'[q] = disk[q]
      BY <1>1, <2>5
    <3> QED
      BY <2>1, <2>3, <2>4, <2>6, <3>1, FaultLeaves
  <2> QED
    BY <2>3, <2>7 DEF IInv
<1> QED
  BY <1>5, <1>6, <1>7

(* A process is killed: it knows nothing, the others what they knew. *)
LEMMA ProcessKilled == ASSUME IInv, NEW p \in Procs, Kill(p) PROVE IInv'
<1>1. /\ TypeOK /\ pc \in [Procs -> Pcs] /\ pc[p] # "done" /\ Fault
      /\ pc' = [pc EXCEPT ![p] = "killed"]
      /\ UNCHANGED <<repo, disk, images, lock, seen, report, moves>>
  BY DEF Kill, IInv, TypeOK, Goto
<1>2. /\ pc' \in [Procs -> Pcs] /\ pc'[p] = "killed" /\ faults' = faults + 1
      /\ \A q \in Procs : q # p => pc'[q] = pc[q]
  BY <1>1 DEF Pcs, Fault
<1>3. TypeOK'
  BY <1>1, <1>2, BoundsAssumption DEF TypeOK, Fault
<1>4. Knows(p)'
  <2>1. report[p] = "none"
    BY <1>1, Before
  <2>2. Tidy(p)'
    BY <1>1, <1>2, <2>1 DEF Tidy
  <2>3. CaptureKnows(p)'
    BY <1>2 DEF CaptureKnows, Staged, Shown, Written
  <2>4. FinalizerKnows(p)'
    BY <1>2 DEF FinalizerKnows, FinalizerSaw, Copied, Frozen, Final
  <2> QED
    BY <2>2, <2>3, <2>4 DEF Knows
<1>5. ASSUME NEW q \in Procs, q # p PROVE Knows(q)'
  <2>1. Knows(q) /\ faults \in Nat
    BY <1>1 DEF IInv, TypeOK
  <2>2. Tidy(q)'
    BY <1>1, <1>2, <1>5, <2>1 DEF Knows, Tidy
  <2>3. q \in Capturers => CaptureKnows(q)'
    BY <1>1, <1>2, <1>5, <2>1 DEF Knows, CaptureKnows, Marked
  <2>4. q \in Finalizers => FinalizerKnows(q)'
    <3>1. NewManifest(seen[q])' = NewManifest(seen[q])
      BY <1>1
    <3> QED
      BY <1>1, <1>2, <1>5, <2>1, <3>1 DEF Knows, FinalizerKnows, FinalizerSaw
  <2> QED
    BY <2>2, <2>3, <2>4 DEF Knows
<1> QED
  BY <1>3, <1>4, <1>5 DEF IInv

(* Every step keeps the inductive invariant. *)
LEMMA NextIInv == IInv /\ [Next]_vars => IInv'
<1> SUFFICES ASSUME IInv, [Next]_vars PROVE IInv'
  OBVIOUS
<1>1. ASSUME NEW p \in Capturers, Capture(p) PROVE IInv'
  <2>1. CASE \/ CaptureBegins(p) \/ CaptureSource(p) \/ CheckUnchanged(p) \/ SmokePasses(p)
             \/ WriteDocuments(p) \/ SealAndManifest(p) \/ VerifyStaging(p)
             \/ OpenForPromotion(p)
    BY <2>1, CaptureStages
  <2>2. CASE BuildFails(p) \/ CheckHealth(p) \/ CaptureFails(p) \/ CleanUpCapture(p)
    BY <2>2, CaptureBuilds
  <2>3. CASE \/ PromoteCandidate(p) \/ SealDestination(p) \/ VerifyPromoted(p)
             \/ ReportCaptured(p)
    BY <2>3, CapturePublishes
  <2> QED
    BY <1>1, <2>1, <2>2, <2>3 DEF Capture
<1>2. ASSUME NEW p \in Finalizers, Finalize(p) PROVE IInv'
  <2>1. CASE \/ FinalizeBegins(p) \/ AcquireLock(p) \/ FinalizeFails(p)
             \/ SnapshotCandidate(p) \/ VerifyCandidate(p) \/ CopyCandidate(p)
             \/ CopyTree(p)
    BY <2>1, FinalizeTakes
  <2>2. CASE \/ FreezeStaging(p) \/ CheckDestination(p) \/ VerifyCheckpoint(p)
             \/ FinalizeRefused(p) \/ CleanUpFinalization(p)
    BY <2>2, FinalizeFreezes
  <2>3. CASE PromoteCheckpoint(p) \/ ResealCheckpoint(p)
    BY <2>3, FinalizePublishes
  <2> QED
    BY <1>2, <2>1, <2>2, <2>3 DEF Finalize
<1>3. CASE Around
  BY <1>3, RepositoryMoves, TreesChange, ProcessKilled DEF Around
<1>4. CASE UNCHANGED vars
  <2>1. UNCHANGED <<repo, disk, images, lock, pc, seen, report, moves, faults>>
    BY <1>4 DEF vars
  <2>2. TypeOK'
    BY <2>1 DEF IInv, TypeOK
  <2>3. \A q \in Procs : Kept(q)
    BY <2>1 DEF Kept
  <2>4. SharedKept
    BY <2>1 DEF SharedKept, TreeKept, SameContent
  <2> QED
    BY <2>1, <2>2, <2>3, <2>4, OthersKnow DEF IInv
<1> QED
  BY <1>1, <1>2, <1>3, <1>4 DEF Next

(* In every reachable state each process knows where its own files are, whose the
   published ones are that it has looked at, and what they were accepted as. *)
THEOREM Invariance == Spec => []IInv
BY InitIInv, NextIInv, PTL DEF Spec

(* The disk holds trees of content at its paths, and every process is somewhere in
   its run and remembers a commit or a tree. *)
THEOREM TypeCorrect == Spec => []TypeOK
<1>1. IInv => TypeOK
  BY DEF IInv
<1> QED
  BY <1>1, Invariance, PTL

(* No capture and no finalizer that says that it succeeded or plainly failed has left
   its image, its staging directory or its lock behind. *)
THEOREM CleanUpIsTold == Spec => []NothingLeftSilently
<1>1. IInv => NothingLeftSilently
  BY DEF IInv, Knows, Tidy, NothingLeftSilently
<1> QED
  BY <1>1, Invariance, PTL
-----------------------------------------------------------------------------
(* Only the end of its own run changes what a process reports. *)
LEMMA ReportsChange ==
    ASSUME IInv, [Next]_vars, NEW p \in Procs, report'[p] # report[p]
    PROVE  \/ p \in Capturers /\ (ReportCaptured(p) \/ CleanUpCapture(p))
           \/ p \in Finalizers /\ (FinalizeRefused(p) \/ CleanUpFinalization(p))
<1>1. TypeOK /\ DOMAIN report = Procs
  BY DEF IInv, TypeOK
<1>2. report' # report
  OBVIOUS
<1>3. Next
  BY <1>2 DEF vars
<1>4. ~Around
  BY <1>2 DEF Around, MoveRepository, DropMetadata, MakeDirectory, EditCandidate, Kill
<1>5. ASSUME NEW q \in Capturers, Capture(q)
      PROVE  (ReportCaptured(q) \/ CleanUpCapture(q)) /\ q = p
  <2>1. ReportCaptured(q) \/ CleanUpCapture(q)
    BY <1>2, <1>5 DEF Capture, CaptureBegins, CaptureSource, CheckUnchanged, SmokePasses,
       BuildFails, CheckHealth, WriteDocuments, SealAndManifest, VerifyStaging,
       OpenForPromotion, PromoteCandidate, SealDestination, VerifyPromoted, CaptureFails
  <2>2. \E r : report' = [report EXCEPT ![q] = r]
    BY <2>1 DEF ReportCaptured, CleanUpCapture
  <2> QED
    BY <1>1, <2>1, <2>2
<1>6. ASSUME NEW q \in Finalizers, Finalize(q)
      PROVE  (FinalizeRefused(q) \/ CleanUpFinalization(q)) /\ q = p
  <2>1. FinalizeRefused(q) \/ CleanUpFinalization(q)
    BY <1>2, <1>6 DEF Finalize, FinalizeBegins, AcquireLock, SnapshotCandidate,
       VerifyCandidate, CopyCandidate, CopyTree, FreezeStaging, CheckDestination,
       PromoteCheckpoint, ResealCheckpoint, VerifyCheckpoint, FinalizeFails
  <2>2. \E r : report' = [report EXCEPT ![q] = r]
    BY <2>1 DEF FinalizeRefused, CleanUpFinalization
  <2> QED
    BY <1>1, <2>1, <2>2
<1> QED
  BY <1>3, <1>4, <1>5, <1>6 DEF Next

(* A candidate that verifies and whose marker tells a commit is of that commit. *)
LEMMA ValidIsOfOne ==
    ASSUME NEW t, NEW c, NEW m, Valid(t), t.files["completion"] = About(c, m)
    PROVE  OneCommit(t, c) /\ t.files["completion"].by = m
<1>1. t.files["completion"].of = c /\ t.files["completion"].by = m
  BY DEF About
<1>2. /\ WellFormed(t, "completion") /\ WellFormed(t, "repository")
      /\ t.files["repository"] = t.files["completion"]
  BY DEF Valid, ProvenanceAgrees
<1>3. WellFormed(t, "bundle") /\ t.files["bundle"].of = c
  BY <1>1 DEF Valid, BundleMatches
<1>4. WellFormed(t, "source") /\ t.files["source"].of = c
  BY <1>3 DEF Valid, SourceMatches
<1>5. WellFormed(t, "archive") /\ t.files["archive"].of = c
  BY <1>4 DEF Valid, ArchiveMatches
<1>6. /\ WellFormed(t, "runtime") /\ t.files["runtime"] = t.files["completion"]
      /\ WellFormed(t, "rtbundle") /\ t.files["rtbundle"] = t.files["repository"]
  BY <1>2 DEF Valid, RuntimeMatches
<1> QED
  BY <1>1, <1>2, <1>3, <1>4, <1>5, <1>6 DEF OneCommit, WellFormed

(* What a capture reports as captured is its own candidate, sealed and whole, of the
   one commit it observed, and nothing else of it is left. *)
THEOREM CaptureIsCoherent == Spec => CapturedIsCoherent
<1>1. ASSUME IInv, [Next]_vars, NEW p \in Capturers,
             report[p] # "captured", report'[p] = "captured"
      PROVE  /\ OneCommit(disk'["candidate"], seen[p])
             /\ disk'["candidate"].files["completion"].by = p
             /\ disk'["candidate"].manifest = disk'["candidate"].files
             /\ disk'["candidate"].sealed
             /\ ~Has(disk'["candidate"], "metadata")
             /\ disk'[p] = NoTree
             /\ p \notin images'
  <2> DEFINE c == disk["candidate"]
  <2>1. p \in Procs /\ p \notin Finalizers /\ CaptureKnows(p) /\ c \in Tree \cup {NoTree}
    BY <1>1, Before DEF Procs
  <2>2. ReportCaptured(p)
    <3>1. ReportCaptured(p) \/ CleanUpCapture(p)
      BY <1>1, <2>1, ReportsChange
    <3>2. ~CleanUpCapture(p)
      <4> SUFFICES ASSUME CleanUpCapture(p) PROVE FALSE
        OBVIOUS
      <4>1. PICK r \in {"uncleaned", "failed"} : report' = [report EXCEPT ![p] = r]
        BY DEF CleanUpCapture
      <4>2. p \in DOMAIN report
        BY <1>1, <2>1 DEF IInv, TypeOK
      <4> QED
        BY <1>1, <4>1, <4>2
    <3> QED
      BY <3>1, <3>2
  <2>3. pc[p] = "reverified" /\ disk' = disk /\ images' = images
    BY <2>2 DEF ReportCaptured
  <2>4. /\ ValidWithoutWarnings(c) /\ c # NoTree /\ c \in Tree
        /\ c.files["completion"] = About(seen[p], p)
        /\ c.sealed = TRUE /\ ~Has(c, "metadata")
        /\ disk[p] = NoTree /\ p \notin images
    BY <2>1, <2>3 DEF CaptureKnows, Shown, Marked
  <2>5. OneCommit(c, seen[p]) /\ c.files["completion"].by = p /\ c.manifest = c.files
    BY <2>4, ValidIsOfOne, ValidIsManifested DEF ValidWithoutWarnings
  <2> QED
    BY <2>3, <2>4, <2>5
<1>2. ASSUME IInv, [Next]_vars
      PROVE  \A p \in Capturers : report[p] # "captured" /\ report'[p] = "captured" =>
                /\ OneCommit(disk'["candidate"], seen[p])
                /\ disk'["candidate"].files["completion"].by = p
                /\ disk'["candidate"].manifest = disk'["candidate"].files
                /\ disk'["candidate"].sealed
                /\ ~Has(disk'["candidate"], "metadata")
                /\ disk'[p] = NoTree
                /\ p \notin images'
  BY <1>1, <1>2
<1> QED
  BY <1>2, Invariance, PTL DEF Spec, CapturedIsCoherent

(* What a finalizer reports as finalized is sealed and verifies without a warning, and
   its payload is the candidate's that the finalizer accepted. *)
THEOREM FinalizedIsAccepted == Spec => FinalizedWasAccepted
<1>1. ASSUME IInv, [Next]_vars, NEW p \in Finalizers,
             report[p] # "finalized", report'[p] = "finalized"
      PROVE  /\ ValidWithoutWarnings(disk'["checkpoint"])
             /\ disk'["checkpoint"].sealed
             /\ Payload(disk'["checkpoint"]) = Payload(seen[p])
             /\ faults < 2 => Valid(seen[p])
  <2> DEFINE c == disk["checkpoint"]
  <2>1. p \in Procs /\ p \notin Capturers /\ FinalizerKnows(p) /\ c \in Tree \cup {NoTree}
        /\ p \in DOMAIN report
    BY <1>1, Before DEF Procs, TypeOK
  <2>2. CleanUpFinalization(p) /\ pc[p] = "finalized"
    <3>1. FinalizeRefused(p) \/ CleanUpFinalization(p)
      BY <1>1, <2>1, ReportsChange
    <3>2. ~FinalizeRefused(p)
      BY <1>1, <2>1 DEF FinalizeRefused
    <3>3. ASSUME CleanUpFinalization(p), pc[p] # "finalized" PROVE FALSE
      <4>1. PICK r \in {"uncleaned", "failed"} : report' = [report EXCEPT ![p] = r]
        BY <3>3 DEF CleanUpFinalization
      <4> QED
        BY <1>1, <2>1, <4>1
    <3> QED
      BY <3>1, <3>2, <3>3
  <2>3. disk'["checkpoint"] = c
    <3>1. p # "checkpoint"
      BY <2>1, ProcessesAreMakers DEF Procs
    <3>2. \E t : disk' = [disk EXCEPT ![p] = t] \/ disk' = disk
      BY <2>2 DEF CleanUpFinalization
    <3>3. "checkpoint" \in DOMAIN disk
      BY <1>1 DEF IInv, TypeOK, Paths
    <3> QED
      BY <3>1, <3>2, <3>3
  <2>4. /\ ValidWithoutWarnings(c) /\ c # NoTree /\ c \in Tree /\ c.sealed = TRUE
        /\ c.manifest = NewManifest(seen[p])
        /\ seen[p] \in Tree /\ Has(seen[p], "runtime")
        /\ faults < 2 => Valid(seen[p])
    BY <2>1, <2>2 DEF FinalizerKnows, FinalizerSaw, Final
  <2>5. Payload(c) = Payload(seen[p])
    <3>1. c.files = c.manifest
      BY <2>4, ValidIsManifested DEF ValidWithoutWarnings
    <3>2. c.files = Remanifested(seen[p]).files
      BY <2>4, <3>1, ManifestsRenewed DEF NewManifest
    <3>3. Payload(c) = Payload(Remanifested(seen[p]))
      BY <3>2 DEF Payload
    <3> QED
      BY <2>4, <3>3, ManifestsRenewed
  <2> QED
    BY <2>3, <2>4, <2>5
<1>2. ASSUME IInv, [Next]_vars
      PROVE  \A p \in Finalizers : report[p] # "finalized" /\ report'[p] = "finalized" =>
                /\ ValidWithoutWarnings(disk'["checkpoint"])
                /\ disk'["checkpoint"].sealed
                /\ Payload(disk'["checkpoint"]) = Payload(seen[p])
                /\ faults < 2 => Valid(seen[p])
  BY <1>1, <1>2
<1> QED
  BY <1>2, Invariance, PTL DEF Spec, FinalizedWasAccepted

(* No process replaces, removes or rewrites a candidate or a checkpoint that is there. *)
THEOREM PublishedStays == Spec => PublishedIsKept
<1> DEFINE Holds(d) ==
       disk'[d] # NoTree /\ disk'[d].files = disk[d].files /\ disk'[d].manifest = disk[d].manifest
<1>1. ASSUME IInv, [Next]_vars, NEW d \in {"candidate", "checkpoint"},
             disk[d] \notin {NoTree, EmptyTree}, faults' = faults
      PROVE  Holds(d)
  <2>1. /\ disk \in [Paths -> Tree \cup {NoTree}] /\ d \in Paths /\ faults \in Nat
        /\ \A p \in Procs : p # "candidate" /\ p # "checkpoint"
    BY <1>1, ProcessesAreMakers DEF IInv, TypeOK, Tree, Paths, Procs
  <2>2. disk[d] \in Tree /\ disk[d] # NoTree
    BY <1>1, <2>1
  <2>3. /\ Sealed(disk[d]) # NoTree
        /\ SameContent(Sealed(disk[d]), disk[d])
    BY <2>2, RootSealed, TreesAre
  <2>4. CASE disk' = disk
    BY <2>2, <2>4
  <2>5. ASSUME NEW p \in Procs, \E t : disk' = [disk EXCEPT ![p] = t] PROVE Holds(d)
    BY <2>1, <2>2, <2>5
  <2>6. ASSUME NEW p \in Capturers, Capture(p) PROVE Holds(d)
    <3>1. p \in Procs /\ p \in Paths
      BY DEF Procs, Paths
    <3>2. CASE PromoteCandidate(p)
      <4>1. disk' = [disk EXCEPT !["candidate"] = disk[p], ![p] = NoTree] /\ d # "candidate"
        BY <1>1, <3>2 DEF PromoteCandidate, DestinationFree, TargetAbsent
      <4> QED
        BY <2>1, <2>2, <3>1, <4>1
    <3>3. CASE SealDestination(p)
      <4>1. disk' = [disk EXCEPT !["candidate"] = Sealed(disk["candidate"])]
        BY <3>3 DEF SealDestination, Put
      <4> QED
        BY <2>1, <2>2, <2>3, <4>1 DEF SameContent
    <3>4. CASE CleanUpCapture(p)
      <4>1. disk' = disk \/ disk' = [disk EXCEPT ![p] = NoTree]
        BY <3>4 DEF CleanUpCapture
      <4> QED
        BY <2>4, <2>5, <3>1, <4>1
    <3>5. CASE ~PromoteCandidate(p) /\ ~SealDestination(p) /\ ~CleanUpCapture(p)
      <4>1. disk' = disk \/ \E t : disk' = [disk EXCEPT ![p] = t]
        BY <2>6, <3>5 DEF Capture, CaptureBegins, CaptureSource, CheckUnchanged, SmokePasses,
           BuildFails, CheckHealth, WriteDocuments, SealAndManifest, VerifyStaging,
           OpenForPromotion, VerifyPromoted, ReportCaptured, CaptureFails, Put
      <4> QED
        BY <2>4, <2>5, <3>1, <4>1
    <3> QED
      BY <3>2, <3>3, <3>4, <3>5
  <2>7. ASSUME NEW p \in Finalizers, Finalize(p) PROVE Holds(d)
    <3>1. p \in Procs /\ p \in Paths
      BY DEF Procs, Paths
    <3>2. CASE PromoteCheckpoint(p)
      <4>1. disk' = [disk EXCEPT !["checkpoint"] = disk[p], ![p] = NoTree] /\ d # "checkpoint"
        BY <1>1, <3>2 DEF PromoteCheckpoint, RenameAllowed
      <4> QED
        BY <2>1, <2>2, <3>1, <4>1
    <3>3. CASE ResealCheckpoint(p)
      <4>1. disk' = [disk EXCEPT !["checkpoint"] = Sealed(disk["checkpoint"])]
        BY <3>3 DEF ResealCheckpoint, Put
      <4> QED
        BY <2>1, <2>2, <2>3, <4>1 DEF SameContent
    <3>4. CASE CleanUpFinalization(p)
      <4>1. disk' = disk \/ disk' = [disk EXCEPT ![p] = NoTree]
        BY <3>4 DEF CleanUpFinalization
      <4> QED
        BY <2>4, <2>5, <3>1, <4>1
    <3>5. CASE ~PromoteCheckpoint(p) /\ ~ResealCheckpoint(p) /\ ~CleanUpFinalization(p)
      <4>1. disk' = disk \/ \E t : disk' = [disk EXCEPT ![p] = t]
        BY <2>7, <3>5 DEF Finalize, FinalizeBegins, AcquireLock, SnapshotCandidate,
           VerifyCandidate, CopyCandidate, CopyTree, FreezeStaging, CheckDestination,
           VerifyCheckpoint, FinalizeRefused, FinalizeFails, Put
      <4> QED
        BY <2>4, <2>5, <3>1, <4>1
    <3> QED
      BY <3>2, <3>3, <3>4, <3>5
  <2>8. CASE Around
    <3>1. disk' = disk
      BY <1>1, <2>1, <2>8 DEF Around, MoveRepository, DropMetadata, MakeDirectory, EditCandidate,
         Kill, Fault
    <3> QED
      BY <2>4, <3>1
  <2>9. CASE UNCHANGED vars
    BY <2>4, <2>9 DEF vars
  <2> QED
    BY <1>1, <2>6, <2>7, <2>8, <2>9 DEF Next
<1>2. ASSUME IInv, [Next]_vars
      PROVE  \A d \in {"candidate", "checkpoint"} :
                disk[d] \notin {NoTree, EmptyTree} /\ faults' = faults =>
                    /\ disk'[d] # NoTree
                    /\ disk'[d].files = disk[d].files
                    /\ disk'[d].manifest = disk[d].manifest
  BY <1>1, <1>2
<1> QED
  BY <1>2, Invariance, PTL DEF Spec, PublishedIsKept
=============================================================================
