----------------------- MODULE CheckpointPublication -----------------------
(***************************************************************************)
(* How a checkpoint comes to be: capture_runtime_candidate publishes a     *)
(* candidate directory for the commit the repository is at, and            *)
(* finalize_checkpoint freezes a candidate and publishes it as a           *)
(* checkpoint.  Several of each run at once against one repository, one    *)
(* candidate path and one destination path; people move the branch, dirty  *)
(* the worktree, edit the candidate and make directories meanwhile, and a  *)
(* process may be killed between any two steps.                            *)
(*                                                                         *)
(* A check that does not hold ends in CaptureFails or FinalizeFails, which *)
(* are enabled at every step because any of them may also meet an I/O      *)
(* error: the except clauses treat both alike.                             *)
(***************************************************************************)
EXTENDS CheckpointEvidence

CONSTANTS
    Capturers, Finalizers,  \* the processes of each kind
    Hand,                   \* whoever prepared a candidate without capture
    Prepared,               \* the candidates that can be there to begin with
    Schema,                 \* the schema version the product of each commit reports
    MaxMoves,               \* bound on the changes to the repository
    MaxFaults               \* bound on what else happens around the processes

ASSUME ProcessesAreMakers ==
    /\ Capturers \cup Finalizers \subseteq Makers
    /\ Capturers \cap Finalizers = {}
    /\ Hand \in Makers \ (Capturers \cup Finalizers)
    /\ {"candidate", "checkpoint"} \cap (Capturers \cup Finalizers) = {}

ASSUME SchemaAssumption == Schema \in [Commits -> Nat]
ASSUME PreparedAssumption == \A t \in Prepared : IsTree(t)
ASSUME BoundsAssumption == MaxMoves \in Nat /\ MaxFaults \in Nat

VARIABLES
    repo,    \* the branch's commit and whether the worktree is clean
    disk,    \* the tree at each path; a process's own path is its staging directory
    images,  \* the processes whose task image exists
    lock,    \* the process whose .finalize.lock file exists, or Hand for none
    pc,      \* where each process is
    seen,    \* what it remembers: the commit observed, or the tree snapshot
    report,  \* what it has told its caller
    moves,   \* how often the repository has changed
    faults   \* how much else has happened around the processes

vars == <<repo, disk, images, lock, pc, seen, report, moves, faults>>

Procs == Capturers \cup Finalizers
Paths == {"candidate", "checkpoint"} \cup Procs
NoLock == Hand
Reports == {"none", "captured", "finalized", "failed", "uncleaned"}

EmptyTree == [files |-> <<>>, manifest |-> NoManifest, sealed |-> FALSE]
WithFile(t, n, b) == [t EXCEPT !.files = [m \in DOMAIN t.files \cup {n} |->
                                             IF m = n THEN b ELSE t.files[m]]]
WithFiles(t, N, b) == [t EXCEPT !.files = [m \in DOMAIN t.files \cup N |->
                                              IF m \in N THEN b ELSE t.files[m]]]
Without(t, n) == [t EXCEPT !.files = [m \in DOMAIN t.files \ {n} |-> t.files[m]]]
Sealed(t) == [t EXCEPT !.sealed = TRUE]
Unsealed(t) == [t EXCEPT !.sealed = FALSE]

\* _write_outer_manifest, _write_manifest: the digests of all payload files.
Manifested(t) == [t EXCEPT !.manifest = t.files]

Goto(p, q) == pc' = [pc EXCEPT ![p] = q]
Put(d, t) == disk' = [disk EXCEPT ![d] = t]

---------------------------------------------------------------------------
(* Capture. *)

\* _observe_repository: an attached branch and a clean worktree, or no capture.
RepositoryObservable == repo.clean

\* _prepare_target: nothing at the destination.
TargetAbsent(d) == disk[d] = NoTree

CaptureBegins(p) ==
    /\ pc[p] = "idle"
    /\ RepositoryObservable
    /\ TargetAbsent("candidate")
    /\ seen' = [seen EXCEPT ![p] = repo.head]
    /\ Put(p, EmptyTree)
    /\ Goto(p, "begun")
    /\ UNCHANGED <<repo, images, lock, report, moves, faults>>

\* The sources and the archive are read by the object ids observed, the bundle
\* from the branch as it is now.
SourceFiles(p) ==
    WithFile(WithFiles(disk[p], {"source", "archive"}, About(seen[p], p)),
             "bundle", About(repo.head, p))

CaptureSource(p) ==
    /\ pc[p] = "begun"
    /\ Put(p, SourceFiles(p))
    /\ Goto(p, "source")
    /\ UNCHANGED <<repo, images, lock, seen, report, moves, faults>>

\* _require_repository_unchanged(_reobserve_repository): still clean, same commit.
RepositoryUnchanged(p) == RepositoryObservable /\ repo.head = seen[p]

AfterCheck == [source |-> "stable", runtime |-> "built", verified |-> "promotable"]

CheckUnchanged(p) ==
    /\ pc[p] \in DOMAIN AfterCheck
    /\ RepositoryUnchanged(p)
    /\ Goto(p, AfterCheck[pc[p]])
    /\ UNCHANGED <<repo, disk, images, lock, seen, report, moves, faults>>

\* _require_task_image_absent: the tag is drawn afresh and is nobody's yet.
TaskImageAbsent(p) == p \notin images

\* smoke_product_image.sh of the worktree runs the image and asserts the schema
\* version of its own commit; who dirties the worktree may have changed it.
SmokeAccepted(p) == repo.clean => Schema[seen[p]] = Schema[repo.head]

\* _capture_runtime up to the smoke gate: the image is built from the staged
\* sources, inspected and run.
SmokePasses(p) ==
    /\ pc[p] = "stable"
    /\ TaskImageAbsent(p)
    /\ SmokeAccepted(p)
    /\ images' = images \cup {p}
    /\ Goto(p, "smoked")
    /\ UNCHANGED <<repo, disk, lock, seen, report, moves, faults>>

\* The build, the inspection or the smoke gate fails with the image in place.
BuildFails(p) ==
    /\ pc[p] = "stable"
    /\ images' = images \cup {p}
    /\ Goto(p, "failing")
    /\ UNCHANGED <<repo, disk, lock, seen, report, moves, faults>>

\* _capture_runtime after it: the health evidence has to report the version it
\* is written for; then the runtime README and the evidence bundle.
ContractSchema == 8
HealthAccepted(p) == Schema[seen[p]] = ContractSchema

CheckHealth(p) ==
    /\ pc[p] = "smoked"
    /\ \/ /\ HealthAccepted(p)
          /\ Put(p, WithFiles(disk[p], {"runtime", "rtbundle"}, About(seen[p], p)))
          /\ Goto(p, "runtime")
       \/ /\ ~HealthAccepted(p)
          /\ Goto(p, "failing")
          /\ UNCHANGED disk
    /\ UNCHANGED <<repo, images, lock, seen, report, moves, faults>>

\* _write_provenance, _write_checkpoint_readme.
Documented(p) ==
    WithFiles(disk[p], {"completion", "repository", "readme"}, About(seen[p], p))

\* _sanitize_capture_root: the desktop's metadata goes.
Sanitized(t) == IF Has(t, "metadata") THEN Without(t, "metadata") ELSE t

\* _validate_capture_root_inventory: README.txt, ops and source, nothing else.
RootInventoryHolds(t) == Has(t, "readme") /\ Has(t, "source") /\ ~Has(t, "metadata")

WriteDocuments(p) ==
    /\ pc[p] = "built"
    /\ Put(p, Sanitized(Documented(p)))
    /\ Goto(p, "documented")
    /\ UNCHANGED <<repo, images, lock, seen, report, moves, faults>>

\* Inventory, seal, inventory again, then the outer manifest of what is sealed.
SealAndManifest(p) ==
    /\ pc[p] = "documented"
    /\ RootInventoryHolds(disk[p])
    /\ Put(p, Manifested(Sealed(disk[p])))
    /\ Goto(p, "sealed")
    /\ UNCHANGED <<repo, images, lock, seen, report, moves, faults>>

VerifyStaging(p) ==
    /\ pc[p] = "sealed"
    /\ Valid(disk[p])
    /\ Goto(p, "verified")
    /\ UNCHANGED <<repo, disk, images, lock, seen, report, moves, faults>>

\* _remove_task_image and the root opened again for the rename.
OpenForPromotion(p) ==
    /\ pc[p] = "promotable"
    /\ images' = images \ {p}
    /\ Put(p, Unsealed(disk[p]))
    /\ Goto(p, "open")
    /\ UNCHANGED <<repo, lock, seen, report, moves, faults>>

\* Mutant: a move that replaces what is there.
DestinationIgnored == TRUE

\* _rename_directory_no_replace: renameat2(RENAME_NOREPLACE).
DestinationFree == TargetAbsent("candidate")

PromoteCandidate(p) ==
    /\ pc[p] = "open"
    /\ DestinationFree
    /\ disk' = [disk EXCEPT !["candidate"] = disk[p], ![p] = NoTree]
    /\ Goto(p, "published")
    /\ UNCHANGED <<repo, images, lock, seen, report, moves, faults>>

SealDestination(p) ==
    /\ pc[p] = "published"
    /\ RootInventoryHolds(disk["candidate"])
    /\ Put("candidate", Sealed(disk["candidate"]))
    /\ Goto(p, "resealed")
    /\ UNCHANGED <<repo, images, lock, seen, report, moves, faults>>

VerifyPromoted(p) ==
    /\ pc[p] = "resealed"
    /\ ValidWithoutWarnings(disk["candidate"])
    /\ Goto(p, "reverified")
    /\ UNCHANGED <<repo, disk, images, lock, seen, report, moves, faults>>

ReportCaptured(p) ==
    /\ pc[p] = "reverified"
    /\ RepositoryUnchanged(p)
    /\ report' = [report EXCEPT ![p] = "captured"]
    /\ Goto(p, "done")
    /\ UNCHANGED <<repo, disk, images, lock, seen, moves, faults>>

\* A check that does not hold, a missing tool, an OSError or a timeout.
CaptureFails(p) ==
    /\ pc[p] \notin {"smoked", "failing", "done", "killed"}
    /\ Goto(p, "failing")
    /\ UNCHANGED <<repo, disk, images, lock, seen, report, moves, faults>>

\* Mutant: the staging directory goes, the image is forgotten.
CleanUpStagingOnly(p) ==
    /\ pc[p] = "failing"
    /\ Put(p, NoTree)
    /\ report' = [report EXCEPT ![p] = "failed"]
    /\ Goto(p, "done")
    /\ UNCHANGED <<repo, images, lock, seen, moves, faults>>

\* finally: the image and the staging directory go, whichever of them can; what
\* is left is told.
CleanUpCapture(p) ==
    /\ pc[p] = "failing"
    /\ \E imageGone, stagingGone \in BOOLEAN :
          /\ images' = IF imageGone THEN images \ {p} ELSE images
          /\ disk' = IF stagingGone THEN [disk EXCEPT ![p] = NoTree] ELSE disk
          /\ report' = [report EXCEPT ![p] =
                IF p \in images' \/ disk'[p] # NoTree THEN "uncleaned" ELSE "failed"]
    /\ Goto(p, "done")
    /\ UNCHANGED <<repo, lock, seen, moves, faults>>

---------------------------------------------------------------------------
(* Finalization. *)

\* _snapshot_tree, _validate_regular_tree: a real directory of real directories
\* and regular files.
Snapshotable(t) == t # NoTree /\ OnlyRegularFiles(t)

\* _prepare_target: a candidate of regular files, and nothing at the destination.
FinalizeBegins(p) ==
    /\ pc[p] = "idle"
    /\ Snapshotable(disk["candidate"])
    /\ TargetAbsent("checkpoint")
    /\ Goto(p, "targeted")
    /\ UNCHANGED <<repo, disk, images, lock, seen, report, moves, faults>>

\* _acquire_lock: the file is created or the finalizer gives up.
AcquireLock(p) ==
    /\ pc[p] = "targeted"
    /\ \/ /\ lock = NoLock
          /\ lock' = p
          /\ Goto(p, "locked")
       \/ /\ lock # NoLock
          /\ Goto(p, "unlocking")
          /\ UNCHANGED lock
    /\ UNCHANGED <<repo, disk, images, seen, report, moves, faults>>

\* _reject_legacy_runtime_exception and the first _snapshot_tree.
NoLegacyException(t) == ~Has(t, "exception")

SnapshotCandidate(p) ==
    /\ pc[p] = "locked"
    /\ Snapshotable(disk["candidate"])
    /\ NoLegacyException(disk["candidate"])
    /\ seen' = [seen EXCEPT ![p] = disk["candidate"]]
    /\ Goto(p, "snapshot")
    /\ UNCHANGED <<repo, disk, images, lock, report, moves, faults>>

\* verify_checkpoint(candidate) with _candidate_verification_is_acceptable: only
\* nested_post_manifest_mutation warnings, the verifier's only kind.
CandidateAcceptable(t) == Valid(t)

VerifyCandidate(p) ==
    /\ pc[p] = "snapshot"
    /\ CandidateAcceptable(disk["candidate"])
    /\ Goto(p, "accepted")
    /\ UNCHANGED <<repo, disk, images, lock, seen, report, moves, faults>>

\* The second snapshot equals the first; then the copy.
CopyCandidate(p) ==
    /\ pc[p] = "accepted"
    /\ disk["candidate"] = seen[p]
    /\ Goto(p, "copying")
    /\ UNCHANGED <<repo, disk, images, lock, seen, report, moves, faults>>

CopyTree(p) ==
    /\ pc[p] = "copying"
    /\ disk["candidate"] # NoTree
    /\ Put(p, disk["candidate"])
    /\ Goto(p, "copied")
    /\ UNCHANGED <<repo, images, lock, seen, report, moves, faults>>

\* Mutant: the copy is not compared.
CopyUnchecked(p) == TRUE

\* The candidate and the copy are both still what was accepted.
CopyFaithful(p) == disk["candidate"] = seen[p] /\ disk[p] = seen[p]

\* The runtime manifest and the outer manifest, written anew.
Remanifested(t) == Manifested(WithFile(t, "nested", t.files["runtime"]))

\* The manifests are regenerated in staging, which then has to verify without
\* a warning and find the destination free.
FreezeStaging(p) ==
    /\ pc[p] = "copied"
    /\ CopyFaithful(p)
    /\ NoLegacyException(disk[p])
    /\ Has(disk[p], "runtime")
    /\ ValidWithoutWarnings(Remanifested(disk[p]))
    /\ Put(p, Remanifested(disk[p]))
    /\ Goto(p, "frozen")
    /\ UNCHANGED <<repo, images, lock, seen, report, moves, faults>>

CheckDestination(p) ==
    /\ pc[p] = "frozen"
    /\ TargetAbsent("checkpoint")
    /\ Put(p, Unsealed(disk[p]))
    /\ Goto(p, "open")
    /\ UNCHANGED <<repo, images, lock, seen, report, moves, faults>>

\* os.rename: refused by a directory with entries, not by an empty one.
RenameAllowed == disk["checkpoint"] \in {NoTree, EmptyTree}

PromoteCheckpoint(p) ==
    /\ pc[p] = "open"
    /\ RenameAllowed
    /\ disk' = [disk EXCEPT !["checkpoint"] = disk[p], ![p] = NoTree]
    /\ Goto(p, "published")
    /\ UNCHANGED <<repo, images, lock, seen, report, moves, faults>>

ResealCheckpoint(p) ==
    /\ pc[p] = "published"
    /\ Put("checkpoint", Sealed(disk["checkpoint"]))
    /\ Goto(p, "resealed")
    /\ UNCHANGED <<repo, images, lock, seen, report, moves, faults>>

VerifyCheckpoint(p) ==
    /\ pc[p] = "resealed"
    /\ ValidWithoutWarnings(disk["checkpoint"])
    /\ Goto(p, "finalized")
    /\ UNCHANGED <<repo, disk, images, lock, seen, report, moves, faults>>

\* finalize_checkpoint raises before the target is known: there is no lock path
\* to clean up.
FinalizeRefused(p) ==
    /\ pc[p] = "idle"
    /\ report' = [report EXCEPT ![p] = "failed"]
    /\ Goto(p, "done")
    /\ UNCHANGED <<repo, disk, images, lock, seen, moves, faults>>

\* It raises later.
FinalizeFails(p) ==
    /\ pc[p] \notin {"idle", "finalized", "failing", "done", "killed"}
    /\ Goto(p, "failing")
    /\ UNCHANGED <<repo, disk, images, lock, seen, report, moves, faults>>

\* _cleanup_finalization: the staging directory and the lock file go, whichever
\* of them can. The lock is unlinked by its path, whoever created it.
CleanUpFinalization(p) ==
    /\ pc[p] \in {"finalized", "failing"}
    /\ \E stagingGone, unlinked \in BOOLEAN :
          /\ disk' = IF stagingGone THEN [disk EXCEPT ![p] = NoTree] ELSE disk
          /\ lock' = IF unlinked THEN NoLock ELSE lock
          /\ report' = [report EXCEPT ![p] =
                CASE disk'[p] # NoTree \/ lock' # NoLock -> "uncleaned"
                  [] OTHER -> IF pc[p] = "finalized" THEN "finalized" ELSE "failed"]
    /\ Goto(p, "done")
    /\ UNCHANGED <<repo, images, seen, moves, faults>>

---------------------------------------------------------------------------
(* What happens around the processes. *)

Fault == faults < MaxFaults /\ faults' = faults + 1

\* Somebody commits, resets or edits the worktree, or cleans it, while a capture
\* is there to notice.
MoveRepository ==
    /\ moves < MaxMoves
    /\ moves' = moves + 1
    /\ \E p \in Capturers : pc[p] \notin {"failing", "done", "killed"}
    /\ repo' \in [head : Commits, clean : BOOLEAN] \ {repo}
    /\ UNCHANGED <<disk, images, lock, pc, seen, report, faults>>

\* The desktop drops its metadata in a root that can be written to.
DropMetadata(d) ==
    /\ Fault
    /\ disk[d] # NoTree
    /\ ~disk[d].sealed
    /\ ~Has(disk[d], "metadata")
    /\ Put(d, WithFile(disk[d], "metadata", Junk))
    /\ UNCHANGED <<repo, images, lock, pc, seen, report, moves>>

\* Somebody makes a directory at one of the destinations: an empty one, or a
\* candidate prepared by hand.
MakeDirectory(d) ==
    /\ Fault
    /\ disk[d] = NoTree
    /\ \E t \in Prepared \cup {EmptyTree} : Put(d, t)
    /\ UNCHANGED <<repo, images, lock, pc, seen, report, moves>>

\* Somebody edits, links or removes a file of a candidate no capture is at.
EditCandidate(n) ==
    /\ Fault
    /\ disk["candidate"] # NoTree
    /\ Has(disk["candidate"], n)
    /\ \A p \in Capturers : pc[p] \notin {"published", "resealed", "reverified"}
    /\ \/ \E b \in {Junk, Link} \ {disk["candidate"].files[n]} :
              Put("candidate", WithFile(disk["candidate"], n, b))
       \/ Put("candidate", Without(disk["candidate"], n))
    /\ UNCHANGED <<repo, images, lock, pc, seen, report, moves>>

Kill(p) ==
    /\ Fault
    /\ pc[p] \notin {"idle", "done", "killed"}
    /\ Goto(p, "killed")
    /\ UNCHANGED <<repo, disk, images, lock, seen, report, moves>>

---------------------------------------------------------------------------
Init ==
    /\ repo \in [head : Commits, clean : {TRUE}]
    /\ \E t \in Prepared \cup {NoTree} :
          disk = [d \in Paths |-> IF d = "candidate" THEN t ELSE NoTree]
    /\ images = {}
    /\ lock = NoLock
    /\ pc = [p \in Procs |-> "idle"]
    /\ seen = [p \in Procs |-> NoTree]
    /\ report = [p \in Procs |-> "none"]
    /\ moves = 0
    /\ faults = 0

Capture(p) ==
    \/ CaptureBegins(p) \/ CaptureSource(p) \/ CheckUnchanged(p)
    \/ SmokePasses(p) \/ BuildFails(p) \/ CheckHealth(p)
    \/ WriteDocuments(p) \/ SealAndManifest(p) \/ VerifyStaging(p)
    \/ OpenForPromotion(p) \/ PromoteCandidate(p) \/ SealDestination(p)
    \/ VerifyPromoted(p) \/ ReportCaptured(p)
    \/ CaptureFails(p) \/ CleanUpCapture(p)

Finalize(p) ==
    \/ FinalizeBegins(p) \/ AcquireLock(p) \/ SnapshotCandidate(p)
    \/ VerifyCandidate(p) \/ CopyCandidate(p) \/ CopyTree(p)
    \/ FreezeStaging(p) \/ CheckDestination(p) \/ PromoteCheckpoint(p)
    \/ ResealCheckpoint(p) \/ VerifyCheckpoint(p)
    \/ FinalizeRefused(p) \/ FinalizeFails(p) \/ CleanUpFinalization(p)

Around ==
    \/ MoveRepository
    \/ \E d \in Paths : DropMetadata(d)
    \/ \E d \in {"candidate", "checkpoint"} : MakeDirectory(d)
    \/ \E n \in Names : EditCandidate(n)
    \/ \E p \in Procs : Kill(p)

Next ==
    \/ \E p \in Capturers : Capture(p)
    \/ \E p \in Finalizers : Finalize(p)
    \/ Around

Spec == Init /\ [][Next]_vars

---------------------------------------------------------------------------
Pcs == {"idle", "failing", "done", "killed"}
       \cup {"begun", "source", "stable", "smoked", "runtime", "built", "documented",
             "sealed", "verified", "promotable", "open", "published", "resealed", "reverified"}
       \cup {"targeted", "locked", "unlocking", "snapshot", "accepted", "copying", "copied",
             "frozen", "finalized"}

TypeOK ==
    /\ repo \in [head : Commits, clean : BOOLEAN]
    /\ disk \in [Paths -> Trees(Names) \cup {NoTree}]
    /\ images \subseteq Capturers
    /\ lock \in Finalizers \cup {NoLock}
    /\ pc \in [Procs -> Pcs]
    /\ seen \in [Procs -> Commits \cup Trees(Names) \cup {NoTree}]
    /\ report \in [Procs -> Reports]
    /\ moves \in 0..MaxMoves
    /\ faults \in 0..MaxFaults

(* When capture_runtime_candidate reports captured, the candidate at its
   destination is the one it made, sealed and covered by its manifest, all of
   it about the one commit observed at the start; and neither its image nor its
   staging directory is left. The branch may have moved and come back in
   between, so that the bundle is of another commit than the sources, and
   another capture may have wanted the same destination. *)
CapturedIsCoherent ==
    [][\A p \in Capturers : report[p] # "captured" /\ report'[p] = "captured" =>
          /\ OneCommit(disk'["candidate"], seen[p])
          /\ disk'["candidate"].files["completion"].by = p
          /\ disk'["candidate"].manifest = disk'["candidate"].files
          /\ disk'["candidate"].sealed
          /\ ~Has(disk'["candidate"], "metadata")
          /\ disk'[p] = NoTree
          /\ p \notin images']_vars

Payload(t) == [n \in DOMAIN t.files \ {"nested"} |-> t.files[n]]

(* When finalize_checkpoint reports finalized, the sealed checkpoint verifies
   without a warning and holds exactly the payload of a candidate that its own
   manifest had covered: regenerating the manifests never signs bytes that the
   candidate's evidence had not, although the candidate is edited while it is
   verified and copied. Only an edit that is undone again between the two
   snapshots, hence two changes, is seen by neither. *)
FinalizedWasAccepted ==
    [][\A p \in Finalizers : report[p] # "finalized" /\ report'[p] = "finalized" =>
          /\ ValidWithoutWarnings(disk'["checkpoint"])
          /\ disk'["checkpoint"].sealed
          /\ Payload(disk'["checkpoint"]) = Payload(seen[p])
          /\ faults < 2 => Valid(seen[p])]_vars

(* No process replaces, removes or changes the content of a directory that a
   candidate or a checkpoint has been published at, its own included: captures
   and finalizers that raced for a path leave the first one's files. *)
PublishedIsKept ==
    [][\A d \in {"candidate", "checkpoint"} :
          disk[d] \notin {NoTree, EmptyTree} /\ faults' = faults =>
              /\ disk'[d] # NoTree
              /\ disk'[d].files = disk[d].files
              /\ disk'[d].manifest = disk[d].manifest]_vars

(* A process that reported success or a plain failure has left no image, no
   staging directory and no lock of its own behind: what its cleanup could not
   remove is in its report. *)
NothingLeftSilently ==
    \A p \in Procs : report[p] \in {"captured", "finalized", "failed"} =>
        disk[p] = NoTree /\ p \notin images /\ lock # p
=============================================================================
