------------------------- MODULE CheckpointEvidence -------------------------
(***************************************************************************)
(* The checkpoint verifier, checkpoint_evidence.py, as a predicate on the  *)
(* directory it reads.  A directory is a tree: its payload files, its      *)
(* outer manifest ops/SHA256SUMS and whether its root is sealed (0500).    *)
(*                                                                         *)
(* Bytes are abstracted to what the verifier compares: the commit they     *)
(* describe and the run (image tag, timestamp) that wrote them.  A digest  *)
(* is the bytes it was taken of.  Anything else is Junk, a symbolic link   *)
(* is Link.                                                                *)
(***************************************************************************)
EXTENDS Naturals, FiniteSets

CONSTANTS
    Commits,    \* the commits the repository's branch can point at
    Makers,     \* the runs that write checkpoint files
    NoTree,     \* no directory at this path
    NoManifest, \* the directory has no ops/SHA256SUMS
    Junk, Link

\* The payload files the verifier tells apart, by their role:
\*   source      source/...                     archive    ops/artifacts/source-*.tar.gz
\*   bundle      ops/artifacts/*.bundle         rtbundle   ops/artifacts/voodoo-one-docker-runtime-*
\*   completion  CHECKPOINT_COMPLETE.txt        repository repository.json
\*   runtime     ops/evidence/runtime/README.txt and image inspect
\*   nested      ops/evidence/runtime/SHA256SUMS
\*   exception   03_RUNTIME_LOG_MANIFEST_EXCEPTION.txt
\*   readme      README.txt                     metadata   a file of the desktop in the root
Names == {"source", "archive", "bundle", "completion", "repository", "runtime",
          "rtbundle", "nested", "exception", "readme", "metadata"}

\* Bytes that were written by a run about a commit.
About(c, m) == [of |-> c, by |-> m]
Contents == [of : Commits, by : Makers] \cup {Junk, Link}

\* The files of a directory by name, or what a manifest says of them.
AreFiles(f) == DOMAIN f \subseteq Names /\ f \in [DOMAIN f -> Contents]
IsTree(t) ==
    /\ t \in [files : {t.files}, manifest : {t.manifest}, sealed : BOOLEAN]
    /\ AreFiles(t.files)
    /\ t.manifest # NoManifest => AreFiles(t.manifest)

\* All of them, when the names are N.
Files(N) == UNION {[D -> Contents] : D \in SUBSET N}
Trees(N) == [files : Files(N), manifest : Files(N) \cup {NoManifest}, sealed : BOOLEAN]

ASSUME AbsentAssumption ==
    /\ \A D \in SUBSET Names : NoManifest \notin [D -> Contents]
    /\ NoTree \notin Trees(Names)

Has(t, n) == n \in DOMAIN t.files
WellFormed(t, n) == Has(t, n) /\ t.files[n] \notin {Junk, Link}

\* The root is an existing directory, not a link (a tree stands for one).
RootIsDirectory(t) == t # NoTree

\* os.walk meets only real directories and regular files.
OnlyRegularFiles(t) == \A n \in DOMAIN t.files : t.files[n] # Link

\* The manifest names every payload file, no other, and each with its digest.
OuterManifestHolds(t) ==
    /\ t.manifest # NoManifest
    /\ DOMAIN t.manifest # {}
    /\ OnlyRegularFiles(t)
    /\ DOMAIN t.manifest = DOMAIN t.files
    /\ \A n \in DOMAIN t.manifest : t.manifest[n] = t.files[n]

\* The completion marker and repository.json tell the same commit and image.
ProvenanceAgrees(t) ==
    /\ WellFormed(t, "completion")
    /\ WellFormed(t, "repository")
    /\ t.files["repository"] = t.files["completion"]

\* The one bundle has the completion marker's branch at the marker's commit.
BundleMatches(t) ==
    /\ WellFormed(t, "bundle")
    /\ t.files["bundle"].of = t.files["completion"].of

\* source/ is exactly the tree of the bundle's commit.
SourceMatches(t) ==
    /\ WellFormed(t, "source")
    /\ t.files["source"].of = t.files["bundle"].of

\* The archive's members are exactly the files of source/.
ArchiveMatches(t) ==
    /\ WellFormed(t, "archive")
    /\ t.files["archive"].of = t.files["source"].of

\* The runtime evidence is about the marker's commit and image, and the bundle
\* of it is the one whose digest repository.json names.
RuntimeMatches(t) ==
    /\ WellFormed(t, "runtime")
    /\ t.files["runtime"] = t.files["completion"]
    /\ WellFormed(t, "rtbundle")
    /\ t.files["rtbundle"] = t.files["repository"]

\* A nested manifest that no longer matches is a warning; an exception marker
\* that cannot be read is an error.
NestedWarnings(t) == {n \in {"nested"} : Has(t, n) /\ t.files[n] # t.files["runtime"]}
ExceptionReadable(t) == Has(t, "exception") => WellFormed(t, "exception")

\* Mutant: what the digests cover is taken to belong together.
DigestsHold(t) == RootIsDirectory(t) /\ OuterManifestHolds(t) /\ ProvenanceAgrees(t)

\* verify(): the checks in order, each only if the earlier ones passed.
Valid(t) ==
    /\ RootIsDirectory(t)
    /\ OuterManifestHolds(t)
    /\ ProvenanceAgrees(t)
    /\ BundleMatches(t)
    /\ SourceMatches(t)
    /\ ArchiveMatches(t)
    /\ RuntimeMatches(t)
    /\ ExceptionReadable(t)

ValidWithoutWarnings(t) == Valid(t) /\ NestedWarnings(t) = {}

\* What the verifier is for, stated without it: every payload file that tells
\* a commit tells this one.
OneCommit(t, c) ==
    \A n \in {"source", "archive", "bundle", "completion", "repository", "runtime", "rtbundle"} :
        Has(t, n) /\ t.files[n] \notin {Junk, Link} /\ t.files[n].of = c
=============================================================================
