---------------------- MODULE MCCheckpointPublication ----------------------
(* Captures and finalizers of the same two paths, two commits. A candidate may
   also have been prepared by hand: with a nested manifest that matches or does
   not, with the legacy exception marker, or with a README that is not the one
   its manifest was written for. *)
EXTENDS CheckpointPublication, TLC

CONSTANTS k1, f1, f2, c1, c2

HandMade ==
    LET b == About(c1, Hand)
        files == [n \in Names \ {"nested", "exception", "metadata"} |-> b]
    IN  Manifested([files |-> files, manifest |-> NoManifest, sealed |-> FALSE])

MCPrepared ==
    {HandMade,
     Manifested(WithFile(HandMade, "nested", About(c2, Hand))),
     Manifested(WithFile(HandMade, "exception", Junk)),
     WithFile(HandMade, "readme", Junk)}

\* One commit of the time when the product had eight migrations, one of now.
MCSchema == [c \in Commits |-> IF c = c1 THEN 8 ELSE 15]

\* Nobody reads the repository once every capture is over.
View ==
    <<IF \E p \in Capturers : pc[p] \notin {"failing", "done", "killed"}
          THEN <<repo, moves>> ELSE <<>>,
      disk, images, lock, pc, seen, report, faults>>

Sym == Permutations(Finalizers)
=============================================================================
