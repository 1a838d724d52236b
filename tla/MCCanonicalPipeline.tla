------------------------- MODULE MCCanonicalPipeline -------------------------
(* Two workers on one execution. The clock may step back, so
   leases, grants and the approval run out while a worker sleeps. *)
EXTENDS CanonicalPipeline, TLC

CONSTANTS w1, w2, s1, s2, x1, u1, u2

MCTimes == 0..2
Sym == {p @@ q @@ r : p \in Permutations({w1, w2}), q \in Permutations({s1, s2}),
                      r \in Permutations({u1, u2})}
=============================================================================
