-------------------------- MODULE MCAuthRateLimit ---------------------------
(* Instances of AuthRateLimit for TLC. *)
EXTENDS AuthRateLimit, TLC

CONSTANTS r1, r2, alice, host

MCTimes == {0, 1, 3, 5, 9}
MCSymmetry == Permutations(Clients)
=============================================================================
