------------------------- MODULE MCSessionLifecycle -------------------------
(* Instances of SessionLifecycle for TLC. *)
EXTENDS SessionLifecycle

CONSTANTS r1, r2, s1, s2, root, alice

MCTimes == 0..2
=============================================================================
