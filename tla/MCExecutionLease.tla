-------------------------- MODULE MCExecutionLease --------------------------
(* Three callers race on one admission: leases of two ticks on a clock of six
   instants, so that three epochs fit and the clock can step back into the
   window of a lease that was superseded. *)
EXTENDS ExecutionLease, TLC

CONSTANTS a1, w1, w2, w3, d1, d2

MCTimes == 0..5
Sym == Permutations({w1, w2, w3}) \cup Permutations({d1, d2})
=============================================================================
