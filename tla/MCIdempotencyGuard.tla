------------------------- MODULE MCIdempotencyGuard -------------------------
(* Constants of the TLC runs over IdempotencyGuard. *)
EXTENDS IdempotencyGuard, TLC

CallSymmetry == Permutations(Calls)
=============================================================================
