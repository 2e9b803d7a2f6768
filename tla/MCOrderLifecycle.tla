-------------------------- MODULE MCOrderLifecycle --------------------------
(* Constants of the TLC runs over OrderLifecycle: every payment transaction *)
(* pays the same order.                                                     *)
EXTENDS OrderLifecycle, TLC

OneOrder == [t \in Txns |-> CHOOSE o \in Orders : TRUE]

PaymentSymmetry == Permutations(Requests) \cup Permutations(Txns)
=============================================================================
