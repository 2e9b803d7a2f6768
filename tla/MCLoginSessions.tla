--------------------------- MODULE MCLoginSessions --------------------------
(* LoginSessions for TLC: calls and accounts are alike.                    *)
EXTENDS LoginSessions, TLC

Symmetry == Permutations(Calls) \cup Permutations(Accounts)
=============================================================================
