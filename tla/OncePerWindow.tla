--------------------------- MODULE OncePerWindow ----------------------------
(***************************************************************************)
(* What a caller that repeats a request with one idempotency key is        *)
(* promised: in each window (the life of the key's record, from the first  *)
(* acquisition to its expiry) the operation takes effect for one call at   *)
(* most, and a call that is answered with a result gets the result of a    *)
(* call that took effect.                                                  *)
(***************************************************************************)
EXTENDS Naturals

CONSTANT Calls

VARIABLES
  window,      \* the current window
  committed,   \* the calls that took effect, each with its window
  replies      \* the results given, each with the call it was given to

vars == <<window, committed, replies>>

Init == window = 0 /\ committed = {} /\ replies = {}

Execute(c, w) ==
  /\ \A e \in committed : e.window # w
  /\ committed' = committed \cup {[call |-> c, window |-> w]}
  /\ UNCHANGED <<window, replies>>

Reply(c, d) ==
  /\ \E e \in committed : e.call = d
  /\ replies' = replies \cup {[to |-> c, result |-> d]}
  /\ UNCHANGED <<window, committed>>

Expire ==
  /\ window' = window + 1
  /\ UNCHANGED <<committed, replies>>

Next ==
  \/ Expire
  \/ \E c \in Calls, w \in 0 .. window : Execute(c, w)
  \/ \E c, d \in Calls : Reply(c, d)

Spec == Init /\ [][Next]_vars
=============================================================================
