-------------------------- MODULE IdempotencyGuard --------------------------
(***************************************************************************)
(* withIdempotency (order, cart, product, payment_callback, order_event)   *)
(* and ExecuteIdempotent (baseline) over the Redis record of one scene and *)
(* key, the callers being requests, provider callbacks or deliveries that  *)
(* carry the same key.  A token is the nanosecond of its acquisition: it   *)
(* is represented by the call.                                             *)
(*                                                                         *)
(* Two things are outside the guard's control and are steps of their own:  *)
(* the record expires whenever its TTL runs out, also under a slow holder, *)
(* and the process of a call may die between any two of its steps.         *)
(***************************************************************************)
EXTENDS Naturals

CONSTANTS
  Calls,       \* calls with this key
  Variants     \* what guards the key, one of
               \* "replay": a duplicate is answered with the stored result or
               \*    refused (order, cart, product)
               \* "ack": it is acknowledged at once (payment_callback, order_event)
               \* "takeover": as "replay", but the record of a failed call stays,
               \*    FAILED, and the next call takes it over (baseline)

ASSUME VariantsAssumption == Variants \subseteq {"replay", "ack", "takeover"}

VARIABLES
  variant,     \* the guard of this key, for ever
  record,      \* the Redis value of the key
  window,      \* how many times the record has expired
  pc,          \* where each call stands
  windowOf,    \* the window in which a call acquired the record
  committed,   \* calls whose action committed and reported it, with their window
  doubtful,    \* calls whose commit took effect but came back as an error
  answer       \* what each call returned

vars == <<variant, record, window, pc, windowOf, committed, doubtful, answer>>

NoRecord == [status |-> "NONE"]
Processing(c) == [status |-> "PROCESSING", token |-> c]
Done(c) == [status |-> "DONE", token |-> c]
Failed(c) == [status |-> "FAILED", token |-> c]

NoAnswer == [kind |-> "none"]
Error == [kind |-> "error"]
Ack == [kind |-> "ack"]
Result(c) == [kind |-> "result", of |-> c]

TypeOK ==
  /\ variant \in Variants
  /\ record \in {NoRecord} \cup [status : {"PROCESSING", "DONE", "FAILED"}, token : Calls]
  /\ window \in Nat
  /\ pc \in [Calls -> {"idle", "running", "refused", "duplicate", "committed", "failed", "returned", "crashed"}]
  /\ windowOf \in [Calls -> Nat]
  /\ committed \subseteq [call : Calls, window : Nat]
  /\ doubtful \subseteq Calls
  /\ answer \in [Calls -> {NoAnswer, Error, Ack} \cup [kind : {"result"}, of : Calls]]

Init ==
  /\ variant \in Variants
  /\ record = NoRecord
  /\ window = 0
  /\ pc = [c \in Calls |-> "idle"]
  /\ windowOf = [c \in Calls |-> 0]
  /\ committed = {}
  /\ doubtful = {}
  /\ answer = [c \in Calls |-> NoAnswer]

-----------------------------------------------------------------------------
Goto(c, place) ==
  /\ pc' = [pc EXCEPT ![c] = place]
  /\ UNCHANGED <<variant, answer>>

Return(c, a) ==
  /\ pc' = [pc EXCEPT ![c] = "returned"]
  /\ answer' = [answer EXCEPT ![c] = a]
  /\ UNCHANGED variant

NotDone == record.status # "DONE"    \* mutant: SET over a PROCESSING record
Free == record = NoRecord

(* SET NX PX.  The reply may be lost: the call fails and the record stays. *)
Acquire(c) ==
  /\ pc[c] = "idle"
  /\ Free
  /\ record' = Processing(c)
  /\ windowOf' = [windowOf EXCEPT ![c] = window]
  /\ Goto(c, "running") \/ Return(c, Error)
  /\ UNCHANGED <<window, committed, doubtful>>

AcquireRefused(c) ==
  /\ pc[c] = "idle" /\ variant # "ack"
  /\ record # NoRecord
  /\ Goto(c, IF variant = "takeover" THEN "refused" ELSE "duplicate")
  /\ UNCHANGED <<record, window, windowOf, committed, doubtful>>

AckDuplicate(c) ==
  /\ pc[c] = "idle" /\ variant = "ack"
  /\ record # NoRecord
  /\ Return(c, Ack)
  /\ UNCHANGED <<record, window, windowOf, committed, doubtful>>

(* The script that takes over a FAILED record, a second round trip.        *)
NotSucceeded == record.status # "DONE"   \* mutant: also the record of a call at work
Left == record.status = "FAILED"

TakeOver(c) ==
  /\ pc[c] = "refused"
  /\ IF Left
       THEN /\ record' = Processing(c)
            /\ windowOf' = [windowOf EXCEPT ![c] = window]
            /\ Goto(c, "running") \/ Return(c, Error)    \* the reply is lost
       ELSE Goto(c, "duplicate") /\ UNCHANGED <<record, windowOf>>
  /\ UNCHANGED <<window, committed, doubtful>>

(* The store cannot be reached: the call fails before its action runs.     *)
AcquireFails(c) ==
  /\ pc[c] \in {"idle", "refused"}
  /\ Return(c, Error)
  /\ UNCHANGED <<record, window, windowOf, committed, doubtful>>

(* Another round trip, by when the record may be DONE, gone or another's.  *)
GetDoneResult(c) ==
  /\ pc[c] = "duplicate"
  /\ \/ record.status = "DONE" /\ Return(c, Result(record.token))
     \/ Return(c, Error)                   \* refused, or Redis fails
  /\ UNCHANGED <<record, window, windowOf, committed, doubtful>>

(* RunInTx(action).                                                        *)
Commit(c) ==
  /\ pc[c] = "running"
  /\ committed' = committed \cup {[call |-> c, window |-> windowOf[c]]}
  /\ Goto(c, "committed")
  /\ UNCHANGED <<record, window, windowOf, doubtful>>

(* It may have taken effect: the reply to COMMIT is lost, or the result of *)
(* what was committed cannot be encoded.                                   *)
Fail(c) ==
  /\ pc[c] = "running"
  /\ Goto(c, "failed")
  /\ doubtful' \in {doubtful, doubtful \cup {c}}
  /\ UNCHANGED <<record, window, windowOf, committed>>

(* The scripts compare the token, and the status, with those of the record. *)
AnyHolder(c) == record.status = "PROCESSING"       \* mutant: no comparison of the token
Holds(c) == record = Processing(c)

Released(c) == IF variant = "takeover" THEN Failed(c) ELSE NoRecord

(* The error of MarkDone or MarkFailed is dropped: the record stays as it  *)
(* is when Redis cannot be reached.                                        *)
MarkDone(c) ==
  /\ pc[c] = "committed" /\ variant # "takeover"
  /\ record' \in {record, IF Holds(c) THEN Done(c) ELSE record}
  /\ Return(c, Result(c))
  /\ UNCHANGED <<window, windowOf, committed, doubtful>>

(* Baseline returns the error of MarkSuccess, and one when the record was  *)
(* no longer its own.                                                      *)
MarkSuccess(c) ==
  /\ pc[c] = "committed" /\ variant = "takeover"
  /\ \/ Holds(c) /\ record' = Done(c) /\ Return(c, Result(c))
     \/ record' \in {record, IF Holds(c) THEN Done(c) ELSE record} /\ Return(c, Error)
  /\ UNCHANGED <<window, windowOf, committed, doubtful>>

MarkFailed(c) ==
  /\ pc[c] = "failed"
  /\ record' \in {record, IF Holds(c) THEN Released(c) ELSE record}
  /\ Return(c, Error)
  /\ UNCHANGED <<window, windowOf, committed, doubtful>>

Crash(c) ==
  /\ pc[c] \in {"running", "refused", "duplicate", "committed", "failed"}
  /\ Goto(c, "crashed")
  /\ UNCHANGED <<record, window, windowOf, committed, doubtful>>

DoneOnly == record.status = "DONE"   \* mutant: SET NX without its TTL
HasTTL == record # NoRecord

Expire ==
  /\ HasTTL
  /\ record' = NoRecord
  /\ window' = window + 1
  /\ UNCHANGED <<variant, pc, windowOf, committed, doubtful, answer>>

Step(c) ==
  \/ Acquire(c)
  \/ AcquireRefused(c)
  \/ AckDuplicate(c)
  \/ TakeOver(c)
  \/ AcquireFails(c)
  \/ GetDoneResult(c)
  \/ Commit(c)
  \/ Fail(c)
  \/ MarkDone(c)
  \/ MarkSuccess(c)
  \/ MarkFailed(c)

Next == Expire \/ \E c \in Calls : Step(c) \/ Crash(c)

Spec == Init /\ [][Next]_vars

(* A call that started goes on unless its process dies, and Redis expires  *)
(* the record some day.  Nothing obliges anyone to call.                   *)
Fairness ==
  /\ WF_vars(Expire)
  /\ \A c \in Calls : WF_vars(pc[c] # "idle" /\ Step(c))

FairSpec == Spec /\ Fairness

-----------------------------------------------------------------------------
(* The guard keeps the promise of OncePerWindow: one reported execution    *)
(* per window and results that were really committed, with slow holders,   *)
(* crashes, lost replies and marks that never reach Redis.                 *)
Promise == INSTANCE OncePerWindow
  WITH replies <- {[to |-> c, result |-> answer[c].of] : c \in {d \in Calls : answer[d].kind = "result"}}
KeepsPromise == Promise!Spec

(* A stored result is that of the call that committed in this very window: *)
(* a mark that arrives late never publishes a result under the record of a *)
(* later holder.                                                           *)
DoneIsCommitted ==
  record.status = "DONE" => [call |-> record.token, window |-> window] \in committed

(* The record of a call in flight is changed by that call or by its TTL:   *)
(* a holder whose record expired cannot release or complete the next one's.*)
HolderUndisturbed ==
  [][\A c \in Calls :
       record = Processing(c) /\ record' # record => pc'[c] # pc[c] \/ window' # window]_vars

(* The key of a dead process becomes usable again.                         *)
KeyFreed == \A c \in Calls : record = Processing(c) /\ pc[c] = "crashed" ~> record # Processing(c)

(* order_event/app/idempotency.go: a delivery that finds the record is     *)
(* "duplicated consumed message, safe to ack": once nobody works on the    *)
(* message any more, an acknowledged message has taken effect.             *)
AckIsSafe ==
  /\ \E c \in Calls : answer[c] = Ack
  /\ \A c \in Calls : pc[c] \in {"idle", "returned", "crashed"}
  => committed # {} \/ doubtful # {}
=============================================================================
