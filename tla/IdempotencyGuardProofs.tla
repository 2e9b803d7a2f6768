----------------------- MODULE IdempotencyGuardProofs -----------------------
(***************************************************************************)
(* Proofs about IdempotencyGuard for any number of calls.  The invariant   *)
(* ties each call that may still take effect to the window it acquired the *)
(* record in: as long as that window lasts the record is its own.          *)
(***************************************************************************)
EXTENDS IdempotencyGuard, TLAPS

InFlight(c) == pc[c] \in {"running", "committed", "failed"}

Held(c) == record = Processing(c) \/ record = Done(c)

(* No call has a window of the future, and the record is of this window.   *)
WindowInv ==
  \A c \in Calls : windowOf[c] <= window /\ (Held(c) => windowOf[c] = window)

(* A call in flight whose window lasts still holds the record.             *)
HolderInv ==
  \A c \in Calls : InFlight(c) /\ windowOf[c] = window => record = Processing(c)

(* A call that may still commit is alone in its window.                    *)
RunningInv ==
  \A c \in Calls : pc[c] = "running" =>
    /\ \A d \in Calls : pc[d] = "running" /\ windowOf[d] = windowOf[c] => d = c
    /\ \A e \in committed : e.window # windowOf[c]

(* An execution belongs to the window of its call, one per window; the     *)
(* record of the current window is still that of its execution.            *)
CommittedInv ==
  /\ \A e \in committed : e.window <= window /\ (e.window = window => Held(e.call))
  /\ \A c \in Calls : pc[c] = "committed" => [call |-> c, window |-> windowOf[c]] \in committed
  /\ \A c \in Calls : pc[c] \in {"idle", "refused", "running", "failed"} => \A e \in committed : e.call # c

(* What was answered was committed.                                        *)
AnswerInv ==
  \A c \in Calls : answer[c].kind = "result" => \E e \in committed : e.call = answer[c].of

IInv ==
  /\ TypeOK
  /\ WindowInv
  /\ HolderInv
  /\ RunningInv
  /\ CommittedInv
  /\ AnswerInv
  /\ DoneIsCommitted

-----------------------------------------------------------------------------
(* The three values of the record differ, and tell the calls apart.        *)
LEMMA RecordValues ==
  ASSUME NEW c, NEW d
  PROVE  /\ Processing(c) # NoRecord /\ Done(c) # NoRecord /\ Processing(c) # Done(d)
         /\ Processing(c) = Processing(d) => c = d
         /\ Done(c) = Done(d) => c = d
         /\ Processing(c).token = c /\ Done(c).token = c
         /\ Processing(c).status = "PROCESSING" /\ Done(c).status = "DONE" /\ NoRecord.status = "NONE"
         /\ Failed(c).status = "FAILED" /\ Failed(c) # Processing(d) /\ Failed(c) # Done(d)
PROOF
<1>1. /\ Processing(c).token = c /\ Done(c).token = c
      /\ Processing(d).token = d /\ Done(d).token = d
      /\ Processing(c).status = "PROCESSING" /\ Done(c).status = "DONE" /\ NoRecord.status = "NONE"
      /\ Done(d).status = "DONE" /\ Processing(d).status = "PROCESSING" /\ Failed(c).status = "FAILED"
  BY DEF Processing, Done, Failed, NoRecord
<1> QED
  BY <1>1

(* Every step keeps the variables in their types.                          *)
LEMMA TypeStep ==
  ASSUME TypeOK, Next
  PROVE  TypeOK'
PROOF
<1> USE DEF TypeOK, Goto, Return, Error, Ack, Result, NoAnswer
<1>1. ASSUME NEW c \in Calls, Acquire(c) PROVE TypeOK'
  BY <1>1 DEF Acquire, Processing
<1>2. ASSUME NEW c \in Calls, AcquireRefused(c) \/ AckDuplicate(c) PROVE TypeOK'
  BY <1>2 DEF AcquireRefused, AckDuplicate
<1>3. ASSUME NEW c \in Calls, AcquireFails(c) PROVE TypeOK'
  BY <1>3 DEF AcquireFails
<1>4. ASSUME NEW c \in Calls, GetDoneResult(c) PROVE TypeOK'
  <2>1. record.status = "DONE" => record.token \in Calls
    BY DEF NoRecord
  <2> QED
    BY <1>4, <2>1 DEF GetDoneResult
<1>5. ASSUME NEW c \in Calls, Commit(c) \/ Fail(c) \/ Crash(c) PROVE TypeOK'
  BY <1>5 DEF Commit, Fail, Crash
<1>6. ASSUME NEW c \in Calls, MarkDone(c) \/ MarkSuccess(c) \/ MarkFailed(c) PROVE TypeOK'
  BY <1>6 DEF MarkDone, MarkSuccess, MarkFailed, Released, Done, Failed, NoRecord
<1>8. ASSUME NEW c \in Calls, TakeOver(c) PROVE TypeOK'
  BY <1>8 DEF TakeOver, Processing
<1>7. ASSUME Expire PROVE TypeOK'
  BY <1>7 DEF Expire
<1> QED
  BY <1>1, <1>2, <1>3, <1>4, <1>5, <1>6, <1>7, <1>8 DEF Next, Step

-----------------------------------------------------------------------------
(* The steps of a call that touch neither the record nor an execution.     *)
LEMMA QuietStep ==
  ASSUME IInv, TypeOK', NEW c \in Calls,
         \/ AcquireRefused(c) \/ AckDuplicate(c) \/ AcquireFails(c) \/ GetDoneResult(c) \/ Crash(c)
         \/ TakeOver(c) /\ record.status # "FAILED"
  PROVE  IInv'
PROOF
<1>1. /\ UNCHANGED <<record, window, windowOf, committed>>
      /\ \A d \in Calls : pc'[d] \in {"idle", "running", "committed", "failed"} => pc'[d] = pc[d]
      /\ \A d \in Calls : pc'[d] = "refused" => pc[d] \in {"idle", "refused"}
      /\ \A d \in Calls : pc'[d] = pc[d] \/ d = c
  BY DEF IInv, TypeOK, AcquireRefused, AckDuplicate, AcquireFails, GetDoneResult, Crash, TakeOver, Left, Goto, Return
<1>2. WindowInv' /\ DoneIsCommitted'
  BY <1>1 DEF IInv, WindowInv, Held, DoneIsCommitted
<1>3. HolderInv' /\ RunningInv' /\ CommittedInv'
  BY <1>1 DEF IInv, HolderInv, InFlight, RunningInv, CommittedInv, Held
<1>4. AnswerInv'
  <2>1. ASSUME GetDoneResult(c), answer'[c].kind = "result"
        PROVE  \E e \in committed : e.call = answer'[c].of
    <3>1. record.status = "DONE" /\ answer'[c] = Result(record.token)
      BY <2>1 DEF GetDoneResult, Return, Error, Result, IInv, TypeOK
    <3>2. [call |-> record.token, window |-> window] \in committed /\ answer'[c].of = record.token
      BY <3>1 DEF IInv, DoneIsCommitted, Result
    <3> QED
      BY <3>2
  <2>2. ASSUME ~GetDoneResult(c)
        PROVE  answer'[c] = answer[c] \/ answer'[c].kind # "result"
    BY <2>2 DEF AcquireRefused, AckDuplicate, AcquireFails, Crash, TakeOver, Left, Goto, Return, Error, Ack, IInv, TypeOK
  <2>3. \A d \in Calls : d # c => answer'[d] = answer[d]
    BY DEF AcquireRefused, AckDuplicate, AcquireFails, GetDoneResult, Crash, TakeOver, Left, Goto, Return, IInv, TypeOK
  <2> QED
    BY <1>1, <2>1, <2>2, <2>3 DEF IInv, AnswerInv
<1> QED
  BY <1>2, <1>3, <1>4 DEF IInv

(* A call that acquires the key, or takes over the record of one that      *)
(* failed, opens no second execution in the window.                        *)
LEMMA AcquireStep ==
  ASSUME IInv, TypeOK', NEW c \in Calls,
         Acquire(c) \/ (TakeOver(c) /\ record.status = "FAILED")
  PROVE  IInv'
PROOF
<1>1. /\ pc[c] \in {"idle", "refused"} /\ record.status \in {"NONE", "FAILED"} /\ record' = Processing(c)
      /\ windowOf'[c] = window /\ pc'[c] \in {"running", "returned"}
      /\ UNCHANGED <<window, committed>>
      /\ \A d \in Calls : d # c => windowOf'[d] = windowOf[d] /\ pc'[d] = pc[d]
      /\ window \in Nat
  BY DEF Acquire, TakeOver, Left, Free, NoRecord, Goto, Return, IInv, TypeOK
<1>2. \A d \in Calls : ~Held(d)
  BY <1>1, RecordValues DEF Held
<1>3. /\ \A d \in Calls : InFlight(d) => windowOf[d] # window
      /\ \A e \in committed : e.window # window
  <2>1. \A e \in committed : e.call \in Calls
    BY DEF IInv, TypeOK
  <2> QED
    BY <1>1, <1>2, <2>1 DEF IInv, HolderInv, CommittedInv, Held
<1>4. WindowInv'
  BY <1>1, RecordValues DEF IInv, WindowInv, Held
<1>5. HolderInv'
  BY <1>1, <1>3 DEF IInv, HolderInv, InFlight
<1>6. RunningInv'
  BY <1>1, <1>3 DEF IInv, RunningInv, InFlight
<1>7. CommittedInv'
  BY <1>1, <1>3 DEF IInv, CommittedInv
<1>8. AnswerInv'
  BY DEF IInv, AnswerInv, Acquire, TakeOver, Left, Goto, Return, Error, TypeOK
<1>9. DoneIsCommitted'
  BY <1>1, RecordValues DEF DoneIsCommitted
<1> QED
  BY <1>4, <1>5, <1>6, <1>7, <1>8, <1>9 DEF IInv

(* A commit is the first one reported in the window of its call.           *)
LEMMA CommitStep ==
  ASSUME IInv, TypeOK', NEW c \in Calls, Commit(c)
  PROVE  IInv'
PROOF
<1> DEFINE x == [call |-> c, window |-> windowOf[c]]
<1>1. /\ pc[c] = "running" /\ pc'[c] = "committed"
      /\ committed' = committed \cup {x}
      /\ UNCHANGED <<record, window, windowOf, answer>>
      /\ \A d \in Calls : d # c => pc'[d] = pc[d]
  BY DEF Commit, Goto, IInv, TypeOK
<1>2. WindowInv'
  BY <1>1 DEF IInv, WindowInv, Held
<1>3. HolderInv'
  BY <1>1 DEF IInv, HolderInv, InFlight
<1>4. RunningInv'
  BY <1>1 DEF IInv, RunningInv
<1>5. CommittedInv'
  <2>1. x.window <= window /\ (x.window = window => Held(x.call))
    BY <1>1 DEF IInv, WindowInv, HolderInv, InFlight, Held
  <2>2. \A e \in committed' : e.window <= window /\ (e.window = window => Held(e.call))
    BY <1>1, <2>1 DEF IInv, CommittedInv
  <2>3. \A d \in Calls : pc'[d] \in {"idle", "refused", "running", "failed"} => \A e \in committed' : e.call # d
    BY <1>1 DEF IInv, CommittedInv
  <2>4. \A d \in Calls : pc'[d] = "committed" => [call |-> d, window |-> windowOf[d]] \in committed'
    BY <1>1 DEF IInv, CommittedInv
  <2> QED
    BY <1>1, <2>2, <2>3, <2>4 DEF CommittedInv, Held
<1>6. AnswerInv' /\ DoneIsCommitted'
  BY <1>1 DEF IInv, AnswerInv, DoneIsCommitted
<1> QED
  BY <1>2, <1>3, <1>4, <1>5, <1>6 DEF IInv

(* A failed action leaves the record and the reported executions alone.    *)
LEMMA FailStep ==
  ASSUME IInv, TypeOK', NEW c \in Calls, Fail(c)
  PROVE  IInv'
PROOF
<1>1. /\ pc[c] = "running" /\ pc'[c] = "failed"
      /\ UNCHANGED <<record, window, windowOf, committed, answer>>
      /\ \A d \in Calls : d # c => pc'[d] = pc[d]
  BY DEF Fail, Goto, IInv, TypeOK
<1>2. WindowInv' /\ AnswerInv' /\ DoneIsCommitted'
  BY <1>1 DEF IInv, WindowInv, Held, AnswerInv, DoneIsCommitted
<1>3. HolderInv' /\ RunningInv'
  BY <1>1 DEF IInv, HolderInv, InFlight, RunningInv
<1>4. CommittedInv'
  BY <1>1 DEF IInv, CommittedInv, Held
<1> QED
  BY <1>2, <1>3, <1>4 DEF IInv

(* MarkDone or MarkSuccess completes the record of its own call or none.   *)
LEMMA MarkDoneStep ==
  ASSUME IInv, TypeOK', NEW c \in Calls, MarkDone(c) \/ MarkSuccess(c)
  PROVE  IInv'
PROOF
<1>1. /\ pc[c] = "committed" /\ pc'[c] = "returned"
      /\ record' = record \/ (record = Processing(c) /\ record' = Done(c))
      /\ UNCHANGED <<window, windowOf, committed>>
      /\ \A d \in Calls : d # c => pc'[d] = pc[d] /\ answer'[d] = answer[d]
      /\ answer'[c] \in {Result(c), Error}
  BY DEF MarkDone, MarkSuccess, Return, Holds, IInv, TypeOK
<1>2. [call |-> c, window |-> windowOf[c]] \in committed
  BY <1>1 DEF IInv, CommittedInv
<1>3. \A d \in Calls : Held(d)' <=> Held(d)
  BY <1>1, RecordValues DEF Held
<1>4. WindowInv' /\ AnswerInv'
  BY <1>1, <1>2, <1>3 DEF IInv, WindowInv, AnswerInv, Result, Error
<1>5. HolderInv'
  BY <1>1, RecordValues DEF IInv, HolderInv, InFlight
<1>6. RunningInv'
  BY <1>1 DEF IInv, RunningInv
<1>7. CommittedInv'
  <2>1. \A e \in committed : e.call \in Calls
    BY DEF IInv, TypeOK
  <2> QED
    BY <1>1, <1>3, <2>1 DEF IInv, CommittedInv
<1>8. DoneIsCommitted'
  <2>1. CASE record' = record
    BY <1>1, <2>1 DEF IInv, DoneIsCommitted
  <2>2. CASE record = Processing(c) /\ record' = Done(c)
    <3>1. windowOf[c] = window
      BY <2>2 DEF IInv, WindowInv, Held
    <3> QED
      BY <1>1, <1>2, <2>2, <3>1, RecordValues DEF DoneIsCommitted
  <2> QED
    BY <1>1, <2>1, <2>2
<1> QED
  BY <1>4, <1>5, <1>6, <1>7, <1>8 DEF IInv

(* MarkFailed releases the record of its own call or none.                 *)
LEMMA MarkFailedStep ==
  ASSUME IInv, TypeOK', NEW c \in Calls, MarkFailed(c)
  PROVE  IInv'
PROOF
<1>1. /\ pc[c] = "failed" /\ pc'[c] = "returned"
      /\ record' = record \/ (record = Processing(c) /\ record' \in {NoRecord, Failed(c)})
      /\ UNCHANGED <<window, windowOf, committed>>
      /\ \A d \in Calls : d # c => pc'[d] = pc[d] /\ answer'[d] = answer[d]
      /\ answer'[c] = Error
  BY DEF MarkFailed, Return, Holds, Released, IInv, TypeOK
<1>2. \A d \in Calls : d # c => (Held(d)' <=> Held(d))
  BY <1>1, RecordValues DEF Held
<1>3. Held(c)' => Held(c)
  BY <1>1, RecordValues DEF Held
<1>4. WindowInv' /\ AnswerInv'
  BY <1>1, <1>2, <1>3 DEF IInv, WindowInv, AnswerInv, Error
<1>5. HolderInv'
  BY <1>1, RecordValues DEF IInv, HolderInv, InFlight
<1>6. RunningInv'
  BY <1>1 DEF IInv, RunningInv
<1>7. CommittedInv'
  <2>1. \A e \in committed : e.call \in Calls /\ e.call # c
    BY <1>1 DEF IInv, TypeOK, CommittedInv
  <2> QED
    BY <1>1, <1>2, <2>1 DEF IInv, CommittedInv
<1>8. DoneIsCommitted'
  BY <1>1, RecordValues DEF IInv, DoneIsCommitted
<1> QED
  BY <1>4, <1>5, <1>6, <1>7, <1>8 DEF IInv

(* An expiry closes the window of whoever holds the key.                   *)
LEMMA ExpireStep ==
  ASSUME IInv, TypeOK', Expire
  PROVE  IInv'
PROOF
<1>1. /\ record' = NoRecord /\ window' = window + 1 /\ window \in Nat
      /\ UNCHANGED <<pc, windowOf, committed, answer>>
  BY DEF Expire, IInv, TypeOK
<1>2. /\ \A c \in Calls : windowOf[c] \in Nat /\ windowOf[c] <= window
      /\ \A e \in committed : e.window \in Nat /\ e.window <= window
  BY DEF IInv, TypeOK, WindowInv, CommittedInv
<1>3. \A c \in Calls : ~Held(c)'
  BY <1>1, RecordValues DEF Held
<1>4. WindowInv' /\ HolderInv'
  BY <1>1, <1>2, <1>3 DEF WindowInv, HolderInv
<1>5. RunningInv' /\ AnswerInv'
  BY <1>1 DEF IInv, RunningInv, AnswerInv
<1>6. CommittedInv'
  BY <1>1, <1>2 DEF IInv, CommittedInv
<1>7. DoneIsCommitted'
  BY <1>1, RecordValues DEF DoneIsCommitted
<1> QED
  BY <1>4, <1>5, <1>6, <1>7 DEF IInv

-----------------------------------------------------------------------------
(* The invariant holds before the first call.                              *)
LEMMA InitInv == Init => IInv
PROOF
<1> SUFFICES ASSUME Init PROVE IInv
  OBVIOUS
<1> USE DEF Init
<1>1. TypeOK
  BY DEF TypeOK
<1>2. WindowInv /\ HolderInv /\ RunningInv /\ CommittedInv
  BY RecordValues DEF WindowInv, HolderInv, RunningInv, CommittedInv, InFlight, Held
<1>3. AnswerInv /\ DoneIsCommitted
  BY RecordValues DEF AnswerInv, DoneIsCommitted, NoAnswer
<1> QED
  BY <1>1, <1>2, <1>3 DEF IInv

(* Every step of every call keeps the invariant.                           *)
LEMMA InvStep == IInv /\ [Next]_vars => IInv'
PROOF
<1> SUFFICES ASSUME IInv, [Next]_vars PROVE IInv'
  OBVIOUS
<1>1. CASE Next
  <2>1. TypeOK'
    BY <1>1, TypeStep DEF IInv
  <2> QED
    BY <1>1, <2>1, QuietStep, AcquireStep, CommitStep, FailStep, MarkDoneStep, MarkFailedStep,
       ExpireStep DEF Next, Step
<1>2. CASE UNCHANGED vars
  <2> USE <1>2 DEF vars, IInv
  <2>1. TypeOK' /\ WindowInv' /\ HolderInv'
    BY DEF TypeOK, WindowInv, HolderInv, InFlight, Held
  <2>2. RunningInv' /\ CommittedInv' /\ AnswerInv' /\ DoneIsCommitted'
    BY DEF RunningInv, CommittedInv, AnswerInv, DoneIsCommitted, Held
  <2> QED
    BY <2>1, <2>2
<1> QED
  BY <1>1, <1>2

(* The invariant holds of every behaviour.                                 *)
THEOREM Invariance == Spec => []IInv
PROOF BY InitInv, InvStep, PTL DEF Spec

(* A stored result is that of the call that committed in this window.      *)
THEOREM DoneCommitted == Spec => []DoneIsCommitted
PROOF
<1>1. IInv => DoneIsCommitted
  BY DEF IInv
<1> QED
  BY <1>1, Invariance, PTL

(* No call changes the record of another call in flight.                   *)
THEOREM HolderKept == Spec => HolderUndisturbed
PROOF
<1> DEFINE Undisturbed ==
      \A c \in Calls :
        record = Processing(c) /\ record' # record => pc'[c] # pc[c] \/ window' # window
<1>1. ASSUME TypeOK, Next PROVE Undisturbed
  <2>1. ASSUME NEW d \in Calls, Step(d) \/ Crash(d) PROVE Undisturbed
    <3>1. CASE MarkDone(d) \/ MarkSuccess(d) \/ MarkFailed(d)
      <4>1. pc[d] # pc'[d] /\ (record' = record \/ record = Processing(d))
        BY <1>1, <3>1 DEF MarkDone, MarkSuccess, MarkFailed, Return, Holds, TypeOK
      <4> QED
        BY <4>1, RecordValues
    <3>2. CASE Acquire(d)
      BY <3>2, RecordValues DEF Acquire, Free
    <3>3. CASE TakeOver(d)
      BY <3>3, RecordValues DEF TakeOver, Left
    <3> QED
      BY <2>1, <3>1, <3>2, <3>3 DEF Step, AcquireRefused, AckDuplicate, AcquireFails, GetDoneResult, Commit, Fail, Crash
  <2>2. CASE Expire
    BY <1>1, <2>2 DEF Expire, TypeOK
  <2> QED
    BY <1>1, <2>1, <2>2 DEF Next
<1>2. IInv /\ [Next]_vars => [Undisturbed]_vars
  BY <1>1 DEF IInv
<1> QED
  BY <1>2, Invariance, PTL DEF Spec, HolderUndisturbed

-----------------------------------------------------------------------------
(* The results given so far, as OncePerWindow sees them.                   *)
Replies == {[to |-> c, result |-> answer[c].of] : c \in {d \in Calls : answer[d].kind = "result"}}

(* The initial states map to those of the promise.                         *)
LEMMA PromiseInit == Init => Promise!Init
PROOF
<1> SUFFICES ASSUME Init PROVE Promise!Init
  OBVIOUS
<1>1. \A c \in Calls : answer[c].kind # "result"
  BY DEF Init, NoAnswer
<1> QED
  BY <1>1 DEF Init, Promise!Init

(* A call that returns its first answer adds at most that answer.          *)
LEMMA RepliesStep ==
  ASSUME TypeOK, NEW c \in Calls, NEW a, Return(c, a), answer[c] = NoAnswer
  PROVE  Replies' = IF a.kind = "result" THEN Replies \cup {[to |-> c, result |-> a.of]} ELSE Replies
PROOF
<1>1. answer'[c] = a /\ (\A d \in Calls : d # c => answer'[d] = answer[d])
  BY DEF Return, TypeOK
<1>2. answer[c].kind # "result"
  BY DEF NoAnswer
<1> QED
  BY <1>1, <1>2 DEF Replies

(* A call has no answer before it returns.                                 *)
Unanswered == \A c \in Calls : pc[c] # "returned" => answer[c] = NoAnswer

(* A call that has not returned has no answer.                             *)
LEMMA UnansweredInv == Spec => []Unanswered
PROOF
<1>1. Init => Unanswered
  BY DEF Init, Unanswered
<1>2. TypeOK /\ Unanswered /\ [Next]_vars => Unanswered'
  BY DEF TypeOK, Unanswered, Next, Step, vars, Acquire, TakeOver, AcquireRefused, AckDuplicate, AcquireFails, GetDoneResult,
         Commit, Fail, MarkDone, MarkSuccess, MarkFailed, Crash, Expire, Goto, Return
<1>3. IInv => TypeOK
  BY DEF IInv
<1> QED
  BY <1>1, <1>2, <1>3, Invariance, PTL DEF Spec

(* Every step maps to a step of the promise or to a stutter.               *)
LEMMA PromiseStep ==
  ASSUME IInv, Unanswered, [Next]_vars
  PROVE  [Promise!Next]_Promise!vars
PROOF
<1> USE DEF Replies
<1>0. TypeOK
  BY DEF IInv
<1>1. CASE UNCHANGED vars
  BY <1>1 DEF vars, Promise!vars
<1>2. CASE Expire
  BY <1>2 DEF Expire, Promise!Next, Promise!Expire
<1>3. ASSUME NEW c \in Calls, Commit(c)
      PROVE  Promise!Next
  <2>1. PICK w \in 0 .. window : w = windowOf[c]
    BY <1>0 DEF IInv, WindowInv, TypeOK
  <2>2. \A e \in committed : e.window # w
    BY <1>3, <2>1 DEF IInv, RunningInv, Commit
  <2>3. /\ committed' = committed \cup {[call |-> c, window |-> w]}
        /\ UNCHANGED <<window, answer>>
    BY <1>3, <2>1 DEF Commit, Goto
  <2>4. Promise!Execute(c, w)
    BY <2>2, <2>3 DEF Promise!Execute
  <2> QED
    BY <2>1, <2>4 DEF Promise!Next
<1>4. ASSUME NEW c \in Calls, Acquire(c) \/ TakeOver(c) \/ AcquireRefused(c) \/ AckDuplicate(c) \/ AcquireFails(c) \/ Fail(c)
                              \/ MarkFailed(c) \/ Crash(c)
      PROVE  UNCHANGED Promise!vars
  <2>1. UNCHANGED <<window, committed>>
    BY <1>4 DEF Acquire, TakeOver, AcquireRefused, AckDuplicate, AcquireFails, Fail, MarkFailed, Crash
  <2>2. CASE UNCHANGED answer
    BY <2>1, <2>2 DEF Promise!vars
  <2>3. CASE Return(c, Error) \/ Return(c, Ack)
    <3>1. answer[c] = NoAnswer
      BY <1>4 DEF Acquire, TakeOver, AcquireRefused, AckDuplicate, AcquireFails, Fail, MarkFailed, Crash, Unanswered
    <3>2. Error.kind # "result" /\ Ack.kind # "result"
      BY DEF Error, Ack
    <3>3. Replies' = Replies
      BY <1>0, <2>3, <3>1, <3>2, RepliesStep
    <3> QED
      BY <2>1, <3>3 DEF Promise!vars
  <2> QED
    BY <1>4, <2>2, <2>3 DEF Acquire, TakeOver, AcquireRefused, AckDuplicate, AcquireFails, Fail, MarkFailed, Crash, Goto
<1>5. ASSUME NEW c \in Calls, GetDoneResult(c) \/ MarkDone(c) \/ MarkSuccess(c)
      PROVE  [Promise!Next]_Promise!vars
  <2>1. UNCHANGED <<window, committed>> /\ answer[c] = NoAnswer
    BY <1>5 DEF GetDoneResult, MarkDone, MarkSuccess, Unanswered
  <2>2. CASE Return(c, Error)
    <3>1. Error.kind # "result"
      BY DEF Error
    <3>2. Replies' = Replies
      BY <1>0, <2>1, <2>2, <3>1, RepliesStep
    <3> QED
      BY <2>1, <3>2 DEF Promise!vars
  <2>3. CASE \E e \in committed : Return(c, Result(e.call))
    <3>1. PICK e \in committed : Return(c, Result(e.call))
      BY <2>3
    <3>2. e.call \in Calls
      BY <1>0 DEF TypeOK
    <3>3. Result(e.call).kind = "result" /\ Result(e.call).of = e.call
      BY DEF Result
    <3>4. Replies' = Replies \cup {[to |-> c, result |-> e.call]}
      BY <1>0, <2>1, <3>1, <3>3, RepliesStep
    <3>5. Promise!Reply(c, e.call)
      BY <2>1, <3>4 DEF Promise!Reply
    <3> QED
      BY <3>2, <3>5 DEF Promise!Next
  <2>4. CASE GetDoneResult(c)
    <3>1. record.status = "DONE" => [call |-> record.token, window |-> window] \in committed
      BY DEF IInv, DoneIsCommitted
    <3> QED
      BY <2>2, <2>3, <2>4, <3>1 DEF GetDoneResult
  <2>5. CASE MarkDone(c) \/ MarkSuccess(c)
    <3>1. [call |-> c, window |-> windowOf[c]] \in committed
      BY <2>5 DEF IInv, CommittedInv, MarkDone, MarkSuccess
    <3> QED
      BY <2>2, <2>3, <2>5, <3>1 DEF MarkDone, MarkSuccess
  <2> QED
    BY <1>5, <2>4, <2>5
<1> QED
  BY <1>1, <1>2, <1>3, <1>4, <1>5 DEF Next, Step

(* withIdempotency implements its promise: in each window at most one call *)
(* takes effect (and says so), and every result is that of such a call.    *)
THEOREM GuardKeepsPromise == Spec => KeepsPromise
PROOF
<1>1. IInv /\ Unanswered /\ [Next]_vars => [Promise!Next]_Promise!vars
  BY PromiseStep
<1> QED
  BY <1>1, PromiseInit, Invariance, UnansweredInv, PTL DEF Spec, KeepsPromise, Promise!Spec
=============================================================================
