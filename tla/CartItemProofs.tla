--------------------------- MODULE CartItemProofs ---------------------------
(***************************************************************************)
(* Proofs about CartItem for any number of requests and any counts.  A     *)
(* line only grows older and its id does not come back, so what a request  *)
(* read is either the line of now or will never match again.               *)
(***************************************************************************)
EXTENDS CartItem, TLAPS

(* A row lock belongs to a transaction under way; one that has written     *)
(* holds it.                                                               *)
LockInv ==
  \A r \in Requests :
    /\ pc[r] = "written" => holder = r
    /\ holder = r => pc[r] \in {"trying", "written"}

(* The line a request works on is the one it first read: one of now or     *)
(* older.                                                                  *)
ReadInv ==
  /\ line.id < nextId
  /\ \A r \in Requests :
       /\ existing[r] = snapshot[r]
       /\ snapshot[r].id < nextId
       /\ snapshot[r].id = line.id => snapshot[r].version <= line.version
       /\ pc[r] \in {"trying", "written"} /\ cmd[r].op \in {"sub", "set"} => snapshot[r] # NoLine
       /\ pc[r] = "idle" => attempt[r] = 0 /\ snapshot[r] = NoLine
       /\ pc[r] = "trying" => attempt[r] < Attempts

(* The row a transaction will commit follows from the line, which nobody   *)
(* else changes meanwhile.                                                 *)
Inserted(r) ==
  /\ cmd[r].op = "add" /\ line = NoLine
  /\ new[r] # NoLine /\ new[r].quantity = cmd[r].count /\ new[r].id < nextId
  /\ \A q \in Requests : snapshot[q].id # new[r].id

Changed(r) ==
  /\ cmd[r].op # "clear" /\ ~Removes(r)
  /\ line # NoLine /\ VersionMatches(r)
  /\ new[r] = Updated(line, NewQuantity(r))

Deleted(r) == Removes(r) /\ line # NoLine /\ line.id = existing[r].id /\ new[r] = NoLine

Cleared(r) == cmd[r].op = "clear" /\ new[r] = NoLine

Outcome(r) == Inserted(r) \/ Changed(r) \/ Deleted(r) \/ Cleared(r)

NewInv == \A r \in Requests : pc[r] = "written" => Outcome(r)

(* A pass of the loop that fails is never made up for: the snapshot does   *)
(* not move on, so the retries repeat the statement that failed.           *)
RetriesAreFutile == \A r \in Requests : attempt[r] > 0 => pc[r] # "written"

(* Why the statement that failed once fails again: locked is whether the   *)
(* transaction has the row lock.                                           *)
Failing(r, locked) ==
  /\ cmd[r].op # "clear"
  /\ snapshot[r] = NoLine => locked /\ line # NoLine
  /\ snapshot[r] # NoLine => IF Removes(r) THEN line.id # existing[r].id ELSE ~VersionMatches(r)

FutileInv ==
  /\ RetriesAreFutile
  /\ \A r \in Requests : pc[r] = "trying" /\ attempt[r] > 0 => Failing(r, holder = r)

IInv ==
  /\ TypeOK
  /\ LockInv
  /\ ReadInv
  /\ VersionTells
  /\ NewInv
  /\ FutileInv
  /\ Orderable

-----------------------------------------------------------------------------
(* Commands by their fields.                                               *)
LEMMA CommandFields ==
  ASSUME NEW c \in Command
  PROVE  /\ c.op \in {"add", "sub", "set", "clear"}
         /\ c.count \in Nat
         /\ c.op \in {"add", "sub"} => c.count > 0
         /\ c.op = "clear" => c.count = 0
PROOF
<1>0. \A n \in Counts : n \in Nat /\ n > 0
  BY CountsAssumption
<1>1. CASE c \in [op : {"add", "sub"}, count : Counts]
  <2>1. c.op \in {"add", "sub"} /\ c.count \in Counts
    BY <1>1
  <2>2. c.count \in Nat /\ c.count > 0
    BY <2>1, <1>0
  <2> QED
    BY <2>1, <2>2
<1>2. CASE c \in [op : {"set"}, count : Counts \cup {0}]
  <2>1. c.op = "set" /\ c.count \in Counts \cup {0}
    BY <1>2
  <2>2. c.count \in Nat
    BY <2>1, <1>0
  <2> QED
    BY <2>1, <2>2
<1>3. CASE c \in [op : {"clear"}, count : {0}]
  BY <1>3
<1> QED
  BY <1>1, <1>2, <1>3 DEF Command

(* Lines by their fields: one that is there has an id, and the fields make *)
(* the line.                                                               *)
LEMMA LineFields ==
  ASSUME NEW a \in Line \cup {NoLine}
  PROVE  /\ a.id \in Nat /\ a.quantity \in Nat /\ a.version \in Nat
         /\ a = NoLine <=> a.id = 0
         /\ a = NoLine => a.version = 0 /\ a.quantity = 0
         /\ a # NoLine => a.version > 0 /\ a \in Line
PROOF
<1>1. CASE a \in Line
  BY <1>1 DEF Line, NoLine
<1>2. CASE a = NoLine
  BY <1>2 DEF NoLine
<1> QED
  BY <1>1, <1>2

(* What UPDATE makes of a line.                                            *)
LEMMA UpdatedFields ==
  ASSUME NEW a \in Line, NEW n \in Nat
  PROVE  /\ Updated(a, n) \in Line
         /\ Updated(a, n).id = a.id
         /\ Updated(a, n).version = a.version + 1
         /\ Updated(a, n).quantity = n
PROOF
<1>1. Updated(a, n) = [a EXCEPT !.quantity = n, !.version = a.version + 1]
  BY DEF Updated, Line
<1>2. \A v \in Nat \ {0} : [a EXCEPT !.quantity = n, !.version = v] \in Line
  BY DEF Line
<1>3. a.version + 1 \in Nat \ {0}
  BY DEF Line
<1>4. Updated(a, n) \in Line
  BY <1>1, <1>2, <1>3
<1> QED
  BY <1>4 DEF Updated, Line

(* What INSERT makes.                                                      *)
LEMMA CreatedFields ==
  ASSUME TypeOK, NEW r \in Requests, cmd[r] \in Command
  PROVE  /\ Created(r) \in Line
         /\ Created(r).id = nextId
         /\ Created(r).quantity = cmd[r].count
PROOF
<1>1. cmd[r].count \in Nat /\ nextId \in Nat \ {0}
  BY CommandFields DEF TypeOK
<1> QED
  BY <1>1 DEF Created, Line

-----------------------------------------------------------------------------
(* A statement either writes a row that follows from the line and what was *)
(* read, or fails and leaves the request where Retry puts it.              *)
Writes(r) ==
  /\ UNCHANGED <<line, cmd, snapshot, existing, attempt>>
  /\ nextId' \in {nextId, nextId + 1}
  /\ pc' = [pc EXCEPT ![r] = "written"]
  /\ holder' = r
  /\ new' = [new EXCEPT ![r] = new'[r]]
  /\ new'[r] \in Line \cup {NoLine}
  /\ Outcome(r)'
  /\ ~Failing(r, holder = r)

Fails(r) ==
  /\ UNCHANGED <<line, cmd, snapshot, existing, new>>
  /\ nextId' \in {nextId, nextId + 1}
  /\ attempt' = [attempt EXCEPT ![r] = attempt[r] + 1]
  /\ \/ pc' = pc /\ holder' \in {holder, r} /\ attempt[r] + 1 < Attempts /\ Failing(r, holder' = r)
     \/ \E at \in {"done", "conflict"} : pc' = [pc EXCEPT ![r] = at] /\ holder' = Nobody

(* How Retry leaves a request.                                             *)
LEMMA RetryFails ==
  ASSUME TypeOK, ReadInv, NEW r \in Requests, NEW locking \in BOOLEAN,
         AtStatement(r), Retry(r, locking), Failing(r, locking),
         UNCHANGED <<line, cmd, snapshot, new>>, nextId' \in {nextId, nextId + 1}
  PROVE  Fails(r)
PROOF
<1>1. existing' = existing
  BY DEF Retry, Reread, ReadInv, TypeOK
<1>2. attempt' = [attempt EXCEPT ![r] = attempt[r] + 1]
  BY DEF Retry
<1>3. CASE pc' = pc
  <2>1. holder' \in {holder, r} /\ attempt[r] + 1 # Attempts
    BY <1>3 DEF Retry, Goto, AtStatement, TypeOK
  <2>2. Failing(r, holder' = r)
    BY <1>3 DEF Failing, Retry, Goto, AtStatement, TypeOK
  <2>3. attempt[r] + 1 < Attempts
    BY <2>1 DEF ReadInv, AtStatement, TypeOK, Attempts
  <2> QED
    BY <1>1, <1>2, <1>3, <2>1, <2>2, <2>3 DEF Fails
<1>4. CASE pc' # pc
  <2>1. /\ \E at \in {"done", "conflict"} : pc' = [pc EXCEPT ![r] = at]
        /\ holder' = Released(r)
    BY <1>4 DEF Retry, Goto
  <2>2. Released(r) = Nobody
    BY DEF Released, AtStatement
  <2> QED
    BY <1>1, <1>2, <2>1, <2>2 DEF Fails
<1> QED
  BY <1>3, <1>4

(* How Write leaves it.                                                    *)
LEMMA WriteWrites ==
  ASSUME TypeOK, NEW r \in Requests, NEW row \in Line \cup {NoLine}, Write(r, row),
         UNCHANGED <<line, cmd, snapshot>>, nextId' \in {nextId, nextId + 1},
         new'[r] = row => Outcome(r)', ~Failing(r, holder = r)
  PROVE  Writes(r)
PROOF
<1>1. new'[r] = row
  BY DEF Write, TypeOK
<1> QED
  BY <1>1 DEF Write, Goto, Writes

(* Each statement does one or the other.                                   *)
LEMMA StatementCases ==
  ASSUME TypeOK, ReadInv, NEW r \in Requests,
         Insert(r) \/ UpdateQuantity(r) \/ DeleteByID(r) \/ ClearByUser(r)
  PROVE  AtStatement(r) /\ (Writes(r) \/ Fails(r))
PROOF
<1>1. AtStatement(r) /\ cmd[r] \in Command /\ existing[r] = snapshot[r]
  BY DEF Insert, UpdateQuantity, DeleteByID, ClearByUser, AtStatement, TypeOK, ReadInv
<1>2. existing[r] \in Line \cup {NoLine} /\ line \in Line \cup {NoLine}
  BY DEF TypeOK
<1>3. CASE Insert(r)
  <2>1. /\ nextId' \in {nextId, nextId + 1} /\ nextId' = nextId + 1
        /\ UNCHANGED <<line, cmd, snapshot>>
        /\ cmd[r].op = "add" /\ snapshot[r] = NoLine
    BY <1>1, <1>3 DEF Insert
  <2>2. CASE line = NoLine
    <3>1. Write(r, Created(r)) /\ existing' = existing
      BY <1>3, <2>2 DEF Insert, Write
    <3>2. ASSUME new'[r] = Created(r) PROVE Inserted(r)'
      <4>1. new'[r] # NoLine /\ new'[r].quantity = cmd[r].count /\ new'[r].id = nextId
        BY <1>1, <3>2, CreatedFields, LineFields DEF TypeOK
      <4>2. \A q \in Requests : snapshot[q].id # nextId
        BY LineFields DEF ReadInv, TypeOK
      <4> QED
        BY <2>1, <2>2, <4>1, <4>2 DEF Inserted, TypeOK
    <3>3. ~Failing(r, holder = r)
      BY <2>1, <2>2 DEF Failing
    <3> QED
      BY <1>1, <2>1, <3>1, <3>2, <3>3, CreatedFields, WriteWrites DEF Outcome
  <2>3. CASE line # NoLine
    <3>1. Retry(r, TRUE) /\ Failing(r, TRUE) /\ new' = new
      BY <1>3, <2>1, <2>3 DEF Insert, Failing
    <3> QED
      BY <1>1, <2>1, <3>1, RetryFails
  <2> QED
    BY <2>2, <2>3
<1>4. CASE UpdateQuantity(r)
  <2>1. /\ UNCHANGED <<line, nextId, cmd, snapshot>>
        /\ cmd[r].op # "clear" /\ ~Removes(r) /\ snapshot[r] # NoLine
    BY <1>1, <1>4 DEF UpdateQuantity
  <2>2. CASE VersionMatches(r)
    <3> DEFINE row == Updated(line, NewQuantity(r))
    <3>1. Write(r, row) /\ existing' = existing
      BY <1>4, <2>2 DEF UpdateQuantity, Write
    <3>2. line # NoLine /\ line \in Line
      BY <1>1, <1>2, <2>1, <2>2, LineFields DEF VersionMatches
    <3>3. NewQuantity(r) \in Nat
      BY <1>1, <1>2, <2>1, LineFields, CommandFields DEF NewQuantity, Removes
    <3>4. row \in Line \cup {NoLine}
      BY <3>2, <3>3, UpdatedFields
    <3>5. ASSUME new'[r] = row PROVE Changed(r)'
      BY <2>1, <2>2, <3>1, <3>2, <3>5 DEF Changed, Removes, VersionMatches, NewQuantity
    <3>6. ~Failing(r, holder = r)
      BY <2>1, <2>2 DEF Failing
    <3> HIDE DEF row
    <3> QED
      BY <1>1, <2>1, <3>1, <3>4, <3>5, <3>6, WriteWrites DEF Outcome
  <2>3. CASE ~VersionMatches(r)
    <3>1. Retry(r, line.id = existing[r].id) /\ new' = new
      BY <1>4, <2>3 DEF UpdateQuantity
    <3>2. \A b \in BOOLEAN : Failing(r, b)
      BY <2>1, <2>3 DEF Failing
    <3> QED
      BY <1>1, <2>1, <3>1, <3>2, RetryFails
  <2> QED
    BY <2>2, <2>3
<1>5. CASE DeleteByID(r)
  <2>1. UNCHANGED <<line, nextId, cmd, snapshot>> /\ Removes(r) /\ snapshot[r] # NoLine
    BY <1>1, <1>5 DEF DeleteByID
  <2>2. CASE line.id = existing[r].id
    <3>1. Write(r, NoLine) /\ existing' = existing
      BY <1>1, <1>2, <1>5, <2>1, <2>2, LineFields DEF DeleteByID, Write
    <3>2. line # NoLine
      BY <1>1, <1>2, <2>1, <2>2, LineFields
    <3>3. ASSUME new'[r] = NoLine PROVE Deleted(r)'
      BY <2>1, <2>2, <3>1, <3>2, <3>3 DEF Deleted, Removes
    <3>4. ~Failing(r, holder = r)
      BY <2>1, <2>2 DEF Failing
    <3> QED
      BY <1>1, <2>1, <3>1, <3>3, <3>4, WriteWrites DEF Outcome
  <2>3. CASE line.id # existing[r].id
    <3>1. Retry(r, FALSE) /\ new' = new
      BY <1>5, <2>3 DEF DeleteByID
    <3>2. Failing(r, FALSE)
      BY <2>1, <2>3 DEF Failing, Removes
    <3> QED
      BY <1>1, <2>1, <3>1, <3>2, RetryFails
  <2> QED
    BY <2>2, <2>3
<1>6. CASE ClearByUser(r)
  <2>1. UNCHANGED <<line, nextId, cmd, snapshot>> /\ cmd[r].op = "clear" /\ Write(r, NoLine)
    BY <1>6 DEF ClearByUser
  <2>2. ASSUME new'[r] = NoLine PROVE Cleared(r)'
    BY <2>1, <2>2 DEF Cleared
  <2>3. ~Failing(r, holder = r)
    BY <2>1 DEF Failing
  <2> QED
    BY <1>1, <2>1, <2>2, <2>3, WriteWrites DEF Outcome
<1> QED
  BY <1>3, <1>4, <1>5, <1>6

-----------------------------------------------------------------------------
(* A commit puts a new line where there was none, makes the line newer, or *)
(* removes it.                                                             *)
LEMMA CommitMoves ==
  ASSUME TypeOK, ReadInv, NewInv, NEW r \in Requests, Commit(r)
  PROVE  /\ line' \in Line \cup {NoLine}
         /\ line'.id < nextId
         /\ \/ line' # NoLine /\ \A q \in Requests : snapshot[q].id # line'.id
            \/ line' # NoLine /\ line'.id = line.id /\ line'.version = line.version + 1
            \/ line' = NoLine
         /\ line' # NoLine => line'.quantity > 0
PROOF
<1>1. line' = new[r] /\ Outcome(r) /\ cmd[r] \in Command /\ new[r] \in Line \cup {NoLine} /\ line \in Line \cup {NoLine}
  BY DEF Commit, TypeOK, NewInv
<1>2. existing[r] = snapshot[r] /\ existing[r] \in Line \cup {NoLine} /\ line.id < nextId /\ nextId \in Nat \ {0}
  BY DEF ReadInv, TypeOK
<1>3. CASE Inserted(r)
  BY <1>1, <1>3, CommandFields DEF Inserted
<1>4. CASE Changed(r)
  <2>1. NewQuantity(r) \in Nat \ {0}
    BY <1>1, <1>2, <1>4, CommandFields, LineFields DEF Changed, Removes, NewQuantity
  <2>2. line' = Updated(line, NewQuantity(r)) /\ line \in Line
    BY <1>1, <1>4 DEF Changed
  <2>3. line' \in Line /\ line'.id = line.id /\ line'.version = line.version + 1 /\ line'.quantity > 0
    BY <2>1, <2>2, UpdatedFields
  <2>4. line' # NoLine
    BY <2>3 DEF Line, NoLine
  <2> QED
    BY <1>2, <2>3, <2>4
<1>5. CASE Deleted(r) \/ Cleared(r)
  BY <1>1, <1>2, <1>5, LineFields DEF Deleted, Cleared
<1> QED
  BY <1>1, <1>3, <1>4, <1>5 DEF Outcome

(* Every step keeps the variables in their types.                          *)
LEMMA TypeStep ==
  ASSUME TypeOK, ReadInv, NewInv, Next
  PROVE  TypeOK'
PROOF
<1>1. ASSUME NEW r \in Requests, NEW c \in Command, NEW ok \in BOOLEAN, GetByKey(r, c, ok) PROVE TypeOK'
  BY <1>1 DEF GetByKey, Goto, TypeOK, Places
<1>2. ASSUME NEW r \in Requests, AtStatement(r), Writes(r) PROVE TypeOK'
  BY <1>2 DEF AtStatement, Writes, TypeOK, Places
<1>3. ASSUME NEW r \in Requests, AtStatement(r), Fails(r) PROVE TypeOK'
  <2>1. attempt[r] + 1 \in 0 .. Attempts
    BY <1>3 DEF AtStatement, ReadInv, TypeOK, Attempts
  <2> QED
    BY <1>3, <2>1 DEF AtStatement, Fails, TypeOK, Places
<1>4. ASSUME NEW r \in Requests, Commit(r) PROVE TypeOK'
  BY <1>4 DEF Commit, Goto, TypeOK, Places
<1>5. ASSUME NEW r \in Requests, Rollback(r) PROVE TypeOK'
  BY <1>5 DEF Rollback, Released, Goto, TypeOK, Places
<1> QED
  BY <1>1, <1>2, <1>3, <1>4, <1>5, StatementCases DEF Next, Step

(* Every step leaves the lock where LockInv says.                          *)
LEMMA LockStep ==
  ASSUME TypeOK, LockInv, ReadInv, Next
  PROVE  LockInv'
PROOF
<1> USE NobodyAssumption
<1>1. ASSUME NEW r \in Requests, NEW c \in Command, NEW ok \in BOOLEAN, GetByKey(r, c, ok) PROVE LockInv'
  BY <1>1 DEF GetByKey, Goto, TypeOK, LockInv
<1>2. ASSUME NEW r \in Requests, AtStatement(r), Writes(r) PROVE LockInv'
  BY <1>2 DEF AtStatement, Writes, TypeOK, LockInv
<1>3. ASSUME NEW r \in Requests, AtStatement(r), Fails(r) PROVE LockInv'
  BY <1>3 DEF AtStatement, Fails, TypeOK, LockInv
<1>4. ASSUME NEW r \in Requests, Commit(r) PROVE LockInv'
  BY <1>4 DEF Commit, Goto, TypeOK, LockInv
<1>5. ASSUME NEW r \in Requests, Rollback(r) PROVE LockInv'
  BY <1>5 DEF Rollback, Released, Goto, TypeOK, LockInv
<1> QED
  BY <1>1, <1>2, <1>3, <1>4, <1>5, StatementCases DEF Next, Step

(* What was read stays older than the line.                                *)
LEMMA ReadStep ==
  ASSUME TypeOK, LockInv, ReadInv, NewInv, Next
  PROVE  ReadInv'
PROOF
<1> USE NobodyAssumption
<1>1. ASSUME NEW r \in Requests, NEW c \in Command, NEW ok \in BOOLEAN, GetByKey(r, c, ok) PROVE ReadInv'
  <2>1. line.version \in Nat /\ \A q \in Requests : pc'[q] # "idle" => q = r \/ pc[q] = pc'[q]
    BY <1>1, LineFields DEF GetByKey, Goto, TypeOK
  <2>2. pc'[r] = "trying" /\ c.op \in {"sub", "set"} => line # NoLine
    BY <1>1 DEF GetByKey, Goto, Refused, TypeOK
  <2> QED
    BY <1>1, <2>1, <2>2 DEF GetByKey, Goto, TypeOK, ReadInv, Attempts
<1>2. ASSUME NEW r \in Requests, AtStatement(r), Writes(r) PROVE ReadInv'
  <2>1. nextId' >= nextId /\ nextId' \in Nat /\ nextId \in Nat
    BY <1>2 DEF Writes, TypeOK
  <2>2. line.id \in Nat /\ \A q \in Requests : snapshot[q].id \in Nat
    BY LineFields DEF TypeOK
  <2> QED
    BY <1>2, <2>1, <2>2 DEF AtStatement, Writes, TypeOK, ReadInv
<1>3. ASSUME NEW r \in Requests, AtStatement(r), Fails(r) PROVE ReadInv'
  <2>1. nextId' >= nextId /\ nextId' \in Nat /\ nextId \in Nat
    BY <1>3 DEF Fails, TypeOK
  <2>2. line.id \in Nat /\ \A q \in Requests : snapshot[q].id \in Nat
    BY LineFields DEF TypeOK
  <2> QED
    BY <1>3, <2>1, <2>2 DEF AtStatement, Fails, TypeOK, ReadInv
<1>4. ASSUME NEW r \in Requests, Commit(r) PROVE ReadInv'
  <2>1. ASSUME NEW q \in Requests, snapshot[q].id = line'.id PROVE snapshot[q].version <= line'.version
    <3>1. snapshot[q] \in Line \cup {NoLine} /\ line \in Line \cup {NoLine}
      BY DEF TypeOK
    <3> QED
      BY <1>4, <2>1, <3>1, CommitMoves, LineFields DEF ReadInv
  <2>2. line'.id < nextId
    BY <1>4, CommitMoves
  <2> QED
    BY <1>4, <2>1, <2>2 DEF Commit, Goto, TypeOK, ReadInv
<1>5. ASSUME NEW r \in Requests, Rollback(r) PROVE ReadInv'
  BY <1>5 DEF Rollback, Goto, TypeOK, ReadInv
<1> QED
  BY <1>1, <1>2, <1>3, <1>4, <1>5, StatementCases DEF Next, Step

(* No two lines share id and version.                                      *)
LEMMA VersionStep ==
  ASSUME TypeOK, ReadInv, NewInv, VersionTells, Next
  PROVE  VersionTells'
PROOF
<1>1. ASSUME NEW r \in Requests, NEW c \in Command, NEW ok \in BOOLEAN, GetByKey(r, c, ok) PROVE VersionTells'
  BY <1>1 DEF GetByKey, TypeOK, VersionTells
<1>2. ASSUME NEW r \in Requests, Writes(r) \/ Fails(r) \/ Rollback(r) PROVE VersionTells'
  BY <1>2 DEF Writes, Fails, Rollback, VersionTells
<1>3. ASSUME NEW r \in Requests, Commit(r) PROVE VersionTells'
  <2>1. ASSUME NEW q \in Requests, snapshot[q].id = line'.id, snapshot[q].version = line'.version
        PROVE  snapshot[q] = line'
    <3>1. snapshot[q] \in Line \cup {NoLine} /\ line \in Line \cup {NoLine}
      BY DEF TypeOK
    <3> QED
      BY <1>3, <2>1, <3>1, CommitMoves, LineFields DEF ReadInv
  <2> QED
    BY <1>3, <2>1 DEF Commit, VersionTells
<1> QED
  BY <1>1, <1>2, <1>3, StatementCases DEF Next, Step

(* What is to be committed stays true while the row is locked.             *)
LEMMA NewStep ==
  ASSUME TypeOK, LockInv, ReadInv, NewInv, Next
  PROVE  NewInv'
PROOF
<1> USE NobodyAssumption DEF Outcome, Inserted, Changed, Deleted, Cleared, Removes, VersionMatches, NewQuantity
<1>1. ASSUME NEW r \in Requests, NEW c \in Command, NEW ok \in BOOLEAN, GetByKey(r, c, ok) PROVE NewInv'
  <2> SUFFICES ASSUME NEW q \in Requests, pc'[q] = "written" PROVE Outcome(q)'
    BY DEF NewInv
  <2>1. q # r /\ pc[q] = "written" /\ Outcome(q) /\ UNCHANGED <<line, nextId, new, cmd[q], existing[q]>>
    BY <1>1 DEF GetByKey, Goto, TypeOK, NewInv
  <2>2. \A p \in Requests : snapshot'[p] = snapshot[p] \/ snapshot'[p] = line
    BY <1>1 DEF GetByKey, TypeOK
  <2>3. new[q] # NoLine => new[q].id # 0
    BY LineFields DEF TypeOK
  <2>4. CASE Inserted(q)
    <3>1. \A p \in Requests : snapshot'[p].id # new[q].id
      BY <2>2, <2>3, <2>4 DEF NoLine
    <3> QED
      BY <2>1, <2>4, <3>1
  <2>5. CASE Changed(q) \/ Deleted(q) \/ Cleared(q)
    BY <2>1, <2>5
  <2> QED
    BY <2>1, <2>4, <2>5
<1>2. ASSUME NEW r \in Requests, AtStatement(r), Writes(r) PROVE NewInv'
  <2>1. ASSUME NEW q \in Requests, pc'[q] = "written", q # r PROVE FALSE
    BY <1>2, <2>1 DEF AtStatement, Writes, LockInv, TypeOK
  <2> HIDE DEF Outcome
  <2> QED
    BY <1>2, <2>1 DEF Writes, NewInv
<1>3. ASSUME NEW r \in Requests, AtStatement(r), Fails(r) PROVE NewInv'
  <2>1. ASSUME NEW q \in Requests, pc'[q] = "written" PROVE FALSE
    BY <1>3, <2>1 DEF AtStatement, Fails, LockInv, TypeOK
  <2> QED
    BY <2>1 DEF NewInv
<1>4. ASSUME NEW r \in Requests, Commit(r) PROVE NewInv'
  <2>1. ASSUME NEW q \in Requests, pc'[q] = "written" PROVE FALSE
    BY <1>4, <2>1 DEF Commit, Goto, LockInv, TypeOK
  <2> QED
    BY <2>1 DEF NewInv
<1>5. ASSUME NEW r \in Requests, Rollback(r) PROVE NewInv'
  <2> SUFFICES ASSUME NEW q \in Requests, pc'[q] = "written" PROVE Outcome(q)'
    BY DEF NewInv
  <2>1. q # r /\ Outcome(q) /\ UNCHANGED <<line, nextId, new, cmd, existing, snapshot>>
    BY <1>5 DEF Rollback, Goto, TypeOK, NewInv
  <2> QED
    BY <2>1
<1> QED
  BY <1>1, <1>2, <1>3, <1>4, <1>5, StatementCases DEF Next, Step

(* A statement that failed keeps failing: nobody else removes the row that *)
(* an INSERT met, and what an UPDATE or DELETE missed does not return.     *)
LEMMA FutileStep ==
  ASSUME TypeOK, LockInv, ReadInv, NewInv, FutileInv, Next
  PROVE  FutileInv'
PROOF
<1> USE NobodyAssumption DEF Removes, VersionMatches, RetriesAreFutile
<1>1. ASSUME NEW r \in Requests, NEW c \in Command, NEW ok \in BOOLEAN, GetByKey(r, c, ok) PROVE FutileInv'
  <2>1. attempt'[r] = 0
    BY <1>1 DEF GetByKey, ReadInv
  <2>2. ASSUME NEW q \in Requests, q # r
        PROVE  UNCHANGED <<line, holder, attempt, pc[q], cmd[q], existing[q], snapshot[q]>>
    BY <1>1, <2>2 DEF GetByKey, Goto, TypeOK
  <2> QED
    BY <2>1, <2>2 DEF FutileInv, Failing
<1>2. ASSUME NEW r \in Requests, AtStatement(r), Writes(r) PROVE FutileInv'
  <2>1. attempt'[r] = 0
    BY <1>2 DEF AtStatement, Writes, FutileInv, TypeOK
  <2>2. ASSUME NEW q \in Requests, q # r PROVE UNCHANGED <<line, attempt, pc[q], cmd, existing, snapshot>>
    BY <1>2, <2>2 DEF Writes, TypeOK
  <2>3. ASSUME NEW q \in Requests, pc[q] = "trying", attempt[q] > 0, q # r PROVE Failing(q, holder' = q)
    BY <1>2, <2>3 DEF AtStatement, Writes, FutileInv, Failing
  <2> QED
    BY <2>1, <2>2, <2>3 DEF FutileInv, Failing
<1>3. ASSUME NEW r \in Requests, AtStatement(r), Fails(r) PROVE FutileInv'
  <2>1. UNCHANGED <<line, cmd, existing, snapshot>>
    BY <1>3 DEF Fails
  <2>2. ASSUME NEW q \in Requests, q # r PROVE UNCHANGED <<attempt[q], pc[q]>>
    BY <1>3, <2>2 DEF Fails, TypeOK
  <2>3. pc'[r] # "written" /\ (pc'[r] = "trying" => Failing(r, holder' = r))
    BY <1>3 DEF AtStatement, Fails, TypeOK
  <2>4. ASSUME NEW q \in Requests, pc[q] = "trying", attempt[q] > 0, q # r PROVE Failing(q, holder' = q)
    BY <1>3, <2>4 DEF AtStatement, Fails, FutileInv, Failing
  <2> QED
    BY <2>1, <2>2, <2>3, <2>4 DEF FutileInv, Failing
<1>4. ASSUME NEW r \in Requests, Commit(r) PROVE FutileInv'
  <2>1. UNCHANGED <<attempt, cmd, existing, snapshot>> /\ holder = r /\ pc'[r] = "done"
    BY <1>4 DEF Commit, Goto, LockInv, TypeOK
  <2>2. ASSUME NEW q \in Requests, q # r PROVE pc'[q] = pc[q]
    BY <1>4, <2>2 DEF Commit, Goto, TypeOK
  <2>3. ASSUME NEW q \in Requests, pc[q] = "trying", attempt[q] > 0, q # r PROVE Failing(q, FALSE)'
    <3>1. Failing(q, holder = q) /\ snapshot[q] # NoLine /\ cmd[q].op # "clear"
      BY <2>1, <2>3 DEF FutileInv, Failing
    <3>2. snapshot[q] \in Line \cup {NoLine} /\ line \in Line \cup {NoLine} /\ existing[q] = snapshot[q]
      BY DEF TypeOK, ReadInv
    <3>3. CASE Removes(q)
      <4>1. line'.id # snapshot[q].id
        BY <1>4, <3>1, <3>2, <3>3, CommitMoves, LineFields DEF Failing
      <4> QED
        BY <2>1, <3>1, <3>2, <3>3, <4>1 DEF Failing
    <3>4. CASE ~Removes(q)
      <4>1. line'.id # snapshot[q].id \/ line'.version # snapshot[q].version
        BY <1>4, <3>1, <3>2, <3>4, CommitMoves, LineFields DEF Failing, ReadInv
      <4> QED
        BY <2>1, <3>1, <3>2, <3>4, <4>1 DEF Failing
    <3> QED
      BY <3>3, <3>4
  <2> QED
    BY <2>1, <2>2, <2>3 DEF FutileInv, Failing
<1>5. ASSUME NEW r \in Requests, Rollback(r) PROVE FutileInv'
  <2>1. UNCHANGED <<line, attempt, cmd, existing, snapshot>> /\ pc'[r] = "failed"
    BY <1>5 DEF Rollback, Goto, TypeOK
  <2>2. ASSUME NEW q \in Requests, q # r PROVE pc'[q] = pc[q] /\ (holder = q => holder' = q)
    BY <1>5, <2>2 DEF Rollback, Released, Goto, TypeOK
  <2> QED
    BY <2>1, <2>2 DEF FutileInv, Failing
<1> QED
  BY <1>1, <1>2, <1>3, <1>4, <1>5, StatementCases DEF Next, Step

(* A committed line has a quantity.                                        *)
LEMMA OrderableStep ==
  ASSUME TypeOK, ReadInv, NewInv, Orderable, Next
  PROVE  Orderable'
PROOF
<1>1. ASSUME NEW r \in Requests, Commit(r) PROVE Orderable'
  BY <1>1, CommitMoves DEF Orderable
<1>2. ASSUME NEW r \in Requests, Writes(r) \/ Fails(r) \/ Rollback(r) PROVE Orderable'
  BY <1>2 DEF Writes, Fails, Rollback, Orderable
<1>3. ASSUME NEW r \in Requests, NEW c \in Command, NEW ok \in BOOLEAN, GetByKey(r, c, ok) PROVE Orderable'
  BY <1>3 DEF GetByKey, Orderable
<1> QED
  BY <1>1, <1>2, <1>3, StatementCases DEF Next, Step

-----------------------------------------------------------------------------
(* The initial state satisfies the invariant.                              *)
LEMMA InitInv ==
  ASSUME Init
  PROVE  IInv
PROOF
<1>1. TypeOK
  BY DEF Init, TypeOK, Line, Places, Attempts
<1>2. LockInv /\ ReadInv /\ NewInv
  BY NobodyAssumption DEF Init, LockInv, ReadInv, NewInv, NoLine
<1>3. VersionTells /\ FutileInv /\ Orderable
  BY DEF Init, VersionTells, FutileInv, RetriesAreFutile, Orderable
<1> QED
  BY <1>1, <1>2, <1>3 DEF IInv

(* Every step keeps it.                                                    *)
LEMMA NextInv ==
  ASSUME IInv, [Next]_vars
  PROVE  IInv'
PROOF
<1>1. CASE Next
  BY <1>1, TypeStep, LockStep, ReadStep, VersionStep, NewStep, FutileStep, OrderableStep DEF IInv
<1>2. CASE UNCHANGED vars
  <2>1. TypeOK' /\ LockInv' /\ ReadInv' /\ VersionTells' /\ Orderable'
    BY <1>2 DEF vars, IInv, TypeOK, LockInv, ReadInv, VersionTells, Orderable
  <2>2. NewInv'
    <3> SUFFICES ASSUME NEW q \in Requests, Outcome(q) PROVE Outcome(q)'
      BY <1>2 DEF vars, IInv, NewInv
    <3>1. UNCHANGED <<line, nextId, new, cmd, existing, snapshot>>
      BY <1>2 DEF vars
    <3> QED
      BY <3>1 DEF Outcome, Inserted, Changed, Deleted, Cleared, Removes, VersionMatches, NewQuantity
  <2>3. FutileInv'
    BY <1>2 DEF vars, IInv, FutileInv, RetriesAreFutile, Failing, Removes, VersionMatches
  <2> QED
    BY <2>1, <2>2, <2>3 DEF IInv
<1> QED
  BY <1>1, <1>2

(* The invariant holds for ever.                                           *)
LEMMA Invariance == Spec => []IInv
PROOF
<1> QED
  BY InitInv, NextInv, PTL DEF Spec

-----------------------------------------------------------------------------
(* The line, the lock and the requests of every instance are well typed;   *)
(* in particular versions start at 1, which the UPDATE needs to test them. *)
THEOREM CartTypes == Spec => []TypeOK
PROOF
<1> QED
  BY Invariance, PTL DEF IInv

(* A version and an id name one state of the line, whatever was deleted    *)
(* and added in between.                                                   *)
THEOREM VersionsIdentify == Spec => []VersionTells
PROOF
<1> QED
  BY Invariance, PTL DEF IInv

(* Every line the order reader finds has a quantity.                       *)
THEOREM LinesAreOrderable == Spec => []Orderable
PROOF
<1> QED
  BY Invariance, PTL DEF IInv

(* A failed pass of the loop is followed by failed passes only: this is    *)
(* why ConcurrentChangesSucceed, which the tests expect, does not hold.    *)
THEOREM RetriesNeverHelp == Spec => []RetriesAreFutile
PROOF
<1> QED
  BY Invariance, PTL DEF IInv, FutileInv

(* What a commit does to the line it finds.                                *)
Kept(r) ==
  \/ line'.quantity = Asked(cmd[r], line.quantity)
  \/ cmd[r].op = "sub" /\ line' = NoLine /\ snapshot[r].version < line.version

(* No request overwrites what another has committed since it read the      *)
(* line, but for a SubItem that removes it.                                *)
THEOREM NoUpdateLost == Spec => LostOnlyByRemoval
PROOF
<1>1. ASSUME IInv, NEW r \in Requests, Commit(r) PROVE Kept(r)
  <2> USE <1>1 DEF IInv
  <2>1. line' = new[r] /\ Outcome(r) /\ cmd[r] \in Command /\ existing[r] = snapshot[r]
    BY DEF Commit, TypeOK, ReadInv, NewInv
  <2>2. line \in Line \cup {NoLine} /\ snapshot[r] \in Line \cup {NoLine}
    BY DEF TypeOK
  <2>3. CASE Inserted(r)
    BY <2>1, <2>2, <2>3, CommandFields, LineFields DEF Kept, Inserted, Asked
  <2>4. CASE Changed(r)
    <3>1. line = snapshot[r] /\ line \in Line
      BY <2>1, <2>2, <2>4, LineFields DEF Changed, VersionTells, VersionMatches
    <3>2. NewQuantity(r) \in Nat /\ NewQuantity(r) = Asked(cmd[r], line.quantity)
      BY <2>1, <2>2, <2>4, <3>1, CommandFields, LineFields DEF Changed, Removes, NewQuantity, Asked
    <3>3. line'.quantity = NewQuantity(r)
      BY <2>1, <2>4, <3>1, <3>2, UpdatedFields DEF Changed
    <3> QED
      BY <3>2, <3>3 DEF Kept
  <2>5. CASE Deleted(r)
    <3>1. line' = NoLine /\ line'.quantity = 0 /\ Removes(r)
      BY <2>1, <2>5 DEF Deleted, NoLine
    <3>2. snapshot[r] = line \/ snapshot[r].version < line.version
      BY <2>1, <2>2, <2>5, LineFields DEF Deleted, VersionTells, ReadInv
    <3> QED
      BY <2>1, <2>2, <3>1, <3>2, CommandFields, LineFields DEF Kept, Asked, Removes
  <2>6. CASE Cleared(r)
    BY <2>1, <2>6, CommandFields DEF Kept, Cleared, Asked, NoLine
  <2> QED
    BY <2>1, <2>3, <2>4, <2>5, <2>6 DEF Outcome
<1>2. IInv /\ [Next]_vars => [\A r \in Requests : Commit(r) => Kept(r)]_vars
  BY <1>1
<1>3. [][\A r \in Requests : Commit(r) => Kept(r)]_vars => LostOnlyByRemoval
  BY DEF LostOnlyByRemoval, Kept
<1> QED
  BY <1>2, <1>3, Invariance, PTL DEF Spec
=============================================================================
