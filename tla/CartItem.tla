------------------------------ MODULE CartItem ------------------------------
(***************************************************************************)
(* AddItem, SubItem, UpdateQuantity and Clear of the cart                  *)
(* (cart/app/service.go) on one line of one user's cart, each in one SQL   *)
(* transaction.  Lines do not affect each other: every statement names one *)
(* by its unique key or its id, and Clear deletes each of them.            *)
(*                                                                         *)
(* The transaction runs under MySQL's default, REPEATABLE READ: its first  *)
(* GetByKey takes the snapshot that later ones read again, while UPDATE,   *)
(* DELETE and the unique key of INSERT meet the last committed row and     *)
(* keep it locked until the transaction ends.  (A duplicate INSERT takes a *)
(* shared lock; it stops the same statements of others.)  What an id that  *)
(* is gone locks is left out: ids do not return.                           *)
(***************************************************************************)
EXTENDS Naturals

CONSTANTS
  Requests,    \* requests for this line
  Counts,      \* the counts they ask for
  Nobody

ASSUME CountsAssumption == Counts \subseteq Nat \ {0}
ASSUME NobodyAssumption == Nobody \notin Requests

Attempts == 3

VARIABLES
  line,        \* the committed row
  nextId,      \* AUTO_INCREMENT
  holder,      \* whose transaction has locked it
  pc,          \* where each request stands
  cmd,         \* what it asks for
  snapshot,    \* what its transaction reads
  existing,    \* the line it works on
  attempt,     \* passes through its loop that failed
  new          \* the row its transaction will commit

vars == <<line, nextId, holder, pc, cmd, snapshot, existing, attempt, new>>

Line == [id : Nat \ {0}, quantity : Nat, version : Nat \ {0}]
NoLine == [id |-> 0, quantity |-> 0, version |-> 0]

Command ==
  [op : {"add", "sub"}, count : Counts] \cup [op : {"set"}, count : Counts \cup {0}]
    \cup [op : {"clear"}, count : {0}]
NoCommand == [op |-> "none", count |-> 0]

Places == {"idle", "trying", "written", "done", "refused", "conflict", "failed"}

TypeOK ==
  /\ line \in Line \cup {NoLine}
  /\ nextId \in Nat \ {0}
  /\ holder \in Requests \cup {Nobody}
  /\ pc \in [Requests -> Places]
  /\ cmd \in [Requests -> Command \cup {NoCommand}]
  /\ snapshot \in [Requests -> Line \cup {NoLine}]
  /\ existing \in [Requests -> Line \cup {NoLine}]
  /\ attempt \in [Requests -> 0 .. Attempts]
  /\ new \in [Requests -> Line \cup {NoLine}]
  /\ \A r \in Requests : pc[r] # "idle" => cmd[r] \in Command

Init ==
  /\ line = NoLine
  /\ nextId = 1
  /\ holder = Nobody
  /\ pc = [r \in Requests |-> "idle"]
  /\ cmd = [r \in Requests |-> NoCommand]
  /\ snapshot = [r \in Requests |-> NoLine]
  /\ existing = [r \in Requests |-> NoLine]
  /\ attempt = [r \in Requests |-> 0]
  /\ new = [r \in Requests |-> NoLine]

-----------------------------------------------------------------------------
Goto(r, place) == pc' = [pc EXCEPT ![r] = place]

(* ok: the dish or setmeal is on sale, which AddItem asks for; the others  *)
(* but Clear need the line.                                                *)
Refused(c, ok) ==
  \/ c.op = "add" /\ ~ok
  \/ c.op \in {"sub", "set"} /\ line = NoLine

(* Clear reads nothing: it begins here too, and does not use what it gets. *)
GetByKey(r, c, ok) ==
  /\ pc[r] = "idle"
  /\ cmd' = [cmd EXCEPT ![r] = c]
  /\ snapshot' = [snapshot EXCEPT ![r] = line]
  /\ existing' = [existing EXCEPT ![r] = line]
  /\ Goto(r, IF Refused(c, ok) THEN "refused" ELSE "trying")
  /\ UNCHANGED <<line, nextId, holder, attempt, new>>

Reread(r) == snapshot[r]

KeptLock(r) == holder                      \* mutant: no rollback after the last attempt
Released(r) == IF holder = r THEN Nobody ELSE holder

(* The end of the loop's body when nothing was changed: SubItem and        *)
(* UpdateQuantity return when the line has gone, and the third attempt is  *)
(* the last.  locking: the statement met the row.                          *)
Retry(r, locking) ==
  /\ attempt' = [attempt EXCEPT ![r] = @ + 1]
  /\ existing' = [existing EXCEPT ![r] = Reread(r)]
  /\ \/ /\ cmd[r].op # "add" /\ Reread(r) = NoLine
        /\ Goto(r, "done") /\ holder' = Released(r)
     \/ /\ cmd[r].op = "add" \/ Reread(r) # NoLine
        /\ IF attempt[r] + 1 = Attempts
             THEN Goto(r, "conflict") /\ holder' = Released(r)
             ELSE UNCHANGED pc /\ holder' = IF locking THEN r ELSE holder

Write(r, row) ==
  /\ new' = [new EXCEPT ![r] = row]
  /\ holder' = r
  /\ Goto(r, "written")
  /\ UNCHANGED <<existing, attempt>>

AtStatement(r) == pc[r] = "trying" /\ holder \in {Nobody, r}

Unnumbered(r) == [id |-> nextId, quantity |-> cmd[r].count, version |-> 0]   \* mutant: no version
Created(r) == [id |-> nextId, quantity |-> cmd[r].count, version |-> 1]

Insert(r) ==
  /\ AtStatement(r)
  /\ cmd[r].op = "add" /\ existing[r] = NoLine
  /\ nextId' = nextId + 1
  /\ \/ line = NoLine /\ Write(r, Created(r))
     \/ line # NoLine /\ Retry(r, TRUE) /\ UNCHANGED new
  /\ UNCHANGED <<line, cmd, snapshot>>

BelowZero(r) == cmd[r].op = "sub" /\ existing[r].quantity < cmd[r].count   \* mutant: < for <=
Removes(r) ==
  \/ cmd[r].op = "sub" /\ existing[r].quantity <= cmd[r].count
  \/ cmd[r].op = "set" /\ cmd[r].count = 0

NewQuantity(r) ==
  CASE cmd[r].op = "add" -> existing[r].quantity + cmd[r].count
    [] cmd[r].op = "sub" -> existing[r].quantity - cmd[r].count
    [] cmd[r].op = "set" -> cmd[r].count

AnyVersion(r) == line.id = existing[r].id  \* mutant: UPDATE ... WHERE id
VersionMatches(r) == line.id = existing[r].id /\ line.version = existing[r].version

Unversioned(row, quantity) == [row EXCEPT !.quantity = quantity]   \* mutant: version as it was
Updated(row, quantity) == [row EXCEPT !.quantity = quantity, !.version = @ + 1]

UpdateQuantity(r) ==
  /\ AtStatement(r)
  /\ cmd[r].op # "clear" /\ existing[r] # NoLine
  /\ ~Removes(r)
  /\ \/ VersionMatches(r) /\ Write(r, Updated(line, NewQuantity(r)))
     \/ ~VersionMatches(r) /\ Retry(r, line.id = existing[r].id) /\ UNCHANGED new
  /\ UNCHANGED <<line, nextId, cmd, snapshot>>

(* DELETE ... WHERE id: the version is not tested.                         *)
DeleteByID(r) ==
  /\ AtStatement(r)
  /\ existing[r] # NoLine
  /\ Removes(r)
  /\ \/ line.id = existing[r].id /\ Write(r, NoLine)
     \/ line.id # existing[r].id /\ Retry(r, FALSE) /\ UNCHANGED new
  /\ UNCHANGED <<line, nextId, cmd, snapshot>>

ClearByUser(r) ==
  /\ AtStatement(r)
  /\ cmd[r].op = "clear"
  /\ Write(r, NoLine)
  /\ UNCHANGED <<line, nextId, cmd, snapshot>>

Commit(r) ==
  /\ pc[r] = "written"
  /\ line' = new[r]
  /\ holder' = Nobody
  /\ Goto(r, "done")
  /\ UNCHANGED <<nextId, cmd, snapshot, existing, attempt, new>>

(* A statement fails, the request is cancelled, the process dies.          *)
Rollback(r) ==
  /\ pc[r] \in {"trying", "written"}
  /\ holder' = Released(r)
  /\ Goto(r, "failed")
  /\ UNCHANGED <<line, nextId, cmd, snapshot, existing, attempt, new>>

Step(r) == Insert(r) \/ UpdateQuantity(r) \/ DeleteByID(r) \/ ClearByUser(r) \/ Commit(r)

Next ==
  \E r \in Requests :
    \/ \E c \in Command, ok \in BOOLEAN : GetByKey(r, c, ok)
    \/ Step(r)
    \/ Rollback(r)

Spec == Init /\ [][Next]_vars

(* A request that is not waiting for the lock of another goes on.          *)
Fairness == \A r \in Requests : WF_vars(Step(r))

FairSpec == Spec /\ Fairness

-----------------------------------------------------------------------------
(* No ABA: a line with the id and the version of the one that was read is  *)
(* that one, also after deletions and new lines for the same dish.         *)
VersionTells ==
  \A r \in Requests :
    snapshot[r].id = line.id /\ snapshot[r].version = line.version => snapshot[r] = line

(* The order reader (order/infra/cart/reader.go) refuses a whole cart for  *)
(* one line without a quantity.                                            *)
Orderable == line # NoLine => line.quantity > 0

(* What the tests of the service expect of requests that add and take away *)
(* at once (service_concurrency_test.go:161 "concurrent add failed", :208  *)
(* "concurrent sub failed"): the loop makes up for a lost race.  It does   *)
(* not, because the snapshot that it reads again does not move on.         *)
ConcurrentChangesSucceed ==
  (\A r \in Requests : cmd[r].op \in {"none", "add", "sub"}) =>
     \A r \in Requests : pc[r] # "conflict"

(* No update is lost: what a request commits is what it asks for, applied  *)
(* to the line it finds when it commits.  The exception is a SubItem that  *)
(* removes the line because of the quantity it read: what was added since  *)
(* goes with it, as DELETE does not test the version.                      *)
Asked(c, quantity) ==
  CASE c.op = "add" -> quantity + c.count
    [] c.op = "sub" -> IF quantity > c.count THEN quantity - c.count ELSE 0
    [] OTHER -> c.count

LostOnlyByRemoval ==
  [][\A r \in Requests : Commit(r) =>
       \/ line'.quantity = Asked(cmd[r], line.quantity)
       \/ cmd[r].op = "sub" /\ line' = NoLine /\ snapshot[r].version < line.version]_vars

(* Every request ends, although it waits for the locks of others.          *)
RequestsEnd ==
  \A r \in Requests : pc[r] \in {"trying", "written"} ~> pc[r] \notin {"trying", "written"}
=============================================================================
