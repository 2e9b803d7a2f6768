------------------------ MODULE OrderLifecycleProofs ------------------------
(***************************************************************************)
(* Proofs about OrderLifecycle for any number of orders, requests and      *)
(* payment transactions.  The inductive invariant says what a request that *)
(* is not finished yet knows about the row it read.                        *)
(***************************************************************************)
EXTENDS OrderLifecycle, SequenceTheorems, TLAPS

(* A transaction holds the lock of its order from its UPDATE to its end.   *)
LockInv ==
  \A r \in Requests :
    /\ pc[r] = "locked" => lock[cmd[r].order] = r
    /\ \A o \in Orders : lock[o] = r => pc[r] = "locked" /\ cmd[r].order = o

(* Version 0 is the row that does not exist.                               *)
RowInv ==
  \A o \in Orders :
    /\ orders[o].version = 0 <=> orders[o] = NoRow
    /\ orders[o].status = NoStatus <=> orders[o] = NoRow

(* With the version a request read, the row is the one it read, or the     *)
(* pending one it read and a callback has paid since.                      *)
SameOrPaidSince(row, read) ==
  row.version = read.version =>
    row = read \/ (PendingUnpaid(read) /\ row = Paid(read))

(* What was checked on the row a request read still holds of its copy.     *)
Checked(r) ==
  /\ cmd[r].kind = "ORDER_CANCELED" => CanCancel(snap[r].status) /\ cmd[r].to = "CANCELED"
  /\ cmd[r].kind = "ORDER_STATUS_CHANGED" => CanTransit(snap[r].status, cmd[r].to)
  /\ cmd[r].kind = "PAY" => OrderOf[cmd[r].txn] = cmd[r].order

ReadInv ==
  \A r \in Requests :
    LET row == orders[cmd[r].order] IN
    /\ pc[r] = "idle" => snap[r] = NoRow
    /\ pc[r] = "loaded" \/ (pc[r] = "locked" /\ cmd[r].kind # "ORDER_CREATED") =>
         /\ cmd[r].kind # "ORDER_CREATED"
         /\ Checked(r)
         /\ row # NoRow
         /\ snap[r].version <= row.version
         /\ SameOrPaidSince(row, snap[r])

(* The row a transaction is about to commit, against the committed one.    *)
NewInv ==
  \A r \in Requests : pc[r] = "locked" =>
    LET row == orders[cmd[r].order] IN
    /\ cmd[r].kind = "ORDER_CREATED" =>
         /\ row = NoRow
         /\ snap[r] = NoRow
         /\ cmd[r].to = "PENDING_PAYMENT"
         /\ new[r] = [status |-> "PENDING_PAYMENT", paid |-> FALSE, version |-> 1]
    /\ cmd[r].kind \in {"ORDER_CANCELED", "ORDER_STATUS_CHANGED"} =>
         /\ snap[r].version = row.version
         /\ new[r] = Changed(row, cmd[r].to, row.version + 1)
    /\ cmd[r].kind = "PAY" =>
         \/ new[r] = row
         \/ PendingUnpaid(row) /\ new[r] = Paid(row)

IInv ==
  /\ TypeOK
  /\ LockInv
  /\ RowInv
  /\ ReadInv
  /\ NewInv
  /\ OneEventPerVersion
  /\ EventsChain
  /\ PaidOnce
-----------------------------------------------------------------------------
(* The three operations that begin by reading a row, as one step.          *)
Begin(r) ==
  \E c \in Command, ok \in BOOLEAN :
    /\ c.kind # "ORDER_CREATED"
    /\ ok =>
         /\ orders[c.order] # NoRow
         /\ c.kind = "ORDER_CANCELED" => CanCancel(orders[c.order].status) /\ c.to = "CANCELED"
         /\ c.kind = "ORDER_STATUS_CHANGED" => CanTransit(orders[c.order].status, c.to)
         /\ c.kind = "PAY" => OrderOf[c.txn] = c.order
    /\ Load(r, c, ok)

(* The disjuncts of Next, one case each, for the lemmas about a step.      *)
LEMMA NextCases ==
  ASSUME TypeOK, Next
  PROVE  \E r \in Requests :
           \/ \E o \in Orders : CreateOrder(r, o)
           \/ Begin(r)
           \/ UpdateWithVersion(r)
           \/ UpdateOrderPaidIfPending(r)
           \/ Commit(r)
           \/ Abort(r)
PROOF
<1>1. PICK r \in Requests :
        \/ \E o \in Orders : CreateOrder(r, o)
        \/ \E o \in Orders : CancelOrder(r, o)
        \/ \E o \in Orders, from \in Status \cup {NoStatus}, to \in Status : TransitStatus(r, o, from, to)
        \/ \E t \in Txns, matches \in BOOLEAN : HandleCallback(r, t, matches)
        \/ UpdateWithVersion(r)
        \/ UpdateOrderPaidIfPending(r)
        \/ Commit(r)
        \/ Abort(r)
  BY DEF Next
<1>2. CASE \E o \in Orders : CancelOrder(r, o)
  <2>1. PICK o \in Orders : CancelOrder(r, o)
    BY <1>2
  <2> DEFINE c == [kind |-> "ORDER_CANCELED", order |-> o, to |-> "CANCELED"]
             ok == CanCancel(orders[o].status)
  <2>2. c \in Command /\ ok \in BOOLEAN
    BY DEF Command, CanCancel, Status
  <2>3. ok => orders[o] # NoRow
    <3>1. NoRow.status = ""
      BY DEF NoRow, NoStatus
    <3>2. ~CanCancel("")
      BY DEF CanCancel
    <3> QED
      BY <3>1, <3>2
  <2>4. Load(r, c, ok)
    BY <2>1 DEF CancelOrder
  <2> QED
    BY <2>2, <2>3, <2>4 DEF Begin
<1>3. CASE \E o \in Orders, from \in Status \cup {NoStatus}, to \in Status : TransitStatus(r, o, from, to)
  <2>1. PICK o \in Orders, from \in Status \cup {NoStatus}, to \in Status : TransitStatus(r, o, from, to)
    BY <1>3
  <2> DEFINE c == [kind |-> "ORDER_STATUS_CHANGED", order |-> o, to |-> to]
             ok == /\ orders[o] # NoRow
                   /\ from \in {NoStatus, orders[o].status}
                   /\ CanTransit(orders[o].status, to)
  <2>2. c \in Command /\ ok \in BOOLEAN
    BY DEF Command
  <2>3. Load(r, c, ok)
    BY <2>1 DEF TransitStatus
  <2> QED
    BY <2>2, <2>3 DEF Begin
<1>4. CASE \E t \in Txns, matches \in BOOLEAN : HandleCallback(r, t, matches)
  <2>1. PICK t \in Txns, matches \in BOOLEAN : HandleCallback(r, t, matches)
    BY <1>4
  <2> DEFINE c == [kind |-> "PAY", order |-> OrderOf[t], txn |-> t]
             ok == orders[OrderOf[t]] # NoRow /\ matches
  <2>2. c \in Command /\ ok \in BOOLEAN
    BY OrderOfAssumption DEF Command
  <2>3. Load(r, c, ok)
    BY <2>1 DEF HandleCallback
  <2> QED
    BY <2>2, <2>3 DEF Begin
<1> QED
  BY <1>1, <1>2, <1>3, <1>4

-----------------------------------------------------------------------------
(* A command names an order, and a status or a transaction.                *)
LEMMA CommandFields ==
  ASSUME NEW c \in Command
  PROVE  /\ c.order \in Orders
         /\ c.kind \in {"ORDER_CREATED", "ORDER_CANCELED", "ORDER_STATUS_CHANGED", "PAY"}
         /\ c.kind # "PAY" => c.to \in Status
         /\ c.kind = "PAY" => c.txn \in Txns
PROOF BY DEF Command

(* A row is its three fields, and what the two UPDATEs make of them.       *)
LEMMA RowFields ==
  ASSUME NEW row \in Row
  PROVE  /\ row.status \in Status \cup {NoStatus}
         /\ row.paid \in BOOLEAN
         /\ row.version \in Nat
         /\ \A other \in Row :
              /\ row.status = other.status
              /\ row.paid = other.paid
              /\ row.version = other.version
              => row = other
PROOF BY DEF Row

(* The row that does not exist is a row of the type.                       *)
LEMMA NoRowFields == NoRow \in Row /\ NoRow.status = NoStatus /\ ~NoRow.paid /\ NoRow.version = 0
PROOF BY DEF NoRow, Row

(* What UpdateWithVersion writes, field by field.                          *)
LEMMA ChangedFields ==
  ASSUME NEW row \in Row, NEW to \in Status, NEW version \in Nat
  PROVE  /\ Changed(row, to, version) \in Row
         /\ Changed(row, to, version).status = to
         /\ Changed(row, to, version).paid = row.paid
         /\ Changed(row, to, version).version = version
PROOF BY DEF Changed, Row

(* What UpdateOrderPaidIfPending writes, field by field.                   *)
LEMMA PaidFields ==
  ASSUME NEW row \in Row
  PROVE  /\ Paid(row) \in Row
         /\ Paid(row).status = "PAID"
         /\ Paid(row).paid
         /\ Paid(row).version = row.version
PROOF BY DEF Paid, Row, Status

(* Every step keeps the variables in their types.                          *)
LEMMA TypeStep ==
  ASSUME TypeOK, Next
  PROVE  TypeOK'
PROOF
<1> USE DEF TypeOK, Goto, Lock
<1>1. PICK r \in Requests :
        \/ \E o \in Orders : CreateOrder(r, o)
        \/ Begin(r)
        \/ UpdateWithVersion(r)
        \/ UpdateOrderPaidIfPending(r)
        \/ Commit(r)
        \/ Abort(r)
  BY NextCases
<1>2. CASE \E o \in Orders : CreateOrder(r, o)
  BY <1>2 DEF CreateOrder, Command, Row, Status
<1>3. CASE Begin(r)
  <2>1. PICK c \in Command, ok \in BOOLEAN : Load(r, c, ok)
    BY <1>3 DEF Begin
  <2>2. c.order \in Orders
    BY CommandFields
  <2> QED
    BY <2>1, <2>2 DEF Load
<1>4. CASE UpdateWithVersion(r)
  <2>1. cmd[r].order \in Orders /\ cmd[r].to \in Status
    BY <1>4, CommandFields DEF UpdateWithVersion
  <2>2. snap[r].version + 1 \in Nat
    BY RowFields
  <2>3. Changed(orders[cmd[r].order], cmd[r].to, snap[r].version + 1) \in Row
    BY <2>1, <2>2, ChangedFields
  <2>4. new' \in [Requests -> Row]
    BY <1>4, <2>3 DEF UpdateWithVersion
  <2>5. lock' \in [Orders -> Requests \cup {NoRequest}]
    <3>1. lock' = lock \/ lock' = [lock EXCEPT ![cmd[r].order] = r]
      BY <1>4 DEF UpdateWithVersion
    <3> QED
      BY <3>1
  <2>6. /\ pc' \in [Requests -> {"idle", "loaded", "locked", "done", "failed"}]
        /\ UNCHANGED cmd
        /\ \A q \in Requests : pc'[q] # "idle" => pc[q] # "idle"
    BY <1>4 DEF UpdateWithVersion, Goto
  <2> QED
    BY <1>4, <2>4, <2>5, <2>6 DEF UpdateWithVersion
<1>5. CASE UpdateOrderPaidIfPending(r)
  <2>1. cmd[r].order \in Orders
    BY <1>5, CommandFields DEF UpdateOrderPaidIfPending
  <2>2. Paid(orders[cmd[r].order]) \in Row
    BY <2>1, PaidFields
  <2> QED
    BY <1>5, <2>1, <2>2 DEF UpdateOrderPaidIfPending
<1>6. CASE Commit(r)
  <2>1. /\ cmd[r].order \in Orders
        /\ cmd[r].kind = "PAY" => cmd[r].txn \in Txns
    BY <1>6, CommandFields DEF Commit
  <2>2. cmd[r].kind # "PAY" => OrderEventOf(r) \in OrderEvent
    BY <1>6, CommandFields DEF Commit, OrderEventOf, OrderEvent, Row
  <2>3. events' \in [Orders -> Seq(OrderEvent)]
    <3>1. CASE cmd[r].kind = "PAY"
      BY <1>6, <3>1 DEF Commit
    <3>2. CASE cmd[r].kind # "PAY"
      <4>1. Append(events[cmd[r].order], OrderEventOf(r)) \in Seq(OrderEvent)
        BY <2>1, <2>2, <3>2, AppendProperties
      <4>2. events' = [events EXCEPT ![cmd[r].order] = Append(events[cmd[r].order], OrderEventOf(r))]
        BY <1>6, <3>2 DEF Commit
      <4> QED
        BY <4>1, <4>2
    <3> QED
      BY <3>1, <3>2
  <2>4. orders' \in [Orders -> Row] /\ lock' \in [Orders -> Requests \cup {NoRequest}]
    BY <1>6, <2>1 DEF Commit
  <2> QED
    BY <1>6, <2>1, <2>3, <2>4 DEF Commit
<1>7. CASE Abort(r)
  BY <1>7 DEF Abort
<1> QED
  BY <1>1, <1>2, <1>3, <1>4, <1>5, <1>6, <1>7

-----------------------------------------------------------------------------
(* What the lemmas below use of a command that is under way.               *)
LEMMA CommandOf ==
  ASSUME TypeOK, NEW r \in Requests, pc[r] # "idle"
  PROVE  /\ cmd[r].order \in Orders
         /\ cmd[r].kind \in {"ORDER_CREATED", "ORDER_CANCELED", "ORDER_STATUS_CHANGED", "PAY"}
         /\ cmd[r].kind # "PAY" => cmd[r].to \in Status
         /\ cmd[r].kind = "PAY" => cmd[r].txn \in Txns
PROOF
<1>1. cmd[r] \in Command
  BY DEF TypeOK
<1> QED
  BY <1>1, CommandFields

(* A lock is held by the request whose transaction is open, no other.      *)
LEMMA LockStep ==
  ASSUME TypeOK, LockInv, Next
  PROVE  LockInv'
PROOF
<1> USE NoRequestAssumption DEF LockInv, Goto, Lock
<1>1. PICK r \in Requests :
        \/ \E o \in Orders : CreateOrder(r, o)
        \/ Begin(r)
        \/ UpdateWithVersion(r)
        \/ UpdateOrderPaidIfPending(r)
        \/ Commit(r)
        \/ Abort(r)
  BY NextCases
<1>2. CASE \E o \in Orders : CreateOrder(r, o)
  BY <1>2 DEF CreateOrder, TypeOK
<1>3. CASE Begin(r)
  BY <1>3 DEF Begin, Load, TypeOK
<1>4. CASE UpdateWithVersion(r)
  BY <1>4, CommandOf DEF UpdateWithVersion, TypeOK
<1>5. CASE UpdateOrderPaidIfPending(r)
  BY <1>5, CommandOf DEF UpdateOrderPaidIfPending, TypeOK
<1>6. CASE Commit(r)
  BY <1>6, CommandOf DEF Commit, TypeOK
<1>7. CASE Abort(r)
  BY <1>7, CommandOf DEF Abort, TypeOK
<1> QED
  BY <1>1, <1>2, <1>3, <1>4, <1>5, <1>6, <1>7

(* While a transaction holds a row, no other one is locked on it.          *)
LEMMA LockExclusive ==
  ASSUME LockInv, NEW r \in Requests, NEW q \in Requests,
         pc[r] = "locked", pc[q] = "locked", cmd[r].order = cmd[q].order
  PROVE  q = r
PROOF BY DEF LockInv

-----------------------------------------------------------------------------
(* Everything that can happen to a row.                                    *)
Created(row, next) ==
  /\ row = NoRow
  /\ next = [status |-> "PENDING_PAYMENT", paid |-> FALSE, version |-> 1]
Moved(row, next) ==
  /\ row # NoRow
  /\ next.version = row.version + 1
  /\ next.paid = row.paid
  /\ \/ CanTransit(row.status, next.status)
     \/ row.status = "PAID" /\ row.paid /\ next.status = "PENDING_PAYMENT"
Kept(row, next) == row # NoRow /\ next = row
PaidNow(row, next) == PendingUnpaid(row) /\ next = Paid(row)

(* A pending unpaid row exists.                                            *)
LEMMA PendingUnpaidExists == ASSUME NEW row, PendingUnpaid(row) PROVE row # NoRow
PROOF BY NoRowFields DEF PendingUnpaid, NoStatus

(* What a commit makes of the row that was committed before it.            *)
LEMMA CommitRow ==
  ASSUME TypeOK, RowInv, ReadInv, NewInv, NEW r \in Requests, pc[r] = "locked"
  PROVE  LET row == orders[cmd[r].order] IN
         /\ cmd[r].kind = "ORDER_CREATED" => Created(row, new[r])
         /\ cmd[r].kind \in {"ORDER_CANCELED", "ORDER_STATUS_CHANGED"} => Moved(row, new[r])
         /\ cmd[r].kind = "PAY" => Kept(row, new[r]) \/ PaidNow(row, new[r])
PROOF
<1> DEFINE o == cmd[r].order
           row == orders[o]
<1>1. o \in Orders /\ row \in Row /\ snap[r] \in Row
  BY CommandOf DEF TypeOK
<1>2. CASE cmd[r].kind = "ORDER_CREATED"
  BY <1>2 DEF NewInv, Created
<1>3. CASE cmd[r].kind \in {"ORDER_CANCELED", "ORDER_STATUS_CHANGED"}
  <2>1. cmd[r].to \in Status
    BY <1>3, CommandOf
  <2>2. /\ row # NoRow
        /\ Checked(r)
        /\ SameOrPaidSince(row, snap[r])
    BY <1>3 DEF ReadInv
  <2>3. /\ snap[r].version = row.version
        /\ new[r] = Changed(row, cmd[r].to, row.version + 1)
    BY <1>3 DEF NewInv
  <2>4. row.version + 1 \in Nat
    BY <1>1, RowFields
  <2>5. new[r].status = cmd[r].to /\ new[r].paid = row.paid /\ new[r].version = row.version + 1
    BY <1>1, <2>1, <2>3, <2>4, ChangedFields
  <2>6. CanTransit(snap[r].status, cmd[r].to)
    BY <1>3, <2>2 DEF Checked, CanCancel, CanTransit, allowedTransitions
  <2>7. CASE row = snap[r]
    BY <2>2, <2>5, <2>6, <2>7, <1>3 DEF Moved
  <2>8. CASE PendingUnpaid(snap[r]) /\ row = Paid(snap[r])
    <3>1. row.status = "PAID" /\ row.paid
      BY <1>1, <2>8, PaidFields
    <3>2. cmd[r].to \in {"PENDING_PAYMENT", "PAID", "CANCELED"}
      BY <2>6, <2>8 DEF PendingUnpaid, CanTransit, allowedTransitions
    <3>3. CanTransit("PAID", "PAID") /\ CanTransit("PAID", "CANCELED")
      BY DEF CanTransit, allowedTransitions
    <3> QED
      BY <2>2, <2>5, <3>1, <3>2, <3>3, <1>3 DEF Moved
  <2> QED
    BY <2>2, <2>3, <2>7, <2>8 DEF SameOrPaidSince
<1>4. CASE cmd[r].kind = "PAY"
  <2>1. row # NoRow
    BY <1>4 DEF ReadInv
  <2> QED
    BY <1>4, <2>1 DEF NewInv, Kept, PaidNow
<1> QED
  BY <1>2, <1>3, <1>4, CommandOf

(* Every step leaves a row as it is or commits one of three changes.       *)
LEMMA RowStep ==
  ASSUME TypeOK, RowInv, ReadInv, NewInv, Next, NEW o \in Orders
  PROVE  \/ orders'[o] = orders[o]
         \/ Created(orders[o], orders'[o])
         \/ Moved(orders[o], orders'[o])
         \/ PaidNow(orders[o], orders'[o])
PROOF
<1>1. PICK r \in Requests :
        \/ \E p \in Orders : CreateOrder(r, p)
        \/ Begin(r)
        \/ UpdateWithVersion(r)
        \/ UpdateOrderPaidIfPending(r)
        \/ Commit(r)
        \/ Abort(r)
  BY NextCases
<1>2. CASE Commit(r)
  <2>1. pc[r] = "locked" /\ orders' = [orders EXCEPT ![cmd[r].order] = new[r]]
    BY <1>2 DEF Commit
  <2>2. cmd[r].order \in Orders /\ orders \in [Orders -> Row]
    BY <2>1, CommandOf DEF TypeOK
  <2>3. CASE o = cmd[r].order
    <3>1. orders'[o] = new[r]
      BY <2>1, <2>2, <2>3
    <3> QED
      BY <2>1, <2>3, <3>1, CommitRow, CommandOf DEF Kept
  <2>4. CASE o # cmd[r].order
    BY <2>1, <2>2, <2>4
  <2> QED
    BY <2>3, <2>4
<1>3. CASE ~Commit(r)
  <2>1. UNCHANGED orders
    BY <1>1, <1>3 DEF CreateOrder, Begin, Load, UpdateWithVersion, UpdateOrderPaidIfPending, Abort
  <2> QED
    BY <2>1
<1> QED
  BY <1>2, <1>3

(* Version 0 stays the mark of a row that does not exist.                  *)
LEMMA RowInvStep ==
  ASSUME TypeOK, TypeOK', RowInv, ReadInv, NewInv, Next
  PROVE  RowInv'
PROOF
<1> SUFFICES ASSUME NEW o \in Orders
             PROVE  /\ orders'[o].version = 0 <=> orders'[o] = NoRow
                    /\ orders'[o].status = NoStatus <=> orders'[o] = NoRow
  BY DEF RowInv
<1>1. orders[o] \in Row /\ orders'[o] \in Row
  BY DEF TypeOK
<1>2. CASE orders'[o] = orders[o]
  BY <1>2 DEF RowInv
<1>3. CASE Created(orders[o], orders'[o])
  <2>1. orders'[o].version = 1 /\ orders'[o].status = "PENDING_PAYMENT"
    BY <1>3 DEF Created
  <2>2. orders'[o] # NoRow
    BY <2>1, NoRowFields
  <2> QED
    BY <2>1, <2>2 DEF NoStatus
<1>4. CASE Moved(orders[o], orders'[o])
  <2>1. orders'[o].version # 0
    BY <1>1, <1>4, RowFields DEF Moved
  <2>2. orders[o].status # NoStatus
    BY <1>4 DEF RowInv, Moved
  <2>3. orders'[o].status # NoStatus
    BY <1>4, <2>2 DEF Moved, CanTransit, allowedTransitions, NoStatus
  <2> QED
    BY <2>1, <2>3, NoRowFields
<1>5. CASE PaidNow(orders[o], orders'[o])
  <2>1. orders[o] # NoRow
    BY <1>5, PendingUnpaidExists DEF PaidNow
  <2>2. orders'[o].version = orders[o].version /\ orders'[o].status = "PAID"
    BY <1>1, <1>5, PaidFields DEF PaidNow
  <2> QED
    BY <2>1, <2>2, NoRowFields DEF RowInv, NoStatus
<1> QED
  BY <1>2, <1>3, <1>4, <1>5, RowStep

-----------------------------------------------------------------------------
(* A row that changes keeps what a request that read it knows.             *)
LEMMA ReadSurvives ==
  ASSUME NEW row \in Row, NEW next \in Row, NEW read \in Row,
         row # NoRow, read.version <= row.version, SameOrPaidSince(row, read),
         Kept(row, next) \/ Moved(row, next) \/ PaidNow(row, next)
  PROVE  /\ next # NoRow
         /\ read.version <= next.version
         /\ SameOrPaidSince(next, read)
PROOF
<1>1. CASE Kept(row, next)
  BY <1>1 DEF Kept
<1>2. CASE Moved(row, next)
  <2>1. next.version = row.version + 1 /\ row.version \in Nat /\ read.version \in Nat
    BY <1>2, RowFields DEF Moved
  <2> QED
    BY <2>1, NoRowFields DEF SameOrPaidSince
<1>3. CASE PaidNow(row, next)
  <2>1. /\ next = Paid(row)
        /\ next.version = row.version
        /\ next.status = "PAID"
    BY <1>3, PaidFields DEF PaidNow
  <2>2. next # NoRow
    BY <2>1, NoRowFields DEF NoStatus
  <2>3. ASSUME row.version = read.version
        PROVE  row = read
    <3>1. CASE PendingUnpaid(read) /\ row = Paid(read)
      BY <1>3, <3>1, PaidFields DEF PaidNow, PendingUnpaid
    <3> QED
      BY <2>3, <3>1 DEF SameOrPaidSince
  <2> QED
    BY <1>3, <2>1, <2>2, <2>3 DEF SameOrPaidSince, PaidNow
<1> QED
  BY <1>1, <1>2, <1>3

(* What a request knows of the row it read survives every step.            *)
LEMMA ReadStep ==
  ASSUME TypeOK, TypeOK', RowInv, LockInv, ReadInv, NewInv, Next
  PROVE  ReadInv'
PROOF
<1> DEFINE Reader(q) == pc[q] = "loaded" \/ (pc[q] = "locked" /\ cmd[q].kind # "ORDER_CREATED")
<1>1. PICK r \in Requests :
        \/ \E o \in Orders : CreateOrder(r, o)
        \/ Begin(r)
        \/ UpdateWithVersion(r)
        \/ UpdateOrderPaidIfPending(r)
        \/ Commit(r)
        \/ Abort(r)
  BY NextCases
<1>2. SUFFICES ASSUME NEW q \in Requests
               PROVE  /\ pc'[q] = "idle" => snap'[q] = NoRow
                      /\ Reader(q)' =>
                           /\ cmd'[q].kind # "ORDER_CREATED"
                           /\ Checked(q)'
                           /\ orders'[cmd'[q].order] # NoRow
                           /\ snap'[q].version <= orders'[cmd'[q].order].version
                           /\ SameOrPaidSince(orders'[cmd'[q].order], snap'[q])
  BY DEF ReadInv
<1>3. ASSUME q # r \/ ~(Begin(r) \/ \E o \in Orders : CreateOrder(r, o))
      PROVE  /\ snap'[q] = snap[q] /\ cmd'[q] = cmd[q]
             /\ pc'[q] = "idle" => pc[q] = "idle"
             /\ Reader(q)' => Reader(q)
  <2>1. CASE \E o \in Orders : CreateOrder(r, o)
    BY <1>3, <2>1 DEF CreateOrder, Goto, TypeOK
  <2>2. CASE Begin(r)
    <3>1. q # r
      BY <1>3, <2>2
    <3>2. PICK c \in Command, ok \in BOOLEAN : Load(r, c, ok)
      BY <2>2 DEF Begin
    <3> QED
      BY <3>1, <3>2 DEF Load, Goto, TypeOK
  <2>3. CASE UpdateWithVersion(r)
    BY <2>3 DEF UpdateWithVersion, Goto, TypeOK
  <2>4. CASE UpdateOrderPaidIfPending(r)
    BY <2>4 DEF UpdateOrderPaidIfPending, Goto, TypeOK
  <2>5. CASE Commit(r)
    BY <2>5 DEF Commit, Goto, TypeOK
  <2>6. CASE Abort(r)
    BY <2>6 DEF Abort, Goto, TypeOK
  <2> QED
    BY <1>1, <2>1, <2>2, <2>3, <2>4, <2>5, <2>6
<1>4. CASE q = r /\ \E o \in Orders : CreateOrder(r, o)
  BY <1>4 DEF CreateOrder, Goto, TypeOK
<1>5. CASE q = r /\ Begin(r)
  <2>1. PICK c \in Command, ok \in BOOLEAN :
          /\ c.kind # "ORDER_CREATED"
          /\ ok =>
               /\ orders[c.order] # NoRow
               /\ c.kind = "ORDER_CANCELED" => CanCancel(orders[c.order].status) /\ c.to = "CANCELED"
               /\ c.kind = "ORDER_STATUS_CHANGED" => CanTransit(orders[c.order].status, c.to)
               /\ c.kind = "PAY" => OrderOf[c.txn] = c.order
          /\ Load(r, c, ok)
    BY <1>5 DEF Begin
  <2>2. /\ cmd'[q] = c
        /\ snap'[q] = orders[c.order]
        /\ orders' = orders
        /\ pc'[q] = IF ok THEN "loaded" ELSE "failed"
    BY <1>5, <2>1 DEF Load, Goto, TypeOK
  <2>3. orders[c.order] \in Row
    BY CommandFields DEF TypeOK
  <2>4. orders[c.order].version <= orders[c.order].version
    BY <2>3, RowFields
  <2> QED
    BY <2>1, <2>2, <2>4 DEF Checked, SameOrPaidSince
<1>6. CASE q # r \/ ~(Begin(r) \/ \E o \in Orders : CreateOrder(r, o))
  <2>1. pc'[q] = "idle" => snap'[q] = NoRow
    BY <1>3, <1>6 DEF ReadInv
  <2>2. ASSUME Reader(q)
        PROVE  /\ cmd[q].kind # "ORDER_CREATED"
               /\ Checked(q)
               /\ orders'[cmd[q].order] # NoRow
               /\ snap[q].version <= orders'[cmd[q].order].version
               /\ SameOrPaidSince(orders'[cmd[q].order], snap[q])
    <3>1. /\ cmd[q].kind # "ORDER_CREATED"
          /\ Checked(q)
          /\ orders[cmd[q].order] # NoRow
          /\ snap[q].version <= orders[cmd[q].order].version
          /\ SameOrPaidSince(orders[cmd[q].order], snap[q])
      BY <2>2 DEF ReadInv
    <3>2. cmd[q].order \in Orders /\ snap[q] \in Row
      BY <2>2, CommandOf DEF TypeOK
    <3>3. orders[cmd[q].order] \in Row /\ orders'[cmd[q].order] \in Row
      BY <3>2 DEF TypeOK
    <3>4. \/ Kept(orders[cmd[q].order], orders'[cmd[q].order])
          \/ Moved(orders[cmd[q].order], orders'[cmd[q].order])
          \/ PaidNow(orders[cmd[q].order], orders'[cmd[q].order])
      BY <3>1, <3>2, RowStep DEF Kept, Created
    <3> QED
      BY <3>1, <3>2, <3>3, <3>4, ReadSurvives
  <2> QED
    BY <1>3, <1>6, <2>1, <2>2 DEF Checked
<1> QED
  BY <1>4, <1>5, <1>6

-----------------------------------------------------------------------------
(* What a transaction is about to commit still fits the committed row.     *)
LEMMA NewStep ==
  ASSUME TypeOK, TypeOK', LockInv, ReadInv, NewInv, Next
  PROVE  NewInv'
PROOF
<1> USE DEF Goto, Lock
<1>1. PICK r \in Requests :
        \/ \E o \in Orders : CreateOrder(r, o)
        \/ Begin(r)
        \/ UpdateWithVersion(r)
        \/ UpdateOrderPaidIfPending(r)
        \/ Commit(r)
        \/ Abort(r)
  BY NextCases
<1> DEFINE NewOK(q) ==
      LET row == orders[cmd[q].order] IN
      /\ cmd[q].kind = "ORDER_CREATED" =>
           /\ row = NoRow
           /\ snap[q] = NoRow
           /\ cmd[q].to = "PENDING_PAYMENT"
           /\ new[q] = [status |-> "PENDING_PAYMENT", paid |-> FALSE, version |-> 1]
      /\ cmd[q].kind \in {"ORDER_CANCELED", "ORDER_STATUS_CHANGED"} =>
           /\ snap[q].version = row.version
           /\ new[q] = Changed(row, cmd[q].to, row.version + 1)
      /\ cmd[q].kind = "PAY" =>
           \/ new[q] = row
           \/ PendingUnpaid(row) /\ new[q] = Paid(row)
<1>2. SUFFICES ASSUME NEW q \in Requests, pc'[q] = "locked"
               PROVE  NewOK(q)'
  BY DEF NewInv
<1>3. CASE q # r
  <2>1. pc[q] = "locked" /\ cmd'[q] = cmd[q] /\ snap'[q] = snap[q] /\ new'[q] = new[q]
    BY <1>1, <1>2, <1>3 DEF CreateOrder, Begin, Load, UpdateWithVersion,
                            UpdateOrderPaidIfPending, Commit, Abort, TypeOK
  <2>2. cmd[q].order \in Orders
    BY <2>1, CommandOf
  <2>3. orders'[cmd[q].order] = orders[cmd[q].order]
    <3>1. CASE Commit(r)
      <4>1. pc[r] = "locked" /\ orders' = [orders EXCEPT ![cmd[r].order] = new[r]]
        BY <3>1 DEF Commit
      <4>2. cmd[q].order # cmd[r].order
        BY <1>3, <2>1, <4>1, LockExclusive
      <4> QED
        BY <2>2, <4>1, <4>2 DEF TypeOK
    <3>2. CASE ~Commit(r)
      BY <1>1, <3>2 DEF CreateOrder, Begin, Load, UpdateWithVersion, UpdateOrderPaidIfPending, Abort
    <3> QED
      BY <3>1, <3>2
  <2>4. NewOK(q)
    BY <2>1 DEF NewInv
  <2> QED
    BY <2>1, <2>3, <2>4
<1>4. CASE q = r /\ \E o \in Orders : CreateOrder(r, o)
  <2>1. PICK o \in Orders : CreateOrder(r, o)
    BY <1>4
  <2>2. /\ cmd'[q] = [kind |-> "ORDER_CREATED", order |-> o, to |-> "PENDING_PAYMENT"]
        /\ new'[q] = [status |-> "PENDING_PAYMENT", paid |-> FALSE, version |-> 1]
        /\ snap'[q] = NoRow
        /\ orders'[o] = NoRow
    BY <1>4, <2>1 DEF CreateOrder, TypeOK, ReadInv
  <2> QED
    BY <2>2
<1>5. CASE q = r /\ UpdateWithVersion(r)
  <2>1. /\ VersionMatches(q)
        /\ cmd' = cmd /\ snap' = snap /\ orders' = orders
        /\ cmd[q].kind # "PAY" /\ pc[q] = "loaded"
        /\ new'[q] = Changed(orders[cmd[q].order], cmd[q].to, snap[q].version + 1)
    BY <1>2, <1>5 DEF UpdateWithVersion, TypeOK
  <2>2. cmd[q].kind # "ORDER_CREATED"
    BY <2>1 DEF ReadInv
  <2> QED
    BY <2>1, <2>2 DEF VersionMatches
<1>6. CASE q = r /\ UpdateOrderPaidIfPending(r)
  BY <1>6 DEF UpdateOrderPaidIfPending, TypeOK
<1>7. CASE q = r /\ (Begin(r) \/ Commit(r) \/ Abort(r))
  BY <1>2, <1>7 DEF Begin, Load, Commit, Abort, TypeOK
<1> QED
  BY <1>1, <1>3, <1>4, <1>5, <1>6, <1>7

-----------------------------------------------------------------------------
(* Only a commit changes what is committed.                                *)
LEMMA OnlyCommit ==
  ASSUME TypeOK, Next, \A r \in Requests : ~Commit(r)
  PROVE  UNCHANGED <<orders, events, payments>>
PROOF BY NextCases DEF CreateOrder, Begin, Load, UpdateWithVersion, UpdateOrderPaidIfPending, Abort

(* The row that CreateOrder inserts, field by field.                       *)
LEMMA CreatedFields ==
  ASSUME NEW row, NEW next, Created(row, next)
  PROVE  /\ row.version = 0 /\ row.paid = FALSE /\ row.status = NoStatus
         /\ next.version = 1 /\ next.paid = FALSE /\ next.status = "PENDING_PAYMENT"
PROOF
<1>1. row = NoRow /\ NoRow.paid = FALSE
  BY DEF Created, NoRow
<1>2. next.version = 1 /\ next.paid = FALSE /\ next.status = "PENDING_PAYMENT"
  BY DEF Created
<1> QED
  BY <1>1, <1>2, NoRowFields

(* The order commands do not touch pay_status.                             *)
LEMMA OrderKeepsPaid ==
  ASSUME TypeOK, RowInv, ReadInv, NewInv,
         NEW r \in Requests, pc[r] = "locked", cmd[r].kind # "PAY"
  PROVE  new[r].paid = orders[cmd[r].order].paid
PROOF
<1>1. CASE cmd[r].kind = "ORDER_CREATED"
  <2>1. Created(orders[cmd[r].order], new[r])
    BY <1>1, CommitRow
  <2> QED
    BY <2>1, CreatedFields
<1>2. CASE cmd[r].kind \in {"ORDER_CANCELED", "ORDER_STATUS_CHANGED"}
  <2>1. Moved(orders[cmd[r].order], new[r])
    BY <1>2, CommitRow
  <2> QED
    BY <2>1 DEF Moved
<1>3. cmd[r].kind \in {"ORDER_CREATED", "ORDER_CANCELED", "ORDER_STATUS_CHANGED", "PAY"}
  BY CommandOf
<1> QED
  BY <1>1, <1>2, <1>3

(* What a commit does to the order it is about, and to no other.           *)
LEMMA CommitEffect ==
  ASSUME TypeOK, NEW r \in Requests, Commit(r)
  PROVE  LET o == cmd[r].order IN
         /\ pc[r] = "locked"
         /\ o \in Orders
         /\ orders'[o] = new[r]
         /\ \A p \in Orders : p # o => orders'[p] = orders[p] /\ events'[p] = events[p]
         /\ IF cmd[r].kind = "PAY"
            THEN /\ events' = events
                 /\ payments' = IF MarkedPaid(r) THEN payments \cup {cmd[r].txn} ELSE payments
            ELSE /\ events'[o] = Append(events[o], OrderEventOf(r))
                 /\ payments' = payments
PROOF
<1>1. pc[r] = "locked" /\ cmd[r].order \in Orders
  BY CommandOf DEF Commit
<1> QED
  BY <1>1 DEF Commit, TypeOK

(* A commit adds an event exactly when it raises the version.              *)
LEMMA EventCountStep ==
  ASSUME TypeOK, TypeOK', RowInv, ReadInv, NewInv, OneEventPerVersion, Next
  PROVE  OneEventPerVersion'
PROOF
<1>1. CASE \A r \in Requests : ~Commit(r)
  BY <1>1, OnlyCommit DEF OneEventPerVersion
<1>2. ASSUME NEW r \in Requests, Commit(r)
      PROVE  OneEventPerVersion'
  <2> DEFINE o == cmd[r].order
  <2>1. /\ o \in Orders /\ pc[r] = "locked" /\ orders'[o] = new[r]
        /\ \A p \in Orders : p # o => orders'[p] = orders[p] /\ events'[p] = events[p]
    BY <1>2, CommitEffect
  <2>2. /\ orders[o] \in Row /\ events[o] \in Seq(OrderEvent)
        /\ orders[o].version \in Nat /\ Len(events[o]) = orders[o].version
    BY <2>1, RowFields DEF TypeOK, OneEventPerVersion
  <2>3. CASE cmd[r].kind = "PAY"
    <3>1. events' = events
      BY <1>2, <2>3, CommitEffect
    <3>2. new[r].version = orders[o].version
      BY <2>1, <2>2, <2>3, CommitRow, PaidFields DEF Kept, PaidNow
    <3> QED
      BY <2>1, <2>2, <3>1, <3>2 DEF OneEventPerVersion
  <2>4. CASE cmd[r].kind # "PAY"
    <3>1. events'[o] = Append(events[o], OrderEventOf(r))
      BY <1>2, <2>4, CommitEffect
    <3>2. OrderEventOf(r) \in OrderEvent
      <4>1. events'[o] \in Seq(OrderEvent)
        BY <2>1 DEF TypeOK
      <4> QED
        BY <2>1, <2>4, CommandOf DEF OrderEventOf, OrderEvent, TypeOK, Row
    <3>3. Len(events'[o]) = Len(events[o]) + 1
      BY <2>2, <3>1, <3>2, AppendProperties
    <3>4. CASE Created(orders[o], new[r])
      <4>1. orders[o].version = 0 /\ orders'[o].version = 1
        BY <2>1, <3>4, CreatedFields
      <4>2. Len(events'[o]) = orders'[o].version
        BY <2>2, <3>3, <4>1
      <4> QED
        BY <2>1, <4>2 DEF OneEventPerVersion
    <3>5. CASE Moved(orders[o], new[r])
      BY <2>1, <2>2, <3>3, <3>5 DEF Moved, OneEventPerVersion
    <3> QED
      BY <2>1, <2>4, <3>4, <3>5, CommitRow, CommandOf
  <2> QED
    BY <2>3, <2>4
<1> QED
  BY <1>1, <1>2

(* A commit pays an order exactly when it records a payment of it.         *)
LEMMA PaidStep ==
  ASSUME TypeOK, TypeOK', RowInv, ReadInv, NewInv, PaidOnce, Next
  PROVE  PaidOnce'
PROOF
<1> USE OrderOfAssumption
<1>1. CASE \A r \in Requests : ~Commit(r)
  BY <1>1, OnlyCommit DEF PaidOnce
<1>2. ASSUME NEW r \in Requests, Commit(r)
      PROVE  PaidOnce'
  <2> DEFINE o == cmd[r].order
  <2>1. /\ o \in Orders /\ pc[r] = "locked" /\ orders'[o] = new[r]
        /\ \A p \in Orders : p # o => orders'[p] = orders[p]
    BY <1>2, CommitEffect
  <2>2. orders[o] \in Row
    BY <2>1 DEF TypeOK
  <2>3. CASE cmd[r].kind # "PAY"
    <3>1. payments' = payments
      BY <1>2, <2>3, CommitEffect
    <3>2. new[r].paid = orders[o].paid
      BY <2>1, <2>3, OrderKeepsPaid
    <3> QED
      BY <2>1, <3>1, <3>2 DEF PaidOnce
  <2>4. CASE cmd[r].kind = "PAY" /\ Kept(orders[o], new[r])
    <3>1. payments' = payments
      BY <1>2, <2>4, CommitEffect DEF Kept, MarkedPaid
    <3> QED
      BY <2>1, <2>4, <3>1 DEF PaidOnce, Kept
  <2>5. CASE cmd[r].kind = "PAY" /\ PaidNow(orders[o], new[r])
    <3>1. ~orders[o].paid /\ new[r].paid
      BY <2>2, <2>5, PaidFields DEF PaidNow, PendingUnpaid
    <3>2. payments' = payments \cup {cmd[r].txn}
      BY <1>2, <2>5, <3>1, CommitEffect DEF MarkedPaid
    <3>3. cmd[r].txn \in Txns /\ OrderOf[cmd[r].txn] = o
      BY <2>1, <2>5, CommandOf DEF ReadInv, Checked
    <3>4. \A t \in payments : OrderOf[t] # o
      BY <2>1, <3>1 DEF PaidOnce
    <3>5. \A p \in Orders : orders'[p].paid <=> \E t \in payments' : OrderOf[t] = p
      BY <2>1, <3>1, <3>2, <3>3 DEF PaidOnce
    <3>6. \A t, u \in payments' : OrderOf[t] = OrderOf[u] => t = u
      BY <3>2, <3>3, <3>4 DEF PaidOnce
    <3> QED
      BY <3>5, <3>6 DEF PaidOnce
  <2> QED
    BY <2>1, <2>3, <2>4, <2>5, CommitRow
<1> QED
  BY <1>1, <1>2

(* A new event starts from the status the last one entered.                *)
LEMMA ChainStep ==
  ASSUME TypeOK, TypeOK', RowInv, ReadInv, NewInv, OneEventPerVersion, EventsChain, Next
  PROVE  EventsChain'
PROOF
<1>1. CASE \A r \in Requests : ~Commit(r)
  BY <1>1, OnlyCommit DEF EventsChain
<1>2. ASSUME NEW r \in Requests, Commit(r)
      PROVE  EventsChain'
  <2> DEFINE o == cmd[r].order
             e == OrderEventOf(r)
  <2>1. /\ o \in Orders /\ pc[r] = "locked" /\ orders'[o] = new[r]
        /\ \A p \in Orders : p # o => orders'[p] = orders[p] /\ events'[p] = events[p]
    BY <1>2, CommitEffect
  <2>2. orders[o] \in Row /\ events[o] \in Seq(OrderEvent) /\ snap[r] \in Row
    BY <2>1 DEF TypeOK
  <2>3. SUFFICES ASSUME ~new[r].paid
                 PROVE  /\ \A i \in 2 .. Len(events'[o]) : events'[o][i].from = events'[o][i-1].to
                        /\ events'[o] # <<>> => events'[o][Len(events'[o])].to = new[r].status
    BY <2>1 DEF EventsChain
  <2>4. CASE cmd[r].kind = "PAY"
    <3>1. events' = events
      BY <1>2, <2>4, CommitEffect
    <3>2. new[r] = orders[o]
      BY <2>1, <2>2, <2>3, <2>4, CommitRow, PaidFields DEF Kept, PaidNow
    <3> QED
      BY <2>1, <2>3, <3>1, <3>2 DEF EventsChain
  <2>5. CASE cmd[r].kind # "PAY"
    <3>1. events'[o] = Append(events[o], e)
      BY <1>2, <2>5, CommitEffect
    <3>2. e \in OrderEvent /\ e.from = snap[r].status /\ e.to = cmd[r].to
      BY <2>1, <2>5, CommandOf DEF OrderEventOf, OrderEvent, TypeOK, Row
    <3>3. /\ Len(events'[o]) = Len(events[o]) + 1
          /\ events'[o][Len(events[o]) + 1] = e
          /\ \A i \in 1 .. Len(events[o]) : events'[o][i] = events[o][i]
      BY <2>2, <3>1, <3>2, AppendProperties
    <3>4. cmd[r].to = new[r].status
      <4>1. CASE cmd[r].kind = "ORDER_CREATED"
        <5>1. new[r].status = "PENDING_PAYMENT"
          BY <2>1, <4>1, CommitRow, CreatedFields
        <5> QED
          BY <2>1, <4>1, <5>1 DEF NewInv
      <4>2. CASE cmd[r].kind # "ORDER_CREATED"
        <5>1. new[r] = Changed(orders[o], cmd[r].to, orders[o].version + 1)
          BY <2>1, <2>5, <4>2, CommandOf DEF NewInv
        <5>2. orders[o].version + 1 \in Nat /\ cmd[r].to \in Status
          BY <2>1, <2>2, <2>5, CommandOf, RowFields
        <5> QED
          BY <2>2, <5>1, <5>2, ChangedFields
      <4> QED
        BY <2>1, <4>1, <4>2, CommitRow
    <3>5. events[o] # <<>> => snap[r].status = events[o][Len(events[o])].to
      <4>1. CASE cmd[r].kind = "ORDER_CREATED"
        <5>1. orders[o].version = 0
          BY <2>1, <4>1, CommitRow, CreatedFields
        <5> QED
          BY <2>1, <2>2, <5>1, EmptySeq DEF OneEventPerVersion
      <4>2. CASE cmd[r].kind # "ORDER_CREATED"
        <5>1. Moved(orders[o], new[r])
          BY <2>1, <2>5, <4>2, CommandOf, CommitRow
        <5>2. ~orders[o].paid
          BY <2>3, <5>1 DEF Moved
        <5>3. snap[r].version = orders[o].version /\ SameOrPaidSince(orders[o], snap[r])
          BY <2>1, <2>5, <4>2, CommandOf DEF NewInv, ReadInv
        <5>4. orders[o] = snap[r]
          BY <2>2, <5>2, <5>3, PaidFields DEF SameOrPaidSince
        <5> QED
          BY <2>1, <5>2, <5>4 DEF EventsChain
      <4> QED
        BY <4>1, <4>2
    <3>6. Len(events[o]) \in Nat
      BY <2>2, LenProperties
    <3>7. events'[o][Len(events'[o])].to = new[r].status
      BY <3>2, <3>3, <3>4
    <3>8. ASSUME NEW i \in 2 .. Len(events'[o])
          PROVE  events'[o][i].from = events'[o][i-1].to
      <4>1. CASE i = Len(events'[o])
        <5>1. events[o] # <<>> /\ i - 1 = Len(events[o]) /\ i - 1 \in 1 .. Len(events[o])
          BY <2>2, <3>3, <3>6, <4>1
        <5> QED
          BY <3>2, <3>3, <3>5, <4>1, <5>1
      <4>2. CASE i # Len(events'[o])
        <5>1. i \in 2 .. Len(events[o]) /\ i - 1 \in 1 .. Len(events[o]) /\ i \in 1 .. Len(events[o])
          BY <3>3, <3>6, <4>2
        <5>2. ~orders[o].paid
          BY <2>1, <2>3, <2>5, OrderKeepsPaid
        <5> QED
          BY <2>1, <3>3, <5>1, <5>2 DEF EventsChain
      <4> QED
        BY <4>1, <4>2
    <3> QED
      BY <3>7, <3>8
  <2> QED
    BY <2>4, <2>5
<1> QED
  BY <1>1, <1>2

-----------------------------------------------------------------------------
(* The invariant holds of the empty table.                                 *)
LEMMA InitInv == Init => IInv
PROOF
<1> SUFFICES ASSUME Init PROVE IInv
  OBVIOUS
<1> USE NoRequestAssumption, NoRowFields DEF Init
<1>1. TypeOK
  BY EmptySeq DEF TypeOK
<1>2. LockInv /\ RowInv
  BY DEF LockInv, RowInv
<1>3. ReadInv /\ NewInv
  BY DEF ReadInv, NewInv
<1>4. OneEventPerVersion /\ EventsChain /\ PaidOnce
  BY EmptySeq DEF OneEventPerVersion, EventsChain, PaidOnce
<1> QED
  BY <1>1, <1>2, <1>3, <1>4 DEF IInv

(* Every step of every request keeps the invariant.                        *)
LEMMA InvStep == IInv /\ [Next]_vars => IInv'
PROOF
<1> SUFFICES ASSUME IInv, [Next]_vars PROVE IInv'
  OBVIOUS
<1>1. CASE Next
  <2>1. TypeOK'
    BY <1>1, TypeStep DEF IInv
  <2> QED
    BY <1>1, <2>1, LockStep, RowInvStep, ReadStep, NewStep, EventCountStep, ChainStep, PaidStep
       DEF IInv
<1>2. CASE UNCHANGED vars
  <2> USE <1>2 DEF vars
  <2>1. TypeOK' /\ LockInv' /\ RowInv'
    BY DEF IInv, TypeOK, LockInv, RowInv
  <2>2. ReadInv' /\ NewInv'
    BY DEF IInv, ReadInv, NewInv, Checked
  <2>3. OneEventPerVersion' /\ EventsChain' /\ PaidOnce'
    BY DEF IInv, OneEventPerVersion, EventsChain, PaidOnce
  <2> QED
    BY <2>1, <2>2, <2>3 DEF IInv
<1> QED
  BY <1>1, <1>2

(* The invariant holds of every behaviour.                                 *)
THEOREM Invariance == Spec => []IInv
PROOF BY InitInv, InvStep, PTL DEF Spec

(* Every variable keeps its type.                                          *)
THEOREM TypeCorrect == Spec => []TypeOK
PROOF
<1>1. IInv => TypeOK
  BY DEF IInv
<1> QED
  BY <1>1, Invariance, PTL

(* The outbox holds exactly one event per version of every order, and the  *)
(* events of an unpaid order replay to its row.                            *)
THEOREM OutboxReplays == Spec => []OutboxTells
PROOF
<1>1. IInv => OutboxTells
  BY DEF IInv, OutboxTells
<1> QED
  BY <1>1, Invariance, PTL

(* However many callbacks run, an order is paid by one transaction or none. *)
THEOREM PaymentRecordedOnce == Spec => []PaidOnce
PROOF
<1>1. IInv => PaidOnce
  BY DEF IInv
<1> QED
  BY <1>1, Invariance, PTL

(* A COMPLETED or CANCELED order keeps its status.                         *)
THEOREM TerminalKept == Spec => TerminalIsFinal
PROOF
<1>1. ASSUME IInv, [Next]_vars, NEW o \in Orders, orders[o].status \in Terminal
      PROVE  orders'[o].status = orders[o].status
  <2>1. CASE UNCHANGED vars
    BY <2>1 DEF vars
  <2>2. CASE Next
    <3>1. orders[o] # NoRow
      BY <1>1, NoRowFields DEF Terminal, NoStatus
    <3>2. ~PendingUnpaid(orders[o])
      BY <1>1 DEF Terminal, PendingUnpaid
    <3>3. orders'[o] = orders[o] \/ Moved(orders[o], orders'[o])
      BY <1>1, <2>2, <3>1, <3>2, RowStep DEF IInv, Created, PaidNow
    <3> QED
      BY <1>1, <3>3 DEF Moved, Terminal, CanTransit, allowedTransitions
  <2> QED
    BY <1>1, <2>1, <2>2
<1>2. IInv /\ [Next]_vars =>
        [\A o \in Orders : orders[o].status \in Terminal => orders'[o].status = orders[o].status]_vars
  BY <1>1
<1> QED
  BY <1>2, Invariance, PTL DEF Spec, TerminalIsFinal

(* Status changes follow the transition table, but for a PAID order that a *)
(* stale PENDING_PAYMENT -> PENDING_PAYMENT request pushes back.           *)
THEOREM TableFollowed == Spec => MovesAlongTable
PROOF
<1> DEFINE Legal(o) ==
       \/ orders[o] = NoRow
       \/ CanTransit(orders[o].status, orders'[o].status)
       \/ orders[o].status = "PAID" /\ orders[o].paid /\ orders'[o].status = "PENDING_PAYMENT"
<1>1. ASSUME IInv, Next, NEW o \in Orders
      PROVE  Legal(o)
  <2>1. CASE orders'[o] = orders[o]
    BY <2>1 DEF CanTransit
  <2>2. CASE Created(orders[o], orders'[o])
    BY <2>2 DEF Created
  <2>3. CASE Moved(orders[o], orders'[o])
    BY <2>3 DEF Moved
  <2>4. CASE PaidNow(orders[o], orders'[o])
    <3>1. orders'[o].status = "PAID" /\ orders[o].status = "PENDING_PAYMENT"
      BY <1>1, <2>4, PaidFields DEF PaidNow, PendingUnpaid, IInv, TypeOK
    <3> QED
      BY <3>1 DEF CanTransit, allowedTransitions
  <2> QED
    BY <1>1, <2>1, <2>2, <2>3, <2>4, RowStep DEF IInv
<1>2. IInv /\ [Next]_vars => [\A o \in Orders : Legal(o)]_vars
  BY <1>1
<1> QED
  BY <1>2, Invariance, PTL DEF Spec, MovesAlongTable

-----------------------------------------------------------------------------
(* A transaction about to commit on an unpayable order is not a payment.   *)
LEMMA NoPayCommand ==
  ASSUME IInv, NEW r \in Requests, pc[r] = "locked", cmd[r].order \in Unpayable
  PROVE  cmd[r].kind # "PAY"
PROOF
<1> SUFFICES ASSUME cmd[r].kind = "PAY" PROVE FALSE
  OBVIOUS
<1>1. cmd[r].txn \in Txns
  BY CommandOf DEF IInv
<1>2. OrderOf[cmd[r].txn] = cmd[r].order
  BY DEF IInv, ReadInv, Checked
<1> QED
  BY <1>1, <1>2 DEF Unpayable

(* An unpayable order is never paid.                                       *)
LEMMA NothingPaid ==
  ASSUME IInv, NEW o \in Unpayable
  PROVE  ~orders[o].paid
PROOF BY DEF IInv, TypeOK, PaidOnce, Unpayable

(* The initial states map to those of the status machine.                  *)
LEMMA MachineInit == Init => Machine!Init
PROOF
<1> SUFFICES ASSUME Init PROVE Machine!Init
  OBVIOUS
<1>1. \A o \in Unpayable : orders[o].status = NoStatus /\ events[o] = <<>>
  BY NoRowFields DEF Init, Unpayable
<1> QED
  BY <1>1 DEF Machine!Init, Machine!NoStatus, NoStatus

(* Every step maps to a move of the status machine or to a stutter.        *)
LEMMA MachineStep ==
  ASSUME IInv, [Next]_vars
  PROVE  [Machine!Next]_Machine!vars
PROOF
<1>1. CASE UNCHANGED vars
  BY <1>1 DEF vars, Machine!vars
<1>2. CASE Next /\ \A r \in Requests : ~Commit(r)
  <2>1. orders' = orders /\ events' = events
    BY <1>2, OnlyCommit DEF IInv
  <2> QED
    BY <2>1 DEF Machine!vars
<1>3. ASSUME NEW r \in Requests, Commit(r), cmd[r].order \notin Unpayable
      PROVE  UNCHANGED Machine!vars
  <2>1. \A p \in Unpayable : orders'[p] = orders[p] /\ events'[p] = events[p]
    BY <1>3, CommitEffect DEF IInv, Unpayable
  <2> QED
    BY <2>1 DEF Machine!vars
<1>4. ASSUME NEW r \in Requests, Commit(r), cmd[r].order \in Unpayable
      PROVE  Machine!Next
  <2> DEFINE status == [p \in Unpayable |-> orders[p].status]
             log == [p \in Unpayable |-> events[p]]
  <2>0. PICK o \in Unpayable : o \in Orders /\ o = cmd[r].order
    BY <1>4 DEF Unpayable
  <2>1. /\ pc[r] = "locked" /\ orders'[o] = new[r]
        /\ \A p \in Orders : p # o => orders'[p] = orders[p] /\ events'[p] = events[p]
        /\ cmd[r].kind # "PAY"
        /\ events'[o] = Append(events[o], OrderEventOf(r))
    BY <1>4, <2>0, CommitEffect, NoPayCommand DEF IInv
  <2>2. orders[o] \in Row /\ snap[r] \in Row /\ new[r] \in Row /\ cmd[r].to \in Status
    BY <2>0, <2>1, CommandOf DEF IInv, TypeOK
  <2>3. /\ orders \in [Orders -> Row] /\ orders' = [orders EXCEPT ![o] = new[r]]
        /\ events \in [Orders -> Seq(OrderEvent)]
        /\ events' = [events EXCEPT ![o] = Append(@, OrderEventOf(r))]
    BY <1>4, <2>0, <2>1 DEF IInv, TypeOK, Commit
  <2>4. new[r].status = cmd[r].to /\ snap[r].status = orders[o].status
    <3>1. CASE cmd[r].kind = "ORDER_CREATED"
      <4>1. orders[o] = NoRow /\ snap[r] = NoRow
        BY <2>0, <2>1, <3>1 DEF IInv, NewInv
      <4>2. cmd[r].to = "PENDING_PAYMENT" /\ new[r].status = "PENDING_PAYMENT"
        BY <2>0, <2>1, <3>1 DEF IInv, NewInv
      <4> QED
        BY <4>1, <4>2
    <3>2. CASE cmd[r].kind # "ORDER_CREATED"
      <4>1. /\ snap[r].version = orders[o].version
            /\ new[r] = Changed(orders[o], cmd[r].to, orders[o].version + 1)
        BY <2>0, <2>1, <3>2, CommandOf DEF IInv, NewInv
      <4>2. snap[r] = orders[o]
        <5>1. ~orders[o].paid
          BY <2>0, NothingPaid DEF IInv
        <5>2. SameOrPaidSince(orders[o], snap[r])
          BY <2>0, <2>1, <3>2 DEF IInv, ReadInv
        <5> QED
          BY <2>2, <4>1, <5>1, <5>2, PaidFields DEF SameOrPaidSince
      <4>3. orders[o].version + 1 \in Nat
        BY <2>2, RowFields
      <4> QED
        BY <2>2, <4>1, <4>2, <4>3, ChangedFields
    <3> QED
      BY <3>1, <3>2
  <2>5. Machine!Move(o, cmd[r].kind, cmd[r].to)
    <3>1. status' = [status EXCEPT ![o] = cmd[r].to]
      BY <2>1, <2>3, <2>4 DEF Unpayable
    <3>2. OrderEventOf(r) = [type |-> cmd[r].kind, from |-> status[o], to |-> cmd[r].to]
      BY <2>1, <2>4 DEF OrderEventOf
    <3>3. log' = [log EXCEPT ![o] =
                    Append(@, [type |-> cmd[r].kind, from |-> status[o], to |-> cmd[r].to])]
      BY <2>1, <2>3, <3>2 DEF Unpayable
    <3> QED
      BY <3>1, <3>3 DEF Machine!Move
  <2>6. CASE cmd[r].kind = "ORDER_CREATED"
    <3>1. cmd[r].to = "PENDING_PAYMENT" /\ status[o] = NoStatus
      BY <2>0, <2>1, <2>6, NoRowFields DEF IInv, NewInv
    <3>2. Machine!Create(o)
      BY <2>5, <2>6, <3>1 DEF Machine!Create, Machine!Move, Machine!NoStatus, NoStatus
    <3> QED
      BY <3>2 DEF Machine!Next
  <2>7. CASE cmd[r].kind = "ORDER_CANCELED"
    <3>1. CanCancel(status[o]) /\ cmd[r].to = "CANCELED"
      BY <2>0, <2>1, <2>4, <2>7 DEF IInv, ReadInv, Checked
    <3>2. Machine!Cancel(o)
      BY <2>5, <2>7, <3>1 DEF Machine!Cancel, Machine!Move, Machine!CanCancel, CanCancel
    <3> QED
      BY <3>2 DEF Machine!Next
  <2>8. CASE cmd[r].kind = "ORDER_STATUS_CHANGED"
    <3>1. CanTransit(status[o], cmd[r].to)
      BY <2>0, <2>1, <2>4, <2>8 DEF IInv, ReadInv, Checked
    <3>2. Machine!Transit(o, cmd[r].to)
      BY <2>5, <2>8, <3>1
         DEF Machine!Transit, Machine!CanTransit, CanTransit,
             Machine!allowedTransitions, allowedTransitions
    <3> QED
      BY <2>2, <3>2 DEF Machine!Next, Machine!Status, Status
  <2> QED
    BY <2>1, <2>6, <2>7, <2>8, CommandOf DEF IInv
<1> QED
  BY <1>1, <1>2, <1>3, <1>4

(* CreateOrder, CancelOrder and TransitStatus with their snapshot, version *)
(* check and row lock are atomic moves of the status machine, each with    *)
(* the event that names it (OrderMachine), for every order that no payment *)
(* transaction belongs to, whatever happens to the others.                 *)
THEOREM ServiceImplementsMachine == Spec => MachineSpec
PROOF
<1>1. IInv /\ [Next]_vars => [Machine!Next]_Machine!vars
  BY MachineStep
<1> QED
  BY <1>1, MachineInit, Invariance, PTL DEF Spec, MachineSpec, Machine!Spec
=============================================================================
