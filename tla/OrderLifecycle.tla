--------------------------- MODULE OrderLifecycle ---------------------------
(***************************************************************************)
(* CreateOrder, CancelOrder, TransitStatus (order/app) and HandleCallback  *)
(* (payment_callback/app), each run in one SQL transaction over the same   *)
(* `orders` table (ORDER_SHARDING_ENABLED=false: with one table per month  *)
(* the callback, which names `orders`, would not find the row at all).     *)
(*                                                                         *)
(* A transaction is a snapshot read, one UPDATE or INSERT that locks the   *)
(* row until the transaction ends, and a commit that publishes the row,    *)
(* the outbox row and the payment record at once (MySQL, REPEATABLE READ:  *)
(* SELECT reads the snapshot, UPDATE evaluates its WHERE on the last       *)
(* committed row).  A transaction may abort at any point: a statement      *)
(* fails, the request is cancelled, the process or the database dies.      *)
(***************************************************************************)
EXTENDS OrderStatus

CONSTANTS
  Orders,      \* order ids (AUTO_INCREMENT)
  Requests,    \* requests served, one transaction each
  Txns,        \* payment transactions the providers report
  OrderOf,     \* the order each payment transaction pays
  NoRequest

ASSUME OrderOfAssumption == OrderOf \in [Txns -> Orders]
ASSUME NoRequestAssumption == NoRequest \notin Requests

VARIABLES
  orders,      \* the committed rows
  lock,        \* the request whose transaction holds the row lock
  events,      \* committed order_outbox rows of each order, oldest first
  payments,    \* committed payment_record and payment_outbox rows, by transaction
  pc,          \* where each request stands
  cmd,         \* what it was asked to do
  snap,        \* the row it read
  new          \* the row its transaction will commit

vars == <<orders, lock, events, payments, pc, cmd, snap, new>>

-----------------------------------------------------------------------------
Row == [status : Status \cup {NoStatus}, paid : BOOLEAN, version : Nat]
NoRow == [status |-> NoStatus, paid |-> FALSE, version |-> 0]

Command ==
  [kind : {"ORDER_CREATED", "ORDER_CANCELED", "ORDER_STATUS_CHANGED"}, order : Orders, to : Status]
    \cup [kind : {"PAY"}, order : Orders, txn : Txns]
NoCommand == [kind |-> "NONE"]

TypeOK ==
  /\ orders \in [Orders -> Row]
  /\ lock \in [Orders -> Requests \cup {NoRequest}]
  /\ events \in [Orders -> Seq(OrderEvent)]
  /\ payments \subseteq Txns
  /\ pc \in [Requests -> {"idle", "loaded", "locked", "done", "failed"}]
  /\ cmd \in [Requests -> Command \cup {NoCommand}]
  /\ snap \in [Requests -> Row]
  /\ new \in [Requests -> Row]
  /\ \A r \in Requests : pc[r] # "idle" => cmd[r] \in Command

Init ==
  /\ orders = [o \in Orders |-> NoRow]
  /\ lock = [o \in Orders |-> NoRequest]
  /\ events = [o \in Orders |-> <<>>]
  /\ payments = {}
  /\ pc = [r \in Requests |-> "idle"]
  /\ cmd = [r \in Requests |-> NoCommand]
  /\ snap = [r \in Requests |-> NoRow]
  /\ new = [r \in Requests |-> NoRow]

-----------------------------------------------------------------------------
Goto(r, place) == pc' = [pc EXCEPT ![r] = place]
Lock(r, o) == lock' = [lock EXCEPT ![o] = r]

(* CreateOrder: the INSERT gives the row a fresh id and keeps it locked.   *)
CreateOrder(r, o) ==
  /\ pc[r] = "idle"
  /\ orders[o] = NoRow
  /\ lock[o] = NoRequest
  /\ Lock(r, o)
  /\ cmd' = [cmd EXCEPT ![r] = [kind |-> "ORDER_CREATED", order |-> o, to |-> "PENDING_PAYMENT"]]
  /\ new' = [new EXCEPT ![r] = [status |-> "PENDING_PAYMENT", paid |-> FALSE, version |-> 1]]
  /\ Goto(r, "locked")
  /\ UNCHANGED <<orders, events, payments, snap>>

(* The transaction begins: it reads the row and gives up when ok is false. *)
Load(r, c, ok) ==
  /\ pc[r] = "idle"
  /\ cmd' = [cmd EXCEPT ![r] = c]
  /\ snap' = [snap EXCEPT ![r] = orders[c.order]]
  /\ Goto(r, IF ok THEN "loaded" ELSE "failed")
  /\ UNCHANGED <<orders, lock, events, payments, new>>

CancelOrder(r, o) ==
  Load(r, [kind |-> "ORDER_CANCELED", order |-> o, to |-> "CANCELED"],
       CanCancel(orders[o].status))

(* from = NoStatus: the caller does not say which status it expects. *)
TransitStatus(r, o, from, to) ==
  Load(r, [kind |-> "ORDER_STATUS_CHANGED", order |-> o, to |-> to],
       /\ orders[o] # NoRow
       /\ from \in {NoStatus, orders[o].status}
       /\ CanTransit(orders[o].status, to))

(* matches: the callback's amount and merchant are those of the order. *)
HandleCallback(r, t, matches) ==
  Load(r, [kind |-> "PAY", order |-> OrderOf[t], txn |-> t],
       orders[OrderOf[t]] # NoRow /\ matches)

(* UPDATE ... SET status, version WHERE id AND version; pay_status is not  *)
(* among the columns it sets, so the row keeps the one it has by then.     *)
Changed(row, to, version) == [row EXCEPT !.status = to, !.version = version]

AnyVersion(r) == TRUE     \* mutant of VersionMatches: the WHERE forgets the version
VersionMatches(r) == orders[cmd[r].order].version = snap[r].version

UpdateWithVersion(r) ==
  LET o == cmd[r].order IN
  /\ pc[r] = "loaded"
  /\ cmd[r].kind # "PAY"
  /\ lock[o] = NoRequest
  /\ IF VersionMatches(r)
     THEN /\ Lock(r, o)
          /\ new' = [new EXCEPT ![r] = Changed(orders[o], cmd[r].to, snap[r].version + 1)]
          /\ Goto(r, "locked")
     ELSE /\ Goto(r, "failed")
          /\ UNCHANGED <<lock, new>>
  /\ UNCHANGED <<orders, events, payments, cmd, snap>>

(* UPDATE ... SET status, pay_status WHERE id AND status AND pay_status:   *)
(* it neither tests nor changes the version.                               *)
PendingOnly(row) == row.status = "PENDING_PAYMENT"   \* mutant: no test of pay_status
UnpaidOnly(row) == ~row.paid                         \* mutant: no test of status
PendingUnpaid(row) == row.status = "PENDING_PAYMENT" /\ ~row.paid
Paid(row) == [row EXCEPT !.status = "PAID", !.paid = TRUE]

UpdateOrderPaidIfPending(r) ==
  LET o == cmd[r].order IN
  /\ pc[r] = "loaded"
  /\ cmd[r].kind = "PAY"
  /\ lock[o] = NoRequest
  /\ Lock(r, o)
  /\ new' = [new EXCEPT ![r] =
               IF PendingUnpaid(orders[o]) THEN Paid(orders[o]) ELSE orders[o]]
  /\ Goto(r, "locked")
  /\ UNCHANGED <<orders, events, payments, cmd, snap>>

(* PublishOrderEvent, in the transaction: from is the status that was read. *)
OrderEventOf(r) == [type |-> cmd[r].kind, from |-> snap[r].status, to |-> cmd[r].to]

(* HandleCallback records the payment when its UPDATE changed the row.     *)
MarkedPaid(r) == new[r] # orders[cmd[r].order]

Commit(r) ==
  LET o == cmd[r].order IN
  /\ pc[r] = "locked"
  /\ orders' = [orders EXCEPT ![o] = new[r]]
  /\ lock' = [lock EXCEPT ![o] = NoRequest]
  /\ IF cmd[r].kind = "PAY"
     THEN /\ payments' = IF MarkedPaid(r) THEN payments \cup {cmd[r].txn} ELSE payments
          /\ UNCHANGED events
     ELSE /\ events' = [events EXCEPT ![o] = Append(@, OrderEventOf(r))]
          /\ UNCHANGED payments
  /\ Goto(r, "done")
  /\ UNCHANGED <<cmd, snap, new>>

Abort(r) ==
  /\ pc[r] \in {"loaded", "locked"}
  /\ lock' = [o \in Orders |-> IF lock[o] = r THEN NoRequest ELSE lock[o]]
  /\ Goto(r, "failed")
  /\ UNCHANGED <<orders, events, payments, cmd, snap, new>>

Next ==
  \E r \in Requests :
    \/ \E o \in Orders : CreateOrder(r, o)
    \/ \E o \in Orders : CancelOrder(r, o)
    \/ \E o \in Orders, from \in Status \cup {NoStatus}, to \in Status : TransitStatus(r, o, from, to)
    \/ \E t \in Txns, matches \in BOOLEAN : HandleCallback(r, t, matches)
    \/ UpdateWithVersion(r)
    \/ UpdateOrderPaidIfPending(r)
    \/ Commit(r)
    \/ Abort(r)

Spec == Init /\ [][Next]_vars

-----------------------------------------------------------------------------
(* The outbox accounts for every version of the row: no committed change   *)
(* of an order without its event, no event of a change that was rolled     *)
(* back or overwritten by a concurrent request.                            *)
OneEventPerVersion == \A o \in Orders : Len(events[o]) = orders[o].version

(* Consumers can replay an unpaid order from its events: each event leaves *)
(* the status the previous one entered, and the last one is the row's.     *)
EventsChain ==
  \A o \in Orders : ~orders[o].paid =>
    /\ \A i \in 2 .. Len(events[o]) : events[o][i].from = events[o][i-1].to
    /\ events[o] # <<>> => events[o][Len(events[o])].to = orders[o].status

(* The outbox tells the story of the rows: as many events as versions, and *)
(* while an order is unpaid they lead to its status.                       *)
OutboxTells == OneEventPerVersion /\ EventsChain

(* A paid order has exactly one recorded payment, an unpaid one none, with *)
(* any number of callbacks for any number of transactions of the order.    *)
PaidOnce ==
  /\ \A o \in Orders : orders[o].paid <=> \E t \in payments : OrderOf[t] = o
  /\ \A t, u \in payments : OrderOf[t] = OrderOf[u] => t = u

(* A finished order is never revived, whatever was in flight when it       *)
(* finished.                                                               *)
TerminalIsFinal ==
  [][\A o \in Orders : orders[o].status \in Terminal => orders'[o].status = orders[o].status]_vars

(* Every committed status change is in the transition table.  The one      *)
(* exception is a PAID order pushed back to PENDING_PAYMENT: a request for *)
(* PENDING_PAYMENT -> PENDING_PAYMENT that read the row before a callback  *)
(* paid it still passes its version check.                                 *)
MovesAlongTable ==
  [][\A o \in Orders :
       \/ orders[o] = NoRow
       \/ CanTransit(orders[o].status, orders'[o].status)
       \/ orders[o].status = "PAID" /\ orders[o].paid /\ orders'[o].status = "PENDING_PAYMENT"]_vars

(* order/app/service_test.go, TestCancelAndPayCallbackRace_OneWinsByVersion: *)
(* of a cancel and a payment that race on a pending order, one succeeds    *)
(* and the other conflicts.                                                *)
CancelOrPayWins ==
  \A o \in Orders : orders[o].paid =>
    \A i \in 1 .. Len(events[o]) :
      ~(events[o][i].type = "ORDER_CANCELED" /\ events[o][i].from = "PENDING_PAYMENT")

(* An order no payment transaction belongs to goes through the atomic      *)
(* status machine, whatever happens to the others.                         *)
Unpayable == {o \in Orders : \A t \in Txns : OrderOf[t] # o}
Machine == INSTANCE OrderMachine WITH
             Orders <- Unpayable,
             status <- [o \in Unpayable |-> orders[o].status],
             log    <- [o \in Unpayable |-> events[o]]
MachineSpec == Machine!Spec
=============================================================================
