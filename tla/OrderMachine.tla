---------------------------- MODULE OrderMachine ----------------------------
(***************************************************************************)
(* What the order service promises its callers: every order goes through  *)
(* its status machine one atomic move at a time, and each move leaves      *)
(* exactly one event that names the status it really left.  There is no    *)
(* snapshot, no version check and no lock here: OrderLifecycle shows that  *)
(* optimistic locking in one transaction gives this.                       *)
(***************************************************************************)
EXTENDS OrderStatus

CONSTANT Orders

VARIABLES
  status,   \* status[o]: the committed status, NoStatus before the order exists
  log       \* log[o]: the events of the order, oldest first

vars == <<status, log>>

Init ==
  /\ status = [o \in Orders |-> NoStatus]
  /\ log = [o \in Orders |-> <<>>]

Move(o, type, to) ==
  /\ status' = [status EXCEPT ![o] = to]
  /\ log' = [log EXCEPT ![o] = Append(@, [type |-> type, from |-> status[o], to |-> to])]

Create(o) ==
  /\ status[o] = NoStatus
  /\ Move(o, "ORDER_CREATED", "PENDING_PAYMENT")

Cancel(o) ==
  /\ CanCancel(status[o])
  /\ Move(o, "ORDER_CANCELED", "CANCELED")

Transit(o, to) ==
  /\ CanTransit(status[o], to)
  /\ Move(o, "ORDER_STATUS_CHANGED", to)

Next ==
  \E o \in Orders :
    \/ Create(o)
    \/ Cancel(o)
    \/ \E to \in Status : Transit(o, to)

Spec == Init /\ [][Next]_vars
=============================================================================
