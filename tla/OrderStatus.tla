---------------------------- MODULE OrderStatus ----------------------------
(***************************************************************************)
(* The order status machine (order/domain/status_machine.go) and the      *)
(* events the order service writes about it.                              *)
(***************************************************************************)
EXTENDS Naturals, Sequences

Status == {"PENDING_PAYMENT", "PAID", "ACCEPTED", "DELIVERING", "COMPLETED", "CANCELED"}

(* The empty status: the From of an ORDER_CREATED event, a row that does not exist yet. *)
NoStatus == ""

allowedTransitions ==
  { <<"PENDING_PAYMENT", "PAID">>, <<"PENDING_PAYMENT", "CANCELED">>,
    <<"PAID", "ACCEPTED">>,        <<"PAID", "CANCELED">>,
    <<"ACCEPTED", "DELIVERING">>,  <<"ACCEPTED", "CANCELED">>,
    <<"DELIVERING", "COMPLETED">> }

CanCancel(status) == status \in {"PENDING_PAYMENT", "PAID", "ACCEPTED"}

(* A status may always "change" into itself. *)
CanTransit(from, to) == from = to \/ <<from, to>> \in allowedTransitions

Terminal == {"COMPLETED", "CANCELED"}

OrderEvent ==
  [type : {"ORDER_CREATED", "ORDER_CANCELED", "ORDER_STATUS_CHANGED"},
   from : Status \cup {NoStatus},
   to   : Status]
=============================================================================
