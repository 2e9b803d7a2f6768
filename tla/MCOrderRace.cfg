\* One order, one payment: a cancel and the callback race on the pending order.
SPECIFICATION Spec
CONSTANTS
  Orders = {o1}
  Requests = {r1, r2, r3}
  Txns = {t1}
  OrderOf <- OneOrder
  NoRequest = NoRequest
SYMMETRY PaymentSymmetry
INVARIANTS CancelOrPayWins
CHECK_DEADLOCK FALSE
