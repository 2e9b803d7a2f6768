\* Four requests on two orders; two payment transactions pay the first.
SPECIFICATION Spec
CONSTANTS
  Orders = {o1, o2}
  Requests = {r1, r2, r3, r4}
  Txns = {t1, t2}
  OrderOf <- OneOrder
  NoRequest = NoRequest
SYMMETRY PaymentSymmetry
INVARIANTS OutboxTells PaidOnce
PROPERTIES MovesAlongTable MachineSpec
CHECK_DEADLOCK FALSE
