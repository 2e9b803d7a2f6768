\* Deliveries of one message, whose duplicates are acknowledged at once.
SPECIFICATION Spec
CONSTANTS
  Calls = {c1, c2}
  Variants = {"ack"}
SYMMETRY CallSymmetry
INVARIANTS AckIsSafe
CHECK_DEADLOCK FALSE
