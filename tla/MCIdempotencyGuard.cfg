\* Each kind of guard over one key.
SPECIFICATION FairSpec
CONSTANTS
  Calls = {c1, c2, c3}
  Variants = {"replay", "ack", "takeover"}
INVARIANTS DoneIsCommitted
PROPERTIES KeepsPromise HolderUndisturbed KeyFreed
CHECK_DEADLOCK FALSE
