\* Two requests for one line, of which both may be additions.
SPECIFICATION Spec
CONSTANTS
  Requests = {r1, r2}
  Counts = {1}
  Nobody = Nobody
INVARIANTS ConcurrentChangesSucceed
CHECK_DEADLOCK FALSE
