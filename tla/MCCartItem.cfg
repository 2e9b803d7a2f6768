\* Four requests for one line: an old reader, a removal, a new line and one more.
SPECIFICATION FairSpec
CONSTANTS
  Requests = {r1, r2, r3, r4}
  Counts = {1}
  Nobody = Nobody
INVARIANTS VersionTells Orderable
PROPERTIES LostOnlyByRemoval RequestsEnd
CHECK_DEADLOCK FALSE
