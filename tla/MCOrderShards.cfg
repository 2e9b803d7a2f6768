\* Three requests over `orders` and the tables of two months, two of them beside
\* a client of reports with one of four ranges, on three clocks.
SPECIFICATION Spec
CONSTANTS
  LastInstant = 3
  LastMonth = 2
  Offsets <- Clocks
  Here = 0
  MonthAt <- Calendar
  MaxId = 2
  Numbers = {n1, n2}
  Requests = {r1, r2, r3}
  Reports = {p1}
  Asked <- AskedRanges
  MaxScanMonths = 2
  Nothing = nothing
SYMMETRY ShardSymmetry
CONSTRAINT FewBesideReports
INVARIANTS IndexTells ReportTells
PROPERTIES RedirectedByTwin ChangedAsRead
CHECK_DEADLOCK FALSE
