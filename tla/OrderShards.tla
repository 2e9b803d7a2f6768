----------------------------- MODULE OrderShards -----------------------------
(***************************************************************************)
(* One table per month (ORDER_SHARDING_ENABLED, the default): the order    *)
(* repository behind its write router, order_table_index, by which an      *)
(* order is found again, and the reports, which read the tables of a range *)
(* of months one after the other and keep the result in Redis.             *)
(*                                                                         *)
(* An order is known by its table and its id there; every table counts its *)
(* ids from 1.  Its content is its order_time and its version, which       *)
(* counts the changes of its status (OrderLifecycle says which are         *)
(* allowed).  A transaction reads the snapshot that its first SELECT fixes *)
(* and its writes appear together when it commits.                         *)
(*                                                                         *)
(* An order_time is an instant; its month depends on the clock that one    *)
(* reads.  An order goes to the table of the month of the server's clock,  *)
(* a report takes the months of the UTC offsets that its client wrote into *)
(* from and to (RFC 3339), and compares order_time as an instant.          *)
(***************************************************************************)
EXTENDS Integers, FiniteSets

CONSTANTS
  LastInstant,    \* bound: time is 1 .. LastInstant
  LastMonth,      \* bound: the months are 1 .. LastMonth
  Offsets,        \* UTC offsets
  Here,           \* the server's, which has no summer time
  MonthAt,        \* the month of an instant on the clock of an offset
  MaxId,          \* bound: each table gives out the ids 1 .. MaxId
  Numbers,        \* order numbers
  Requests,       \* requests to create or to change an order
  Reports,        \* clients that ask for reports, again and again
  Asked,          \* the ranges that they ask for
  MaxScanMonths,  \* REPORT_SHARDING_SCAN_MONTHS, 0 for no limit
  Nothing         \* no row, no entry, no cached report

Instants == 1 .. LastInstant
Months == 1 .. LastMonth
Ids == 1 .. MaxId
Base == 0                        \* the table `orders`
Tables == {Base} \cup Months
Time == [at : Instants, offset : Offsets]
Range == [from : Time, to : Time]

ASSUME ShardsAssumption ==
  /\ LastInstant \in Nat \ {0} /\ LastMonth \in Nat \ {0}
  /\ MaxId \in Nat /\ MaxScanMonths \in Nat
  /\ Asked \subseteq Range

ASSUME CalendarAssumption ==
  /\ Offsets \subseteq Int /\ Here \in Offsets
  /\ MonthAt \in [Offsets -> [Instants -> Months]]
  /\ \A o \in Offsets, t, u \in Instants : t <= u => MonthAt[o][t] <= MonthAt[o][u]

VARIABLES
  now,         \* the time
  sharding,    \* whether orders go to the table of their month by now
  scanning,    \* whether reports read the tables of months
  exists,      \* the tables there are
  rows,        \* what they hold
  nextId,      \* their AUTO_INCREMENT
  index,       \* order_table_index
  pc,          \* where each request stands
  table, id,   \* the table and the id it works on
  order,       \* the order it saves, or has read
  at,          \* whether each client waits for a report
  range,       \* the months it asks for
  left,        \* the tables it has not read
  seen,        \* the rows it has read
  before,      \* history: what the tables held when it began
  cache        \* the reports in Redis, each with its own range and before

catalog == <<now, sharding, scanning, exists>>
stored == <<rows, nextId, index>>
requesting == <<pc, table, id, order>>
reporting == <<at, range, left, seen, before, cache>>
vars == <<catalog, stored, requesting, reporting>>

Order == [number : Numbers, time : Instants, version : Nat]
Entry == [table : Tables, number : Numbers]
Seen == [table : Tables, id : Ids, order : Order]
Rows == [Tables -> [Ids -> Order \cup {Nothing}]]
Cached == [range : Asked, seen : SUBSET Seen, before : Rows]

(* report:orders:from=%d:to=%d has the instants, not the offsets.          *)
CacheKey(q) == <<q.from.at, q.to.at>>
CacheKeys == {CacheKey(q) : q \in Asked}

TypeOK ==
  /\ now \in Instants /\ sharding \in BOOLEAN /\ scanning \in BOOLEAN
  /\ exists \subseteq Tables
  /\ rows \in Rows
  /\ nextId \in [Tables -> Nat \ {0}]
  /\ index \in [Ids -> Entry \cup {Nothing}]
  /\ pc \in [Requests -> {"idle", "stamped", "loaded", "done", "failed"}]
  /\ table \in [Requests -> Tables]
  /\ id \in [Requests -> Ids \cup {0}]
  /\ order \in [Requests -> Order \cup {Nothing}]
  /\ at \in [Reports -> {"idle", "reading"}]
  /\ range \in [Reports -> Asked \cup {Nothing}]
  /\ left \in [Reports -> SUBSET Tables]
  /\ seen \in [Reports -> SUBSET Seen]
  /\ before \in [Reports -> Rows]
  /\ cache \in [CacheKeys -> Cached \cup {Nothing}]

ASSUME NothingAssumption == Nothing \notin Order \cup Entry \cup Cached

NoRows == [t \in Tables |-> [i \in Ids |-> Nothing]]

Init ==
  /\ now = 1 /\ sharding = FALSE /\ scanning \in BOOLEAN
  /\ exists = {Base}
  /\ rows = NoRows
  /\ nextId = [t \in Tables |-> 1]
  /\ index = [i \in Ids |-> Nothing]
  /\ pc = [r \in Requests |-> "idle"]
  /\ table = [r \in Requests |-> Base]
  /\ id = [r \in Requests |-> 0]
  /\ order = [r \in Requests |-> Nothing]
  /\ at = [p \in Reports |-> "idle"]
  /\ range = [p \in Reports |-> Nothing]
  /\ left = [p \in Reports |-> {}]
  /\ seen = [p \in Reports |-> {}]
  /\ before = [p \in Reports |-> NoRows]
  /\ cache = [k \in CacheKeys |-> Nothing]

-----------------------------------------------------------------------------
(* The world around: time passes, the service is deployed with sharding of *)
(* orders (that of reports is a variable of its own and stays), and        *)
(* somebody makes the tables of the months.  PrepareWriteShard would, but  *)
(* nothing in the repository calls it.                                     *)
Tick ==
  /\ now < LastInstant
  /\ now' = now + 1
  /\ UNCHANGED <<sharding, scanning, exists, stored, requesting, reporting>>

EnableSharding ==
  /\ ~sharding
  /\ sharding' = TRUE
  /\ UNCHANGED <<now, scanning, exists, stored, requesting, reporting>>

EnsureTable(t) ==
  /\ t \notin exists
  /\ exists' = exists \cup {t}
  /\ UNCHANGED <<now, sharding, scanning, stored, requesting, reporting>>

-----------------------------------------------------------------------------
Goto(r, place) == pc' = [pc EXCEPT ![r] = place]

WriteTable(time) == IF sharding THEN MonthAt[Here][time] ELSE Base

(* CreateOrder takes the time, and with it the table, before it writes; by *)
(* its INSERT the month may be over.  NextOrderNo is the second and a      *)
(* counter of the process: two processes may make the same number, here    *)
(* not only in the same second.                                            *)
Stamp(r, n) ==
  /\ pc[r] = "idle"
  /\ order' = [order EXCEPT ![r] = [number |-> n, time |-> now, version |-> 1]]
  /\ table' = [table EXCEPT ![r] = WriteTable(now)]
  /\ Goto(r, "stamped")
  /\ UNCHANGED <<catalog, stored, id, reporting>>

Numbered(n) == {i \in Ids : index[i] # Nothing /\ index[i].number = n}

(* INSERT ... ON DUPLICATE KEY UPDATE table_name, order_no: the entry of   *)
(* the id is overwritten; without one, that of the number gets the table.  *)
NumberOnly(i, entry) ==               \* mutant: table_name is left as it was
  IF index[i] # Nothing THEN [index EXCEPT ![i].number = entry.number]
  ELSE [index EXCEPT ![i] = entry]

Upserted(i, entry) ==
  IF index[i] # Nothing \/ Numbered(entry.number) = {}
    THEN [index EXCEPT ![i] = entry]
    ELSE [j \in Ids |-> IF j \in Numbered(entry.number) THEN entry ELSE index[j]]

EarlierId(t) == IF nextId[t] > 1 THEN nextId[t] - 1 ELSE 1   \* mutant: of an earlier INSERT
LastInsertId(t) == nextId[t]

(* uk_orders_number and uk_order_table_index_no refuse the order.          *)
NumberTaken(t, n) ==
  \/ \E i \in Ids : rows[t][i] # Nothing /\ rows[t][i].number = n
  \/ index[nextId[t]] # Nothing /\ Numbered(n) \ {nextId[t]} # {}

SaveOrder(r) ==
  LET t == table[r]  n == order[r].number IN
  /\ pc[r] = "stamped"
  /\ t \in exists
  /\ nextId[t] \in Ids
  /\ ~NumberTaken(t, n)
  /\ rows' = [rows EXCEPT ![t][nextId[t]] = order[r]]
  /\ index' = Upserted(LastInsertId(t), [table |-> t, number |-> n])
  /\ nextId' = [nextId EXCEPT ![t] = @ + 1]
  /\ id' = [id EXCEPT ![r] = nextId[t]]
  /\ Goto(r, "done")
  /\ UNCHANGED <<catalog, table, order, reporting>>

(* Table or number forbid it, a statement or the commit fails; an id that  *)
(* was given out is not given out again.                                   *)
SaveFails(r) ==
  /\ pc[r] = "stamped"
  /\ \/ UNCHANGED nextId
     \/ table[r] \in exists /\ nextId' = [nextId EXCEPT ![table[r]] = @ + 1]
  /\ Goto(r, "failed")
  /\ UNCHANGED <<catalog, rows, index, table, id, order, reporting>>

FindTableByOrderID(i) == IF index[i] = Nothing THEN Base ELSE index[i].table

(* CancelOrder and TransitStatus know an order by its id alone.            *)
GetByID(r, i) ==
  LET t == FindTableByOrderID(i) IN
  /\ pc[r] = "idle"
  /\ id' = [id EXCEPT ![r] = i]
  /\ table' = [table EXCEPT ![r] = t]
  /\ order' = [order EXCEPT ![r] = rows[t][i]]
  /\ IF rows[t][i] = Nothing THEN Goto(r, "failed") ELSE Goto(r, "loaded")
  /\ UNCHANGED <<catalog, stored, reporting>>

(* The table is looked up again, in the snapshot of GetByID.               *)
TableByNow(r) == FindTableByOrderID(id[r])   \* mutant: outside the transaction
TableInSnapshot(r) == table[r]

(* UPDATE ... SET status, version, ...: number and order_time stay.        *)
Changed(row, version) == [number |-> row.number, time |-> row.time, version |-> version]

UpdateWithVersion(r) ==
  LET t == TableInSnapshot(r) IN
  /\ pc[r] = "loaded"
  /\ IF rows[t][id[r]] # Nothing /\ rows[t][id[r]].version = order[r].version
       THEN /\ rows' = [rows EXCEPT ![t][id[r]] = Changed(@, order[r].version + 1)]
            /\ Goto(r, "done")
       ELSE UNCHANGED rows /\ Goto(r, "failed")
  /\ UNCHANGED <<catalog, nextId, index, table, id, order, reporting>>

(* The status does not allow the change, or something fails.               *)
Abort(r) ==
  /\ pc[r] = "loaded"
  /\ Goto(r, "failed")
  /\ UNCHANGED <<catalog, stored, table, id, order, reporting>>

-----------------------------------------------------------------------------
(* QueryOverview, QueryTrend and QueryOrderList.                           *)
MonthOf(time) == MonthAt[time.offset][time.at]

Exclusive(q) ==                  \* mutant: cursor.Before(end), the month of to is left out
  IF ~scanning THEN {Base}
  ELSE {m \in MonthOf(q.from) .. MonthOf(q.to) :
          m < MonthOf(q.to) \/ q.from.offset > q.to.offset}

(* One month after the other from the first day of the month of from, until*)
(* that is after the first day of the month of to: each at midnight of its *)
(* own offset.  Where from is west of to, the last month begins too late.  *)
ResolveTables(q) ==
  IF ~scanning THEN {Base}
  ELSE {m \in MonthOf(q.from) .. MonthOf(q.to) :
          m < MonthOf(q.to) \/ q.from.offset >= q.to.offset}

Overflows(q) == scanning /\ MaxScanMonths > 0 /\ Cardinality(ResolveTables(q)) > MaxScanMonths

Answered(p) ==
  /\ at' = [at EXCEPT ![p] = "idle"]
  /\ range' = [range EXCEPT ![p] = Nothing]
  /\ left' = [left EXCEPT ![p] = {}]
  /\ seen' = [seen EXCEPT ![p] = {}]
  /\ before' = [before EXCEPT ![p] = NoRows]

(* A report of the cache changes nothing, nor does a range that is empty or *)
(* too long: neither is a step.  A GET that fails counts as a miss.         *)
ReportMisses(p, q) ==
  /\ at[p] = "idle"
  /\ q.from.at <= q.to.at /\ ~Overflows(q)
  /\ at' = [at EXCEPT ![p] = "reading"]
  /\ range' = [range EXCEPT ![p] = q]
  /\ left' = [left EXCEPT ![p] = ResolveTables(q)]
  /\ before' = [before EXCEPT ![p] = rows]
  /\ UNCHANGED <<catalog, stored, requesting, seen, cache>>

RowsIn(t, q) ==
  {[table |-> t, id |-> i, order |-> rows[t][i]] :
     i \in {j \in Ids : rows[t][j] # Nothing /\ rows[t][j].time \in q.from.at .. q.to.at}}

(* The oldest table first.  A table that does not exist has no rows.       *)
QueryTable(p) ==
  /\ at[p] = "reading"
  /\ \E t \in left[p] :
       /\ \A u \in left[p] : t <= u
       /\ seen' = [seen EXCEPT ![p] = @ \cup RowsIn(t, range[p])]
       /\ left' = [left EXCEPT ![p] = @ \ {t}]
  /\ UNCHANGED <<catalog, stored, requesting, at, range, before, cache>>

QueryFails(p) ==
  /\ at[p] = "reading" /\ left[p] # {}
  /\ Answered(p)
  /\ UNCHANGED <<catalog, stored, requesting, cache>>

(* A SET that fails is not noticed.                                        *)
ReportEnds(p) ==
  LET answer == [range |-> range[p], seen |-> seen[p], before |-> before[p]] IN
  /\ at[p] = "reading" /\ left[p] = {}
  /\ cache' \in {cache, [cache EXCEPT ![CacheKey(range[p])] = answer]}
  /\ Answered(p)
  /\ UNCHANGED <<catalog, stored, requesting>>

ReportExpires(k) ==
  /\ cache[k] # Nothing
  /\ cache' = [cache EXCEPT ![k] = Nothing]
  /\ UNCHANGED <<catalog, stored, requesting, at, range, left, seen, before>>

-----------------------------------------------------------------------------
Request(r) ==
  \/ \E n \in Numbers : Stamp(r, n)
  \/ SaveOrder(r) \/ SaveFails(r)
  \/ \E i \in Ids : GetByID(r, i)
  \/ UpdateWithVersion(r) \/ Abort(r)

Report(p) ==
  \/ \E q \in Asked : ReportMisses(p, q)
  \/ QueryTable(p) \/ QueryFails(p) \/ ReportEnds(p)

Next ==
  \/ Tick \/ EnableSharding
  \/ \E t \in Tables : EnsureTable(t)
  \/ \E r \in Requests : Request(r)
  \/ \E p \in Reports : Report(p)
  \/ \E k \in CacheKeys : ReportExpires(k)

Spec == Init /\ [][Next]_vars

-----------------------------------------------------------------------------
Saved(t, i) == rows[t][i] # Nothing
Reached(t, i) == Saved(t, i) /\ FindTableByOrderID(i) = t

(* The number of two orders, in different tables.                          *)
Reused(n) ==
  \E t, u \in Tables : t # u /\ \E i, j \in Ids :
    Saved(t, i) /\ Saved(u, j) /\ rows[t][i].number = n /\ rows[u][j].number = n

(* order_table_index tells the truth: every id that was given out leads to *)
(* an order with that id and with the number of the entry.  Only an order  *)
(* whose number was made twice may break it.                               *)
IndexTells ==
  \A i \in Ids :
    IF index[i] = Nothing
      THEN \A t \in Tables : Saved(t, i) => Reused(rows[t][i].number)
      ELSE \/ Reused(index[i].number)
           \/ /\ Saved(index[i].table, i)
              /\ rows[index[i].table][i].number = index[i].number

(* An order is lost to its own id only when the table of another month, or *)
(* the first table of a month after `orders`, gives out the same id - from *)
(* then on the id leads to the other order - or when the number of the     *)
(* entry that led to it is made a second time.                             *)
RedirectedByTwin ==
  [][\A t \in Tables, i \in Ids : Reached(t, i) /\ ~Reached(t, i)' =>
       \/ \E u \in Tables \ {t} : ~Saved(u, i) /\ Saved(u, i)'
       \/ index[i] # Nothing /\ Reused(index[i].number)']_vars

(* A saved order changes only by a request that read this very order, of   *)
(* this table, in the version it has: not by one that read the order of    *)
(* the same id, and likely of the same version, in another month.          *)
ChangedAsRead ==
  [][\A t \in Tables, i \in Ids : Saved(t, i) /\ rows'[t][i] # rows[t][i] =>
       \E r \in Requests :
         /\ pc[r] = "loaded" /\ pc'[r] = "done"
         /\ table[r] = t /\ id[r] = i /\ order[r] = rows[t][i]]_vars

(* The orders of its range that a report may overlook: those of a time     *)
(* when orders were sharded otherwise than reports are; those of the hours *)
(* in which the clock of from or to shows another month than the server's; *)
(* and, of a client who moved its clock forward between from and to, the   *)
(* whole month of to.                                                      *)
MayOverlook(q, t, time) ==
  \/ scanning <=> t = Base
  \/ t # Base /\ \E end \in {q.from, q.to} : MonthAt[end.offset][time] # MonthAt[Here][time]
  \/ t # Base /\ q.from.offset < q.to.offset /\ MonthAt[Here][time] = MonthOf(q.to)

Complete(q, entries, old, unread) ==
  \A t \in Tables \ unread, i \in Ids :
    old[t][i] # Nothing /\ old[t][i].time \in q.from.at .. q.to.at =>
      \/ \E e \in entries : e.table = t /\ e.id = i /\ e.order.version >= old[t][i].version
      \/ MayOverlook(q, t, old[t][i].time)

Genuine(entries) ==
  \A e \in entries :
    /\ Saved(e.table, e.id) /\ e.order.version <= rows[e.table][e.id].version
    /\ \A f \in entries : e.table = f.table /\ e.id = f.id => e = f

(* A report has every order of its range that was there when it began, in  *)
(* that version or a later one, and none twice, although tables that it    *)
(* has read change while it reads the others.  A client whose clock is the *)
(* server's misses no order of a table of months; what the others miss is  *)
(* named, and a cached report misses what the client missed who first      *)
(* asked, whoever gets it.                                                 *)
ReportTells ==
  /\ \A p \in Reports : at[p] = "reading" =>
       Complete(range[p], seen[p], before[p], left[p]) /\ Genuine(seen[p])
  /\ \A k \in CacheKeys : cache[k] # Nothing =>
       Complete(cache[k].range, cache[k].seen, cache[k].before, {}) /\ Genuine(cache[k].seen)
=============================================================================
