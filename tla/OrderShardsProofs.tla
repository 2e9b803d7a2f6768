-------------------------- MODULE OrderShardsProofs --------------------------
(***************************************************************************)
(* Proofs about OrderShards, for any number of months, ids, requests and   *)
(* report clients.                                                         *)
(***************************************************************************)
EXTENDS OrderShards, TLAPS

(* Ids are given out once, and what a request has in hand is an order of   *)
(* the table and the id it works on.                                       *)
FreshIds == \A t \in Tables, i \in Ids : Saved(t, i) => i < nextId[t]

(* A table holds the orders of its month on the server's clock.            *)
Dated == \A t \in Months, i \in Ids : Saved(t, i) => MonthAt[Here][rows[t][i].time] = t

SameOrder(a, b) == a.number = b.number /\ a.time = b.time

Stamped ==
  \A r \in Requests : pc[r] = "stamped" =>
    order[r] \in Order /\ table[r] \in {Base, MonthAt[Here][order[r].time]}

Loaded ==
  \A r \in Requests : pc[r] = "loaded" =>
    /\ id[r] \in Ids /\ order[r] \in Order
    /\ Saved(table[r], id[r]) /\ SameOrder(order[r], rows[table[r]][id[r]])

(* What a report began with is still there, and it has read no table that  *)
(* it has still to read.                                                   *)
Reading ==
  \A p \in Reports :
    /\ at[p] = "idle" => seen[p] = {}
    /\ \A e \in seen[p] : e.table \notin left[p]
    /\ at[p] = "reading" => range[p] \in Asked
    /\ \A t \in Tables, i \in Ids : before[p][t][i] # Nothing =>
         /\ Saved(t, i) /\ SameOrder(before[p][t][i], rows[t][i])
         /\ before[p][t][i].version <= rows[t][i].version

IInv == TypeOK /\ FreshIds /\ Dated /\ Stamped /\ Loaded /\ Reading /\ ReportTells

(* Orders stay, with their number and time, and  only their version grows. *)
Grows ==
  \A t \in Tables, i \in Ids : Saved(t, i) =>
    /\ Saved(t, i)' /\ SameOrder(rows[t][i], rows'[t][i])
    /\ rows[t][i].version <= rows'[t][i].version

-----------------------------------------------------------------------------
USE DEF Rows

(* The months that anybody reads off a clock are months, and all tables.   *)
LEMMA Clocks ==
  /\ \A o \in Offsets, t \in Instants : MonthAt[o][t] \in Months
  /\ \A q \in Asked :
       /\ q.from.at \in Instants /\ q.from.offset \in Offsets
       /\ q.to.at \in Instants /\ q.to.offset \in Offsets
       /\ MonthOf(q.from) \in Months /\ MonthOf(q.to) \in Months
<1>1. \A o \in Offsets, t \in Instants : MonthAt[o][t] \in Months BY CalendarAssumption
<1>2. \A q \in Asked : q.from \in Time /\ q.to \in Time BY ShardsAssumption DEF Range
<1> QED BY <1>1, <1>2 DEF Time, MonthOf

LEMMA Ranges ==
  /\ Base \in Tables /\ Months \subseteq Tables /\ Tables \subseteq Nat
  /\ \A t \in Instants : MonthAt[Here][t] \in Tables
  /\ \A q \in Asked : ResolveTables(q) \subseteq Tables
<1>1. Base \in Tables /\ Months \subseteq Tables /\ Tables \subseteq Nat
  BY ShardsAssumption DEF Tables, Months, Base
<1>2. \A q \in Asked : ResolveTables(q) \subseteq {Base} \cup Months
  <2> TAKE q \in Asked
  <2>1. MonthOf(q.from) \in Months /\ MonthOf(q.to) \in Months BY Clocks
  <2>2. MonthOf(q.from) .. MonthOf(q.to) \subseteq Months
    BY <2>1, ShardsAssumption DEF Months
  <2> QED BY <2>2 DEF ResolveTables
<1> QED BY <1>1, <1>2, Clocks, CalendarAssumption DEF Tables

LEMMA Upserting ==
  ASSUME TypeOK, NEW i \in Ids, NEW e \in Entry
  PROVE  Upserted(i, e) \in [Ids -> Entry \cup {Nothing}]
BY DEF TypeOK, Upserted

(* The steps of a request, of a report and of the rest keep the types.     *)
LEMMA RequestTypes ==
  ASSUME TypeOK, Stamped, NEW r \in Requests, Request(r)
  PROVE  TypeOK'
<1>1. CASE \E n \in Numbers : Stamp(r, n)
  <2>1. PICK n \in Numbers : Stamp(r, n) BY <1>1
  <2>2. [number |-> n, time |-> now, version |-> 1] \in Order BY DEF TypeOK, Order
  <2>3. WriteTable(now) \in Tables BY Ranges DEF TypeOK, WriteTable
  <2> QED BY <2>1, <2>2, <2>3 DEF TypeOK, Stamp, Goto, catalog, stored, reporting
<1>2. CASE SaveOrder(r)
  <2> DEFINE t == table[r]
             e == [table |-> t, number |-> order[r].number]
  <2>1. t \in Tables /\ order[r] \in Order /\ nextId[t] \in Ids
    BY <1>2 DEF TypeOK, SaveOrder, Stamped
  <2>2. e \in Entry BY <2>1 DEF Entry, Order
  <2>3. index' \in [Ids -> Entry \cup {Nothing}]
    BY <1>2, <2>1, <2>2, Upserting DEF SaveOrder, LastInsertId
  <2>4. rows' \in [Tables -> [Ids -> Order \cup {Nothing}]]
    BY <1>2, <2>1 DEF SaveOrder, TypeOK
  <2>5. nextId' \in [Tables -> Nat \ {0}]
    BY <1>2, <2>1 DEF SaveOrder, TypeOK
  <2>6. id' \in [Requests -> Ids \cup {0}] /\ pc' \in [Requests -> {"idle", "stamped", "loaded", "done", "failed"}]
    BY <1>2, <2>1 DEF SaveOrder, TypeOK, Goto
  <2> QED BY <1>2, <2>3, <2>4, <2>5, <2>6 DEF TypeOK, SaveOrder, catalog, reporting
<1>3. CASE SaveFails(r)
  <2>1. CASE UNCHANGED nextId
    BY <1>3, <2>1 DEF TypeOK, SaveFails, Goto, catalog, reporting
  <2>2. CASE nextId' = [nextId EXCEPT ![table[r]] = @ + 1]
    <3>1. nextId' \in [Tables -> Nat \ {0}] BY <2>2 DEF TypeOK
    <3> QED BY <1>3, <3>1 DEF TypeOK, SaveFails, Goto, catalog, reporting
  <2> QED BY <1>3, <2>1, <2>2 DEF SaveFails
<1>4. CASE \E i \in Ids : GetByID(r, i)
  <2>1. PICK i \in Ids : GetByID(r, i) BY <1>4
  <2> DEFINE t == FindTableByOrderID(i)
  <2>2. t \in Tables BY Ranges DEF TypeOK, FindTableByOrderID, Entry
  <2>3. rows[t][i] \in Order \cup {Nothing} BY <2>2 DEF TypeOK
  <2> QED BY <2>1, <2>2, <2>3 DEF TypeOK, GetByID, Goto, catalog, stored, reporting
<1>5. CASE UpdateWithVersion(r)
  <2> DEFINE t == table[r]
  <2>1. rows' \in [Tables -> [Ids -> Order \cup {Nothing}]]
    <3>1. CASE rows' = rows BY <3>1 DEF TypeOK
    <3>2. CASE rows' # rows
      <4>1. /\ rows[t][id[r]] # Nothing /\ rows[t][id[r]].version = order[r].version
            /\ rows' = [rows EXCEPT ![t][id[r]] = Changed(@, order[r].version + 1)]
        BY <1>5, <3>2 DEF UpdateWithVersion, TableInSnapshot
      <4>2. t \in Tables /\ rows[t] \in [Ids -> Order \cup {Nothing}] BY DEF TypeOK
      <4> DEFINE other == [rows[t] EXCEPT ![id[r]] = Changed(rows[t][id[r]], order[r].version + 1)]
      <4>3. rows' = [rows EXCEPT ![t] = other] BY <4>1
      <4>4. other \in [Ids -> Order \cup {Nothing}]
        <5>1. CASE id[r] \in Ids
          <6>1. rows[t][id[r]] \in Order BY <4>1, <4>2, <5>1
          <6>2. Changed(rows[t][id[r]], order[r].version + 1) \in Order
            BY <4>1, <6>1 DEF Order, Changed
          <6> QED BY <4>2, <5>1, <6>2
        <5>2. CASE id[r] \notin Ids BY <4>2, <5>2
        <5> QED BY <5>1, <5>2
      <4> HIDE DEF other
      <4> QED BY <4>2, <4>3, <4>4 DEF TypeOK
    <3> QED BY <3>1, <3>2
  <2>2. pc' \in [Requests -> {"idle", "stamped", "loaded", "done", "failed"}]
    <3>1. \E to \in {"done", "failed"} : pc' = [pc EXCEPT ![r] = to]
      BY <1>5 DEF UpdateWithVersion, Goto
    <3> QED BY <3>1 DEF TypeOK
  <2>3. UNCHANGED <<catalog, nextId, index, table, id, order, reporting>>
    BY <1>5 DEF UpdateWithVersion
  <2> QED BY <2>1, <2>2, <2>3 DEF TypeOK, catalog, reporting
<1>6. CASE Abort(r)
  BY <1>6 DEF TypeOK, Abort, Goto, catalog, stored, reporting
<1> QED BY <1>1, <1>2, <1>3, <1>4, <1>5, <1>6 DEF Request

LEMMA ReadRows ==
  ASSUME TypeOK, NEW t \in Tables, NEW q
  PROVE  RowsIn(t, q) \subseteq Seen
BY DEF TypeOK, RowsIn, Seen

LEMMA ReportTypes ==
  ASSUME TypeOK, Reading, NEW p \in Reports, Report(p)
  PROVE  TypeOK'
<1>1. CASE \E q \in Asked : ReportMisses(p, q)
  <2>1. PICK q \in Asked : ReportMisses(p, q) BY <1>1
  <2>2. ResolveTables(q) \in SUBSET Tables BY Ranges
  <2> QED BY <2>1, <2>2 DEF TypeOK, ReportMisses, catalog, stored, requesting
<1>2. CASE QueryTable(p)
  <2>1. PICK t \in left[p] :
          /\ seen' = [seen EXCEPT ![p] = @ \cup RowsIn(t, range[p])]
          /\ left' = [left EXCEPT ![p] = @ \ {t}]
    BY <1>2 DEF QueryTable
  <2>2. t \in Tables BY DEF TypeOK
  <2>3. RowsIn(t, range[p]) \subseteq Seen BY <2>2, ReadRows
  <2> QED BY <1>2, <2>1, <2>3 DEF TypeOK, QueryTable, catalog, stored, requesting
<1>3. ASSUME Answered(p)
      PROVE  /\ at' \in [Reports -> {"idle", "reading"}] /\ range' \in [Reports -> Asked \cup {Nothing}]
             /\ left' \in [Reports -> SUBSET Tables] /\ seen' \in [Reports -> SUBSET Seen]
             /\ before' \in [Reports -> Rows]
  BY <1>3 DEF TypeOK, Answered, NoRows
<1>4. CASE QueryFails(p)
  BY <1>3, <1>4 DEF TypeOK, QueryFails, catalog, stored, requesting
<1>5. CASE ReportEnds(p)
  <2> DEFINE c == [range |-> range[p], seen |-> seen[p], before |-> before[p]]
  <2>1. cache' \in [CacheKeys -> Cached \cup {Nothing}]
    <3>1. range[p] \in Asked BY <1>5 DEF ReportEnds, Reading
    <3>2. c \in Cached /\ CacheKey(range[p]) \in CacheKeys
      BY <3>1 DEF TypeOK, Cached, CacheKeys
    <3>3. cache' \in {cache, [cache EXCEPT ![CacheKey(range[p])] = c]} BY <1>5 DEF ReportEnds
    <3> HIDE DEF c
    <3> QED BY <3>2, <3>3 DEF TypeOK
  <2> QED BY <1>3, <1>5, <2>1 DEF TypeOK, ReportEnds, catalog, stored, requesting
<1> QED BY <1>1, <1>2, <1>4, <1>5 DEF Report

LEMMA TypeStep ==
  ASSUME TypeOK, Stamped, Reading, [Next]_vars
  PROVE  TypeOK'
<1>1. CASE Tick
  BY <1>1, ShardsAssumption DEF TypeOK, Tick, Instants, stored, requesting, reporting
<1>2. CASE EnableSharding
  BY <1>2 DEF TypeOK, EnableSharding, stored, requesting, reporting
<1>3. CASE \E t \in Tables : EnsureTable(t)
  BY <1>3 DEF TypeOK, EnsureTable, stored, requesting, reporting
<1>4. CASE \E r \in Requests : Request(r) BY <1>4, RequestTypes
<1>5. CASE \E p \in Reports : Report(p) BY <1>5, ReportTypes
<1>6. CASE \E k \in CacheKeys : ReportExpires(k)
  BY <1>6 DEF TypeOK, ReportExpires, catalog, stored, requesting
<1>7. CASE UNCHANGED vars
  BY <1>7 DEF TypeOK, vars, catalog, stored, requesting, reporting
<1> QED BY <1>1, <1>2, <1>3, <1>4, <1>5, <1>6, <1>7 DEF Next

-----------------------------------------------------------------------------
(* Who writes the tables, and what.                                        *)
LEMMA Saving ==
  ASSUME TypeOK, Stamped, NEW r \in Requests, SaveOrder(r)
  PROVE  /\ table[r] \in Tables /\ nextId[table[r]] \in Ids
         /\ order[r] \in Order /\ table[r] \in {Base, MonthAt[Here][order[r].time]}
         /\ rows'[table[r]][nextId[table[r]]] = order[r]
         /\ \A t \in Tables, i \in Ids :
              t # table[r] \/ i # nextId[t] => rows'[t][i] = rows[t][i]
BY DEF TypeOK, Stamped, SaveOrder

LEMMA Updating ==
  ASSUME TypeOK, Loaded, NEW r \in Requests, UpdateWithVersion(r), rows' # rows
  PROVE  /\ table[r] \in Tables /\ id[r] \in Ids /\ pc'[r] = "done"
         /\ Saved(table[r], id[r]) /\ order[r] = rows[table[r]][id[r]]
         /\ rows'[table[r]][id[r]] = Changed(order[r], order[r].version + 1)
         /\ \A t \in Tables, i \in Ids :
              t # table[r] \/ i # id[r] => rows'[t][i] = rows[t][i]
<1> DEFINE t == table[r]
<1>1. /\ pc[r] = "loaded"
      /\ rows[t][id[r]].version = order[r].version
      /\ rows' = [rows EXCEPT ![t][id[r]] = Changed(@, order[r].version + 1)]
      /\ pc' = [pc EXCEPT ![r] = "done"]
  BY DEF UpdateWithVersion, TableInSnapshot, Goto
<1>2. t \in Tables /\ id[r] \in Ids /\ order[r] \in Order /\ Saved(t, id[r])
      /\ SameOrder(order[r], rows[t][id[r]])
  BY <1>1 DEF TypeOK, Loaded
<1>3. rows[t][id[r]] \in Order BY <1>2 DEF TypeOK, Saved
<1>4. order[r] = rows[t][id[r]] BY <1>1, <1>2, <1>3 DEF Order, SameOrder
<1> QED BY <1>1, <1>2, <1>4 DEF TypeOK

LEMMA Writers ==
  ASSUME [Next]_vars
  PROVE  \/ rows' = rows
         \/ \E r \in Requests : SaveOrder(r) \/ UpdateWithVersion(r)
BY DEF Next, vars, stored, Request, Report, Tick, EnableSharding, EnsureTable, ReportExpires,
       Stamp, SaveFails, GetByID, Abort, ReportMisses, QueryTable, QueryFails, ReportEnds

LEMMA Growth ==
  ASSUME TypeOK, FreshIds, Stamped, Loaded, [Next]_vars
  PROVE  Grows
<1> SUFFICES ASSUME NEW t \in Tables, NEW i \in Ids, Saved(t, i)
    PROVE  /\ Saved(t, i)' /\ SameOrder(rows[t][i], rows'[t][i])
           /\ rows[t][i].version <= rows'[t][i].version
  BY DEF Grows
<1>0. rows[t][i] \in Order BY DEF TypeOK, Saved
<1>1. CASE rows'[t][i] = rows[t][i]
  BY <1>0, <1>1 DEF Saved, SameOrder, Order
<1>2. ASSUME NEW r \in Requests, SaveOrder(r) PROVE rows'[t][i] = rows[t][i]
  <2>1. i < nextId[t] BY DEF FreshIds
  <2>2. i # nextId[t] BY <2>1, ShardsAssumption DEF TypeOK, Ids
  <2> QED BY <1>2, <2>2, Saving
<1>3. ASSUME NEW r \in Requests, UpdateWithVersion(r), rows'[t][i] # rows[t][i]
      PROVE  rows'[t][i] = Changed(rows[t][i], rows[t][i].version + 1)
  BY <1>3, Updating
<1>4. CASE rows'[t][i] = Changed(rows[t][i], rows[t][i].version + 1)
  <2>1. Changed(rows[t][i], rows[t][i].version + 1) \in Order
    BY <1>0 DEF Changed, Order
  <2> QED BY <1>0, <1>4, <2>1, NothingAssumption DEF Saved, SameOrder, Order, Changed
<1> QED BY <1>1, <1>2, <1>3, <1>4, Writers

-----------------------------------------------------------------------------
LEMMA FreshStep ==
  ASSUME TypeOK, FreshIds, Stamped, Loaded, [Next]_vars
  PROVE  FreshIds'
<1> SUFFICES ASSUME NEW t \in Tables, NEW i \in Ids, Saved(t, i)'
    PROVE  i < nextId'[t]
  BY DEF FreshIds
<1>1. nextId[t] \in Nat /\ i \in Nat BY ShardsAssumption DEF TypeOK, Ids
<1>2. nextId'[t] \in Nat /\ nextId[t] <= nextId'[t]
  <2>1. CASE UNCHANGED nextId BY <1>1, <2>1
  <2>2. CASE \E u \in Tables : nextId' = [nextId EXCEPT ![u] = @ + 1]
    BY <1>1, <2>2 DEF TypeOK
  <2>3. UNCHANGED nextId \/ \E u \in Tables : nextId' = [nextId EXCEPT ![u] = @ + 1]
    BY DEF TypeOK, Next, vars, stored, Request, Report, Tick, EnableSharding, EnsureTable,
       ReportExpires, Stamp, SaveOrder, SaveFails, GetByID, UpdateWithVersion, Abort,
       ReportMisses, QueryTable, QueryFails, ReportEnds
  <2> QED BY <2>1, <2>2, <2>3
<1>3. CASE Saved(t, i) BY <1>1, <1>2, <1>3 DEF FreshIds
<1>4. CASE ~Saved(t, i)
  <2>1. rows'[t][i] # rows[t][i] BY <1>4 DEF Saved
  <2>2. ASSUME NEW r \in Requests, UpdateWithVersion(r) PROVE FALSE
    BY <1>4, <2>1, <2>2, Updating
  <2>3. PICK r \in Requests : SaveOrder(r) BY <2>1, <2>2, Writers
  <2>4. t = table[r] /\ i = nextId[t] BY <2>1, <2>3, Saving
  <2>5. nextId'[t] = nextId[t] + 1 BY <2>3, <2>4 DEF SaveOrder, TypeOK
  <2> QED BY <1>1, <2>4, <2>5
<1> QED BY <1>3, <1>4

LEMMA DatedStep ==
  ASSUME TypeOK, FreshIds, Dated, Stamped, Loaded, [Next]_vars
  PROVE  Dated'
<1> SUFFICES ASSUME NEW t \in Months, NEW i \in Ids, Saved(t, i)'
    PROVE  MonthAt[Here][rows'[t][i].time] = t
  BY DEF Dated
<1>1. t \in Tables BY Ranges
<1>2. CASE Saved(t, i)
  BY <1>1, <1>2, Growth DEF Dated, Grows, SameOrder
<1>3. CASE ~Saved(t, i)
  <2>1. rows'[t][i] # rows[t][i] BY <1>3 DEF Saved
  <2>2. ASSUME NEW r \in Requests, UpdateWithVersion(r) PROVE FALSE
    BY <1>1, <1>3, <2>1, <2>2, Updating
  <2>3. PICK r \in Requests : SaveOrder(r) BY <2>1, <2>2, Writers
  <2>4. t = table[r] /\ i = nextId[t] BY <1>1, <2>1, <2>3, Saving
  <2>5. rows'[t][i] = order[r] /\ t \in {Base, MonthAt[Here][order[r].time]}
    BY <2>3, <2>4, Saving
  <2> QED BY <2>5 DEF Months, Base
<1> QED BY <1>2, <1>3

LEMMA StampedStep ==
  ASSUME TypeOK, Stamped, [Next]_vars
  PROVE  Stamped'
<1> SUFFICES ASSUME NEW r \in Requests, pc'[r] = "stamped"
    PROVE  order'[r] \in Order /\ table'[r] \in {Base, MonthAt[Here][order'[r].time]}
  BY DEF Stamped
<1>1. CASE pc'[r] = pc[r] /\ order'[r] = order[r] /\ table'[r] = table[r]
  BY <1>1 DEF Stamped
<1>2. ASSUME NEW n \in Numbers, Stamp(r, n)
      PROVE  order'[r] \in Order /\ table'[r] \in {Base, MonthAt[Here][order'[r].time]}
  BY <1>2 DEF Stamp, WriteTable, TypeOK, Order
<1>3. ASSUME NEW s \in Requests, Request(s)
      PROVE  \/ pc'[r] = pc[r] /\ order'[r] = order[r] /\ table'[r] = table[r]
             \/ \E n \in Numbers : Stamp(r, n)
  <2>1. CASE s = r
    BY <1>3, <2>1 DEF TypeOK, Request, Goto, SaveOrder, SaveFails, GetByID, UpdateWithVersion, Abort
  <2>2. CASE s # r
    BY <1>3, <2>2 DEF TypeOK, Request, Goto, Stamp, SaveOrder, SaveFails, GetByID, UpdateWithVersion, Abort
  <2> QED BY <2>1, <2>2
<1>4. CASE UNCHANGED requesting BY <1>1, <1>4 DEF requesting
<1>5. UNCHANGED requesting \/ \E s \in Requests : Request(s)
  BY DEF Next, vars, Report, Tick, EnableSharding, EnsureTable, ReportExpires,
     ReportMisses, QueryTable, QueryFails, ReportEnds
<1> QED BY <1>1, <1>2, <1>3, <1>4, <1>5

LEMMA LoadedStep ==
  ASSUME TypeOK, FreshIds, Stamped, Loaded, [Next]_vars
  PROVE  Loaded'
<1> SUFFICES ASSUME NEW r \in Requests, pc'[r] = "loaded"
    PROVE  /\ id'[r] \in Ids /\ order'[r] \in Order
           /\ rows'[table'[r]][id'[r]] # Nothing
           /\ SameOrder(order'[r], rows'[table'[r]][id'[r]])
  BY DEF Loaded, Saved
<1>1. CASE pc'[r] = pc[r] /\ order'[r] = order[r] /\ table'[r] = table[r] /\ id'[r] = id[r]
  <2>1. /\ id[r] \in Ids /\ order[r] \in Order /\ table[r] \in Tables
        /\ Saved(table[r], id[r]) /\ SameOrder(order[r], rows[table[r]][id[r]])
    BY <1>1 DEF Loaded, TypeOK
  <2> QED BY <1>1, <2>1, Growth DEF Grows, SameOrder, Saved
<1>2. ASSUME NEW i \in Ids, GetByID(r, i)
      PROVE  /\ id'[r] \in Ids /\ order'[r] \in Order
             /\ rows'[table'[r]][id'[r]] # Nothing
             /\ SameOrder(order'[r], rows'[table'[r]][id'[r]])
  <2> DEFINE t == FindTableByOrderID(i)
  <2>1. t \in Tables BY Ranges DEF TypeOK, FindTableByOrderID, Entry
  <2>2. id'[r] = i /\ table'[r] = t /\ order'[r] = rows[t][i] /\ rows' = rows
    BY <1>2 DEF GetByID, TypeOK, stored
  <2>3. rows[t][i] # Nothing
    BY <1>2 DEF GetByID, Goto, TypeOK
  <2>4. rows[t][i] \in Order BY <2>1, <2>3 DEF TypeOK
  <2> QED BY <2>2, <2>3, <2>4 DEF SameOrder
<1>3. ASSUME NEW s \in Requests, Request(s)
      PROVE  \/ pc'[r] = pc[r] /\ order'[r] = order[r] /\ table'[r] = table[r] /\ id'[r] = id[r]
             \/ \E i \in Ids : GetByID(r, i)
  <2>1. CASE s = r
    BY <1>3, <2>1 DEF TypeOK, Request, Goto, Stamp, SaveOrder, SaveFails, UpdateWithVersion, Abort
  <2>2. CASE s # r
    BY <1>3, <2>2 DEF TypeOK, Request, Goto, Stamp, SaveOrder, SaveFails, GetByID, UpdateWithVersion, Abort
  <2> QED BY <2>1, <2>2
<1>4. CASE UNCHANGED requesting BY <1>1, <1>4 DEF requesting
<1>5. UNCHANGED requesting \/ \E s \in Requests : Request(s)
  BY DEF Next, vars, Report, Tick, EnableSharding, EnsureTable, ReportExpires,
     ReportMisses, QueryTable, QueryFails, ReportEnds
<1> QED BY <1>1, <1>2, <1>3, <1>4, <1>5

-----------------------------------------------------------------------------
(* What a step does to one report client.                                  *)
Same(p) ==
  at'[p] = at[p] /\ range'[p] = range[p] /\ left'[p] = left[p] /\ seen'[p] = seen[p] /\ before'[p] = before[p]

LEMMA Reporters ==
  ASSUME [Next]_vars
  PROVE  \/ UNCHANGED reporting
         \/ \E p \in Reports : Report(p)
         \/ \E k \in CacheKeys : ReportExpires(k)
BY DEF Next, vars, Request, Tick, EnableSharding, EnsureTable,
       Stamp, SaveOrder, SaveFails, GetByID, UpdateWithVersion, Abort

LEMMA Client ==
  ASSUME TypeOK, [Next]_vars, NEW p \in Reports
  PROVE  \/ Same(p)
         \/ rows' = rows /\ \E q \in Asked : ReportMisses(p, q)
         \/ rows' = rows /\ QueryTable(p)
         \/ rows' = rows /\ Answered(p)
<1>1. CASE UNCHANGED reporting BY <1>1 DEF reporting, Same
<1>2. CASE \E k \in CacheKeys : ReportExpires(k) BY <1>2 DEF ReportExpires, Same
<1>3. ASSUME NEW o \in Reports, Report(o)
      PROVE  \/ Same(p)
             \/ rows' = rows /\ \E q \in Asked : ReportMisses(p, q)
             \/ rows' = rows /\ QueryTable(p)
             \/ rows' = rows /\ Answered(p)
  <2>1. rows' = rows BY <1>3 DEF Report, ReportMisses, QueryTable, QueryFails, ReportEnds, stored
  <2>2. CASE o = p BY <1>3, <2>1, <2>2 DEF Report, QueryFails, ReportEnds
  <2>3. CASE o # p
    BY <1>3, <2>3 DEF TypeOK, Same, Report, ReportMisses, QueryTable, QueryFails, ReportEnds, Answered
  <2> QED BY <2>2, <2>3
<1> QED BY <1>1, <1>2, <1>3, Reporters

LEMMA MissDoes ==
  ASSUME TypeOK, NEW p \in Reports, NEW q \in Asked, ReportMisses(p, q)
  PROVE  /\ at[p] = "idle" /\ at'[p] = "reading" /\ range'[p] = q
         /\ left'[p] = ResolveTables(q) /\ before'[p] = rows /\ seen'[p] = seen[p]
BY DEF ReportMisses, TypeOK

LEMMA QueryDoes ==
  ASSUME TypeOK, NEW p \in Reports, QueryTable(p)
  PROVE  \E t \in left[p] :
           /\ at[p] = "reading" /\ at'[p] = at[p] /\ range'[p] = range[p] /\ before'[p] = before[p]
           /\ seen'[p] = seen[p] \cup RowsIn(t, range[p])
           /\ left'[p] = left[p] \ {t}
BY DEF QueryTable, TypeOK

LEMMA AnswerDoes ==
  ASSUME TypeOK, NEW p \in Reports, Answered(p)
  PROVE  at'[p] = "idle" /\ seen'[p] = {} /\ left'[p] = {} /\ before'[p] = NoRows
BY DEF Answered, TypeOK

LEMMA ReadingStep ==
  ASSUME TypeOK, FreshIds, Stamped, Loaded, Reading, [Next]_vars
  PROVE  Reading'
<1> SUFFICES ASSUME NEW p \in Reports
    PROVE  /\ at'[p] = "idle" => seen'[p] = {}
           /\ \A e \in seen'[p] : e.table \notin left'[p]
           /\ at'[p] = "reading" => range'[p] \in Asked
           /\ \A t \in Tables, i \in Ids : before'[p][t][i] # Nothing =>
                /\ rows'[t][i] # Nothing /\ SameOrder(before'[p][t][i], rows'[t][i])
                /\ before'[p][t][i].version <= rows'[t][i].version
  BY DEF Reading, Saved
<1>1. CASE Same(p)
  <2> SUFFICES ASSUME NEW t \in Tables, NEW i \in Ids, before[p][t][i] # Nothing
      PROVE  /\ rows'[t][i] # Nothing /\ SameOrder(before[p][t][i], rows'[t][i])
             /\ before[p][t][i].version <= rows'[t][i].version
    BY <1>1 DEF Same, Reading
  <2>1. /\ Saved(t, i) /\ SameOrder(before[p][t][i], rows[t][i])
        /\ before[p][t][i].version <= rows[t][i].version
    BY DEF Reading
  <2>2. /\ rows'[t][i] # Nothing /\ SameOrder(rows[t][i], rows'[t][i])
        /\ rows[t][i].version <= rows'[t][i].version
    BY <2>1, Growth DEF Grows, Saved
  <2>3. before[p][t][i].version \in Nat /\ rows[t][i].version \in Nat /\ rows'[t][i].version \in Nat
    BY <2>1, <2>2, TypeStep DEF TypeOK, Saved, Order
  <2> QED BY <2>1, <2>2, <2>3 DEF SameOrder
<1>2. ASSUME NEW q \in Asked, ReportMisses(p, q), rows' = rows
      PROVE  /\ seen'[p] = {} /\ range'[p] \in Asked /\ at'[p] = "reading"
             /\ \A t \in Tables, i \in Ids : before'[p][t][i] # Nothing =>
                  /\ rows'[t][i] # Nothing /\ SameOrder(before'[p][t][i], rows'[t][i])
                  /\ before'[p][t][i].version <= rows'[t][i].version
  <2>1. /\ at[p] = "idle" /\ at'[p] = "reading" /\ range'[p] = q
        /\ before'[p] = rows /\ seen'[p] = seen[p]
    BY <1>2, MissDoes
  <2> QED BY <1>2, <2>1 DEF Reading, SameOrder, TypeOK, Order
<1>3. CASE rows' = rows /\ QueryTable(p)
  <2>1. PICK t \in left[p] :
          /\ at[p] = "reading" /\ at'[p] = at[p] /\ range'[p] = range[p] /\ before'[p] = before[p]
          /\ seen'[p] = seen[p] \cup RowsIn(t, range[p])
          /\ left'[p] = left[p] \ {t}
    BY <1>3, QueryDoes
  <2>2. \A e \in RowsIn(t, range[p]) : e.table = t BY DEF RowsIn
  <2>3. \A e \in seen'[p] : e.table \notin left'[p] BY <2>1, <2>2 DEF Reading
  <2> QED BY <1>3, <2>1, <2>3 DEF Reading, Saved
<1>4. CASE rows' = rows /\ Answered(p)
  BY <1>4, AnswerDoes DEF NoRows
<1> QED BY <1>1, <1>2, <1>3, <1>4, Client

(* REPORT_SHARDING_ENABLED stays.                                          *)
LEMMA ScanningStays ==
  ASSUME [Next]_vars
  PROVE  scanning' = scanning
BY DEF Next, vars, catalog, Request, Report, Tick, EnableSharding, EnsureTable, ReportExpires,
       Stamp, SaveOrder, SaveFails, GetByID, UpdateWithVersion, Abort,
       ReportMisses, QueryTable, QueryFails, ReportEnds

(* A report under way has what it must of the tables it has read.          *)
Covers(p) == at[p] = "reading" => Complete(range[p], seen[p], before[p], left[p])

Tells(c) == Complete(c.range, c.seen, c.before, {}) /\ Genuine(c.seen)

LEMMA Telling ==
  /\ ReportTells => /\ \A p \in Reports : Covers(p) /\ (at[p] = "reading" => Genuine(seen[p]))
                    /\ \A k \in CacheKeys : cache[k] # Nothing => Tells(cache[k])
  /\ /\ \A p \in Reports : Covers(p) /\ Genuine(seen[p])
     /\ \A k \in CacheKeys : cache[k] # Nothing => Tells(cache[k])
     => ReportTells
BY DEF ReportTells, Covers, Tells

LEMMA GenuineKept ==
  ASSUME TypeOK, TypeOK', Grows, NEW S \in SUBSET Seen, Genuine(S)
  PROVE  \A e \in S :
           /\ rows'[e.table][e.id] # Nothing /\ e.order.version <= rows'[e.table][e.id].version
           /\ \A f \in S : e.table = f.table /\ e.id = f.id => e = f
<1> TAKE e \in S
<1>1. e.table \in Tables /\ e.id \in Ids /\ e.order \in Order BY DEF Seen
<1>2. Saved(e.table, e.id) /\ e.order.version <= rows[e.table][e.id].version
  BY DEF Genuine
<1>3. /\ rows'[e.table][e.id] # Nothing
      /\ rows[e.table][e.id].version <= rows'[e.table][e.id].version
  BY <1>1, <1>2 DEF Grows, Saved
<1>4. rows[e.table][e.id] \in Order /\ rows'[e.table][e.id] \in Order
  BY <1>1, <1>2, <1>3 DEF TypeOK, Saved
<1>5. e.order.version <= rows'[e.table][e.id].version
  BY <1>1, <1>2, <1>3, <1>4 DEF Order
<1> QED BY <1>3, <1>5 DEF Genuine

LEMMA QueriedGenuine ==
  ASSUME TypeOK, Reading, NEW p \in Reports, Genuine(seen[p]), NEW t \in left[p]
  PROVE  Genuine(seen[p] \cup RowsIn(t, range[p]))
<1> DEFINE new == RowsIn(t, range[p])
<1>1. t \in Tables BY DEF TypeOK
<1>2. \A e \in new : e.table = t /\ e.id \in Ids /\ e.order = rows[t][e.id] /\ Saved(t, e.id)
  BY DEF RowsIn, Saved
<1>3. \A e, f \in new : e.id = f.id => e = f
  BY DEF RowsIn
<1>4. \A e \in seen[p] : e.table # t BY DEF Reading
<1>5. \A e \in new : rows[t][e.id] \in Order BY <1>1, <1>2 DEF TypeOK, Saved
<1>6. \A e \in new : Saved(e.table, e.id) /\ e.order.version <= rows[e.table][e.id].version
  BY <1>2, <1>5 DEF Order
<1> QED BY <1>2, <1>3, <1>4, <1>6 DEF Genuine

LEMMA QueriedComplete ==
  ASSUME TypeOK, Reading, NEW p \in Reports, Covers(p), rows' = rows, scanning' = scanning, QueryTable(p)
  PROVE  Covers(p)'
<1>1. PICK u \in left[p] :
        /\ at[p] = "reading" /\ at'[p] = at[p] /\ range'[p] = range[p] /\ before'[p] = before[p]
        /\ seen'[p] = seen[p] \cup RowsIn(u, range[p])
        /\ left'[p] = left[p] \ {u}
  BY QueryDoes
<1> DEFINE old(t, i) == before[p][t][i]
           Found(entries, t, i) ==
             \E e \in entries : e.table = t /\ e.id = i /\ e.order.version >= old(t, i).version
<1> SUFFICES ASSUME NEW t \in Tables \ left'[p], NEW i \in Ids,
                    old(t, i) # Nothing,
                    old(t, i).time \in range[p].from.at .. range[p].to.at
    PROVE  Found(seen'[p], t, i) \/ MayOverlook(range[p], t, old(t, i).time)
  <2>1. \A t \in Tables, i \in Ids :
          MayOverlook(range[p], t, old(t, i).time) => MayOverlook(range[p], t, before[p][t][i].time)'
    BY <1>1 DEF MayOverlook
  <2> QED BY <1>1, <2>1 DEF Covers, Complete
<1>2. CASE t \notin left[p]
  <2>1. Found(seen[p], t, i) \/ MayOverlook(range[p], t, old(t, i).time)
    BY <1>1, <1>2 DEF Covers, Complete
  <2> QED BY <1>1, <2>1
<1>3. CASE t \in left[p]
  <2>1. t = u BY <1>1, <1>3
  <2>2. /\ Saved(t, i) /\ SameOrder(old(t, i), rows[t][i])
        /\ old(t, i).version <= rows[t][i].version
    BY DEF Reading
  <2>3. [table |-> t, id |-> i, order |-> rows[t][i]] \in RowsIn(t, range[p])
    BY <2>2 DEF RowsIn, Saved, SameOrder
  <2>4. old(t, i).version \in Nat /\ rows[t][i].version \in Nat
    BY <2>2 DEF TypeOK, Saved, Order
  <2> QED BY <1>1, <2>1, <2>2, <2>3, <2>4
<1> QED BY <1>2, <1>3

(* A table of the range is left out only for the reasons that MayOverlook  *)
(* names.                                                                  *)
LEMMA LeftOut ==
  ASSUME NEW q \in Asked, NEW t \in Tables \ ResolveTables(q), NEW time \in Instants,
         time \in q.from.at .. q.to.at, t # Base => MonthAt[Here][time] = t
  PROVE  MayOverlook(q, t, time)
<1>1. CASE scanning <=> t = Base BY <1>1 DEF MayOverlook
<1>2. CASE ~scanning /\ t = Base BY <1>2 DEF ResolveTables
<1>3. CASE /\ scanning /\ t # Base
           /\ MonthAt[q.from.offset][time] = t /\ MonthAt[q.to.offset][time] = t
  <2>1. /\ q.from.at \in Instants /\ q.from.offset \in Offsets
        /\ q.to.at \in Instants /\ q.to.offset \in Offsets
        /\ MonthOf(q.from) \in Months /\ MonthOf(q.to) \in Months
    BY Clocks
  <2>2. q.from.at <= time /\ time <= q.to.at BY <2>1, ShardsAssumption DEF Instants
  <2>3. MonthOf(q.from) <= t /\ t <= MonthOf(q.to)
    BY <1>3, <2>1, <2>2, CalendarAssumption DEF MonthOf
  <2>4. t \in MonthOf(q.from) .. MonthOf(q.to) BY <2>1, <2>3, Ranges DEF Months
  <2>5. ~(t < MonthOf(q.to)) /\ ~(q.from.offset >= q.to.offset)
    BY <1>3, <2>4 DEF ResolveTables
  <2>6. t = MonthOf(q.to) BY <2>1, <2>3, <2>5, Ranges DEF Months
  <2>7. q.from.offset < q.to.offset BY <2>1, <2>5, CalendarAssumption
  <2> QED BY <1>3, <2>6, <2>7 DEF MayOverlook
<1>4. CASE /\ scanning /\ t # Base
           /\ \E end \in {q.from, q.to} : MonthAt[end.offset][time] # t
  BY <1>4 DEF MayOverlook
<1> QED BY <1>1, <1>2, <1>3, <1>4

LEMMA MissedComplete ==
  ASSUME TypeOK, Dated, scanning' = scanning, NEW p \in Reports, NEW q \in Asked, ReportMisses(p, q)
  PROVE  Covers(p)'
<1>1. /\ range'[p] = q /\ left'[p] = ResolveTables(q) /\ before'[p] = rows
  BY MissDoes
<1> SUFFICES ASSUME NEW t \in Tables \ ResolveTables(q), NEW i \in Ids,
                    rows[t][i] # Nothing, rows[t][i].time \in q.from.at .. q.to.at
    PROVE  MayOverlook(q, t, rows[t][i].time)
  BY <1>1 DEF Covers, Complete, MayOverlook
<1>2. rows[t][i].time \in Instants BY DEF TypeOK, Order
<1>3. t # Base => MonthAt[Here][rows[t][i].time] = t BY DEF Dated, Saved, Tables
<1> QED BY <1>2, <1>3, LeftOut

LEMMA GenuineSeen ==
  ASSUME TypeOK, Reading, ReportTells, NEW p \in Reports
  PROVE  Genuine(seen[p])
<1>1. CASE at[p] = "reading" BY <1>1, Telling
<1>2. CASE at[p] = "idle" BY <1>2 DEF Reading, Genuine
<1> QED BY <1>1, <1>2 DEF TypeOK

(* What is cached was cached, or is what a report ends with.               *)
LEMMA CacheStep ==
  ASSUME TypeOK, Reading, ReportTells, [Next]_vars, NEW k \in CacheKeys, cache'[k] # Nothing
  PROVE  Tells(cache'[k])
<1>1. CASE cache'[k] = cache[k] BY <1>1, Telling
<1>2. ASSUME NEW p \in Reports, ReportEnds(p), cache'[k] # cache[k]
      PROVE  Tells(cache'[k])
  <2>1. /\ at[p] = "reading" /\ left[p] = {}
        /\ cache'[k] = [range |-> range[p], seen |-> seen[p], before |-> before[p]]
    BY <1>2 DEF ReportEnds, TypeOK
  <2>2. Complete(range[p], seen[p], before[p], {}) BY <2>1, Telling DEF Covers
  <2> QED BY <2>1, <2>2, GenuineSeen DEF Tells
<1>3. ASSUME NEW j \in CacheKeys, ReportExpires(j) PROVE cache'[k] = cache[k]
  BY <1>3 DEF ReportExpires, TypeOK
<1>4. \/ cache' = cache
      \/ \E p \in Reports : ReportEnds(p)
      \/ \E j \in CacheKeys : ReportExpires(j)
  <2>1. CASE UNCHANGED reporting BY <2>1 DEF reporting
  <2>2. ASSUME NEW p \in Reports, Report(p) PROVE cache' = cache \/ ReportEnds(p)
    BY <2>2 DEF Report, ReportMisses, QueryTable, QueryFails
  <2> QED BY <2>1, <2>2, Reporters
<1> QED BY <1>1, <1>2, <1>3, <1>4

LEMMA ReportStep ==
  ASSUME TypeOK, TypeOK', FreshIds, Dated, Stamped, Loaded, Reading, ReportTells, [Next]_vars
  PROVE  ReportTells'
<1>0. scanning' = scanning BY ScanningStays
<1>1. Grows BY Growth
<1>2. ASSUME NEW S \in SUBSET Seen, Genuine(S)
      PROVE  \A e \in S :
               /\ rows'[e.table][e.id] # Nothing /\ e.order.version <= rows'[e.table][e.id].version
               /\ \A f \in S : e.table = f.table /\ e.id = f.id => e = f
  BY <1>1, <1>2, GenuineKept
<1>3. ASSUME NEW k \in CacheKeys, cache'[k] # Nothing PROVE Tells(cache[k])'
  <2>1. Tells(cache'[k]) BY <1>3, CacheStep
  <2>2. cache'[k].seen \in SUBSET Seen BY <1>3 DEF TypeOK, Cached
  <2>3. Complete(cache[k].range, cache[k].seen, cache[k].before, {})'
    BY <1>0, <2>1 DEF Tells, Complete, MayOverlook
  <2>4. Genuine(cache[k].seen)' BY <1>2, <2>1, <2>2 DEF Tells, Genuine, Saved
  <2> QED BY <2>3, <2>4 DEF Tells
<1>4. ASSUME NEW p \in Reports PROVE Covers(p)' /\ Genuine(seen[p])'
  <2>0. Covers(p) /\ Genuine(seen[p]) /\ seen[p] \in SUBSET Seen
    BY Telling, GenuineSeen DEF TypeOK
  <2>1. CASE Same(p)
    <3>1. Covers(p)'
      <4> SUFFICES ASSUME at'[p] = "reading", NEW t \in Tables \ left'[p], NEW i \in Ids,
                          before'[p][t][i] # Nothing,
                          before'[p][t][i].time \in range'[p].from.at .. range'[p].to.at
          PROVE  \/ \E e \in seen'[p] : e.table = t /\ e.id = i /\ e.order.version >= before'[p][t][i].version
                 \/ MayOverlook(range[p], t, before[p][t][i].time)'
        BY DEF Covers, Complete
      <4>1. \/ \E e \in seen[p] : e.table = t /\ e.id = i /\ e.order.version >= before[p][t][i].version
            \/ MayOverlook(range[p], t, before[p][t][i].time)
        BY <2>0, <2>1 DEF Same, Covers, Complete
      <4>2. CASE MayOverlook(range[p], t, before[p][t][i].time)
        BY <1>0, <2>1, <4>2 DEF Same, MayOverlook
      <4> QED BY <2>1, <4>1, <4>2 DEF Same
    <3>2. Genuine(seen[p])' BY <1>2, <2>0, <2>1 DEF Same, Genuine, Saved
    <3> QED BY <3>1, <3>2
  <2>2. ASSUME NEW q \in Asked, ReportMisses(p, q) PROVE Covers(p)' /\ Genuine(seen[p])'
    <3>1. seen'[p] = {} BY <2>2, MissDoes DEF Reading
    <3> QED BY <1>0, <2>2, <3>1, MissedComplete DEF Genuine
  <2>3. CASE rows' = rows /\ QueryTable(p)
    <3>1. PICK t \in left[p] : seen'[p] = seen[p] \cup RowsIn(t, range[p])
      BY <2>3, QueryDoes
    <3>2. Genuine(seen'[p]) BY <2>0, <3>1, QueriedGenuine
    <3>3. Genuine(seen[p])' BY <2>3, <3>2 DEF Genuine, Saved
    <3> QED BY <1>0, <2>0, <2>3, <3>3, QueriedComplete
  <2>4. CASE rows' = rows /\ Answered(p)
    <3>1. at'[p] = "idle" /\ seen'[p] = {} BY <2>4, AnswerDoes
    <3>2. Covers(p)' BY <3>1 DEF Covers
    <3>3. Genuine(seen[p])' BY <3>1 DEF Genuine
    <3> QED BY <3>2, <3>3
  <2> QED BY <2>1, <2>2, <2>3, <2>4, Client
<1>5. (/\ \A p \in Reports : Covers(p)' /\ Genuine(seen[p])'
       /\ \A k \in CacheKeys : cache'[k] # Nothing => Tells(cache[k])') => ReportTells'
  BY DEF ReportTells, Covers, Tells
<1> QED BY <1>3, <1>4, <1>5

-----------------------------------------------------------------------------
(* The index.                                                              *)
LEMMA ReusedStays ==
  ASSUME TypeOK, Grows, NEW n, Reused(n)
  PROVE  Reused(n)'
<1>1. PICK t \in Tables, u \in Tables : t # u /\ \E i, j \in Ids :
        Saved(t, i) /\ Saved(u, j) /\ rows[t][i].number = n /\ rows[u][j].number = n
  BY DEF Reused
<1>2. PICK i \in Ids, j \in Ids :
        Saved(t, i) /\ Saved(u, j) /\ rows[t][i].number = n /\ rows[u][j].number = n
  BY <1>1
<1>3. Saved(t, i)' /\ Saved(u, j)' /\ rows'[t][i].number = n /\ rows'[u][j].number = n
  BY <1>2 DEF Grows, SameOrder
<1> QED BY <1>1, <1>3 DEF Reused

(* Saving an order either takes the entry of its id or, without one, makes *)
(* its number one that was made twice.                                     *)
NewEntry(r) == [table |-> table[r], number |-> order[r].number]

LEMMA SavedIndex ==
  ASSUME TypeOK, FreshIds, Stamped, Grows, IndexTells, NEW r \in Requests, SaveOrder(r), NEW i \in Ids,
         NEW n, n = order[r].number
  PROVE  \/ index'[i] = index[i] /\ (i = nextId[table[r]] => Reused(n)')
         \/ index'[i] = NewEntry(r) /\ i = nextId[table[r]]
         \/ index'[i] = NewEntry(r) /\ index[i] # Nothing /\ index[i].number = n /\ Reused(n)'
<1>1. /\ table[r] \in Tables /\ nextId[table[r]] \in Ids /\ order[r] \in Order
      /\ rows'[table[r]][nextId[table[r]]] = order[r]
  BY Saving
<1>2. index' = Upserted(nextId[table[r]], NewEntry(r)) /\ ~NumberTaken(table[r], n)
  BY DEF SaveOrder, LastInsertId, NewEntry
<1>3. NewEntry(r).number = n BY DEF NewEntry
<1>4. CASE index[nextId[table[r]]] # Nothing \/ Numbered(n) = {}
  <2>1. index' = [index EXCEPT ![nextId[table[r]]] = NewEntry(r)]
    BY <1>2, <1>3, <1>4 DEF Upserted
  <2>2. CASE i = nextId[table[r]] BY <1>1, <2>1, <2>2 DEF TypeOK
  <2>3. CASE i # nextId[table[r]]
    <3>1. index'[i] = index[i] BY <1>1, <2>1, <2>3 DEF TypeOK
    <3> QED BY <2>3, <3>1
  <2> QED BY <2>2, <2>3
<1>5. CASE index[nextId[table[r]]] = Nothing /\ Numbered(n) # {}
  <2>1. index' = [j \in Ids |-> IF j \in Numbered(n) THEN NewEntry(r) ELSE index[j]]
    BY <1>2, <1>3, <1>5 DEF Upserted
  <2>2. Reused(n)'
    <3>1. PICK j \in Ids : index[j] # Nothing /\ index[j].number = n
      BY <1>5 DEF Numbered
    <3>2. CASE Reused(n) BY <3>2, ReusedStays
    <3>3. CASE ~Reused(n)
      <4>1. index[j].table \in Tables BY <3>1 DEF TypeOK, Entry
      <4>2. Saved(index[j].table, j) /\ rows[index[j].table][j].number = n
        BY <3>1, <3>3 DEF IndexTells
      <4>3. index[j].table # table[r] BY <1>2, <4>2 DEF NumberTaken, Saved
      <4>4. \E u \in Tables : u # table[r] /\ Saved(u, j) /\ rows[u][j].number = n
        BY <4>1, <4>2, <4>3
      <4>5. \E u \in Tables : u # table[r] /\ Saved(u, j)' /\ rows'[u][j].number = n
        BY <4>4 DEF Grows, SameOrder
      <4>6. PICK u \in Tables : u # table[r] /\ Saved(u, j)' /\ rows'[u][j].number = n BY <4>5
      <4>7. rows'[table[r]][nextId[table[r]]] # Nothing BY <1>1, NothingAssumption
      <4>8. rows'[table[r]][nextId[table[r]]].number = n BY <1>1
      <4> QED BY <1>1, <4>6, <4>7, <4>8 DEF Reused, Saved
    <3> QED BY <3>2, <3>3
  <2>3. CASE i \in Numbered(n) BY <2>1, <2>2, <2>3 DEF Numbered
  <2>4. CASE i \notin Numbered(n)
    <3>1. index'[i] = index[i] BY <2>1, <2>4
    <3> QED BY <2>2, <3>1
  <2> QED BY <2>3, <2>4
<1> QED BY <1>4, <1>5

LEMMA IndexWriters ==
  ASSUME [Next]_vars
  PROVE  index' = index \/ \E r \in Requests : SaveOrder(r)
BY DEF Next, vars, stored, Request, Report, Tick, EnableSharding, EnsureTable, ReportExpires,
       Stamp, SaveFails, GetByID, UpdateWithVersion, Abort, ReportMisses, QueryTable, QueryFails, ReportEnds

LEMMA IndexStep ==
  ASSUME TypeOK, TypeOK', FreshIds, Stamped, Loaded, IndexTells, [Next]_vars
  PROVE  IndexTells'
<1>0. Grows BY Growth
<1>1. ASSUME NEW i \in Ids, NEW t \in Tables, index'[i] = Nothing, Saved(t, i)'
      PROVE  Reused(rows[t][i].number)'
  <2>1. PICK n : n = rows'[t][i].number OBVIOUS
  <2>2. CASE Saved(t, i)
    <3>1. n = rows[t][i].number BY <1>0, <2>1, <2>2 DEF Grows, SameOrder
    <3>2. Reused(n)
      <4>1. index[i] = Nothing
        <5>1. ASSUME index' # index PROVE index[i] = Nothing
          <6>1. PICK r \in Requests : SaveOrder(r) BY <5>1, IndexWriters
          <6>2. PICK m : m = order[r].number OBVIOUS
          <6>3. NewEntry(r) # Nothing BY <6>1, Saving, NothingAssumption DEF NewEntry, Entry, Order
          <6> QED BY <1>0, <1>1, <6>1, <6>2, <6>3, SavedIndex
        <5> QED BY <1>1, <5>1
      <4> QED BY <2>2, <3>1, <4>1 DEF IndexTells
    <3>3. Reused(n)' BY <1>0, <3>2, ReusedStays
    <3> QED BY <2>1, <3>3 DEF Reused
  <2>3. CASE ~Saved(t, i)
    <3>1. rows'[t][i] # rows[t][i] BY <1>1, <2>3 DEF Saved
    <3>2. ASSUME NEW r \in Requests, UpdateWithVersion(r) PROVE FALSE
      BY <2>3, <3>1, <3>2, Updating
    <3>3. PICK r \in Requests : SaveOrder(r) BY <3>1, <3>2, Writers
    <3>4. t = table[r] /\ i = nextId[table[r]] BY <3>1, <3>3, Saving
    <3>5. n = order[r].number BY <2>1, <3>3, <3>4, Saving
    <3>6. NewEntry(r) # Nothing BY <3>3, Saving, NothingAssumption DEF NewEntry, Entry, Order
    <3>7. Reused(n)' BY <1>0, <1>1, <3>3, <3>4, <3>5, <3>6, SavedIndex
    <3> QED BY <2>1, <3>7 DEF Reused
  <2> QED BY <2>2, <2>3
<1>2. ASSUME NEW i \in Ids, index'[i] # Nothing
      PROVE  \/ Reused(index[i].number)'
             \/ /\ rows'[index'[i].table][i] # Nothing
                /\ rows'[index'[i].table][i].number = index'[i].number
  <2>1. CASE index'[i] = index[i]
    <3>1. PICK n : n = index[i].number OBVIOUS
    <3>2. CASE Reused(n)
      <4>1. Reused(n)' BY <1>0, <3>2, ReusedStays
      <4> QED BY <2>1, <3>1, <4>1 DEF Reused
    <3>3. CASE ~Reused(n)
      <4>1. index[i].table \in Tables BY <1>2, <2>1 DEF TypeOK, Entry
      <4>2. Saved(index[i].table, i) /\ rows[index[i].table][i].number = n
        BY <1>2, <2>1, <3>1, <3>3 DEF IndexTells
      <4>3. rows'[index[i].table][i] # Nothing /\ rows'[index[i].table][i].number = n
        BY <1>0, <4>1, <4>2 DEF Grows, SameOrder, Saved
      <4> QED BY <2>1, <3>1, <4>3
    <3> QED BY <3>2, <3>3
  <2>2. CASE index'[i] # index[i]
    <3>1. PICK r \in Requests : SaveOrder(r) BY <2>2, IndexWriters
    <3>2. PICK n : n = order[r].number OBVIOUS
    <3>3. \/ index'[i] = NewEntry(r) /\ i = nextId[table[r]]
          \/ index'[i] = NewEntry(r) /\ Reused(n)'
      BY <1>0, <2>2, <3>1, <3>2, SavedIndex
    <3>4. NewEntry(r).table = table[r] /\ NewEntry(r).number = n BY <3>2 DEF NewEntry
    <3>5. CASE i = nextId[table[r]] /\ index'[i] = NewEntry(r)
      <4>1. rows'[table[r]][i] = order[r] /\ order[r] \in Order BY <3>1, <3>5, Saving
      <4> QED BY <3>2, <3>4, <3>5, <4>1, NothingAssumption
    <3>6. CASE index'[i] = NewEntry(r) /\ Reused(n)'
      BY <3>4, <3>6 DEF Reused
    <3> QED BY <3>3, <3>5, <3>6
  <2> QED BY <2>1, <2>2
<1> QED BY <1>1, <1>2 DEF IndexTells, Saved

LEMMA RedirectStep ==
  ASSUME TypeOK, FreshIds, Stamped, Loaded, IndexTells, [Next]_vars,
         NEW t \in Tables, NEW i \in Ids, Reached(t, i), ~Reached(t, i)'
  PROVE  \/ \E u \in Tables \ {t} : ~Saved(u, i) /\ Saved(u, i)'
         \/ index[i] # Nothing /\ Reused(index[i].number)'
<1>0. Grows BY Growth
<1>1. Saved(t, i)' BY <1>0 DEF Grows, Reached
<1>2. FindTableByOrderID(i) = t /\ FindTableByOrderID(i)' # t
  BY <1>1 DEF Reached
<1>3. index'[i] # index[i] BY <1>2 DEF FindTableByOrderID
<1>4. PICK r \in Requests : SaveOrder(r) BY <1>3, IndexWriters
<1>5. PICK n : n = order[r].number OBVIOUS
<1>6. \/ index'[i] = NewEntry(r) /\ i = nextId[table[r]]
      \/ index'[i] = NewEntry(r) /\ index[i] # Nothing /\ Reused(n)'
  BY <1>0, <1>3, <1>4, <1>5, SavedIndex
<1>7. NewEntry(r).table = table[r] /\ NewEntry(r).number = n BY <1>5 DEF NewEntry
<1>8. CASE index'[i] = NewEntry(r) /\ i = nextId[table[r]]
  <2>1. /\ table[r] \in Tables /\ order[r] \in Order /\ rows'[table[r]][i] = order[r]
        /\ nextId[table[r]] \in Nat
    BY <1>4, <1>8, Saving DEF TypeOK
  <2>2. NewEntry(r) # Nothing BY <2>1, NothingAssumption DEF NewEntry, Entry, Order
  <2>3. table[r] # t BY <1>2, <1>7, <1>8, <2>2 DEF FindTableByOrderID
  <2>4. ~Saved(table[r], i)
    <3>1. CASE Saved(table[r], i)
      <4>1. i < nextId[table[r]] BY <2>1, <3>1 DEF FreshIds
      <4> QED BY <1>8, <2>1, <4>1
    <3> QED BY <3>1
  <2>5. Saved(table[r], i)' BY <2>1, NothingAssumption, <1>4 DEF Saved, SaveOrder
  <2> QED BY <2>1, <2>3, <2>4, <2>5, <1>4 DEF SaveOrder
<1>9. CASE index'[i] = NewEntry(r) /\ index[i] # Nothing /\ Reused(n)'
  BY <1>7, <1>9 DEF Reused
<1> QED BY <1>6, <1>8, <1>9

LEMMA ChangeStep ==
  ASSUME TypeOK, FreshIds, Stamped, Loaded, [Next]_vars,
         NEW t \in Tables, NEW i \in Ids, Saved(t, i), rows'[t][i] # rows[t][i]
  PROVE  \E r \in Requests :
           /\ pc[r] = "loaded" /\ pc'[r] = "done"
           /\ table[r] = t /\ id[r] = i /\ order[r] = rows[t][i]
<1>1. ASSUME NEW r \in Requests, SaveOrder(r) PROVE FALSE
  <2>1. i = nextId[t] BY <1>1, Saving
  <2>2. i < nextId[t] BY DEF FreshIds
  <2> QED BY <2>1, <2>2 DEF TypeOK
<1>2. PICK r \in Requests : UpdateWithVersion(r) BY <1>1, Writers
<1>3. pc[r] = "loaded" BY <1>2 DEF UpdateWithVersion
<1>4. t = table[r] /\ i = id[r] /\ pc'[r] = "done" /\ order[r] = rows[table[r]][id[r]]
  BY <1>2, Updating
<1> QED BY <1>3, <1>4

-----------------------------------------------------------------------------
LEMMA Initially ==
  ASSUME Init
  PROVE  IInv /\ IndexTells
<1>1. Base \in Tables /\ 1 \in Instants /\ 1 \in Nat \ {0} /\ 0 \in Ids \cup {0}
  BY Ranges, ShardsAssumption DEF Instants
<1>2. NoRows \in [Tables -> [Ids -> Order \cup {Nothing}]] BY DEF NoRows
<1>3. TypeOK BY <1>1, <1>2 DEF Init, TypeOK
<1>4. \A t \in Tables, i \in Ids : ~Saved(t, i) BY DEF Init, NoRows, Saved
<1>5. FreshIds /\ Dated BY <1>4, Ranges DEF FreshIds, Dated
<1>6. Stamped /\ Loaded BY DEF Init, Stamped, Loaded
<1>7. Reading BY DEF Init, Reading, NoRows
<1>8. \A p \in Reports : Covers(p) /\ Genuine(seen[p]) BY DEF Init, Covers, Genuine
<1>9. \A k \in CacheKeys : cache[k] = Nothing BY DEF Init
<1>10. ReportTells BY <1>8, <1>9, Telling
<1>11. IndexTells BY <1>4 DEF Init, IndexTells
<1> QED BY <1>3, <1>5, <1>6, <1>7, <1>10, <1>11 DEF IInv

LEMMA Inductive ==
  ASSUME IInv, IndexTells, [Next]_vars
  PROVE  IInv' /\ IndexTells'
<1>1. TypeOK' BY TypeStep DEF IInv
<1>2. FreshIds' /\ Dated' /\ Stamped' /\ Loaded' /\ Reading'
  BY FreshStep, DatedStep, StampedStep, LoadedStep, ReadingStep DEF IInv
<1>3. ReportTells' BY <1>1, ReportStep DEF IInv
<1>4. IndexTells' BY <1>1, IndexStep DEF IInv
<1> QED BY <1>1, <1>2, <1>3, <1>4 DEF IInv

LEMMA Invariantly == Spec => [](IInv /\ IndexTells)
<1>1. Init => IInv /\ IndexTells BY Initially
<1>2. IInv /\ IndexTells /\ [Next]_vars => (IInv /\ IndexTells)' BY Inductive
<1> QED BY <1>1, <1>2, PTL DEF Spec

(* Every table, entry, request, report and cached report is well formed.   *)
THEOREM ShardTypes == Spec => []TypeOK
<1>1. IInv => TypeOK BY DEF IInv
<1> QED BY <1>1, Invariantly, PTL

(* order_table_index tells the truth in any number of months: an id that   *)
(* was given out leads to an order with that id and the entry's number,    *)
(* unless the number was made twice.                                       *)
THEOREM IndexIsTrue == Spec => []IndexTells
BY Invariantly, PTL

(* However many tables a report reads one after the other, and whatever is *)
(* saved and changed meanwhile, it shows no order twice and has all of its *)
(* range that were there when it began, but for those that the clocks of   *)
(* its two offsets and of the server put into different months, the month  *)
(* in which a client's clock moved forward, and those of the other layout. *)
(* A report from Redis does so for the client who first asked.             *)
THEOREM ReportsAreTrue == Spec => []ReportTells
<1>1. IInv => ReportTells BY DEF IInv
<1> QED BY <1>1, Invariantly, PTL

(* The redirection of an order's id has two causes only: another table     *)
(* gives out the same id, or the entry's number is made a second time.     *)
THEOREM RedirectedOnlyByTwin == Spec => RedirectedByTwin
<1>1. IInv /\ IndexTells /\ [Next]_vars =>
        [\A t \in Tables, i \in Ids : Reached(t, i) /\ ~Reached(t, i)' =>
           \/ \E u \in Tables \ {t} : ~Saved(u, i) /\ Saved(u, i)'
           \/ index[i] # Nothing /\ Reused(index[i].number)']_vars
  BY RedirectStep DEF IInv
<1> QED BY <1>1, Invariantly, PTL DEF Spec, RedirectedByTwin

(* A change is made to the order that was read, in the table it was read   *)
(* from, although every month counts its ids from 1.                       *)
THEOREM ChangesWhatWasRead == Spec => ChangedAsRead
<1>1. IInv /\ [Next]_vars =>
        [\A t \in Tables, i \in Ids : Saved(t, i) /\ rows'[t][i] # rows[t][i] =>
           \E r \in Requests :
             /\ pc[r] = "loaded" /\ pc'[r] = "done"
             /\ table[r] = t /\ id[r] = i /\ order[r] = rows[t][i]]_vars
  BY ChangeStep DEF IInv
<1> QED BY <1>1, Invariantly, PTL DEF Spec, ChangedAsRead
=============================================================================
