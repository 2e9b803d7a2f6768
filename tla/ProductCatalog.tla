--------------------------- MODULE ProductCatalog ---------------------------
(***************************************************************************)
(* The catalogue (product): WriteService changes categories, dishes and    *)
(* setmeals, each in one SQL transaction, and then invalidates the lists   *)
(* in Redis; ReadService fills them.                                       *)
(*                                                                         *)
(* A row is known by its author, the request that wrote it last, and what  *)
(* hangs on a product (the flavors of a dish, the dishes of a setmeal) by  *)
(* the request that replaced it.  A transaction is its first read, which   *)
(* fixes what it sees, and its commit: the row it changes is locked from   *)
(* its statement until then, so that the statement may as well run there.  *)
(* The idempotency guard around it is IdempotencyGuard; a replay by it      *)
(* invalidates once more, which this module leaves out.                    *)
(***************************************************************************)
EXTENDS Naturals, Sequences

CONSTANTS
  Categories, Dishes, Setmeals,
  Writers, Readers,      \* requests
  Commands,              \* what each writer may ask for
  Asked,                 \* the lists that the readers ask for
  NodeOf,                \* the process that serves a reader
  Seeded, HomeOf, UsesOf,  \* what is there at first, its categories and dishes
  Seed,                  \* its author
  Warm,                  \* the lists that are in Redis at first
  Unborn, Gone,          \* the author of a row that is not there yet, or no more
  All,                   \* no category given
  NoEntry

Products == Dishes \cup Setmeals

Command ==
  [op : {"CreateCategory", "UpdateCategory", "ChangeCategoryStatus", "DeleteCategory"},
   x : Categories, home : {All}, uses : {{}}]
  \cup [op : {"CreateDish", "UpdateDish"}, x : Dishes, home : Categories, uses : {{}}]
  \cup [op : {"UpdateDish", "ChangeDishStatus", "DeleteDish"}, x : Dishes, home : {All},
        uses : {{}}]
  \cup [op : {"CreateSetmeal", "UpdateSetmeal"}, x : Setmeals, home : Categories,
        uses : SUBSET Dishes]
  \cup [op : {"UpdateSetmeal"}, x : Setmeals, home : {All}, uses : SUBSET Dishes]
  \cup [op : {"ChangeSetmealStatus", "DeleteSetmeal"}, x : Setmeals, home : {All}, uses : {{}}]

NoCommand == [op |-> "none", x |-> All, home |-> All, uses |-> {}]

Key == [kind : {"category"}, home : {All}]
       \cup [kind : {"dish", "setmeal"}, home : Categories \cup {All}]

ASSUME CommandsAssumption == Commands \in [Writers -> SUBSET Command] /\ Asked \subseteq Key /\ Warm \subseteq Key

VARIABLES
  author, home, parts, uses,   \* the tables
  cache,       \* the lists in Redis
  outbox,      \* the writers whose invalidation failed
  pc, cmd,     \* where a writer is, and what it does
  before,      \* the writers that had committed when it began
  due,         \* what it read from the outbox
  job,         \* the writer whose invalidation it carries out
  todo,        \* the prefixes it still has to delete
  at, key, view,   \* where a reader is, its list, and what it has read
  mutex,       \* the mutexes that are locked: a process has one for each list
  lost, raced  \* lists that missed an invalidation; that were stale when they were set

tables == <<author, home, parts, uses>>
writing == <<pc, cmd, before, due, job, todo>>
reading == <<at, key, view, mutex>>
vars == <<tables, cache, outbox, writing, reading, lost, raced>>

Author == Writers \cup {Seed}

(* The rows are in tables of their own; no category has the id 0, which    *)
(* the prefixes take for none given, and which UpdateDish and              *)
(* UpdateSetmeal accept.                                                   *)
ASSUME KindsAssumption ==
  /\ Categories \cap Products = {} /\ Dishes \cap Setmeals = {}
  /\ All \notin Categories
ASSUME AuthorsAssumption == Seed \notin Writers /\ Unborn # Gone /\ Author \cap {Unborn, Gone} = {}
ASSUME SeededAssumption ==
  /\ HomeOf \in [Products -> Categories \cup {All}]
  /\ UsesOf \in [Setmeals -> SUBSET Dishes]
ASSUME NoEntryAssumption == NoEntry \notin Key
There(x) == author[x] \in Author

ListCategories == {c \in Categories : There(c)}
ListDishes(c) == {d \in Dishes : There(d) /\ c \in {All, home[d]}}
ListSetmeals(c) == {m \in Setmeals : There(m) /\ c \in {All, home[m]}}

Rows(k) ==
  CASE k.kind = "category" -> ListCategories
    [] k.kind = "dish" -> ListDishes(k.home)
    [] k.kind = "setmeal" -> ListSetmeals(k.home)

Mutex(r) == <<NodeOf[r], key[r]>>

(* What the tables say of a list.                                          *)
List(k) ==
  {<<x, author[x], IF x \in Products THEN parts[x] ELSE Seed>> : x \in Rows(k)}

TypeOK ==
  /\ author \in [Categories \cup Products -> Author \cup {Unborn, Gone}]
  /\ home \in [Products -> Categories \cup {All}]
  /\ parts \in [Products -> Author \cup {Unborn, Gone}]
  /\ uses \in [Setmeals -> SUBSET Dishes]
  /\ DOMAIN cache = Key
  /\ outbox \subseteq Writers
  /\ pc \in [Writers -> {"idle", "begun", "refused", "listing", "draining", "deleting", "done", "stopped"}]
  /\ cmd \in [Writers -> Command \cup {NoCommand}]
  /\ before \in [Writers -> SUBSET Writers]
  /\ due \in [Writers -> SUBSET Writers]
  /\ job \in [Writers -> Writers]
  /\ todo \in [Writers -> Seq(SUBSET Key)]
  /\ at \in [Readers -> {"idle", "waiting", "again", "rows", "parts", "set", "done", "failed"}]
  /\ key \in [Readers -> Asked \cup {NoEntry}]
  /\ \A r \in Readers : key[r] = NoEntry <=> at[r] \in {"idle", "done", "failed"}
  /\ lost \subseteq Key /\ raced \subseteq Key
  /\ \A w \in Writers : pc[w] # "idle" => cmd[w] \in Commands[w]
  /\ mutex = {Mutex(r) : r \in {q \in Readers : at[q] \in {"again", "rows", "parts", "set"}}}
  /\ \A k \in Key : cache[k] # NoEntry =>
       \A e \in cache[k] : e[2] \in Author /\ e[3] \in Author \cup {Gone}

Init ==
  /\ author = [x \in Categories \cup Products |-> IF x \in Seeded THEN Seed ELSE Unborn]
  /\ home = HomeOf
  /\ parts = [p \in Products |-> IF p \in Seeded THEN Seed ELSE Unborn]
  /\ uses = UsesOf
  /\ cache = [k \in Key |-> IF k \in Warm THEN List(k) ELSE NoEntry]
  /\ outbox = {}
  /\ pc = [w \in Writers |-> "idle"]
  /\ cmd = [w \in Writers |-> NoCommand]
  /\ before = [w \in Writers |-> {}]
  /\ due = [w \in Writers |-> {}]
  /\ job = [w \in Writers |-> w]
  /\ todo = [w \in Writers |-> <<>>]
  /\ at = [r \in Readers |-> "idle"]
  /\ key = [r \in Readers |-> NoEntry]
  /\ view = [r \in Readers |-> {}]
  /\ mutex = {}
  /\ lost = {} /\ raced = {}

-----------------------------------------------------------------------------
(* WriteService: the transactions.                                         *)
Go(w, place) == pc' = [pc EXCEPT ![w] = place]

Committed == {w \in Writers : pc[w] \notin {"idle", "begun", "refused"}}

NeverUsed(x) == FALSE                      \* mutant: the check is left out
ExistsCategoryUsedByDish(c) == \E d \in Dishes : There(d) /\ home[d] = c
ExistsCategoryUsedBySetmeal(c) == \E m \in Setmeals : There(m) /\ home[m] = c
ExistsDishUsedBySetmeal(d) == \E m \in Setmeals : There(m) /\ d \in uses[m]

Used(m) ==
  \/ /\ m.op = "DeleteCategory"
     /\ ExistsCategoryUsedByDish(m.x) \/ ExistsCategoryUsedBySetmeal(m.x)
  \/ m.op = "DeleteDish" /\ ExistsDishUsedBySetmeal(m.x)

Creates(m) == m.op \in {"CreateCategory", "CreateDish", "CreateSetmeal"}

(* AUTO_INCREMENT gives every new row an id of its own; other ids are      *)
(* those of rows that are, or were, there.                                 *)
Begin(w, m) ==
  /\ pc[w] = "idle"
  /\ IF Creates(m)
       THEN author[m.x] = Unborn /\ \A v \in Writers : cmd[v].x = m.x => ~Creates(cmd[v])
       ELSE author[m.x] # Unborn
  /\ cmd' = [cmd EXCEPT ![w] = m]
  /\ before' = [before EXCEPT ![w] = Committed]
  /\ Go(w, IF Used(m) THEN "refused" ELSE "begun")
  /\ UNCHANGED <<tables, cache, outbox, due, job, todo, reading, lost, raced>>

(* The name is taken, a statement fails, the row has gone, the request is  *)
(* cancelled.                                                              *)
Refuse(w) ==
  /\ pc[w] = "begun"
  /\ Go(w, "refused")
  /\ UNCHANGED <<tables, cache, outbox, cmd, before, due, job, todo, reading, lost, raced>>

CreateCategory(w) ==
  /\ cmd[w].op = "CreateCategory"
  /\ author' = [author EXCEPT ![cmd[w].x] = w]
  /\ UNCHANGED <<home, parts, uses>>

UpdateCategory(w) ==
  /\ cmd[w].op = "UpdateCategory" /\ There(cmd[w].x)
  /\ author' = [author EXCEPT ![cmd[w].x] = w]
  /\ UNCHANGED <<home, parts, uses>>

ChangeCategoryStatus(w) ==
  /\ cmd[w].op = "ChangeCategoryStatus" /\ There(cmd[w].x)
  /\ author' = [author EXCEPT ![cmd[w].x] = w]
  /\ UNCHANGED <<home, parts, uses>>

DeleteCategory(w) ==
  /\ cmd[w].op = "DeleteCategory" /\ There(cmd[w].x)
  /\ author' = [author EXCEPT ![cmd[w].x] = Gone]
  /\ UNCHANGED <<home, parts, uses>>

CreateDish(w) ==
  /\ cmd[w].op = "CreateDish"
  /\ author' = [author EXCEPT ![cmd[w].x] = w]
  /\ home' = [home EXCEPT ![cmd[w].x] = cmd[w].home]
  /\ parts' = [parts EXCEPT ![cmd[w].x] = w]
  /\ UNCHANGED uses

UpdateDish(w) ==
  /\ cmd[w].op = "UpdateDish" /\ There(cmd[w].x)
  /\ author' = [author EXCEPT ![cmd[w].x] = w]
  /\ home' = [home EXCEPT ![cmd[w].x] = cmd[w].home]
  /\ parts' = [parts EXCEPT ![cmd[w].x] = w]
  /\ UNCHANGED uses

ChangeDishStatus(w) ==
  /\ cmd[w].op = "ChangeDishStatus" /\ There(cmd[w].x)
  /\ author' = [author EXCEPT ![cmd[w].x] = w]
  /\ UNCHANGED <<home, parts, uses>>

DeleteDish(w) ==
  /\ cmd[w].op = "DeleteDish" /\ There(cmd[w].x)
  /\ author' = [author EXCEPT ![cmd[w].x] = Gone]
  /\ parts' = [parts EXCEPT ![cmd[w].x] = Gone]
  /\ UNCHANGED <<home, uses>>

CreateSetmeal(w) ==
  /\ cmd[w].op = "CreateSetmeal"
  /\ author' = [author EXCEPT ![cmd[w].x] = w]
  /\ home' = [home EXCEPT ![cmd[w].x] = cmd[w].home]
  /\ parts' = [parts EXCEPT ![cmd[w].x] = w]
  /\ uses' = [uses EXCEPT ![cmd[w].x] = cmd[w].uses]

UpdateSetmeal(w) ==
  /\ cmd[w].op = "UpdateSetmeal" /\ There(cmd[w].x)
  /\ author' = [author EXCEPT ![cmd[w].x] = w]
  /\ home' = [home EXCEPT ![cmd[w].x] = cmd[w].home]
  /\ parts' = [parts EXCEPT ![cmd[w].x] = w]
  /\ uses' = [uses EXCEPT ![cmd[w].x] = cmd[w].uses]

ChangeSetmealStatus(w) ==
  /\ cmd[w].op = "ChangeSetmealStatus" /\ There(cmd[w].x)
  /\ author' = [author EXCEPT ![cmd[w].x] = w]
  /\ UNCHANGED <<home, parts, uses>>

DeleteSetmeal(w) ==
  /\ cmd[w].op = "DeleteSetmeal" /\ There(cmd[w].x)
  /\ author' = [author EXCEPT ![cmd[w].x] = Gone]
  /\ parts' = [parts EXCEPT ![cmd[w].x] = Gone]
  /\ uses' = [uses EXCEPT ![cmd[w].x] = {}]
  /\ UNCHANGED home

Write(w) ==
  \/ CreateCategory(w) \/ UpdateCategory(w) \/ ChangeCategoryStatus(w) \/ DeleteCategory(w)
  \/ CreateDish(w) \/ UpdateDish(w) \/ ChangeDishStatus(w) \/ DeleteDish(w)
  \/ CreateSetmeal(w) \/ UpdateSetmeal(w) \/ ChangeSetmealStatus(w) \/ DeleteSetmeal(w)

Commit(w) ==
  /\ pc[w] = "begun"
  /\ Write(w)
  /\ Go(w, "listing")
  /\ UNCHANGED <<cache, outbox, cmd, before, due, job, todo, reading, lost, raced>>

-----------------------------------------------------------------------------
(* WriteService: the invalidation, after the commit.                       *)
Prefix(kind, c) == {k \in Key : k.kind = kind /\ c \in {All, k.home}}

InvalidateCategory(c) == <<Prefix("category", All), Prefix("dish", c), Prefix("setmeal", c)>>
InvalidateByCategory(c) == <<Prefix("category", All), Prefix("dish", c), Prefix("setmeal", c)>>
OfCategory(c) == <<Prefix("dish", c)>>     \* mutant: only the lists of the new category
InvalidateDish(c) == <<Prefix("dish", All)>> \o IF c = All THEN <<>> ELSE <<Prefix("dish", c)>>
InvalidateSetmeal(c) == <<Prefix("setmeal", All)>> \o IF c = All THEN <<>> ELSE <<Prefix("setmeal", c)>>

Scope(w) ==
  CASE cmd[w].op = "CreateCategory" -> InvalidateCategory(cmd[w].x)
    [] cmd[w].op \in {"UpdateCategory", "ChangeCategoryStatus", "DeleteCategory"} ->
         InvalidateByCategory(cmd[w].x)
    [] cmd[w].op \in {"CreateDish", "UpdateDish", "ChangeDishStatus", "DeleteDish"} ->
         InvalidateDish(cmd[w].home)
    [] cmd[w].op \in {"CreateSetmeal", "UpdateSetmeal", "ChangeSetmealStatus", "DeleteSetmeal"} ->
         InvalidateSetmeal(cmd[w].home)

KeysOf(prefixes) == UNION {prefixes[i] : i \in DOMAIN prefixes}

(* RunOnce of the outbox reads some of it: the retries wait for their      *)
(* delay, and the read may fail.                                           *)
ListDue(w) ==
  /\ pc[w] = "listing"
  /\ \E some \in SUBSET outbox : due' = [due EXCEPT ![w] = some]
  /\ Go(w, "draining")
  /\ UNCHANGED <<tables, cache, outbox, cmd, before, job, todo, reading, lost, raced>>

Dispatch(w, v) ==
  /\ job' = [job EXCEPT ![w] = v]
  /\ todo' = [todo EXCEPT ![w] = Scope(v)]
  /\ Go(w, "deleting")

(* ZREM decides who runs a task; the others go on with their next.         *)
RunTask(w) ==
  /\ pc[w] = "draining"
  /\ \E v \in due[w] :
       /\ due' = [due EXCEPT ![w] = @ \ {v}]
       /\ IF v \in outbox
            THEN outbox' = outbox \ {v} /\ Dispatch(w, v)
            ELSE UNCHANGED <<outbox, job, todo, pc>>
  /\ UNCHANGED <<tables, cache, cmd, before, reading, lost, raced>>

(* The answer of ZREM is lost: the task is out, and nobody runs it.        *)
LoseTask(w) ==
  /\ pc[w] = "draining"
  /\ \E v \in due[w] \cap outbox :
       /\ due' = [due EXCEPT ![w] = @ \ {v}]
       /\ outbox' = outbox \ {v}
       /\ lost' = lost \cup KeysOf(Scope(v))
  /\ UNCHANGED <<tables, cache, pc, cmd, before, job, todo, reading, raced>>

(* After its last task, or when a ZREM failed, RunOnce returns.            *)
RunOwn(w) ==
  /\ pc[w] = "draining"
  /\ due' = [due EXCEPT ![w] = {}]
  /\ Dispatch(w, w)
  /\ UNCHANGED <<tables, cache, outbox, cmd, before, reading, lost, raced>>

(* SCAN and a DEL for each key: each at its own moment, but every other     *)
(* step looks at one key only.  A failure leaves any of them.              *)
Delete(keys) ==
  /\ cache' = [k \in Key |-> IF k \in keys THEN NoEntry ELSE cache[k]]
  /\ lost' = lost \ keys
  /\ raced' = raced \ keys

After(w) == IF job[w] = w THEN "done" ELSE "draining"

DeleteByPrefix(w) ==
  /\ pc[w] = "deleting"
  /\ Delete(Head(todo[w]))
  /\ todo' = [todo EXCEPT ![w] = Tail(@)]
  /\ IF Tail(todo[w]) = <<>>
       THEN Go(w, After(w)) /\ job' = [job EXCEPT ![w] = w]
       ELSE UNCHANGED <<pc, job>>
  /\ UNCHANGED <<tables, outbox, cmd, before, due, reading>>

Requeued(w) == outbox \cup {job[w]}

(* Redis fails: the whole task goes to the outbox, which is in Redis too.  *)
DeleteFails(w) ==
  /\ pc[w] = "deleting"
  /\ \E keys \in SUBSET Head(todo[w]) : Delete(keys)
  /\ outbox' = Requeued(w)
  /\ todo' = [todo EXCEPT ![w] = <<>>]
  /\ job' = [job EXCEPT ![w] = w]
  /\ Go(w, After(w))
  /\ UNCHANGED <<tables, cmd, before, due, reading>>

(* What w has still to delete: the rest of the task in hand and, unless    *)
(* that is its own, all of its own.                                        *)
Unfinished(w) ==
  KeysOf(todo[w]) \cup IF pc[w] \in {"listing", "draining"} \/ job[w] # w THEN KeysOf(Scope(w)) ELSE {}

(* Enqueue fails as well: what is not deleted stays.                       *)
EnqueueFails(w) ==
  /\ pc[w] = "deleting"
  /\ \E keys \in SUBSET Head(todo[w]) :
       /\ cache' = [k \in Key |-> IF k \in keys THEN NoEntry ELSE cache[k]]
       /\ lost' = (lost \cup KeysOf(todo[w])) \ keys
       /\ raced' = raced \ keys
  /\ todo' = [todo EXCEPT ![w] = <<>>]
  /\ job' = [job EXCEPT ![w] = w]
  /\ Go(w, After(w))
  /\ UNCHANGED <<tables, outbox, cmd, before, due, reading>>

(* The process dies, or has not heard that it committed: no invalidation   *)
(* follows.                                                                *)
Stop(w) ==
  /\ pc[w] \in {"listing", "draining", "deleting"}
  /\ lost' = lost \cup Unfinished(w)
  /\ todo' = [todo EXCEPT ![w] = <<>>]
  /\ job' = [job EXCEPT ![w] = w]
  /\ due' = [due EXCEPT ![w] = {}]
  /\ Go(w, "stopped")
  /\ UNCHANGED <<tables, cache, outbox, cmd, before, reading, raced>>

Writing(w) ==
  \/ \E m \in Commands[w] : Begin(w, m)
  \/ Refuse(w) \/ Commit(w) \/ ListDue(w) \/ RunTask(w) \/ LoseTask(w) \/ RunOwn(w)
  \/ DeleteByPrefix(w) \/ DeleteFails(w) \/ EnqueueFails(w) \/ Stop(w)

-----------------------------------------------------------------------------
(* ReadService.  A failed GET counts as a miss, a failed SET is dropped.   *)
GoTo(r, place) == at' = [at EXCEPT ![r] = place]

Ends(r, place) ==
  /\ at' = [at EXCEPT ![r] = place]
  /\ key' = [key EXCEPT ![r] = NoEntry]
  /\ view' = [view EXCEPT ![r] = {}]

GetHits(r) ==
  /\ at[r] = "idle"
  /\ \E k \in Asked : cache[k] # NoEntry
  /\ GoTo(r, "done")
  /\ UNCHANGED <<tables, cache, outbox, writing, key, view, mutex, lost, raced>>

GetMisses(r, k) ==
  /\ at[r] = "idle"
  /\ key' = [key EXCEPT ![r] = k]
  /\ GoTo(r, "waiting")
  /\ UNCHANGED <<tables, cache, outbox, writing, view, mutex, lost, raced>>

lockKey(r) ==
  /\ at[r] = "waiting"
  /\ Mutex(r) \notin mutex
  /\ mutex' = mutex \cup {Mutex(r)}
  /\ GoTo(r, "again")
  /\ UNCHANGED <<tables, cache, outbox, writing, key, view, lost, raced>>

KeptLocked(r) ==                           \* mutant: an error forgets to unlock
  IF at[r] = "set" THEN mutex \ {Mutex(r)} ELSE mutex
Unlocked(r) == mutex \ {Mutex(r)}

GetAgain(r) ==
  /\ at[r] = "again"
  /\ \/ cache[key[r]] # NoEntry /\ Ends(r, "done") /\ mutex' = Unlocked(r)
     \/ GoTo(r, "rows") /\ UNCHANGED <<key, view, mutex>>
  /\ UNCHANGED <<tables, cache, outbox, writing, lost, raced>>

(* One query for the rows; a second one for what hangs on the products.    *)
ListRows(r) ==
  /\ at[r] = "rows"
  /\ view' = [view EXCEPT ![r] = {<<x, author[x], Seed>> : x \in Rows(key[r])}]
  /\ GoTo(r, IF key[r].kind = "category" THEN "set" ELSE "parts")
  /\ UNCHANGED <<tables, cache, outbox, writing, key, mutex, lost, raced>>

ListParts(r) ==
  /\ at[r] = "parts"
  /\ view' = [view EXCEPT ![r] = {<<e[1], e[2], parts[e[1]]>> : e \in @}]
  /\ GoTo(r, "set")
  /\ UNCHANGED <<tables, cache, outbox, writing, key, mutex, lost, raced>>

ReadFails(r) ==
  /\ at[r] \in {"rows", "parts"}
  /\ Ends(r, "failed") /\ mutex' = Unlocked(r)
  /\ UNCHANGED <<tables, cache, outbox, writing, lost, raced>>

Set(r) ==
  /\ at[r] = "set"
  /\ Ends(r, "done") /\ mutex' = Unlocked(r)
  /\ \/ /\ cache' = [cache EXCEPT ![key[r]] = view[r]]
        /\ lost' = lost \ {key[r]}
        /\ raced' = IF view[r] = List(key[r]) THEN raced \ {key[r]} ELSE raced \cup {key[r]}
     \/ UNCHANGED <<cache, lost, raced>>
  /\ UNCHANGED <<tables, outbox, writing>>

Reading(r) == lockKey(r) \/ GetAgain(r) \/ ListRows(r) \/ ListParts(r) \/ ReadFails(r) \/ Set(r)

(* The TTL ends.                                                           *)
Expire(k) ==
  /\ cache[k] # NoEntry
  /\ Delete({k})
  /\ UNCHANGED <<tables, outbox, writing, reading>>

Next ==
  \/ \E w \in Writers : Writing(w)
  \/ \E r \in Readers : Reading(r) \/ GetHits(r) \/ \E k \in Asked : GetMisses(r, k)
  \/ \E k \in Key : Expire(k)

Spec == Init /\ [][Next]_vars

-----------------------------------------------------------------------------
(* A list in Redis is what the tables say, or somebody will still delete   *)
(* it, or it was overtaken by a change before it was set, or a Redis       *)
(* failure or a crash took the invalidation away.                          *)
Pending ==
  (UNION {KeysOf(Scope(v)) : v \in outbox})
    \cup (UNION {Unfinished(w) : w \in {v \in Writers : pc[v] \in {"listing", "draining", "deleting"}}})

StaleIsExplained ==
  \A k \in Key : cache[k] \notin {NoEntry, List(k)} => k \in Pending \cup lost \cup raced

(* What was deleted was not in use: a product of a category that has gone, *)
(* and a setmeal with a dish that has gone, got it after DeleteCategory or *)
(* DeleteDish had looked.                                                  *)
OrphansCameLate ==
  \A w \in Committed :
    /\ cmd[w].op = "DeleteCategory" =>
         \A p \in Products : There(p) /\ home[p] = cmd[w].x => parts[p] \notin before[w] \cup {Seed}
    /\ cmd[w].op = "DeleteDish" =>
         \A m \in Setmeals : There(m) /\ cmd[w].x \in uses[m] => parts[m] \notin before[w] \cup {Seed}
=============================================================================
