-------------------------- MODULE CatalogLoginProofs -------------------------
(***************************************************************************)
(* Proofs about the two components that keep their state in Redis.         *)
(*                                                                         *)
(* First ProductCatalog, for any rows, writers, readers and commands: a    *)
(* commit leaves every list it changed to its own writer, whose duty to    *)
(* delete it moves to the outbox and on to whoever runs the task, and goes *)
(* only with the list, or to lost.                                         *)
(*                                                                         *)
(* Then LoginSessions, for any number of calls and accounts, with and      *)
(* without RevokeAllOnLogout: versions only grow, so the version at the    *)
(* start of a request bounds the one it compares with; a flag stays until  *)
(* its token expires; and who sets a flag raises the version or is seen    *)
(* not to have.                                                            *)
(***************************************************************************)
EXTENDS ProductCatalog, LoginSessions, TLAPS

(* An invalidation is due only to a writer that has committed, and a task  *)
(* in hand deletes no more than the lists of its writer.                   *)
TaskInv ==
  /\ outbox \subseteq Committed
  /\ \A w \in Writers : before[w] \subseteq Committed
  /\ \A w \in Writers : pc[w] # "deleting" => todo[w] = <<>>
  /\ \A w \in Writers : pc[w] = "deleting" =>
       todo[w] # <<>> /\ job[w] \in Committed /\ KeysOf(todo[w]) \subseteq KeysOf(Scope(job[w]))

(* What hangs on a product is written when the product is.                 *)
PartsInv ==
  \A p \in Products :
    /\ author[p] # Unborn => parts[p] # Unborn
    /\ There(p) => parts[p] \in Author

(* A reader has seen rows that were there.                                 *)
ViewInv ==
  /\ DOMAIN view = Readers
  /\ \A r \in Readers : at[r] = "parts" => key[r].kind # "category"
  /\ \A r \in Readers : at[r] = "parts" =>
       \A e \in view[r] : e[1] \in Products /\ e[2] \in Author /\ parts[e[1]] # Unborn
  /\ \A r \in Readers : at[r] = "set" =>
       \A e \in view[r] : e[2] \in Author /\ e[3] \in Author \cup {Gone}

(* A mutex has one owner.                                                  *)
Holding == {r \in Readers : at[r] \in {"again", "rows", "parts", "set"}}
MutexInv == \A r, q \in Holding : Mutex(r) = Mutex(q) => r = q

(* OrphansCameLate from the check on, which comes before the commit: what  *)
(* is found later is the work of a writer that had not committed.          *)
Late(w) ==
  /\ cmd[w].op = "DeleteCategory" =>
       \A p \in Products : There(p) /\ home[p] = cmd[w].x => parts[p] \notin before[w] \cup {Seed}
  /\ cmd[w].op = "DeleteDish" =>
       \A m \in Setmeals : There(m) /\ cmd[w].x \in uses[m] => parts[m] \notin before[w] \cup {Seed}
LateInv == \A w \in Writers : pc[w] \notin {"idle", "refused"} => Late(w)

CatalogInv ==
  TypeOK /\ TaskInv /\ PartsInv /\ ViewInv /\ MutexInv /\ LateInv /\ StaleIsExplained

-----------------------------------------------------------------------------
CategoryOps == {"CreateCategory", "UpdateCategory", "ChangeCategoryStatus", "DeleteCategory"}
DishOps == {"CreateDish", "UpdateDish", "ChangeDishStatus", "DeleteDish"}
SetmealOps == {"CreateSetmeal", "UpdateSetmeal", "ChangeSetmealStatus", "DeleteSetmeal"}

(* A command names a row of its own table.                                 *)
LEMMA CommandShape ==
  ASSUME NEW m \in Command
  PROVE  /\ m.home \in Categories \cup {All}
         /\ \/ m.op \in CategoryOps /\ m.x \in Categories
            \/ m.op \in DishOps /\ m.x \in Dishes
            \/ m.op \in SetmealOps /\ m.x \in Setmeals /\ m.uses \in SUBSET Dishes
<1>1. CASE m \in [op : CategoryOps, x : Categories, home : {All}, uses : {{}}]
  BY <1>1
<1>2. CASE m \in [op : {"CreateDish", "UpdateDish"}, x : Dishes, home : Categories, uses : {{}}]
  BY <1>2 DEF DishOps
<1>3. CASE m \in [op : {"UpdateDish", "ChangeDishStatus", "DeleteDish"}, x : Dishes, home : {All},
               uses : {{}}]
  BY <1>3 DEF DishOps
<1>4. CASE m \in [op : {"CreateSetmeal", "UpdateSetmeal"}, x : Setmeals, home : Categories,
               uses : SUBSET Dishes]
  BY <1>4 DEF SetmealOps
<1>5. CASE m \in [op : {"ChangeSetmealStatus", "DeleteSetmeal"}, x : Setmeals, home : {All}, uses : {{}}]
  BY <1>5 DEF SetmealOps
<1>6. CASE m \in [op : {"UpdateSetmeal"}, x : Setmeals, home : {All}, uses : SUBSET Dishes]
  BY <1>6 DEF SetmealOps
<1> QED
  BY <1>1, <1>2, <1>3, <1>4, <1>5, <1>6 DEF Command, CategoryOps

(* A writer that is not idle has a command.                                *)
LEMMA HasCommand ==
  ASSUME TypeOK, NEW w \in Writers, pc[w] # "idle"
  PROVE  cmd[w] \in Command
BY CommandsAssumption DEF TypeOK

(* What a transaction does to the tables: it writes one row, and either    *)
(* leaves what hangs on it, or replaces it in its own name, or deletes it. *)
Effect(w) ==
  /\ author' \in [Categories \cup Products -> Author \cup {Unborn, Gone}]
  /\ home' \in [Products -> Categories \cup {All}]
  /\ parts' \in [Products -> Author \cup {Unborn, Gone}]
  /\ uses' \in [Setmeals -> SUBSET Dishes]
  /\ \A y \in Categories \cup Products : y # cmd[w].x => author'[y] = author[y]
  /\ \A p \in Products :
       \/ /\ home'[p] = home[p] /\ parts'[p] = parts[p]
          /\ p \in Setmeals => uses'[p] = uses[p]
          /\ author'[p] = author[p] \/ There(p)
       \/ p = cmd[w].x /\ parts'[p] = w
       \/ p = cmd[w].x /\ author'[p] = Gone /\ parts'[p] = Gone

LEMMA CategoryEffect ==
  ASSUME TypeOK, NEW w \in Writers, cmd[w].x \in Categories,
         CreateCategory(w) \/ UpdateCategory(w) \/ ChangeCategoryStatus(w) \/ DeleteCategory(w)
  PROVE  Effect(w)
<1>1. /\ author' = [author EXCEPT ![cmd[w].x] = w] \/ author' = [author EXCEPT ![cmd[w].x] = Gone]
      /\ UNCHANGED <<home, parts, uses>>
  BY DEF CreateCategory, UpdateCategory, ChangeCategoryStatus, DeleteCategory
<1>2. cmd[w].x \notin Products /\ w \in Author
  BY KindsAssumption DEF Author
<1>3. author' \in [Categories \cup Products -> Author \cup {Unborn, Gone}]
  BY <1>1, <1>2 DEF TypeOK
<1>4. \A y \in Categories \cup Products : y # cmd[w].x => author'[y] = author[y]
  BY <1>1 DEF TypeOK
<1> QED
  BY <1>1, <1>2, <1>3, <1>4 DEF TypeOK, Effect

LEMMA DishEffect ==
  ASSUME TypeOK, NEW w \in Writers, cmd[w].x \in Dishes, cmd[w].home \in Categories \cup {All},
         CreateDish(w) \/ UpdateDish(w) \/ ChangeDishStatus(w) \/ DeleteDish(w)
  PROVE  Effect(w)
<1> DEFINE x == cmd[w].x
<1>1. x \in Products /\ x \notin Setmeals /\ w \in Author
  BY KindsAssumption DEF Products, Author
<1>2. CASE CreateDish(w) \/ UpdateDish(w)
  <2>1. /\ author' = [author EXCEPT ![x] = w] /\ home' = [home EXCEPT ![x] = cmd[w].home]
        /\ parts' = [parts EXCEPT ![x] = w] /\ uses' = uses
    BY <1>2 DEF CreateDish, UpdateDish
  <2> QED
    BY <1>1, <2>1 DEF TypeOK, Effect
<1>3. CASE ChangeDishStatus(w)
  <2>1. /\ author' = [author EXCEPT ![x] = w] /\ There(x)
        /\ home' = home /\ parts' = parts /\ uses' = uses
    BY <1>3 DEF ChangeDishStatus
  <2> QED
    BY <1>1, <2>1 DEF TypeOK, Effect
<1>4. CASE DeleteDish(w)
  <2>1. /\ author' = [author EXCEPT ![x] = Gone] /\ parts' = [parts EXCEPT ![x] = Gone]
        /\ home' = home /\ uses' = uses
    BY <1>4 DEF DeleteDish
  <2> QED
    BY <1>1, <2>1 DEF TypeOK, Effect
<1> QED
  BY <1>2, <1>3, <1>4

LEMMA SetmealEffect ==
  ASSUME TypeOK, NEW w \in Writers, cmd[w].x \in Setmeals, cmd[w].home \in Categories \cup {All},
         cmd[w].uses \in SUBSET Dishes,
         CreateSetmeal(w) \/ UpdateSetmeal(w) \/ ChangeSetmealStatus(w) \/ DeleteSetmeal(w)
  PROVE  Effect(w)
<1> DEFINE x == cmd[w].x
<1>1. x \in Products /\ w \in Author
  BY DEF Products, Author
<1>2. CASE CreateSetmeal(w) \/ UpdateSetmeal(w)
  <2>1. /\ author' = [author EXCEPT ![x] = w] /\ home' = [home EXCEPT ![x] = cmd[w].home]
        /\ parts' = [parts EXCEPT ![x] = w] /\ uses' = [uses EXCEPT ![x] = cmd[w].uses]
    BY <1>2 DEF CreateSetmeal, UpdateSetmeal
  <2> QED
    BY <1>1, <2>1 DEF TypeOK, Effect
<1>3. CASE ChangeSetmealStatus(w)
  <2>1. /\ author' = [author EXCEPT ![x] = w] /\ There(x)
        /\ home' = home /\ parts' = parts /\ uses' = uses
    BY <1>3 DEF ChangeSetmealStatus
  <2> QED
    BY <1>1, <2>1 DEF TypeOK, Effect
<1>4. CASE DeleteSetmeal(w)
  <2>1. /\ author' = [author EXCEPT ![x] = Gone] /\ parts' = [parts EXCEPT ![x] = Gone]
        /\ home' = home /\ uses' = [uses EXCEPT ![x] = {}]
    BY <1>4 DEF DeleteSetmeal
  <2> QED
    BY <1>1, <2>1 DEF TypeOK, Effect
<1> QED
  BY <1>2, <1>3, <1>4

LEMMA WriteEffect ==
  ASSUME TypeOK, NEW w \in Writers, pc[w] # "idle", Write(w)
  PROVE  Effect(w)
<1>1. cmd[w] \in Command
  BY HasCommand
<1>2. CASE cmd[w].op \in CategoryOps
  <2>1. cmd[w].x \in Categories
    BY <1>1, <1>2, CommandShape DEF CategoryOps, DishOps, SetmealOps
  <2>2. CreateCategory(w) \/ UpdateCategory(w) \/ ChangeCategoryStatus(w) \/ DeleteCategory(w)
    BY <1>2 DEF Write, CategoryOps, CreateDish, UpdateDish, ChangeDishStatus, DeleteDish,
                CreateSetmeal, UpdateSetmeal, ChangeSetmealStatus, DeleteSetmeal
  <2> QED
    BY <2>1, <2>2, CategoryEffect
<1>3. CASE cmd[w].op \in DishOps
  <2>1. cmd[w].x \in Dishes /\ cmd[w].home \in Categories \cup {All}
    BY <1>1, <1>3, CommandShape DEF CategoryOps, DishOps, SetmealOps
  <2>2. CreateDish(w) \/ UpdateDish(w) \/ ChangeDishStatus(w) \/ DeleteDish(w)
    BY <1>3 DEF Write, DishOps, CreateCategory, UpdateCategory, ChangeCategoryStatus, DeleteCategory,
                CreateSetmeal, UpdateSetmeal, ChangeSetmealStatus, DeleteSetmeal
  <2> QED
    BY <2>1, <2>2, DishEffect
<1>4. CASE cmd[w].op \in SetmealOps
  <2>1. cmd[w].x \in Setmeals /\ cmd[w].home \in Categories \cup {All} /\ cmd[w].uses \in SUBSET Dishes
    BY <1>1, <1>4, CommandShape DEF CategoryOps, DishOps, SetmealOps
  <2>2. CreateSetmeal(w) \/ UpdateSetmeal(w) \/ ChangeSetmealStatus(w) \/ DeleteSetmeal(w)
    BY <1>4 DEF Write, SetmealOps, CreateCategory, UpdateCategory, ChangeCategoryStatus, DeleteCategory,
                CreateDish, UpdateDish, ChangeDishStatus, DeleteDish
  <2> QED
    BY <2>1, <2>2, SetmealEffect
<1> QED
  BY <1>1, <1>2, <1>3, <1>4, CommandShape

-----------------------------------------------------------------------------
(* The rows that a list is made of.                                        *)
OfKind(k) ==
  CASE k.kind = "category" -> Categories
    [] k.kind = "dish" -> Dishes
    [] k.kind = "setmeal" -> Setmeals

LEMMA KeyShape ==
  ASSUME NEW k \in Key
  PROVE  k.kind \in {"category", "dish", "setmeal"} /\ (k.kind = "category" => k.home = All)
BY DEF Key

(* A list changes only with a row it is made of.                           *)
LEMMA ListFrame ==
  ASSUME NEW k \in Key, NEW x, x \notin OfKind(k),
         \A y \in Categories \cup Products : y # x => author'[y] = author[y],
         \A p \in Products : p # x => home'[p] = home[p] /\ parts'[p] = parts[p]
  PROVE  List(k)' = List(k)
<1>1. CASE k.kind = "category"
  <2>1. \A c \in Categories : author'[c] = author[c]
    BY <1>1 DEF OfKind
  <2>2. Rows(k) = ListCategories /\ Rows(k)' = ListCategories'
    BY <1>1 DEF Rows
  <2>3. ListCategories' = ListCategories
    BY <2>1 DEF ListCategories, There
  <2>4. \A c \in ListCategories : c \in Categories /\ c \notin Products
    BY KindsAssumption DEF ListCategories
  <2> QED
    BY <2>1, <2>2, <2>3, <2>4 DEF List
<1>2. CASE k.kind = "dish"
  <2>1. \A d \in Dishes : author'[d] = author[d] /\ home'[d] = home[d] /\ parts'[d] = parts[d]
    BY <1>2 DEF OfKind, Products
  <2>2. Rows(k) = ListDishes(k.home) /\ Rows(k)' = ListDishes(k.home)'
    BY <1>2 DEF Rows
  <2>3. ListDishes(k.home)' = ListDishes(k.home)
    BY <2>1 DEF ListDishes, There
  <2>4. \A d \in ListDishes(k.home) : d \in Dishes
    BY DEF ListDishes
  <2> QED
    BY <2>1, <2>2, <2>3, <2>4 DEF List
<1>3. CASE k.kind = "setmeal"
  <2>1. \A m \in Setmeals : author'[m] = author[m] /\ home'[m] = home[m] /\ parts'[m] = parts[m]
    BY <1>3 DEF OfKind, Products
  <2>2. Rows(k) = ListSetmeals(k.home) /\ Rows(k)' = ListSetmeals(k.home)'
    BY <1>3 DEF Rows
  <2>3. ListSetmeals(k.home)' = ListSetmeals(k.home)
    BY <2>1 DEF ListSetmeals, There
  <2>4. \A m \in ListSetmeals(k.home) : m \in Setmeals
    BY DEF ListSetmeals
  <2> QED
    BY <2>1, <2>2, <2>3, <2>4 DEF List
<1> QED
  BY <1>1, <1>2, <1>3, KeyShape

LEMMA PrefixType ==
  ASSUME NEW kind, NEW c
  PROVE  Prefix(kind, c) \in SUBSET Key
BY DEF Prefix

(* An invalidation is a sequence of prefixes, whatever its command.        *)
LEMMA ScopeType ==
  ASSUME NEW w \in Writers, cmd[w] \in Command
  PROVE  Scope(w) \in Seq(SUBSET Key) /\ Scope(w) # <<>>
<1>1. \A c : /\ InvalidateCategory(c) \in Seq(SUBSET Key) /\ InvalidateCategory(c) # <<>>
             /\ InvalidateByCategory(c) \in Seq(SUBSET Key) /\ InvalidateByCategory(c) # <<>>
  BY PrefixType DEF InvalidateCategory, InvalidateByCategory
<1>2. ASSUME NEW c
      PROVE  /\ InvalidateDish(c) \in Seq(SUBSET Key) /\ InvalidateDish(c) # <<>>
             /\ InvalidateSetmeal(c) \in Seq(SUBSET Key) /\ InvalidateSetmeal(c) # <<>>
  <2>1. CASE c = All
    BY <2>1, PrefixType DEF InvalidateDish, InvalidateSetmeal
  <2>2. CASE c # All
    BY <2>2, PrefixType DEF InvalidateDish, InvalidateSetmeal
  <2> QED
    BY <2>1, <2>2
<1>3. cmd[w].op \in CategoryOps \cup DishOps \cup SetmealOps
  BY CommandShape
<1> QED
  BY <1>1, <1>2, <1>3 DEF Scope, CategoryOps, DishOps, SetmealOps

LEMMA FirstOf ==
  ASSUME NEW s \in Seq(SUBSET Key), s # <<>>
  PROVE  /\ s[1] \subseteq KeysOf(s)
         /\ Head(s) = s[1] /\ Tail(s) \in Seq(SUBSET Key)
         /\ Head(s) \in SUBSET Key
         /\ KeysOf(s) = Head(s) \cup KeysOf(Tail(s))
<1>1. 1 \in DOMAIN s /\ Head(s) = s[1] /\ Head(s) \in SUBSET Key /\ Tail(s) \in Seq(SUBSET Key)
  OBVIOUS
<1>2. \A i \in DOMAIN Tail(s) : i + 1 \in DOMAIN s /\ Tail(s)[i] = s[i + 1]
  OBVIOUS
<1>3. \A i \in DOMAIN s : i = 1 \/ (i - 1 \in DOMAIN Tail(s) /\ Tail(s)[i - 1] = s[i])
  OBVIOUS
<1> QED
  BY <1>1, <1>2, <1>3 DEF KeysOf

(* The invalidation covers every list that the command may change.         *)
LEMMA ScopeCovers ==
  ASSUME NEW w \in Writers, cmd[w] \in Command, NEW k \in Key, cmd[w].x \in OfKind(k)
  PROVE  k \in KeysOf(Scope(w))
<1>0. k \in Prefix(k.kind, All)
  BY DEF Prefix
<1>1. CASE cmd[w].op \in CategoryOps
  <2>1. k.kind = "category"
    BY <1>1, CommandShape, KeyShape, KindsAssumption DEF CategoryOps, DishOps, SetmealOps, OfKind, Products
  <2>2. Scope(w)[1] = Prefix("category", All)
    BY <1>1 DEF Scope, CategoryOps, InvalidateCategory, InvalidateByCategory
  <2> QED
    BY <1>0, <2>1, <2>2, ScopeType, FirstOf
<1>2. CASE cmd[w].op \in DishOps
  <2>1. k.kind = "dish"
    BY <1>2, CommandShape, KeyShape, KindsAssumption DEF CategoryOps, DishOps, SetmealOps, OfKind, Products
  <2>2. Scope(w) = InvalidateDish(cmd[w].home)
    BY <1>2 DEF Scope, DishOps
  <2>3. InvalidateDish(cmd[w].home)[1] = Prefix("dish", All)
    BY PrefixType DEF InvalidateDish
  <2> QED
    BY <1>0, <2>1, <2>2, <2>3, ScopeType, FirstOf
<1>3. CASE cmd[w].op \in SetmealOps
  <2>1. k.kind = "setmeal"
    BY <1>3, CommandShape, KeyShape, KindsAssumption DEF CategoryOps, DishOps, SetmealOps, OfKind, Products
  <2>2. Scope(w) = InvalidateSetmeal(cmd[w].home)
    BY <1>3 DEF Scope, SetmealOps
  <2>3. InvalidateSetmeal(cmd[w].home)[1] = Prefix("setmeal", All)
    BY PrefixType DEF InvalidateSetmeal
  <2> QED
    BY <1>0, <2>1, <2>2, <2>3, ScopeType, FirstOf
<1> QED
  BY <1>1, <1>2, <1>3, CommandShape

-----------------------------------------------------------------------------
(* Types.                                                                  *)
Places == {"idle", "begun", "refused", "listing", "draining", "deleting", "done", "stopped"}

LEMMA GoType ==
  ASSUME TypeOK, NEW w \in Writers, pc[w] # "idle", NEW place \in Places \ {"idle"},
         pc' = [pc EXCEPT ![w] = place]
  PROVE  pc' \in [Writers -> Places] /\ \A v \in Writers : pc'[v] # "idle" => pc[v] # "idle"
BY DEF TypeOK, Places

(* A step of the invalidation.                                             *)
LEMMA InvalidationType ==
  ASSUME TypeOK, UNCHANGED <<tables, cmd, before, reading>>,
         pc' \in [Writers -> Places], \A v \in Writers : pc'[v] # "idle" => pc[v] # "idle",
         outbox' \subseteq Writers, due' \in [Writers -> SUBSET Writers],
         job' \in [Writers -> Writers], todo' \in [Writers -> Seq(SUBSET Key)],
         DOMAIN cache' = Key, \A k \in Key : cache'[k] \in {cache[k], NoEntry},
         lost' \subseteq Key, raced' \subseteq Key
  PROVE  TypeOK'
<1>1. /\ author' = author /\ home' = home /\ parts' = parts /\ uses' = uses
      /\ cmd' = cmd /\ before' = before /\ at' = at /\ key' = key /\ mutex' = mutex
  BY DEF tables, reading
<1>2. {Mutex(r) : r \in {q \in Readers : at[q] \in {"again", "rows", "parts", "set"}}}' =
        {Mutex(r) : r \in {q \in Readers : at[q] \in {"again", "rows", "parts", "set"}}}
  BY <1>1 DEF Mutex
<1>3. \A k \in Key : cache'[k] # NoEntry => \A e \in cache'[k] : e[2] \in Author /\ e[3] \in Author \cup {Gone}
  BY DEF TypeOK
<1> QED
  BY <1>1, <1>2, <1>3 DEF TypeOK, Places

LEMMA KeysOfType ==
  ASSUME NEW s \in Seq(SUBSET Key)
  PROVE  KeysOf(s) \subseteq Key
BY DEF KeysOf

LEMMA UnfinishedType ==
  ASSUME TypeOK, NEW w \in Writers, pc[w] # "idle"
  PROVE  Unfinished(w) \subseteq Key
<1>1. KeysOf(todo[w]) \subseteq Key
  BY KeysOfType DEF TypeOK
<1>2. KeysOf(Scope(w)) \subseteq Key
  BY HasCommand, ScopeType, KeysOfType
<1> QED
  BY <1>1, <1>2 DEF Unfinished

LEMMA BeginType ==
  ASSUME TypeOK, NEW w \in Writers, NEW m \in Commands[w], Begin(w, m)
  PROVE  TypeOK'
<1>1. /\ author' = author /\ home' = home /\ parts' = parts /\ uses' = uses
      /\ cache' = cache /\ outbox' = outbox /\ due' = due /\ job' = job /\ todo' = todo
      /\ at' = at /\ key' = key /\ mutex' = mutex /\ lost' = lost /\ raced' = raced
  BY DEF Begin, tables, reading
<1>2. m \in Command
  BY CommandsAssumption
<1>3. /\ cmd' = [cmd EXCEPT ![w] = m] /\ before' = [before EXCEPT ![w] = Committed]
      /\ pc' = [pc EXCEPT ![w] = IF Used(m) THEN "refused" ELSE "begun"]
  BY DEF Begin, Go
<1>4. /\ cmd' \in [Writers -> Command \cup {NoCommand}]
      /\ \A v \in Writers : pc'[v] # "idle" => cmd'[v] \in Commands[v]
      /\ pc' \in [Writers -> Places]
  BY <1>2, <1>3 DEF TypeOK, Places
<1>5. before' \in [Writers -> SUBSET Writers]
  BY <1>3 DEF TypeOK, Committed
<1>6. {Mutex(r) : r \in {q \in Readers : at[q] \in {"again", "rows", "parts", "set"}}}' =
        {Mutex(r) : r \in {q \in Readers : at[q] \in {"again", "rows", "parts", "set"}}}
  BY <1>1 DEF Mutex
<1> QED
  BY <1>1, <1>4, <1>5, <1>6 DEF TypeOK, Places

LEMMA CommitType ==
  ASSUME TypeOK, NEW w \in Writers, Commit(w)
  PROVE  TypeOK'
<1>1. /\ cache' = cache /\ outbox' = outbox /\ cmd' = cmd /\ before' = before
      /\ due' = due /\ job' = job /\ todo' = todo
      /\ at' = at /\ key' = key /\ mutex' = mutex /\ lost' = lost /\ raced' = raced
  BY DEF Commit, reading
<1>2. /\ pc' \in [Writers -> Places]
      /\ \A v \in Writers : pc'[v] # "idle" => pc[v] # "idle"
  BY DEF TypeOK, Commit, Go, Places
<1>3. Effect(w)
  BY WriteEffect DEF Commit
<1>4. {Mutex(r) : r \in {q \in Readers : at[q] \in {"again", "rows", "parts", "set"}}}' =
        {Mutex(r) : r \in {q \in Readers : at[q] \in {"again", "rows", "parts", "set"}}}
  BY <1>1 DEF Mutex
<1> QED
  BY <1>1, <1>2, <1>3, <1>4 DEF TypeOK, Places, Effect

LEMMA QuietType ==
  ASSUME TypeOK, NEW w \in Writers, Refuse(w) \/ ListDue(w)
  PROVE  TypeOK'
<1>1. /\ UNCHANGED <<tables, cmd, before, reading, cache, outbox, job, todo, lost, raced>>
      /\ \E place \in {"refused", "draining"} : pc' = [pc EXCEPT ![w] = place]
      /\ pc[w] # "idle"
  BY DEF Refuse, ListDue, Go
<1>2. due' \in [Writers -> SUBSET Writers]
  <2>1. due' = due \/ \E some \in SUBSET outbox : due' = [due EXCEPT ![w] = some]
    BY DEF Refuse, ListDue
  <2>2. SUBSET outbox \subseteq SUBSET Writers
    BY DEF TypeOK
  <2>3. CASE due' = due
    BY <2>3 DEF TypeOK
  <2>4. ASSUME NEW some \in SUBSET Writers, due' = [due EXCEPT ![w] = some]
        PROVE  due' \in [Writers -> SUBSET Writers]
    BY <2>4 DEF TypeOK
  <2> QED
    BY <2>1, <2>2, <2>3, <2>4
<1>3. /\ pc' \in [Writers -> Places]
      /\ \A v \in Writers : pc'[v] # "idle" => pc[v] # "idle"
  BY <1>1, GoType DEF Places
<1> QED
  BY <1>1, <1>2, <1>3, InvalidationType DEF TypeOK

LEMMA DispatchType ==
  ASSUME TypeOK, NEW w \in Writers, NEW v \in Writers, pc[v] # "idle", pc[w] # "idle", Dispatch(w, v)
  PROVE  /\ job' \in [Writers -> Writers] /\ todo' \in [Writers -> Seq(SUBSET Key)]
         /\ pc' \in [Writers -> Places]
         /\ \A u \in Writers : pc'[u] # "idle" => pc[u] # "idle"
<1>1. Scope(v) \in Seq(SUBSET Key)
  BY HasCommand, ScopeType
<1> QED
  BY <1>1 DEF TypeOK, Dispatch, Go, Places

LEMMA TaskType ==
  ASSUME TypeOK, TaskInv, NEW w \in Writers, RunTask(w) \/ LoseTask(w) \/ RunOwn(w)
  PROVE  TypeOK'
<1>1. pc[w] # "idle" /\ UNCHANGED <<tables, cmd, before, reading, cache, raced>>
  BY DEF RunTask, LoseTask, RunOwn
<1>2. \A v \in outbox : v \in Writers /\ pc[v] # "idle"
  BY DEF TaskInv, Committed
<1>3. due' \in [Writers -> SUBSET Writers]
  <2>1. \/ \E v \in due[w] : due' = [due EXCEPT ![w] = @ \ {v}]
        \/ due' = [due EXCEPT ![w] = {}]
    BY DEF RunTask, LoseTask, RunOwn
  <2>2. due[w] \in SUBSET Writers
    BY DEF TypeOK
  <2>3. \E some \in SUBSET Writers : due' = [due EXCEPT ![w] = some]
    BY <2>1, <2>2
  <2> QED
    BY <2>3 DEF TypeOK
<1>4. outbox' \subseteq Writers
  BY DEF TypeOK, RunTask, LoseTask, RunOwn
<1>5. lost' \subseteq Key
  <2>1. \A v \in outbox : KeysOf(Scope(v)) \subseteq Key
    BY <1>2, HasCommand, ScopeType, KeysOfType
  <2> QED
    BY <2>1 DEF TypeOK, RunTask, LoseTask, RunOwn
<1>6. /\ job' \in [Writers -> Writers] /\ todo' \in [Writers -> Seq(SUBSET Key)]
      /\ pc' \in [Writers -> Places]
      /\ \A u \in Writers : pc'[u] # "idle" => pc[u] # "idle"
  <2>1. \/ \E v \in outbox : Dispatch(w, v)
        \/ Dispatch(w, w)
        \/ UNCHANGED <<job, todo, pc>>
    BY DEF RunTask, LoseTask, RunOwn
  <2>2. CASE UNCHANGED <<job, todo, pc>>
    BY <2>2 DEF TypeOK, Places
  <2> QED
    BY <1>1, <1>2, <2>1, <2>2, DispatchType
<1> QED
  BY <1>1, <1>3, <1>4, <1>5, <1>6, InvalidationType DEF TypeOK

LEMMA DeletingType ==
  ASSUME TypeOK, TaskInv, NEW w \in Writers, DeleteByPrefix(w) \/ DeleteFails(w) \/ EnqueueFails(w)
  PROVE  TypeOK'
<1>1. pc[w] = "deleting" /\ UNCHANGED <<tables, cmd, before, reading, due>>
  BY DEF DeleteByPrefix, DeleteFails, EnqueueFails
<1>2. /\ todo[w] \in Seq(SUBSET Key) /\ todo[w] # <<>> /\ KeysOf(todo[w]) \subseteq Key
      /\ job[w] \in Writers
  BY <1>1, KeysOfType DEF TypeOK, TaskInv
<1>3. Tail(todo[w]) \in Seq(SUBSET Key) /\ <<>> \in Seq(SUBSET Key)
  BY <1>2, FirstOf
<1>4. todo' \in [Writers -> Seq(SUBSET Key)]
  BY <1>3 DEF TypeOK, DeleteByPrefix, DeleteFails, EnqueueFails
<1>5. job' \in [Writers -> Writers]
  BY DEF TypeOK, DeleteByPrefix, DeleteFails, EnqueueFails
<1>6. /\ pc' \in [Writers -> Places]
      /\ \A u \in Writers : pc'[u] # "idle" => pc[u] # "idle"
  <2>1. pc' = pc \/ \E place \in {"done", "draining"} : pc' = [pc EXCEPT ![w] = place]
    BY DEF DeleteByPrefix, DeleteFails, EnqueueFails, Go, After
  <2>2. pc \in [Writers -> Places]
    BY DEF TypeOK, Places
  <2> QED
    BY <1>1, <2>1, <2>2, GoType DEF Places
<1>7. outbox' \subseteq Writers
  BY <1>2 DEF TypeOK, DeleteByPrefix, DeleteFails, EnqueueFails, Requeued
<1>8. \E keys : cache' = [k \in Key |-> IF k \in keys THEN NoEntry ELSE cache[k]]
  BY DEF DeleteByPrefix, DeleteFails, EnqueueFails, Delete
<1>9. lost' \subseteq Key /\ raced' \subseteq Key
  BY <1>2 DEF TypeOK, DeleteByPrefix, DeleteFails, EnqueueFails, Delete
<1> QED
  BY <1>1, <1>4, <1>5, <1>6, <1>7, <1>8, <1>9, InvalidationType DEF TypeOK

LEMMA StopType ==
  ASSUME TypeOK, NEW w \in Writers, Stop(w)
  PROVE  TypeOK'
<1>1. pc[w] # "idle" /\ UNCHANGED <<tables, cmd, before, reading, cache, outbox, raced>>
  BY DEF Stop
<1>2. /\ pc' \in [Writers -> Places]
      /\ \A u \in Writers : pc'[u] # "idle" => pc[u] # "idle"
  BY <1>1 DEF TypeOK, Stop, Go, Places
<1>3. /\ todo' \in [Writers -> Seq(SUBSET Key)] /\ job' \in [Writers -> Writers]
      /\ due' \in [Writers -> SUBSET Writers]
  <2>1. <<>> \in Seq(SUBSET Key)
    OBVIOUS
  <2> QED
    BY <2>1 DEF TypeOK, Stop
<1>4. lost' \subseteq Key
  BY <1>1, UnfinishedType DEF TypeOK, Stop
<1> QED
  BY <1>1, <1>2, <1>3, <1>4, InvalidationType DEF TypeOK

LEMMA ExpireType ==
  ASSUME TypeOK, NEW k \in Key, Expire(k)
  PROVE  TypeOK'
<1>1. /\ UNCHANGED <<tables, outbox, pc, cmd, before, due, job, todo, reading>>
      /\ cache' = [q \in Key |-> IF q \in {k} THEN NoEntry ELSE cache[q]]
      /\ lost' = lost \ {k} /\ raced' = raced \ {k}
  BY DEF Expire, Delete, writing
<1> QED
  BY <1>1, InvalidationType DEF TypeOK, Places

-----------------------------------------------------------------------------
(* Readers: who holds a mutex, and what is known of what they have read.   *)
Seats ==
  /\ at \in [Readers -> {"idle", "waiting", "again", "rows", "parts", "set", "done", "failed"}]
  /\ key \in [Readers -> Asked \cup {NoEntry}]
  /\ \A r \in Readers : key[r] = NoEntry <=> at[r] \in {"idle", "done", "failed"}
  /\ mutex = {Mutex(r) : r \in Holding}
  /\ MutexInv

LEMMA SeatsHold == TypeOK /\ MutexInv => Seats
BY DEF TypeOK, Seats, Holding

LEMMA KeyOfReader ==
  ASSUME Seats, NEW r \in Readers, at[r] \notin {"idle", "done", "failed"}
  PROVE  key[r] \in Key /\ key[r] \in Asked
BY CommandsAssumption DEF Seats

LEMMA ReaderType ==
  ASSUME TypeOK, Seats', UNCHANGED <<tables, outbox, writing>>,
         DOMAIN cache' = Key, lost' \subseteq Key, raced' \subseteq Key,
         \A k \in Key : cache'[k] # NoEntry =>
           \A e \in cache'[k] : e[2] \in Author /\ e[3] \in Author \cup {Gone}
  PROVE  TypeOK' /\ MutexInv'
<1>1. /\ author' = author /\ home' = home /\ parts' = parts /\ uses' = uses
      /\ outbox' = outbox /\ pc' = pc /\ cmd' = cmd /\ before' = before /\ due' = due
      /\ job' = job /\ todo' = todo
  BY DEF tables, writing
<1> QED
  BY <1>1 DEF TypeOK, Seats, Holding

(* A reader that holds its mutex and keeps it, and one that lets it go.    *)
LEMMA SeatMoves ==
  ASSUME Seats, NEW r \in Holding, NEW place \in {"again", "rows", "parts", "set"},
         at' = [at EXCEPT ![r] = place], key' = key, mutex' = mutex
  PROVE  Seats'
<1>1. r \in Readers /\ Holding' = Holding
  BY DEF Seats, Holding
<1>2. \A q \in Readers : Mutex(q)' = Mutex(q)
  BY DEF Mutex
<1>3. {Mutex(q) : q \in Holding}' = {Mutex(q) : q \in Holding}
  BY <1>1, <1>2 DEF Holding
<1>4. MutexInv'
  BY <1>1, <1>2 DEF Seats, MutexInv, Holding
<1> QED
  BY <1>1, <1>3, <1>4 DEF Seats, Holding

LEMMA SeatEnds ==
  ASSUME Seats, NEW r \in Holding, NEW place \in {"done", "failed"},
         Ends(r, place), mutex' = Unlocked(r)
  PROVE  Seats'
<1>1. r \in Readers /\ Holding' = Holding \ {r}
  BY DEF Seats, Holding, Ends
<1>2. \A q \in Readers \ {r} : Mutex(q)' = Mutex(q)
  BY DEF Mutex, Ends, Seats
<1>3. {Mutex(q) : q \in Holding}' = {Mutex(q) : q \in Holding \ {r}}
  BY <1>1, <1>2 DEF Holding
<1>4. {Mutex(q) : q \in Holding \ {r}} = mutex \ {Mutex(r)}
  BY <1>1 DEF Seats, MutexInv
<1>5. MutexInv'
  BY <1>1, <1>2 DEF Seats, MutexInv, Holding
<1> QED
  BY <1>1, <1>3, <1>4, <1>5 DEF Seats, Ends, Unlocked

LEMMA SeatOutside ==
  ASSUME Seats, NEW r \in Readers, at[r] = "idle", mutex' = mutex,
         \/ at' = [at EXCEPT ![r] = "done"] /\ key' = key
         \/ at' = [at EXCEPT ![r] = "waiting"] /\ \E k \in Asked : key' = [key EXCEPT ![r] = k]
  PROVE  Seats'
<1>1. Holding' = Holding /\ r \notin Holding
  BY DEF Seats, Holding
<1>2. \A q \in Readers \ {r} : Mutex(q)' = Mutex(q)
  BY DEF Mutex, Seats
<1>3. {Mutex(q) : q \in Holding}' = {Mutex(q) : q \in Holding}
  BY <1>1, <1>2 DEF Holding
<1>4. MutexInv'
  BY <1>1, <1>2 DEF Seats, MutexInv, Holding
<1>5. \A k \in Asked : k # NoEntry
  BY NoEntryAssumption, CommandsAssumption
<1> QED
  BY <1>1, <1>3, <1>4, <1>5 DEF Seats

LEMMA SeatTaken ==
  ASSUME Seats, NEW r \in Readers, lockKey(r)
  PROVE  Seats'
<1>1. Holding' = Holding \cup {r} /\ r \notin Holding
  BY DEF Seats, Holding, lockKey, GoTo
<1>2. \A q \in Readers : Mutex(q)' = Mutex(q)
  BY DEF Mutex, lockKey
<1>3. {Mutex(q) : q \in Holding}' = {Mutex(q) : q \in Holding} \cup {Mutex(r)}
  BY <1>1, <1>2 DEF Holding
<1>4. \A q \in Holding : Mutex(q) # Mutex(r)
  BY DEF Seats, lockKey
<1>5. MutexInv'
  BY <1>1, <1>2, <1>4 DEF Seats, MutexInv, Holding
<1> QED
  BY <1>1, <1>3, <1>5 DEF Seats, lockKey, GoTo

(* What a reader has read stays true of the tables.                        *)
LEMMA ViewKept ==
  ASSUME ViewInv, view' = view, at' = at, key' = key,
         \A p \in Products : parts[p] # Unborn => parts'[p] # Unborn
  PROVE  ViewInv'
BY DEF ViewInv

LEMMA ReaderSteps ==
  ASSUME TypeOK, PartsInv, ViewInv, MutexInv, NEW r \in Readers,
         Reading(r) \/ GetHits(r) \/ \E k \in Asked : GetMisses(r, k)
  PROVE  TypeOK' /\ ViewInv' /\ MutexInv'
<1>1. Seats
  BY SeatsHold
<1>2. UNCHANGED <<tables, outbox, writing>>
  BY DEF Reading, GetHits, GetMisses, lockKey, GetAgain, ListRows, ListParts, ReadFails, Set
<1>3. author' = author /\ home' = home /\ parts' = parts
  BY <1>2 DEF tables
<1>4. Seats'
  <2>1. CASE GetHits(r)
    BY <1>1, <2>1, SeatOutside DEF GetHits, GoTo
  <2>2. CASE \E k \in Asked : GetMisses(r, k)
    BY <1>1, <2>2, SeatOutside DEF GetMisses, GoTo
  <2>3. CASE lockKey(r)
    BY <1>1, <2>3, SeatTaken
  <2>4. CASE GetAgain(r)
    <3>1. r \in Holding
      BY <2>4 DEF GetAgain, Holding
    <3> QED
      BY <1>1, <2>4, <3>1, SeatEnds, SeatMoves DEF GetAgain, GoTo
  <2>5. CASE ListRows(r) \/ ListParts(r)
    <3>1. r \in Holding
      BY <2>5 DEF ListRows, ListParts, Holding
    <3>2. \E place \in {"parts", "set"} : at' = [at EXCEPT ![r] = place]
      BY <2>5 DEF ListRows, ListParts, GoTo
    <3> QED
      BY <1>1, <2>5, <3>1, <3>2, SeatMoves DEF ListRows, ListParts
  <2>6. CASE ReadFails(r) \/ Set(r)
    <3>1. r \in Holding
      BY <2>6 DEF ReadFails, Set, Holding
    <3> QED
      BY <1>1, <2>6, <3>1, SeatEnds DEF ReadFails, Set
  <2> QED
    BY <2>1, <2>2, <2>3, <2>4, <2>5, <2>6 DEF Reading
<1>5. /\ DOMAIN cache' = Key /\ lost' \subseteq Key /\ raced' \subseteq Key
      /\ \A k \in Key : cache'[k] # NoEntry =>
           \A e \in cache'[k] : e[2] \in Author /\ e[3] \in Author \cup {Gone}
  <2>1. CASE UNCHANGED <<cache, lost, raced>>
    BY <2>1 DEF TypeOK
  <2>2. CASE Set(r)
    <3>1. at[r] = "set" /\ key[r] \in Key
      BY <1>1, <2>2, KeyOfReader DEF Set
    <3>2. CASE cache' = [cache EXCEPT ![key[r]] = view[r]]
      <4>1. DOMAIN cache' = Key /\ \A k \in Key : cache'[k] = IF k = key[r] THEN view[r] ELSE cache[k]
        BY <3>1, <3>2 DEF TypeOK
      <4>2. lost' \subseteq Key /\ raced' \subseteq Key
        BY <2>2, <3>1 DEF TypeOK, Set
      <4> QED
        BY <3>1, <4>1, <4>2 DEF TypeOK, ViewInv
    <3> QED
      BY <2>1, <2>2, <3>2 DEF Set
  <2> QED
    BY <2>1, <2>2 DEF Reading, GetHits, GetMisses, lockKey, GetAgain, ListRows, ListParts, ReadFails
<1>6. TypeOK' /\ MutexInv'
  BY <1>2, <1>4, <1>5, ReaderType
<1>7. ViewInv'
  <2>1. CASE ListRows(r)
    <3>1. key[r] \in Key /\ key' = key
      BY <1>1, <2>1, KeyOfReader DEF ListRows
    <3>2. /\ DOMAIN view' = Readers
          /\ view'[r] = {<<x, author[x], Seed>> : x \in Rows(key[r])}
          /\ \A q \in Readers : q # r => view'[q] = view[q]
      BY <2>1 DEF ViewInv, ListRows
    <3>3. /\ at'[r] = IF key[r].kind = "category" THEN "set" ELSE "parts"
          /\ \A q \in Readers : q # r => at'[q] = at[q]
      BY <2>1 DEF TypeOK, ListRows, GoTo
    <3>4. ASSUME NEW x \in Rows(key[r])
          PROVE  There(x) /\ (key[r].kind # "category" => x \in Products)
      BY <3>1, KeyShape DEF Rows, ListCategories, ListDishes, ListSetmeals, Products
    <3>5. \A e \in view'[r] : e[2] \in Author /\ e[3] \in Author
      BY <3>2, <3>4 DEF There, Author
    <3>6. key[r].kind # "category" => \A e \in view'[r] : e[1] \in Products /\ parts[e[1]] # Unborn
      BY <3>2, <3>4, AuthorsAssumption DEF PartsInv
    <3> QED
      BY <1>3, <3>1, <3>2, <3>3, <3>5, <3>6 DEF ViewInv
  <2>2. CASE ListParts(r)
    <3>1. /\ DOMAIN view' = Readers
          /\ view'[r] = {<<e[1], e[2], parts[e[1]]>> : e \in view[r]}
          /\ \A q \in Readers : q # r => view'[q] = view[q]
      BY <2>2 DEF ViewInv, ListParts
    <3>2. at[r] = "parts" /\ at'[r] = "set" /\ \A q \in Readers : q # r => at'[q] = at[q]
      BY <2>2 DEF TypeOK, ListParts, GoTo
    <3>3. \A p \in Products : parts[p] # Unborn => parts[p] \in Author \cup {Gone}
      BY DEF TypeOK
    <3>4. \A e \in view'[r] : e[2] \in Author /\ e[3] \in Author \cup {Gone}
      BY <3>1, <3>2, <3>3 DEF ViewInv
    <3>5. key' = key
      BY <2>2 DEF ListParts
    <3> QED
      BY <1>3, <3>1, <3>2, <3>4, <3>5 DEF ViewInv
  <2>3. CASE ~ListRows(r) /\ ~ListParts(r)
    <3>1. at'[r] \notin {"parts", "set"} /\ \A q \in Readers : q # r => at'[q] = at[q] /\ key'[q] = key[q]
      BY <2>3 DEF TypeOK, Reading, GetHits, GetMisses, lockKey, GetAgain, ReadFails, Set, Ends, GoTo
    <3>2. DOMAIN view' = Readers /\ \A q \in Readers : q # r => view'[q] = view[q]
      BY <2>3 DEF ViewInv, Reading, GetHits, GetMisses, lockKey, GetAgain, ReadFails, Set, Ends
    <3> QED
      BY <1>3, <3>1, <3>2 DEF ViewInv
  <2> QED
    BY <2>1, <2>2, <2>3
<1> QED
  BY <1>6, <1>7

-----------------------------------------------------------------------------
(* The invalidations that are due.                                         *)
LEMMA ScopeKept ==
  ASSUME NEW v \in Writers, cmd'[v] = cmd[v]
  PROVE  Scope(v)' = Scope(v)
BY DEF Scope

LEMMA TaskStep ==
  ASSUME TypeOK, TaskInv, NEW w \in Writers,
         \A v \in Writers \ {w} : /\ pc'[v] = pc[v] /\ todo'[v] = todo[v]
                                  /\ job'[v] = job[v] /\ before'[v] = before[v],
         \A v \in Committed : cmd'[v] = cmd[v],
         Committed \subseteq Committed', outbox' \subseteq Committed', before'[w] \subseteq Committed',
         pc'[w] # "deleting" => todo'[w] = <<>>,
         pc'[w] = "deleting" =>
           todo'[w] # <<>> /\ job'[w] \in Committed /\ KeysOf(todo'[w]) \subseteq KeysOf(Scope(job'[w]))
  PROVE  TaskInv'
<1>1. \A v \in Writers : before'[v] \subseteq Committed'
  BY DEF TaskInv
<1>2. \A v \in Writers : pc'[v] # "deleting" => todo'[v] = <<>>
  BY DEF TaskInv
<1>3. ASSUME NEW v \in Writers, pc'[v] = "deleting"
      PROVE  /\ todo'[v] # <<>> /\ job'[v] \in Committed
             /\ KeysOf(todo'[v]) \subseteq KeysOf(Scope(job'[v]))
  BY <1>3 DEF TaskInv
<1>4. \A v \in Committed : Scope(v)' = Scope(v)
  BY ScopeKept DEF Committed
<1>5. ASSUME NEW v \in Writers, pc'[v] = "deleting"
      PROVE  /\ todo'[v] # <<>> /\ job'[v] \in Committed'
             /\ KeysOf(todo[v])' \subseteq KeysOf(Scope(job[v]))'
  <2> DEFINE j == job'[v]
  <2>1. Scope(job[v])' = Scope(j)
    BY <1>3, <1>5, <1>4 DEF Scope
  <2> QED
    BY <1>3, <1>5, <2>1 DEF KeysOf
<1> QED
  BY <1>1, <1>2, <1>5 DEF TaskInv

LEMMA WriterTasks ==
  ASSUME TypeOK, TaskInv, NEW w \in Writers, Writing(w)
  PROVE  TaskInv'
<1>1. ASSUME NEW m \in Commands[w], Begin(w, m)
      PROVE  TaskInv'
  <2>1. /\ outbox' = outbox /\ todo' = todo /\ job' = job /\ w \notin Committed
        /\ pc[w] = "idle" /\ pc'[w] \in {"begun", "refused"}
        /\ \A v \in Writers \ {w} : pc'[v] = pc[v] /\ before'[v] = before[v] /\ cmd'[v] = cmd[v]
        /\ before'[w] = Committed
    BY <1>1 DEF Begin, Go, TypeOK, Committed
  <2>2. Committed' = Committed
    BY <2>1 DEF Committed
  <2>3. \A v \in Committed : cmd'[v] = cmd[v]
    BY <2>1 DEF Committed
  <2>4. pc'[w] # "deleting" /\ todo'[w] = <<>> /\ before'[w] \subseteq Committed'
    BY <2>1, <2>2 DEF TaskInv
  <2>5. outbox' \subseteq Committed'
    BY <2>1, <2>2 DEF TaskInv
  <2> QED
    BY <2>1, <2>2, <2>3, <2>4, <2>5, TaskStep
<1>2. CASE Refuse(w) \/ Commit(w)
  <2>1. /\ outbox' = outbox /\ todo' = todo /\ job' = job /\ before' = before /\ cmd' = cmd
        /\ pc[w] = "begun" /\ pc'[w] \in {"listing", "refused"}
        /\ \A v \in Writers \ {w} : pc'[v] = pc[v]
    BY <1>2 DEF Refuse, Commit, Go, TypeOK
  <2>2. Committed \subseteq Committed'
    BY <2>1 DEF Committed
  <2>3. outbox' \subseteq Committed' /\ before'[w] \subseteq Committed' /\ todo'[w] = <<>>
    BY <2>1, <2>2 DEF TaskInv
  <2> QED
    BY <2>1, <2>2, <2>3, TaskStep
<1>3. CASE ListDue(w)
  <2>1. /\ outbox' = outbox /\ todo' = todo /\ job' = job /\ before' = before /\ cmd' = cmd
        /\ pc[w] = "listing" /\ pc'[w] = "draining"
        /\ \A v \in Writers \ {w} : pc'[v] = pc[v]
    BY <1>3 DEF ListDue, Go, TypeOK
  <2>2. Committed \subseteq Committed'
    BY <2>1 DEF Committed
  <2>3. outbox' \subseteq Committed' /\ before'[w] \subseteq Committed' /\ todo'[w] = <<>>
    BY <2>1, <2>2 DEF TaskInv
  <2> QED
    BY <2>1, <2>2, <2>3, TaskStep
<1>4. CASE RunTask(w) \/ LoseTask(w) \/ RunOwn(w)
  <2>1. /\ outbox' \subseteq outbox /\ before' = before /\ cmd' = cmd /\ pc[w] = "draining"
        /\ \/ UNCHANGED <<job, todo, pc>>
           \/ \E v \in outbox \cup {w} : Dispatch(w, v)
    BY <1>4 DEF RunTask, LoseTask, RunOwn
  <2>2. outbox \cup {w} \subseteq Committed
    BY <2>1 DEF TaskInv, Committed
  <2>3. CASE UNCHANGED <<job, todo, pc>>
    <3>1. Committed' = Committed /\ pc'[w] # "deleting" /\ todo'[w] = <<>>
      BY <2>1, <2>3 DEF Committed, TaskInv
    <3>2. outbox' \subseteq Committed' /\ before'[w] \subseteq Committed'
      BY <2>1, <3>1 DEF TaskInv
    <3> QED
      BY <2>1, <2>3, <3>1, <3>2, TaskStep
  <2>4. ASSUME NEW v \in outbox \cup {w}, Dispatch(w, v)
        PROVE  TaskInv'
    <3>1. /\ pc'[w] = "deleting" /\ job'[w] = v /\ todo'[w] = Scope(v)
          /\ \A u \in Writers \ {w} : pc'[u] = pc[u] /\ todo'[u] = todo[u] /\ job'[u] = job[u]
      BY <2>4 DEF Dispatch, Go, TypeOK
    <3>2. v \in Writers /\ v \in Committed /\ Scope(v) # <<>>
      BY <2>2, HasCommand, ScopeType DEF Committed
    <3>3. Committed \subseteq Committed'
      BY <2>1, <3>1 DEF Committed
    <3>4. outbox' \subseteq Committed' /\ before'[w] \subseteq Committed'
      BY <2>1, <3>3 DEF TaskInv
    <3> QED
      BY <2>1, <3>1, <3>2, <3>3, <3>4, TaskStep
  <2> QED
    BY <2>1, <2>3, <2>4
<1>5. CASE DeleteByPrefix(w) \/ DeleteFails(w) \/ EnqueueFails(w) \/ Stop(w)
  <2>1. /\ before' = before /\ cmd' = cmd /\ pc[w] \in {"listing", "draining", "deleting"}
        /\ \A v \in Writers \ {w} : pc'[v] = pc[v] /\ todo'[v] = todo[v] /\ job'[v] = job[v]
    BY <1>5 DEF DeleteByPrefix, DeleteFails, EnqueueFails, Stop, Go, TypeOK
  <2>2. \/ pc'[w] \in {"done", "draining", "stopped"} /\ todo'[w] = <<>>
        \/ /\ pc'[w] = "deleting" /\ job'[w] = job[w] /\ pc[w] = "deleting"
           /\ todo'[w] = Tail(todo[w]) /\ todo'[w] # <<>>
    <3>1. CASE DeleteByPrefix(w)
      BY <3>1 DEF DeleteByPrefix, Go, After, TypeOK
    <3>2. CASE DeleteFails(w) \/ EnqueueFails(w)
      BY <3>2 DEF DeleteFails, EnqueueFails, Go, After, TypeOK
    <3>3. CASE Stop(w)
      BY <3>3 DEF Stop, Go, TypeOK
    <3> QED
      BY <1>5, <3>1, <3>2, <3>3
  <2>3. Committed \subseteq Committed'
    BY <2>1, <2>2 DEF Committed
  <2>4. outbox' \subseteq outbox \cup {job[w]} /\ (outbox' \subseteq outbox \/ pc[w] = "deleting")
    BY <1>5 DEF DeleteByPrefix, DeleteFails, EnqueueFails, Stop, Requeued
  <2>5. outbox' \subseteq Committed' /\ before'[w] \subseteq Committed'
    BY <2>1, <2>3, <2>4 DEF TaskInv
  <2>6. pc'[w] = "deleting" =>
          job'[w] \in Committed /\ KeysOf(todo'[w]) \subseteq KeysOf(Scope(job'[w]))
    <3> SUFFICES ASSUME pc'[w] = "deleting"
                 PROVE  job[w] \in Committed /\ KeysOf(Tail(todo[w])) \subseteq KeysOf(Scope(job[w]))
      BY <2>2
    <3>1. /\ todo[w] # <<>> /\ job[w] \in Committed
          /\ KeysOf(todo[w]) \subseteq KeysOf(Scope(job[w]))
      BY <2>2 DEF TaskInv
    <3>2. KeysOf(Tail(todo[w])) \subseteq KeysOf(todo[w])
      BY <3>1, FirstOf DEF TypeOK
    <3> QED
      BY <3>1, <3>2
  <2> QED
    BY <2>1, <2>2, <2>3, <2>5, <2>6, TaskStep
<1> QED
  BY <1>1, <1>2, <1>3, <1>4, <1>5 DEF Writing

-----------------------------------------------------------------------------
(* What no step but a commit changes, and what a commit does to it.        *)
LEMMA TaskKept ==
  ASSUME TaskInv, outbox' = outbox, UNCHANGED writing
  PROVE  TaskInv'
<1>1. pc' = pc /\ cmd' = cmd /\ before' = before /\ job' = job /\ todo' = todo
  BY DEF writing
<1>2. Committed' = Committed
  BY <1>1 DEF Committed
<1>3. ASSUME NEW w \in Writers, pc'[w] = "deleting"
      PROVE  /\ todo'[w] # <<>> /\ job'[w] \in Committed'
             /\ KeysOf(todo[w])' \subseteq KeysOf(Scope(job[w]))'
  <2> DEFINE j == job[w]
             s == todo[w]
  <2>1. Scope(job[w])' = Scope(j) /\ todo'[w] = s
    BY <1>1 DEF Scope
  <2>2. s # <<>> /\ j \in Committed /\ KeysOf(s) \subseteq KeysOf(Scope(j))
    BY <1>1, <1>3 DEF TaskInv
  <2>3. KeysOf(todo[w])' = KeysOf(s) /\ KeysOf(Scope(job[w]))' = KeysOf(Scope(j))
    BY <2>1 DEF KeysOf
  <2> QED
    BY <1>1, <1>2, <2>2, <2>3
<1> QED
  BY <1>1, <1>2, <1>3 DEF TaskInv

LEMMA QuietTables ==
  ASSUME PartsInv, ViewInv, MutexInv, UNCHANGED <<tables, reading>>
  PROVE  PartsInv' /\ ViewInv' /\ MutexInv'
<1>1. author' = author /\ parts' = parts /\ at' = at /\ key' = key /\ view' = view
  BY DEF tables, reading
<1> QED
  BY <1>1 DEF PartsInv, ViewInv, MutexInv, Holding, Mutex, There

LEMMA CommitTables ==
  ASSUME TypeOK, PartsInv, ViewInv, MutexInv, NEW w \in Writers, Commit(w)
  PROVE  PartsInv' /\ ViewInv' /\ MutexInv'
<1>1. Effect(w) /\ at' = at /\ key' = key /\ view' = view
  BY WriteEffect DEF Commit, reading
<1>2. w \in Author /\ Unborn \notin Author /\ Gone \notin Author /\ Gone # Unborn
  BY AuthorsAssumption DEF Author
<1>3. PartsInv'
  BY <1>1, <1>2 DEF PartsInv, Effect, There
<1>4. \A p \in Products : parts[p] # Unborn => parts'[p] # Unborn
  BY <1>1, <1>2 DEF Effect
<1>5. MutexInv'
  BY <1>1 DEF MutexInv, Holding, Mutex
<1> QED
  BY <1>1, <1>3, <1>4, <1>5, ViewKept

LEMMA LateKept ==
  ASSUME LateInv, UNCHANGED tables,
         \A v \in Writers : pc'[v] \notin {"idle", "refused"} =>
           pc[v] \notin {"idle", "refused"} /\ cmd'[v] = cmd[v] /\ before'[v] = before[v]
  PROVE  LateInv'
<1>1. author' = author /\ home' = home /\ parts' = parts /\ uses' = uses
  BY DEF tables
<1> QED
  BY <1>1 DEF LateInv, Late, There

(* The check of a delete finds nothing, or refuses it.                     *)
LEMMA LateBegin ==
  ASSUME TypeOK, LateInv, NEW w \in Writers, NEW m \in Commands[w], Begin(w, m)
  PROVE  LateInv'
<1>1. /\ author' = author /\ home' = home /\ parts' = parts /\ uses' = uses
      /\ cmd'[w] = m /\ pc'[w] = (IF Used(m) THEN "refused" ELSE "begun")
      /\ \A v \in Writers \ {w} : cmd'[v] = cmd[v] /\ before'[v] = before[v] /\ pc'[v] = pc[v]
  BY DEF Begin, Go, TypeOK, tables
<1>2. \A v \in Writers \ {w} : Late(v)' <=> Late(v)
  BY <1>1 DEF Late, There
<1>3. ~Used(m) => Late(w)'
  BY <1>1 DEF Used, Late, There, Products, ExistsCategoryUsedByDish, ExistsCategoryUsedBySetmeal,
              ExistsDishUsedBySetmeal
<1> QED
  BY <1>1, <1>2, <1>3 DEF LateInv

(* A product that comes to use what is deleted has an author that had not  *)
(* committed when the delete began.                                        *)
LEMMA LateCommit ==
  ASSUME TypeOK, TaskInv, LateInv, NEW w \in Writers, Commit(w)
  PROVE  LateInv'
<1>1. Effect(w) /\ cmd' = cmd /\ before' = before /\ pc[w] = "begun"
  BY WriteEffect DEF Commit
<1>2. \A v \in Writers : pc'[v] \notin {"idle", "refused"} => pc[v] \notin {"idle", "refused"}
  BY DEF Commit, Go, TypeOK
<1>3. \A v \in Writers : w \notin before[v] \cup {Seed}
  BY <1>1, AuthorsAssumption DEF TaskInv, Committed
<1>4. ASSUME NEW p \in Products, There(p)'
      PROVE  \/ parts'[p] = w
             \/ /\ There(p) /\ home'[p] = home[p] /\ parts'[p] = parts[p]
                /\ p \in Setmeals => uses'[p] = uses[p]
  BY <1>1, <1>4, AuthorsAssumption DEF Effect, There
<1>5. ASSUME NEW v \in Writers, Late(v)
      PROVE  Late(v)'
  <2>1. cmd[v].op = "DeleteCategory" =>
          \A p \in Products : There(p)' /\ home'[p] = cmd[v].x => parts'[p] \notin before[v] \cup {Seed}
    BY <1>3, <1>4, <1>5 DEF Late
  <2>2. cmd[v].op = "DeleteDish" =>
          \A m \in Setmeals : There(m)' /\ cmd[v].x \in uses'[m] => parts'[m] \notin before[v] \cup {Seed}
    BY <1>3, <1>4, <1>5 DEF Late, Products
  <2> QED
    BY <1>1, <2>1, <2>2 DEF Late
<1> QED
  BY <1>2, <1>5 DEF LateInv

-----------------------------------------------------------------------------
(* A list that is not what the tables say.                                 *)
Running(w) == pc[w] \in {"listing", "draining", "deleting"}
Queued(k) == \E v \in outbox : k \in KeysOf(Scope(v))
InHand(k) == \E w \in Writers : Running(w) /\ k \in Unfinished(w)
Explained(k) == Queued(k) \/ InHand(k) \/ k \in lost \/ k \in raced

LEMMA PendingForm ==
  /\ \A k : k \in Pending <=> Queued(k) \/ InHand(k)
  /\ \A k : k \in Pending' <=> Queued(k)' \/ InHand(k)'
<1> DEFINE Out == UNION {KeysOf(Scope(v)) : v \in outbox}
           In == UNION {Unfinished(w) : w \in {v \in Writers : pc[v] \in {"listing", "draining", "deleting"}}}
<1>1. \A k : /\ k \in Out <=> Queued(k)
             /\ k \in Out' <=> Queued(k)'
  BY DEF Queued
<1>2. \A k : k \in In <=> InHand(k)
  BY DEF InHand, Running
<1>3. \A k : k \in In' <=> InHand(k)'
  BY DEF InHand, Running
<1> QED
  BY <1>1, <1>2, <1>3 DEF Pending

LEMMA StaleForm ==
  /\ StaleIsExplained <=> \A k \in Key : cache[k] \notin {NoEntry, List(k)} => Explained(k)
  /\ StaleIsExplained' <=> \A k \in Key : cache'[k] \notin {NoEntry, List(k)'} => Explained(k)'
BY PendingForm DEF StaleIsExplained, Explained

LEMMA UnfinishedKept ==
  ASSUME NEW v \in Writers, pc'[v] = pc[v], todo'[v] = todo[v], job'[v] = job[v], cmd'[v] = cmd[v]
  PROVE  Unfinished(v)' = Unfinished(v)
BY ScopeKept DEF Unfinished, KeysOf

LEMMA ListKept ==
  ASSUME UNCHANGED tables, NEW k \in Key
  PROVE  List(k)' = List(k)
<1>1. author' = author /\ home' = home /\ parts' = parts
  BY DEF tables
<1> QED
  BY <1>1 DEF List, Rows, ListCategories, ListDishes, ListSetmeals, There

(* A step of the writer w that sets no list: whatever explained a list     *)
(* that it leaves still does, or w itself accounts for it.                 *)
LEMMA StaleStep ==
  ASSUME TypeOK, StaleIsExplained, NEW w \in Writers, UNCHANGED tables,
         \A v \in Writers \ {w} : /\ pc'[v] = pc[v] /\ todo'[v] = todo[v]
                                  /\ job'[v] = job[v] /\ cmd'[v] = cmd[v],
         ASSUME NEW k \in Key, cache'[k] # NoEntry
         PROVE  /\ cache'[k] = cache[k]
                /\ k \in lost => k \in lost'
                /\ k \in raced => k \in raced'
                /\ Queued(k) => Explained(k)'
                /\ Running(w) /\ k \in Unfinished(w) => Explained(k)'
  PROVE  StaleIsExplained'
<1> SUFFICES ASSUME NEW k \in Key, cache'[k] \notin {NoEntry, List(k)'}
             PROVE  Explained(k)'
  BY StaleForm
<1>1. Explained(k)
  BY ListKept, StaleForm
<1>2. ASSUME NEW v \in Writers \ {w}, Running(v), k \in Unfinished(v)
      PROVE  Explained(k)'
  <2>1. Unfinished(v)' = Unfinished(v)
    BY <1>2, UnfinishedKept
  <2> QED
    BY <1>2, <2>1 DEF Explained, InHand, Running
<1> QED
  BY <1>1, <1>2 DEF Explained, InHand

(* A task leaves the outbox to be carried out, and not for another.        *)
LEMMA QueueKept ==
  ASSUME cmd' = cmd, outbox \subseteq outbox', NEW k, Queued(k)
  PROVE  Queued(k)'
<1>1. \A v : Scope(v)' = Scope(v)
  BY DEF Scope
<1> QED
  BY <1>1 DEF Queued

LEMMA QueueLeaves ==
  ASSUME cmd' = cmd, NEW k, Queued(k), NEW left, outbox \ {left} \subseteq outbox'
  PROVE  Queued(k)' \/ (left \in outbox /\ k \in KeysOf(Scope(left)))
<1>1. \A v : Scope(v)' = Scope(v)
  BY DEF Scope
<1> QED
  BY <1>1 DEF Queued

LEMMA StaleBegin ==
  ASSUME TypeOK, TaskInv, StaleIsExplained, NEW w \in Writers, NEW m \in Commands[w], Begin(w, m)
  PROVE  StaleIsExplained'
<1>1. /\ UNCHANGED tables /\ pc[w] = "idle" /\ cache' = cache /\ lost' = lost /\ raced' = raced
      /\ outbox' = outbox
      /\ \A v \in Writers \ {w} : /\ pc'[v] = pc[v] /\ todo'[v] = todo[v]
                               /\ job'[v] = job[v] /\ cmd'[v] = cmd[v]
  BY DEF Begin, Go, TypeOK
<1>2. \A v \in outbox : v \in Writers \ {w}
  BY <1>1 DEF TaskInv, Committed
<1>3. ASSUME NEW k, Queued(k)
      PROVE  Queued(k)'
  <2>1. PICK v \in outbox : k \in KeysOf(Scope(v))
    BY <1>3 DEF Queued
  <2>2. Scope(v)' = Scope(v)
    BY <1>1, <1>2, ScopeKept
  <2> QED
    BY <1>1, <2>1, <2>2 DEF Queued, KeysOf
<1>4. ~Running(w)
  BY <1>1 DEF Running
<1> QED
  BY <1>1, <1>3, <1>4, StaleStep DEF Explained

LEMMA StaleCommit ==
  ASSUME TypeOK, TaskInv, StaleIsExplained, NEW w \in Writers, Commit(w)
  PROVE  StaleIsExplained'
<1> SUFFICES ASSUME NEW k \in Key, cache'[k] \notin {NoEntry, List(k)'}
             PROVE  Explained(k)'
  BY StaleForm
<1>1. /\ Effect(w) /\ pc[w] = "begun" /\ pc'[w] = "listing" /\ cmd[w] \in Command
      /\ cache' = cache /\ lost' = lost /\ raced' = raced
      /\ outbox' = outbox /\ todo' = todo /\ job' = job /\ cmd' = cmd
      /\ \A v \in Writers \ {w} : pc'[v] = pc[v]
  BY WriteEffect, HasCommand DEF Commit, Go, TypeOK
<1>2. CASE cmd[w].x \in OfKind(k)
  <2>1. k \in KeysOf(Scope(w))
    BY <1>1, <1>2, ScopeCovers
  <2>2. Scope(w)' = Scope(w)
    BY <1>1, ScopeKept
  <2>3. k \in Unfinished(w)'
    BY <1>1, <2>1, <2>2 DEF Unfinished, KeysOf
  <2> QED
    BY <1>1, <2>3 DEF Explained, InHand, Running
<1>3. CASE cmd[w].x \notin OfKind(k)
  <2>1. List(k)' = List(k)
    BY <1>1, <1>3, ListFrame DEF Effect
  <2>2. Explained(k)
    BY <1>1, <2>1, StaleForm
  <2>3. Queued(k) => Queued(k)'
    BY <1>1, QueueKept
  <2>4. ASSUME NEW v \in Writers, Running(v), k \in Unfinished(v)
        PROVE  Explained(k)'
    <3>1. v # w
      BY <1>1, <2>4 DEF Running
    <3>2. Unfinished(v)' = Unfinished(v)
      BY <1>1, <3>1, UnfinishedKept
    <3> QED
      BY <1>1, <2>4, <3>1, <3>2 DEF Explained, InHand, Running
  <2> QED
    BY <1>1, <2>2, <2>3, <2>4 DEF Explained, InHand
<1> QED
  BY <1>2, <1>3

LEMMA StaleQuiet ==
  ASSUME TypeOK, TaskInv, StaleIsExplained, NEW w \in Writers, Refuse(w) \/ ListDue(w)
  PROVE  StaleIsExplained'
<1>1. UNCHANGED tables /\ cache' = cache /\ lost' = lost /\ raced' = raced
  BY DEF Refuse, ListDue
<1>2. outbox' = outbox /\ todo' = todo /\ job' = job /\ cmd' = cmd
  BY DEF Refuse, ListDue
<1>3. \A v \in Writers \ {w} : pc'[v] = pc[v]
  BY DEF Refuse, ListDue, Go, TypeOK
<1>4. Running(w) => pc[w] = "listing" /\ pc'[w] = "draining"
  BY DEF Refuse, ListDue, Go, TypeOK, Running
<1>5. \A k : Queued(k) => Queued(k)'
  BY <1>2, QueueKept
<1>6. ASSUME NEW k, Running(w), k \in Unfinished(w)
      PROVE  Explained(k)'
  <2>1. Scope(w)' = Scope(w)
    BY <1>2, ScopeKept
  <2>2. k \in Unfinished(w)'
    BY <1>2, <1>4, <1>6, <2>1 DEF Unfinished, KeysOf
  <2> QED
    BY <1>4, <1>6, <2>2 DEF Explained, InHand, Running
<1> QED
  BY <1>1, <1>2, <1>3, <1>5, <1>6, StaleStep DEF Explained

(* What a task that w takes over still has to delete is in hand, and what  *)
(* w itself has to delete stays so.                                        *)
LEMMA StaleDispatch ==
  ASSUME TypeOK, TaskInv, NEW w \in Writers, pc[w] = "draining", NEW v \in Writers,
         Dispatch(w, v), cmd' = cmd, NEW k
  PROVE  /\ k \in KeysOf(Scope(v)) => Explained(k)'
         /\ k \in Unfinished(w) => Explained(k)'
<1>1. job'[w] = v /\ todo'[w] = Scope(v) /\ pc'[w] = "deleting"
  BY DEF Dispatch, Go, TypeOK
<1>2. Scope(w)' = Scope(w)
  BY ScopeKept
<1>3. k \in KeysOf(Scope(v)) => k \in Unfinished(w)'
  BY <1>1 DEF Unfinished, KeysOf
<1>4. k \in Unfinished(w) => k \in KeysOf(Scope(w))
  <2>1. todo[w] = <<>>
    BY DEF TaskInv
  <2>2. KeysOf(<<>>) = {}
    BY DEF KeysOf
  <2> QED
    BY <2>1, <2>2 DEF Unfinished
<1>5. k \in KeysOf(Scope(w)) => k \in Unfinished(w)'
  <2>1. CASE v = w
    BY <1>3, <2>1
  <2>2. CASE v # w
    BY <1>1, <1>2, <2>2 DEF Unfinished, KeysOf
  <2> QED
    BY <2>1, <2>2
<1>6. k \in Unfinished(w)' => Explained(k)'
  BY <1>1 DEF Explained, InHand, Running
<1> QED
  BY <1>3, <1>4, <1>5, <1>6

LEMMA StaleTask ==
  ASSUME TypeOK, TaskInv, StaleIsExplained, NEW w \in Writers, RunTask(w) \/ LoseTask(w) \/ RunOwn(w)
  PROVE  StaleIsExplained'
<1>1. /\ UNCHANGED tables /\ cache' = cache /\ raced' = raced /\ cmd' = cmd
      /\ lost \subseteq lost' /\ pc[w] = "draining"
      /\ \A v \in Writers \ {w} : pc'[v] = pc[v] /\ todo'[v] = todo[v] /\ job'[v] = job[v]
  BY DEF RunTask, LoseTask, RunOwn, Dispatch, Go, TypeOK
<1>2. \/ \E v \in outbox : outbox' = outbox \ {v} /\ Dispatch(w, v)
      \/ \E v \in outbox :
           outbox' = outbox \ {v} /\ lost' = lost \cup KeysOf(Scope(v)) /\ UNCHANGED <<pc, todo, job>>
      \/ outbox' = outbox /\ Dispatch(w, w)
      \/ outbox' = outbox /\ UNCHANGED <<pc, todo, job>>
  BY DEF RunTask, LoseTask, RunOwn
<1>3. ASSUME NEW k, UNCHANGED <<pc, todo, job>>, k \in Unfinished(w)
      PROVE  Explained(k)'
  <2>1. Unfinished(w)' = Unfinished(w)
    BY <1>1, <1>3, UnfinishedKept
  <2> QED
    BY <1>1, <1>3, <2>1 DEF Explained, InHand, Running
<1>4. ASSUME NEW v \in outbox, outbox' = outbox \ {v}, Dispatch(w, v)
      PROVE  StaleIsExplained'
  <2>1. v \in Writers
    BY DEF TypeOK
  <2>2. \A k : Queued(k) => Explained(k)'
    BY <1>1, <1>4, <2>1, QueueLeaves, StaleDispatch DEF Explained
  <2> QED
    BY <1>1, <1>4, <2>1, <2>2, StaleStep, StaleDispatch
<1>5. ASSUME NEW v \in outbox, outbox' = outbox \ {v}, lost' = lost \cup KeysOf(Scope(v)),
             UNCHANGED <<pc, todo, job>>
      PROVE  StaleIsExplained'
  <2>1. \A k : Queued(k) => Explained(k)'
    BY <1>1, <1>5, QueueLeaves DEF Explained
  <2> QED
    BY <1>1, <1>3, <1>5, <2>1, StaleStep
<1>6. ASSUME outbox' = outbox, Dispatch(w, w) \/ UNCHANGED <<pc, todo, job>>
      PROVE  StaleIsExplained'
  <2>1. \A k : Queued(k) => Explained(k)'
    BY <1>1, <1>6, QueueKept DEF Explained
  <2> QED
    BY <1>1, <1>3, <1>6, <2>1, StaleStep, StaleDispatch
<1> QED
  BY <1>2, <1>4, <1>5, <1>6

(* What a task deletes, and what it leaves in hand, in the outbox, or      *)
(* lost.                                                                   *)
LEMMA StaleDelete ==
  ASSUME TypeOK, TaskInv, StaleIsExplained, NEW w \in Writers, DeleteByPrefix(w)
  PROVE  StaleIsExplained'
<1>1. /\ UNCHANGED tables /\ cmd' = cmd /\ outbox' = outbox /\ pc[w] = "deleting"
      /\ todo'[w] = Tail(todo[w])
      /\ \A k \in Key : cache'[k] = IF k \in Head(todo[w]) THEN NoEntry ELSE cache[k]
      /\ lost' = lost \ Head(todo[w]) /\ raced' = raced \ Head(todo[w])
      /\ \A v \in Writers \ {w} : pc'[v] = pc[v] /\ todo'[v] = todo[v] /\ job'[v] = job[v]
  BY DEF DeleteByPrefix, Delete, Go, TypeOK
<1>2. \/ pc'[w] = After(w) /\ job'[w] = w
      \/ pc'[w] = "deleting" /\ job'[w] = job[w]
  BY <1>1 DEF DeleteByPrefix, Go, TypeOK
<1>3. /\ KeysOf(todo[w]) = Head(todo[w]) \cup KeysOf(Tail(todo[w]))
      /\ Tail(todo[w]) = <<>> \/ pc'[w] = "deleting"
  BY <1>1, FirstOf DEF DeleteByPrefix, TaskInv, TypeOK
<1>4. \A k : Queued(k) => Queued(k)'
  BY <1>1, QueueKept
<1>5. ASSUME NEW k, k \in Unfinished(w), k \notin Head(todo[w])
      PROVE  Explained(k)'
  <2>1. Scope(w)' = Scope(w)
    BY <1>1, ScopeKept
  <2>2. k \in KeysOf(Tail(todo[w])) \/ (job[w] # w /\ k \in KeysOf(Scope(w)))
    BY <1>1, <1>3, <1>5 DEF Unfinished
  <2>3. KeysOf(<<>>) = {}
    BY DEF KeysOf
  <2>4. Running(w)' /\ k \in Unfinished(w)'
    BY <1>1, <1>2, <1>3, <2>1, <2>2, <2>3 DEF Unfinished, KeysOf, After, Running
  <2> QED
    BY <2>4 DEF Explained, InHand
<1> QED
  BY <1>1, <1>4, <1>5, StaleStep DEF Explained

LEMMA StaleFails ==
  ASSUME TypeOK, TaskInv, StaleIsExplained, NEW w \in Writers, DeleteFails(w) \/ EnqueueFails(w)
  PROVE  StaleIsExplained'
<1>1. /\ UNCHANGED tables /\ cmd' = cmd /\ pc[w] = "deleting" /\ outbox \subseteq outbox'
      /\ pc'[w] = After(w) /\ todo'[w] = <<>> /\ job'[w] = w
      /\ \A v \in Writers \ {w} : pc'[v] = pc[v] /\ todo'[v] = todo[v] /\ job'[v] = job[v]
  <2>1. CASE DeleteFails(w)
    BY <2>1 DEF DeleteFails, Requeued, Go, TypeOK
  <2>2. CASE EnqueueFails(w)
    BY <2>2 DEF EnqueueFails, Go, TypeOK
  <2> QED
    BY <2>1, <2>2
<1>2. PICK keys : /\ \A k \in Key : cache'[k] = IF k \in keys THEN NoEntry ELSE cache[k]
                  /\ lost \ keys \subseteq lost' /\ raced' = raced \ keys
                  /\ job[w] \in outbox' \/ KeysOf(todo[w]) \ keys \subseteq lost'
  <2>1. CASE DeleteFails(w)
    BY <2>1 DEF DeleteFails, Delete, Requeued
  <2>2. CASE EnqueueFails(w)
    <3>1. PICK keys : /\ cache' = [k \in Key |-> IF k \in keys THEN NoEntry ELSE cache[k]]
                      /\ lost' = (lost \cup KeysOf(todo[w])) \ keys
                      /\ raced' = raced \ keys
      BY <2>2 DEF EnqueueFails
    <3> QED
      BY <3>1
  <2> QED
    BY <2>1, <2>2
<1>3. \A k : Queued(k) => Queued(k)'
  BY <1>1, QueueKept
<1>4. ASSUME NEW k, k \in Unfinished(w), k \notin keys
      PROVE  Explained(k)'
  <2>1. CASE k \in KeysOf(todo[w])
    <3>1. job[w] \in Writers /\ k \in KeysOf(Scope(job[w]))
      BY <1>1, <2>1 DEF TaskInv, TypeOK
    <3>3. \A v : Scope(v)' = Scope(v)
      BY <1>1 DEF Scope
    <3>4. job[w] \in outbox' => Queued(k)'
      BY <3>1, <3>3 DEF Queued, KeysOf
    <3> QED
      BY <1>2, <1>4, <2>1, <3>4 DEF Explained
  <2>2. CASE job[w] # w /\ k \in KeysOf(Scope(w))
    <3>1. Scope(w)' = Scope(w)
      BY <1>1, ScopeKept
    <3>2. Running(w)' /\ k \in Unfinished(w)'
      BY <1>1, <2>2, <3>1 DEF Unfinished, KeysOf, After, Running
    <3> QED
      BY <3>2 DEF Explained, InHand
  <2> QED
    BY <1>1, <1>4, <2>1, <2>2 DEF Unfinished
<1> QED
  BY <1>1, <1>2, <1>3, <1>4, StaleStep DEF Explained

LEMMA StaleStop ==
  ASSUME TypeOK, TaskInv, StaleIsExplained, NEW w \in Writers, Stop(w)
  PROVE  StaleIsExplained'
<1>1. /\ UNCHANGED tables /\ cmd' = cmd /\ outbox' = outbox /\ cache' = cache /\ raced' = raced
      /\ lost' = lost \cup Unfinished(w)
      /\ \A v \in Writers \ {w} : pc'[v] = pc[v] /\ todo'[v] = todo[v] /\ job'[v] = job[v]
  BY DEF Stop, Go, TypeOK
<1>2. \A k : Queued(k) => Queued(k)'
  BY <1>1, QueueKept
<1> QED
  BY <1>1, <1>2, StaleStep DEF Explained

(* A reader sets what it has read, and knows whether it is stale by then.  *)
LEMMA StaleReading ==
  ASSUME TypeOK, MutexInv, StaleIsExplained, NEW r \in Readers,
         Reading(r) \/ GetHits(r) \/ \E k \in Asked : GetMisses(r, k)
  PROVE  StaleIsExplained'
<1> SUFFICES ASSUME NEW k \in Key, cache'[k] \notin {NoEntry, List(k)'}
             PROVE  Explained(k)'
  BY StaleForm
<1>1. UNCHANGED <<tables, outbox, writing>>
  BY DEF Reading, GetHits, GetMisses, lockKey, GetAgain, ListRows, ListParts, ReadFails, Set
<1>2. /\ outbox' = outbox /\ pc' = pc /\ cmd' = cmd /\ todo' = todo /\ job' = job
      /\ List(k)' = List(k)
  BY <1>1, ListKept DEF writing
<1>3. (Queued(k) => Queued(k)') /\ (InHand(k) => InHand(k)')
  <2>1. Queued(k) => Queued(k)'
    BY <1>2, QueueKept
  <2>2. \A v \in Writers : Unfinished(v)' = Unfinished(v)
    BY <1>2, UnfinishedKept
  <2> QED
    BY <1>2, <2>1, <2>2 DEF InHand, Running
<1>4. CASE UNCHANGED <<cache, lost, raced>>
  <2>1. Explained(k)
    BY <1>2, <1>4, StaleForm
  <2> QED
    BY <1>3, <1>4, <2>1 DEF Explained
<1>5. CASE /\ Set(r) /\ cache' = [cache EXCEPT ![key[r]] = view[r]]
           /\ lost' = lost \ {key[r]}
           /\ raced' = IF view[r] = List(key[r]) THEN raced \ {key[r]} ELSE raced \cup {key[r]}
  <2>1. key[r] \in Key
    BY <1>5, SeatsHold, KeyOfReader DEF Set
  <2>2. CASE k = key[r]
    <3>1. cache'[k] = view[r]
      BY <1>5, <2>1, <2>2 DEF TypeOK
    <3>2. k \in raced'
      BY <1>2, <1>5, <2>2, <3>1
    <3> QED
      BY <3>2 DEF Explained
  <2>3. CASE k # key[r]
    <3>1. cache'[k] = cache[k]
      BY <1>5, <2>1, <2>3 DEF TypeOK
    <3>2. Explained(k)
      BY <1>2, <3>1, StaleForm
    <3> QED
      BY <1>3, <1>5, <2>3, <3>2 DEF Explained
  <2> QED
    BY <2>2, <2>3
<1> QED
  BY <1>4, <1>5 DEF Reading, GetHits, GetMisses, lockKey, GetAgain, ListRows, ListParts, ReadFails, Set

LEMMA StaleExpire ==
  ASSUME TypeOK, StaleIsExplained, NEW q \in Key, Expire(q)
  PROVE  StaleIsExplained'
<1> SUFFICES ASSUME NEW k \in Key, cache'[k] \notin {NoEntry, List(k)'}
             PROVE  Explained(k)'
  BY StaleForm
<1>1. /\ UNCHANGED <<tables, outbox, writing>>
      /\ cache'[k] = IF k \in {q} THEN NoEntry ELSE cache[k]
      /\ lost' = lost \ {q} /\ raced' = raced \ {q}
  BY DEF Expire, Delete
<1>2. /\ outbox' = outbox /\ pc' = pc /\ cmd' = cmd /\ todo' = todo /\ job' = job
      /\ List(k)' = List(k)
  BY <1>1, ListKept DEF writing
<1>3. Explained(k) /\ k # q
  BY <1>1, <1>2, StaleForm
<1>4. Queued(k) => Queued(k)'
  BY <1>2, QueueKept
<1>5. \A v \in Writers : Unfinished(v)' = Unfinished(v)
  BY <1>2, UnfinishedKept
<1> QED
  BY <1>1, <1>2, <1>3, <1>4, <1>5 DEF Explained, InHand, Running

-----------------------------------------------------------------------------
LEMMA InitTables ==
  ASSUME Init
  PROVE  /\ author \in [Categories \cup Products -> Author \cup {Unborn, Gone}]
         /\ home \in [Products -> Categories \cup {All}]
         /\ parts \in [Products -> Author \cup {Unborn, Gone}]
         /\ uses \in [Setmeals -> SUBSET Dishes]
         /\ \A p \in Products : author[p] = parts[p]
         /\ Unborn \notin Author
BY SeededAssumption, AuthorsAssumption DEF Init, Author

LEMMA CatalogInit == Init => CatalogInv
<1> SUFFICES ASSUME Init
             PROVE  CatalogInv
  OBVIOUS
<1>1. PartsInv
  BY InitTables DEF PartsInv, There
<1>2. \A k \in Key : \A e \in List(k) : e[2] \in Author /\ e[3] \in Author
  <2> SUFFICES ASSUME NEW k \in Key, NEW x \in Rows(k)
               PROVE  There(x) /\ (x \in Products => parts[x] \in Author)
    BY DEF List, There, Author
  <2>1. There(x)
    BY KeyShape DEF Rows, ListCategories, ListDishes, ListSetmeals
  <2> QED
    BY <1>1, <2>1 DEF PartsInv
<1>3. \A k \in Key : cache[k] \in {NoEntry, List(k)}
  BY DEF Init
<1>4. TypeOK
  <2>1. /\ outbox \subseteq Writers /\ lost \subseteq Key /\ raced \subseteq Key
        /\ pc \in [Writers -> Places] /\ cmd \in [Writers -> Command \cup {NoCommand}]
        /\ before \in [Writers -> SUBSET Writers] /\ due \in [Writers -> SUBSET Writers]
        /\ job \in [Writers -> Writers] /\ todo \in [Writers -> Seq(SUBSET Key)]
        /\ DOMAIN cache = Key
        /\ \A w \in Writers : pc[w] = "idle"
    BY DEF Init, Places
  <2>2. /\ at \in [Readers -> {"idle", "waiting", "again", "rows", "parts", "set", "done", "failed"}]
        /\ key \in [Readers -> Asked \cup {NoEntry}]
        /\ \A r \in Readers : key[r] = NoEntry <=> at[r] \in {"idle", "done", "failed"}
        /\ mutex = {Mutex(r) : r \in {q \in Readers : at[q] \in {"again", "rows", "parts", "set"}}}
    BY DEF Init
  <2>3. \A k \in Key : cache[k] # NoEntry => \A e \in cache[k] : e[2] \in Author /\ e[3] \in Author \cup {Gone}
    BY <1>2, <1>3
  <2> QED
    BY <2>1, <2>2, <2>3, InitTables DEF TypeOK, Places
<1>5. TaskInv /\ ViewInv /\ MutexInv /\ LateInv
  BY DEF Init, TaskInv, ViewInv, MutexInv, Holding, LateInv
<1>6. StaleIsExplained
  BY <1>3 DEF StaleIsExplained
<1> QED
  BY <1>1, <1>4, <1>5, <1>6 DEF CatalogInv

LEMMA WriterStep ==
  ASSUME CatalogInv, NEW w \in Writers, Writing(w)
  PROVE  CatalogInv'
<1> USE DEF CatalogInv
<1>1. TaskInv'
  BY WriterTasks
<1>2. TypeOK'
  BY BeginType, QuietType, CommitType, TaskType, DeletingType, StopType DEF Writing
<1>3. StaleIsExplained'
  BY StaleBegin, StaleQuiet, StaleCommit, StaleTask, StaleDelete, StaleFails, StaleStop DEF Writing
<1>4. CASE Commit(w)
  BY <1>1, <1>2, <1>3, <1>4, CommitTables, LateCommit
<1>5. CASE \E m \in Commands[w] : Begin(w, m)
  <2>1. UNCHANGED <<tables, reading>>
    BY <1>5 DEF Begin
  <2> QED
    BY <1>1, <1>2, <1>3, <1>5, <2>1, QuietTables, LateBegin
<1>6. CASE ~Commit(w) /\ ~\E m \in Commands[w] : Begin(w, m)
  <2>1. UNCHANGED <<tables, reading, cmd, before>>
    BY <1>6 DEF Writing, Refuse, ListDue, RunTask, LoseTask, RunOwn, DeleteByPrefix, DeleteFails,
                EnqueueFails, Stop
  <2>2. \A v \in Writers : pc'[v] \notin {"idle", "refused"} => pc[v] \notin {"idle", "refused"}
    <3>1. pc[w] \notin {"idle", "refused"} /\ \A v \in Writers \ {w} : pc'[v] = pc[v]
      BY <1>6 DEF TypeOK, Go, Writing, Refuse, ListDue, RunTask, LoseTask, RunOwn, Dispatch,
                  DeleteByPrefix, DeleteFails, EnqueueFails, Stop
    <3> QED
      BY <3>1
  <2>3. LateInv'
    BY <2>1, <2>2, LateKept
  <2> QED
    BY <1>1, <1>2, <1>3, <2>1, <2>3, QuietTables
<1> QED
  BY <1>4, <1>5, <1>6

LEMMA ReaderStep ==
  ASSUME CatalogInv, NEW r \in Readers,
         Reading(r) \/ GetHits(r) \/ \E k \in Asked : GetMisses(r, k)
  PROVE  CatalogInv'
<1> USE DEF CatalogInv
<1>1. TypeOK' /\ ViewInv' /\ MutexInv'
  BY ReaderSteps
<1>2. StaleIsExplained'
  BY StaleReading
<1>3. UNCHANGED <<tables, outbox, writing>>
  BY DEF Reading, GetHits, GetMisses, lockKey, GetAgain, ListRows, ListParts, ReadFails, Set
<1>4. PartsInv'
  BY <1>3 DEF tables, PartsInv, There
<1>5. LateInv'
  BY <1>3, LateKept DEF writing
<1>6. TaskInv'
  BY <1>3, TaskKept
<1> QED
  BY <1>1, <1>2, <1>4, <1>5, <1>6

LEMMA StaleUnmoved ==
  ASSUME StaleIsExplained, UNCHANGED <<tables, writing>>, cache' = cache, outbox' = outbox,
         lost' = lost, raced' = raced
  PROVE  StaleIsExplained'
<1>1. pc' = pc /\ cmd' = cmd /\ job' = job /\ todo' = todo
  BY DEF writing
<1>2. \A k : Queued(k) => Queued(k)'
  BY <1>1, QueueKept
<1>3. \A v \in Writers : Unfinished(v)' = Unfinished(v)
  BY <1>1, UnfinishedKept
<1>4. \A k : Explained(k) => Explained(k)'
  BY <1>1, <1>2, <1>3 DEF Explained, InHand, Running
<1> QED
  BY <1>4, ListKept, StaleForm

LEMMA CatalogStep ==
  ASSUME CatalogInv, [Next]_vars
  PROVE  CatalogInv'
<1>1. ASSUME NEW k \in Key, Expire(k)
      PROVE  CatalogInv'
  <2> USE DEF CatalogInv
  <2>1. TypeOK' /\ StaleIsExplained'
    BY <1>1, ExpireType, StaleExpire
  <2>2. UNCHANGED <<tables, outbox, writing, reading>>
    BY <1>1 DEF Expire
  <2>3. LateInv'
    BY <2>2, LateKept DEF writing
  <2>4. TaskInv'
    BY <2>2, TaskKept
  <2> QED
    BY <2>1, <2>2, <2>3, <2>4, QuietTables
<1>2. CASE UNCHANGED vars
  <2> USE DEF CatalogInv
  <2>1. /\ UNCHANGED <<tables, writing, reading>> /\ cache' = cache /\ outbox' = outbox
        /\ lost' = lost /\ raced' = raced
    BY <1>2 DEF vars
  <2>2. LateInv' /\ TaskInv' /\ PartsInv' /\ ViewInv' /\ MutexInv'
    BY <2>1, LateKept, TaskKept, QuietTables DEF writing
  <2>3. TypeOK'
    BY <2>1 DEF TypeOK, tables, writing, reading, Mutex
  <2>4. StaleIsExplained'
    BY <2>1, StaleUnmoved
  <2> QED
    BY <2>2, <2>3, <2>4
<1> QED
  BY <1>1, <1>2, WriterStep, ReaderStep DEF Next

(* Everything above at once, for any writers, readers, commands and rows.  *)
THEOREM CatalogInvariant == Spec => []CatalogInv
<1>1. Init => CatalogInv
  BY CatalogInit
<1>2. CatalogInv /\ [Next]_vars => CatalogInv'
  BY CatalogStep
<1> QED
  BY <1>1, <1>2, PTL DEF Spec

(* The tables, Redis, the requests and the mutexes keep their types, and a *)
(* mutex is locked when and only when a reader is between its lock and its *)
(* unlock.                                                                 *)
THEOREM CatalogTypes == Spec => []TypeOK
<1>1. CatalogInv => TypeOK
  BY DEF CatalogInv
<1> QED
  BY <1>1, CatalogInvariant, PTL

(* A list in Redis that the tables no longer say will be deleted by        *)
(* somebody, or was overtaken before it was set, or its invalidation was   *)
(* lost to a failure of Redis or a crash: no order of the steps of writers *)
(* and readers, retries from the outbox among them, leaves another.        *)
THEOREM StaleListsAreKnown == Spec => []StaleIsExplained
<1>1. CatalogInv => StaleIsExplained
  BY DEF CatalogInv
<1> QED
  BY <1>1, CatalogInvariant, PTL

(* DeleteCategory and DeleteDish leave nothing in use behind, but for what *)
(* requests attached that had not committed when they looked.              *)
THEOREM DeletesLeaveNoOrphans == Spec => []OrphansCameLate
<1>1. CatalogInv => OrphansCameLate
  BY DEF CatalogInv, LateInv, Late, OrphansCameLate, Committed
<1> QED
  BY <1>1, CatalogInvariant, PTL

-----------------------------------------------------------------------------
(* LoginSessions.                                                          *)
Asking == {"flag", "version", "account", "accepted", "again", "mark", "raise", "out", "halfway"}

(* What a call carries is what the login of its token left.                *)
Carries ==
  \A c \in Calls :
    /\ step[c] \in {"ensure", "issue", "in"} => token[c] = c
    /\ step[c] \in Asking =>
         /\ step[token[c]] = "in"
         /\ owner[c] = owner[token[c]]
         /\ ver[c] = ver[token[c]]
    /\ step[c] \in {"again", "mark", "raise", "halfway", "out"} => op[c] = "logout"

Grows == \A c \in Calls : step[c] # "new" => began[c] <= version[owner[c]]

Compared ==
  \A c \in Calls : step[c] \in {"issue", "in", "account"} \/ Verified(c) => ver[c] >= began[c]

(* A flag stays until its token expires, so who comes after a logout is    *)
(* stopped by it.                                                          *)
Flagged ==
  /\ \A c \in Calls : step[c] \in {"raise", "halfway", "out"} => token[c] \in revoked \cup expired
  /\ \A c \in late :
       /\ step[c] # "new"
       /\ token[c] \in revoked \cup expired
       /\ step[c] \in {"version", "account"} \/ Verified(c) => token[c] \in expired

(* Who set the flag has raised the version, will, or failed half way.      *)
Ended(t) ==
  \/ version[owner[t]] > ver[t]
  \/ \E d \in Calls : token[d] = t /\ step[d] \in {"raise", "halfway"}

Endings ==
  revokeAll =>
    /\ \A t \in revoked : step[t] = "in" /\ Ended(t)
    /\ \A c \in Calls : step[c] = "out" => Ended(token[c])

LoginInv == LoginTypeOK /\ Carries /\ Grows /\ Compared /\ Flagged /\ Endings

-----------------------------------------------------------------------------
(* Each call is somewhere, and Goes moves one of them.                     *)
LEMMA Moved ==
  ASSUME LoginTypeOK, NEW c \in Calls, NEW to, Goes(c, to)
  PROVE  step'[c] = to /\ \A d \in Calls \ {c} : step'[d] = step[d]
PROOF BY DEF Goes, LoginTypeOK

(* Steps of a request that has its token, other than those that write.     *)
Check(c) == CheckFlag(c) \/ CheckVersion(c) \/ CheckAccount(c) \/ CheckAgain(c)

LEMMA CheckMoves ==
  ASSUME LoginTypeOK, NEW c \in Calls, Check(c)
  PROVE  /\ UNCHANGED <<store, op, ver, call>>
         /\ \A d \in Calls \ {c} : step'[d] = step[d]
         /\ \/ step[c] \in {"flag", "version", "account", "again"} /\ step'[c] = "failed"
            \/ step[c] = "flag" /\ step'[c] = "version" /\ token[c] \notin revoked
            \/ step[c] = "version" /\ step'[c] = "account" /\ version[owner[c]] \in {0, ver[c]}
            \/ step[c] = "account" /\ step'[c] = "accepted" /\ op[c] = "use"
            \/ step[c] = "account" /\ step'[c] = "again" /\ op[c] = "logout"
            \/ step[c] = "again" /\ step'[c] = "out" /\ token[c] \in revoked
            \/ step[c] = "again" /\ step'[c] = "mark"
PROOF
<1>1. step \in [Calls -> Steps]
  BY DEF LoginTypeOK
<1>2. CASE CheckFlag(c)
  BY <1>1, <1>2 DEF CheckFlag, Goes
<1>3. CASE CheckVersion(c)
  BY <1>1, <1>3 DEF CheckVersion, IsCurrent, Goes
<1>4. CASE CheckAccount(c)
  BY <1>1, <1>4 DEF CheckAccount, Goes
<1>5. CASE CheckAgain(c)
  BY <1>1, <1>5 DEF CheckAgain, Goes
<1> QED
  BY <1>2, <1>3, <1>4, <1>5 DEF Check

-----------------------------------------------------------------------------
LEMMA LoginStep ==
  ASSUME LoginInv, NEW c \in Calls, NEW a \in Accounts, Login(c, a)
  PROVE  LoginInv'
PROOF
<1>1. /\ UNCHANGED <<store, ver, late>>
      /\ step[c] = "new" /\ step'[c] \in {"ensure", "failed"}
      /\ \A d \in Calls \ {c} : step'[d] = step[d]
      /\ op' = [op EXCEPT ![c] = "login"]
      /\ token'[c] = c /\ owner'[c] = a /\ began'[c] = version[a]
      /\ \A d \in Calls \ {c} : token'[d] = token[d] /\ owner'[d] = owner[d] /\ began'[d] = began[d]
  BY DEF Login, Starts, Goes, LoginInv, LoginTypeOK
<1>2. LoginTypeOK'
  <2>1. /\ token' = [token EXCEPT ![c] = c] /\ owner' = [owner EXCEPT ![c] = a]
        /\ began' = [began EXCEPT ![c] = version[a]]
        /\ step' = [step EXCEPT ![c] = "ensure"] \/ step' = [step EXCEPT ![c] = "failed"]
    BY DEF Login, Starts, Goes
  <2>2. \A d \in Calls : step'[d] # "new" => token'[d] \in Calls /\ owner'[d] \in Accounts
    BY <1>1 DEF LoginInv, LoginTypeOK
  <2>3. \A d \in Calls :
          step'[d] \in {"issue", "in"} => token'[d] = d /\ ver'[d] \in 1 .. version'[owner'[d]]
    BY <1>1 DEF store, LoginInv, LoginTypeOK
  <2> QED
    BY <1>1, <2>1, <2>2, <2>3 DEF store, Steps, LoginInv, LoginTypeOK
<1>3. Carries'
  BY <1>1 DEF LoginInv, LoginTypeOK, Carries, Asking
<1>4. Grows'
  BY <1>1 DEF store, LoginInv, LoginTypeOK, Grows
<1>5. Compared'
  BY <1>1 DEF store, LoginInv, Compared, Verified
<1>6. Flagged'
  BY <1>1 DEF store, LoginInv, LoginTypeOK, Flagged, Verified
<1>7. Endings'
  <2>1. ASSUME NEW t \in Calls, step[t] # "new", Ended(t) PROVE Ended(t)'
    <3>1. version'[owner'[t]] = version[owner[t]] /\ ver'[t] = ver[t]
      BY <1>1, <2>1 DEF store
    <3> QED
      BY <1>1, <2>1, <3>1 DEF Ended
  <2>2. \A d \in Calls : step'[d] = "out" => step[d] = "out" /\ token'[d] = token[d]
    BY <1>1
  <2>3. \A d \in Calls : step[d] = "out" => step[token[d]] = "in" /\ token[d] \in Calls
    BY DEF LoginInv, LoginTypeOK, Carries, Asking
  <2>4. revoked \subseteq Calls /\ revoked' = revoked /\ revokeAll' = revokeAll
    BY <1>1 DEF store, LoginInv, LoginTypeOK
  <2>5. \A t \in Calls : step[t] = "in" => step'[t] = "in"
    BY <1>1
  <2>6. \A d \in Calls : revokeAll /\ step'[d] = "out" => Ended(token[d])'
    BY <1>1, <2>1, <2>2, <2>3 DEF LoginInv, Endings, Ended
  <2>7. \A t \in revoked : revokeAll => step'[t] = "in" /\ Ended(t)'
    BY <2>1, <2>4, <2>5 DEF LoginInv, Endings
  <2> QED
    BY <2>4, <2>6, <2>7 DEF Endings
<1> QED
  BY <1>2, <1>3, <1>4, <1>5, <1>6, <1>7 DEF LoginInv

(* The version of an account is the one a login reads, or the first.       *)
LEMMA EnsureStep ==
  ASSUME LoginInv, NEW c \in Calls, EnsureVersion(c)
  PROVE  LoginInv'
PROOF
<1> DEFINE a == owner[c]
<1>1. step[c] = "ensure" /\ a \in Accounts /\ token[c] = c /\ version[a] \in Nat
  BY DEF EnsureVersion, LoginInv, LoginTypeOK, Carries
<1>2. /\ UNCHANGED <<revokeAll, enabled, revoked, expired, op, call>>
      /\ \A d \in Calls \ {c} : step'[d] = step[d] /\ ver'[d] = ver[d]
      /\ version' = [version EXCEPT ![a] = CurrentVersion(a)] \/ version' = version
      /\ \/ /\ step'[c] = "issue" /\ ver' = [ver EXCEPT ![c] = CurrentVersion(a)]
            /\ version' = [version EXCEPT ![a] = CurrentVersion(a)]
         \/ step'[c] = "failed" /\ ver' = ver
      /\ step' \in [Calls -> Steps]
  BY DEF EnsureVersion, WithKey, Goes, Steps, LoginInv, LoginTypeOK
<1>3. /\ CurrentVersion(a) \in Nat /\ CurrentVersion(a) >= 1 /\ CurrentVersion(a) >= version[a]
      /\ version' \in [Accounts -> Nat]
      /\ \A b \in Accounts : version[b] \in Nat /\ version'[b] \in Nat /\ version'[b] >= version[b]
      /\ ver \in [Calls -> Nat] /\ ver' \in [Calls -> Nat]
      /\ step'[c] = "issue" => ver'[c] = CurrentVersion(a) /\ version'[a] = CurrentVersion(a)
  BY <1>1, <1>2 DEF CurrentVersion, LoginInv, LoginTypeOK
<1> HIDE DEF a
<1>4. a = owner[c]
  BY DEF a
<1>5. LoginTypeOK'
  <2>1. ASSUME NEW d \in Calls, step'[d] \in {"issue", "in"}
        PROVE  token'[d] = d /\ ver'[d] \in 1 .. version'[owner'[d]]
    <3>1. CASE d = c
      BY <1>1, <1>2, <1>3, <1>4, <2>1, <3>1 DEF call
    <3>2. CASE d # c
      <4>1. step[d] \in {"issue", "in"} /\ ver'[d] = ver[d] /\ owner[d] \in Accounts
        BY <1>2, <2>1, <3>2 DEF LoginInv, LoginTypeOK
      <4>2. token[d] = d /\ ver[d] \in 1 .. version[owner[d]]
        BY <4>1 DEF LoginInv, LoginTypeOK
      <4> QED
        BY <1>2, <1>3, <4>1, <4>2 DEF call
    <3> QED
      BY <3>1, <3>2
  <2>2. \A d \in Calls : step'[d] # "new" => token'[d] \in Calls /\ owner'[d] \in Accounts
    BY <1>1, <1>2 DEF call, LoginInv, LoginTypeOK
  <2> QED
    BY <1>2, <1>3, <2>1, <2>2 DEF call, LoginInv, LoginTypeOK
<1>6. Carries'
  <2>1. \A d \in Calls : step[d] \in Asking => token[d] \in Calls /\ token[d] # c /\ d # c
    BY <1>1 DEF LoginInv, LoginTypeOK, Carries, Asking
  <2>2. \A d \in Calls : step'[d] \in Asking => step[d] \in Asking
    BY <1>2 DEF Asking
  <2>3. \A d \in Calls : step'[d] \in {"ensure", "issue", "in"} => token'[d] = d
    BY <1>1, <1>2 DEF call, LoginInv, Carries
  <2>4. \A d \in Calls : step'[d] \in Asking =>
          step'[token'[d]] = "in" /\ owner'[d] = owner'[token'[d]] /\ ver'[d] = ver'[token'[d]]
    BY <1>2, <2>1, <2>2 DEF call, LoginInv, Carries
  <2>5. \A d \in Calls : step'[d] \in {"again", "mark", "raise", "halfway", "out"} => op'[d] = "logout"
    BY <1>2 DEF LoginInv, Carries
  <2> QED
    BY <2>3, <2>4, <2>5 DEF Carries
<1>7. Grows'
  <2>1. ASSUME NEW d \in Calls, step[d] # "new" PROVE began[d] <= version'[owner[d]]
    <3>1. owner[d] \in Accounts /\ began[d] \in Nat /\ began[d] <= version[owner[d]]
      BY <2>1 DEF LoginInv, LoginTypeOK, Grows
    <3> QED
      BY <1>3, <3>1
  <2> QED
    BY <1>1, <1>2, <2>1 DEF call, Grows
<1>8. Compared'
  <2>1. began[c] \in Nat /\ began[c] <= version[a]
    BY <1>1, <1>4 DEF LoginInv, LoginTypeOK, Grows
  <2>2. step'[c] = "issue" => ver'[c] >= began[c]
    BY <1>1, <1>3, <2>1
  <2> QED
    BY <1>2, <2>2 DEF call, LoginInv, Compared, Verified
<1>9. Flagged'
  BY <1>1, <1>2 DEF call, LoginInv, LoginTypeOK, Flagged, Verified
<1>10. Endings'
  <2>1. ASSUME NEW t \in Calls, step[t] = "in", Ended(t) PROVE Ended(t)'
    <3>1. t # c /\ ver'[t] = ver[t] /\ owner[t] \in Accounts /\ ver[t] \in Nat
      BY <1>1, <1>2, <2>1 DEF LoginInv, LoginTypeOK
    <3>2. version[owner[t]] > ver[t] => version'[owner[t]] > ver[t]
      BY <1>3, <3>1
    <3>3. \A d \in Calls : step[d] \in {"raise", "halfway"} => step'[d] = step[d]
      BY <1>1, <1>2
    <3> QED
      BY <1>2, <2>1, <3>1, <3>2, <3>3 DEF call, Ended
  <2>2. \A d \in Calls : step'[d] = "out" => step[d] = "out" /\ token'[d] = token[d]
    BY <1>2 DEF call
  <2>3. \A d \in Calls : step[d] = "out" => step[token[d]] = "in" /\ token[d] \in Calls
    BY DEF LoginInv, LoginTypeOK, Carries, Asking
  <2>4. revoked \subseteq Calls /\ revoked' = revoked /\ revokeAll' = revokeAll
    BY <1>2 DEF LoginInv, LoginTypeOK
  <2>5. \A t \in Calls : step[t] = "in" => step'[t] = "in"
    BY <1>1, <1>2
  <2>6. \A d \in Calls : revokeAll /\ step'[d] = "out" => Ended(token[d])'
    BY <2>1, <2>2, <2>3 DEF LoginInv, Endings, Ended
  <2>7. \A t \in revoked : revokeAll => step'[t] = "in" /\ Ended(t)'
    BY <2>1, <2>4, <2>5 DEF LoginInv, Endings
  <2> QED
    BY <2>4, <2>6, <2>7 DEF Endings
<1> QED
  BY <1>5, <1>6, <1>7, <1>8, <1>9, <1>10 DEF LoginInv

(* A request that begins carries its token, and comes late if a logout of  *)
(* it has returned.                                                        *)
LEMMA RequestStep ==
  ASSUME LoginInv, NEW c \in Calls, NEW t \in Calls, NEW what \in {"use", "logout"},
         Request(c, t, what)
  PROVE  LoginInv'
PROOF
<1>1. /\ step[c] = "new" /\ step[t] = "in" /\ t # c /\ owner[t] \in Accounts
      /\ UNCHANGED store
      /\ step'[c] \in {"flag", "failed"} /\ token'[c] = t /\ owner'[c] = owner[t]
      /\ ver'[c] = ver[t] /\ began'[c] = version[owner[t]]
  BY DEF Request, Starts, Goes, LoginInv, LoginTypeOK
<1>2. \A d \in Calls \ {c} :
        /\ step'[d] = step[d] /\ token'[d] = token[d] /\ owner'[d] = owner[d]
        /\ ver'[d] = ver[d] /\ began'[d] = began[d] /\ op'[d] = op[d]
  BY DEF Request, Starts, Goes, LoginInv, LoginTypeOK
<1>3. late' \subseteq late \cup {c} /\ (c \in late' => c \in late \/ LoggedOut(t))
  BY DEF Request
<1>4. LoginTypeOK'
  <2>1. /\ op' = [op EXCEPT ![c] = what] /\ token' = [token EXCEPT ![c] = t]
        /\ owner' = [owner EXCEPT ![c] = owner[t]] /\ ver' = [ver EXCEPT ![c] = ver[t]]
        /\ began' = [began EXCEPT ![c] = version[owner[t]]]
        /\ step' = [step EXCEPT ![c] = "flag"] \/ step' = [step EXCEPT ![c] = "failed"]
    BY DEF Request, Starts, Goes
  <2>2. \A d \in Calls : step'[d] # "new" => token'[d] \in Calls /\ owner'[d] \in Accounts
    BY <1>1, <1>2 DEF LoginInv, LoginTypeOK
  <2>3. \A d \in Calls :
          step'[d] \in {"issue", "in"} => token'[d] = d /\ ver'[d] \in 1 .. version'[owner'[d]]
    BY <1>1, <1>2 DEF store, LoginInv, LoginTypeOK
  <2> QED
    BY <1>1, <1>3, <2>1, <2>2, <2>3 DEF store, Steps, LoginInv, LoginTypeOK
<1>5. Carries'
  <2>1. \A d \in Calls : step[d] \in Asking => token[d] \in Calls /\ token[d] # c /\ d # c
    BY <1>1 DEF LoginInv, LoginTypeOK, Carries, Asking
  <2>2. \A d \in Calls : step'[d] \in Asking => d = c \/ step[d] \in Asking
    BY <1>2
  <2>3. \A d \in Calls : step'[d] \in Asking =>
          step'[token'[d]] = "in" /\ owner'[d] = owner'[token'[d]] /\ ver'[d] = ver'[token'[d]]
    BY <1>1, <1>2, <2>1, <2>2 DEF LoginInv, Carries
  <2>4. \A d \in Calls :
          /\ step'[d] \in {"ensure", "issue", "in"} => token'[d] = d
          /\ step'[d] \in {"again", "mark", "raise", "halfway", "out"} => op'[d] = "logout"
    BY <1>1, <1>2 DEF LoginInv, Carries
  <2> QED
    BY <2>3, <2>4 DEF Carries
<1>6. Grows'
  BY <1>1, <1>2 DEF store, LoginInv, LoginTypeOK, Grows
<1>7. Compared'
  BY <1>1, <1>2 DEF LoginInv, Compared, Verified
<1>8. Flagged'
  <2>1. LoggedOut(t) => t \in revoked \cup expired
    BY DEF LoggedOut, LoginInv, Flagged
  <2>2. c \notin late
    BY <1>1 DEF LoginInv, Flagged
  <2>3. \A d \in late' : d \in Calls /\ (d # c => d \in late)
    BY <1>3 DEF LoginInv, LoginTypeOK
  <2>4. \A d \in Calls : step'[d] \in {"raise", "halfway", "out"} => token'[d] \in revoked \cup expired
    BY <1>1, <1>2 DEF LoginInv, Flagged
  <2>5. ASSUME NEW d \in late'
        PROVE  /\ step'[d] # "new" /\ token'[d] \in revoked \cup expired
               /\ step'[d] \in {"version", "account", "accepted", "again", "mark", "raise", "out",
                                "halfway"}
                    => token'[d] \in expired
    <3>1. CASE d = c
      BY <1>1, <1>3, <2>1, <2>2, <2>5, <3>1
    <3>2. CASE d # c
      BY <1>2, <2>3, <2>5, <3>2 DEF LoginInv, Flagged, Verified
    <3> QED
      BY <3>1, <3>2
  <2> QED
    BY <1>1, <2>4, <2>5 DEF store, Flagged, Verified
<1>9. Endings'
  <2>1. ASSUME NEW u \in Calls, step[u] = "in", Ended(u) PROVE Ended(u)'
    <3>1. u # c /\ ver'[u] = ver[u] /\ owner'[u] = owner[u] /\ version' = version
      BY <1>1, <1>2, <2>1 DEF store
    <3>2. \A d \in Calls : step[d] \in {"raise", "halfway"} => d # c
      BY <1>1
    <3> QED
      BY <1>2, <2>1, <3>1, <3>2 DEF Ended
  <2>2. \A d \in Calls : step'[d] = "out" => step[d] = "out" /\ token'[d] = token[d]
    BY <1>1, <1>2
  <2>3. \A d \in Calls : step[d] = "out" => step[token[d]] = "in" /\ token[d] \in Calls
    BY DEF LoginInv, LoginTypeOK, Carries, Asking
  <2>4. revoked \subseteq Calls /\ revoked' = revoked /\ revokeAll' = revokeAll
    BY <1>1 DEF store, LoginInv, LoginTypeOK
  <2>5. \A u \in Calls : step[u] = "in" => step'[u] = "in"
    BY <1>1, <1>2
  <2>6. \A d \in Calls : revokeAll /\ step'[d] = "out" => Ended(token[d])'
    BY <2>1, <2>2, <2>3 DEF LoginInv, Endings, Ended
  <2>7. \A u \in revoked : revokeAll => step'[u] = "in" /\ Ended(u)'
    BY <2>1, <2>4, <2>5 DEF LoginInv, Endings
  <2> QED
    BY <2>4, <2>6, <2>7 DEF Endings
<1> QED
  BY <1>4, <1>5, <1>6, <1>7, <1>8, <1>9 DEF LoginInv

-----------------------------------------------------------------------------
Follows(c) ==
  \/ step[c] = "issue" /\ step'[c] = "in"
  \/ step[c] \in {"flag", "version", "account", "again", "mark"} /\ step'[c] = "failed"
  \/ step[c] = "flag" /\ step'[c] = "version"
  \/ step[c] = "version" /\ step'[c] = "account" /\ version[owner[c]] \in {0, ver[c]}
  \/ step[c] = "account" /\ step'[c] = "accepted"
  \/ step[c] = "account" /\ step'[c] = "again" /\ op[c] = "logout"
  \/ step[c] = "again" /\ step'[c] \in {"out", "mark"}
  \/ step[c] = "mark" /\ step'[c] \in {"raise", "out", "halfway"}
  \/ step[c] = "raise" /\ step'[c] \in {"out", "halfway"}

(* A call that goes on goes on with what it carries, and versions grow.    *)
Proceeding(c) ==
  /\ UNCHANGED <<revokeAll, op, ver, call>>
  /\ \A d \in Calls \ {c} : step'[d] = step[d]
  /\ Follows(c) \/ step'[c] = step[c]
  /\ \A a \in Accounts : version'[a] >= version[a]
  /\ expired \subseteq expired'

TypeStep ==
  /\ enabled' \subseteq Accounts
  /\ version' \in [Accounts -> Nat]
  /\ revoked' \subseteq Calls
  /\ expired' \subseteq Calls
  /\ step' \in [Calls -> Steps]

LEMMA Advance ==
  ASSUME LoginInv, NEW c \in Calls, Proceeding(c), TypeStep
  PROVE  LoginTypeOK' /\ Carries' /\ Grows' /\ Compared'
PROOF
<1>1. /\ UNCHANGED <<revokeAll, op, ver, token, owner, began, late>>
      /\ \A d \in Calls \ {c} : step'[d] = step[d]
      /\ Follows(c) \/ step'[c] = step[c]
  BY DEF Proceeding, call
<1>2. \A a \in Accounts : version[a] \in Nat /\ version'[a] \in Nat /\ version'[a] >= version[a]
  BY DEF Proceeding, TypeStep, LoginInv, LoginTypeOK
<1>3. \A d \in Calls : step'[d] # "new" => step[d] # "new"
  BY <1>1 DEF Follows
<1>4. LoginTypeOK'
  <2>1. ASSUME NEW d \in Calls, step'[d] \in {"issue", "in"}
        PROVE  token[d] = d /\ ver[d] \in 1 .. version'[owner[d]]
    <3>1. step[d] \in {"issue", "in"}
      BY <1>1, <2>1 DEF Follows
    <3>2. owner[d] \in Accounts /\ token[d] = d /\ ver[d] \in 1 .. version[owner[d]]
      BY <3>1 DEF LoginInv, LoginTypeOK
    <3> QED
      BY <1>2, <3>2
  <2>2. \A d \in Calls : step'[d] # "new" => token[d] \in Calls /\ owner[d] \in Accounts
    BY <1>3 DEF LoginInv, LoginTypeOK
  <2>3. step' \in [Calls -> Steps]
    BY DEF TypeStep
  <2> QED
    BY <1>1, <2>1, <2>2, <2>3 DEF TypeStep, LoginInv, LoginTypeOK
<1>5. Carries'
  <2>1. \A d \in Calls : step'[d] \in Asking => step[d] \in Asking
    BY <1>1 DEF Follows, Asking
  <2>2. \A d \in Calls : step[d] = "in" => step'[d] = "in"
    BY <1>1 DEF Follows
  <2>3. \A d \in Calls : step'[d] \in Asking =>
          step'[token[d]] = "in" /\ owner[d] = owner[token[d]] /\ ver[d] = ver[token[d]]
    BY <2>1, <2>2 DEF LoginInv, LoginTypeOK, Carries, Asking
  <2>4. \A d \in Calls :
          /\ step'[d] \in {"ensure", "issue", "in"} => token[d] = d
          /\ step'[d] \in {"again", "mark", "raise", "halfway", "out"} => op[d] = "logout"
    BY <1>1 DEF Follows, LoginInv, Carries
  <2> QED
    BY <1>1, <2>3, <2>4 DEF Carries
<1>6. Grows'
  <2>1. ASSUME NEW d \in Calls, step[d] # "new" PROVE began[d] <= version'[owner[d]]
    <3>1. owner[d] \in Accounts /\ began[d] \in Nat /\ began[d] <= version[owner[d]]
      BY <2>1 DEF LoginInv, LoginTypeOK, Grows
    <3> QED
      BY <1>2, <3>1
  <2> QED
    BY <1>1, <1>3, <2>1 DEF Grows
<1>7. Compared'
  <2>1. ASSUME step[c] = "version", version[owner[c]] \in {0, ver[c]}
        PROVE  ver[c] >= began[c]
    <3>1. /\ owner[c] \in Accounts /\ began[c] \in Nat /\ ver[c] \in Nat
          /\ began[c] <= version[owner[c]]
      BY <2>1 DEF LoginInv, LoginTypeOK, Grows
    <3> QED
      BY <1>2, <2>1, <3>1
  <2>2. ASSUME NEW d \in Calls,
               step'[d] \in {"issue", "in", "account", "accepted", "again", "mark", "raise",
                             "out", "halfway"}
        PROVE  ver[d] >= began[d]
    <3>1. \/ step[d] \in {"issue", "in", "account", "accepted", "again", "mark", "raise", "out",
                          "halfway"}
          \/ d = c /\ step[c] = "version" /\ version[owner[c]] \in {0, ver[c]}
      BY <1>1, <2>2 DEF Follows
    <3> QED
      BY <2>1, <3>1 DEF LoginInv, Compared, Verified
  <2> QED
    BY <1>1, <2>2 DEF Compared, Verified
<1> QED
  BY <1>4, <1>5, <1>6, <1>7

(* Flags stay where they are, or their token has expired.                  *)
LEMMA FlaggedStep ==
  ASSUME LoginInv, NEW c \in Calls, Proceeding(c),
         revoked \cup expired \subseteq revoked' \cup expired',
         step[c] = "flag" /\ step'[c] = "version" =>
           token[c] \notin revoked,
         step'[c] \in {"raise", "halfway", "out"} => token[c] \in revoked' \cup expired'
  PROVE  Flagged'
PROOF
<1>1. /\ UNCHANGED <<op, ver, token, owner, began, late>>
      /\ \A d \in Calls \ {c} : step'[d] = step[d]
      /\ Follows(c) \/ step'[c] = step[c]
      /\ expired \subseteq expired'
  BY DEF Proceeding, call
<1>2. \A d \in Calls :
        step'[d] \in {"raise", "halfway", "out"} => token[d] \in revoked' \cup expired'
  BY <1>1 DEF LoginInv, Flagged
<1>3. ASSUME NEW d \in late
      PROVE  /\ step'[d] # "new" /\ token[d] \in revoked' \cup expired'
             /\ step'[d] \in {"version", "account", "accepted", "again", "mark", "raise", "out",
                              "halfway"}
                  => token[d] \in expired'
  <2>1. /\ step[d] # "new" /\ token[d] \in revoked \cup expired /\ d \in Calls
        /\ step[d] \in {"version", "account", "accepted", "again", "mark", "raise", "out",
                        "halfway"}
             => token[d] \in expired
    BY DEF LoginInv, LoginTypeOK, Flagged, Verified
  <2>2. step'[d] # "new"
    BY <1>1, <2>1 DEF Follows
  <2>3. ASSUME step'[d] \in {"version", "account", "accepted", "again", "mark", "raise", "out",
                             "halfway"}
        PROVE  token[d] \in expired
    <3>1. \/ step[d] \in {"version", "account", "accepted", "again", "mark", "raise", "out",
                          "halfway"}
          \/ d = c /\ step[c] = "flag" /\ step'[c] = "version"
      BY <1>1, <2>1, <2>3 DEF Follows
    <3> QED
      BY <2>1, <3>1
  <2> QED
    BY <1>1, <2>1, <2>2, <2>3
<1> QED
  BY <1>1, <1>2, <1>3 DEF Flagged, Verified

(* A token stays ended unless the only one to see to it is done.           *)
LEMMA EndingsStep ==
  ASSUME LoginInv, NEW c \in Calls, Proceeding(c), TypeStep,
         \A t \in revoked' : t \in revoked \/ (step'[t] = "in" /\ (revokeAll => Ended(t)')),
         step[c] = "raise" =>
           step'[c] \in {"raise", "halfway"} \/ version'[owner[c]] > ver[c],
         revokeAll /\ step[c] # "out" /\ step'[c] = "out" => Ended(token[c])'
  PROVE  Endings'
PROOF
<1>1. /\ UNCHANGED <<revokeAll, op, ver, token, owner, began, late>>
      /\ \A d \in Calls \ {c} : step'[d] = step[d]
      /\ Follows(c) \/ step'[c] = step[c]
  BY DEF Proceeding, call
<1>2. \A a \in Accounts : version[a] \in Nat /\ version'[a] \in Nat /\ version'[a] >= version[a]
  BY DEF Proceeding, TypeStep, LoginInv, LoginTypeOK
<1>3. ASSUME NEW t \in Calls, step[t] = "in", Ended(t) PROVE Ended(t)'
  <2>1. owner[t] \in Accounts /\ ver[t] \in Nat
    BY <1>3 DEF LoginInv, LoginTypeOK
  <2>2. CASE version[owner[t]] > ver[t]
    <3>1. version'[owner[t]] > ver[t]
      BY <1>2, <2>1, <2>2
    <3> QED
      BY <1>1, <3>1 DEF Ended
  <2>3. ASSUME NEW d \in Calls, token[d] = t, step[d] \in {"raise", "halfway"} PROVE Ended(t)'
    <3>1. CASE step'[d] \in {"raise", "halfway"}
      BY <1>1, <2>3, <3>1 DEF Ended
    <3>2. CASE step'[d] \notin {"raise", "halfway"}
      <4>1. d = c /\ step[c] = "raise"
        BY <1>1, <2>3, <3>2 DEF Follows
      <4>2. version'[owner[c]] > ver[c] /\ owner[c] = owner[t] /\ ver[c] = ver[t]
        BY <2>3, <3>2, <4>1 DEF LoginInv, Carries, Asking
      <4> QED
        BY <1>1, <4>2 DEF Ended
    <3> QED
      BY <3>1, <3>2
  <2> QED
    BY <1>3, <2>2, <2>3 DEF Ended
<1>4. \A t \in Calls : step[t] = "in" => step'[t] = "in"
  BY <1>1 DEF Follows
<1>5. revoked \subseteq Calls
  BY DEF LoginInv, LoginTypeOK
<1>6. \A t \in revoked' : revokeAll => step'[t] = "in" /\ Ended(t)'
  BY <1>3, <1>4, <1>5 DEF LoginInv, Endings
<1>7. ASSUME NEW d \in Calls, revokeAll, step'[d] = "out" PROVE Ended(token[d])'
  <2>1. CASE step[d] = "out"
    <3>1. PICK t \in Calls : t = token[d] /\ step[t] = "in"
      BY <2>1 DEF LoginInv, LoginTypeOK, Carries, Asking
    <3>2. Ended(t)
      BY <1>7, <2>1, <3>1 DEF LoginInv, Endings
    <3>3. Ended(t)'
      BY <1>3, <3>1, <3>2
    <3> QED
      BY <1>1, <3>1, <3>3 DEF Ended
  <2>2. CASE step[d] # "out"
    BY <1>1, <1>7, <2>2
  <2> QED
    BY <2>1, <2>2
<1> QED
  BY <1>1, <1>6, <1>7 DEF Endings

LEMMA IssueStep ==
  ASSUME LoginInv, NEW c \in Calls, Issue(c)
  PROVE  LoginInv'
PROOF
<1>1. UNCHANGED <<store, op, ver, call>> /\ step[c] = "issue" /\ step' = [step EXCEPT ![c] = "in"]
  BY DEF Issue, Goes
<1>2. Proceeding(c) /\ TypeStep
  <2>1. \A a \in Accounts : version'[a] = version[a] /\ version[a] \in Nat
    BY <1>1 DEF store, LoginInv, LoginTypeOK
  <2>2. Follows(c) /\ \A d \in Calls \ {c} : step'[d] = step[d]
    BY <1>1 DEF Follows, LoginInv, LoginTypeOK
  <2> QED
    BY <1>1, <2>1, <2>2 DEF Proceeding, TypeStep, Steps, store, LoginInv, LoginTypeOK
<1>3. step'[c] = "in" /\ UNCHANGED <<revoked, expired>>
  BY <1>1 DEF store, LoginInv, LoginTypeOK
<1> QED
  BY <1>1, <1>2, <1>3, Advance, FlaggedStep, EndingsStep DEF LoginInv

(* A request finds the flag of a token that was logged out.                *)
LEMMA CheckStep ==
  ASSUME LoginInv, NEW c \in Calls, Check(c)
  PROVE  LoginInv'
PROOF
<1>1. /\ UNCHANGED <<store, op, ver, call>> /\ UNCHANGED <<revokeAll, revoked, expired, version>>
      /\ \A d \in Calls \ {c} : step'[d] = step[d]
      /\ Follows(c)
      /\ step[c] = "flag" /\ step'[c] = "version" => token[c] \notin revoked
      /\ step'[c] = "out" => step[c] = "again" /\ token[c] \in revoked
      /\ step[c] # "raise" /\ step'[c] \notin {"raise", "halfway"}
  BY CheckMoves DEF LoginInv, Follows, store
<1>2. step' \in [Calls -> Steps] /\ \A a \in Accounts : version[a] \in Nat
  BY DEF Check, CheckFlag, CheckVersion, CheckAccount, CheckAgain, Goes, Steps, LoginInv, LoginTypeOK
<1>3. Proceeding(c) /\ TypeStep
  BY <1>1, <1>2 DEF Proceeding, TypeStep, store, LoginInv, LoginTypeOK
<1>4. ASSUME revokeAll, step'[c] = "out" PROVE Ended(token[c])'
  <2>1. step[c] = "again" /\ Ended(token[c])
    BY <1>1, <1>4 DEF LoginInv, Endings
  <2>2. \A d \in Calls : step[d] \in {"raise", "halfway"} => d # c
    BY <2>1
  <2> QED
    BY <1>1, <2>1, <2>2 DEF call, Ended
<1> QED
  BY <1>1, <1>3, <1>4, Advance, FlaggedStep, EndingsStep DEF LoginInv

LEMMA MarkStep ==
  ASSUME LoginInv, NEW c \in Calls, MarkTokenRevoked(c)
  PROVE  LoginInv'
PROOF
<1>1. /\ UNCHANGED <<revokeAll, enabled, version, expired, op, ver, call>>
      /\ step[c] = "mark" /\ token[c] \in Calls /\ step[token[c]] = "in" /\ token[c] # c
      /\ \/ /\ revoked' = revoked \cup {token[c]}
            /\ step' = [step EXCEPT ![c] = IF revokeAll THEN "raise" ELSE "out"]
         \/ revoked' = revoked \cup {token[c]} /\ step' = [step EXCEPT ![c] = "halfway"]
         \/ revoked' = revoked /\ step' = [step EXCEPT ![c] = "failed"]
  BY DEF MarkTokenRevoked, WithFlag, Goes, LoginInv, LoginTypeOK, Carries, Asking
<1>2. Proceeding(c) /\ TypeStep
  <2>1. \A a \in Accounts : version'[a] = version[a] /\ version[a] \in Nat
    BY <1>1 DEF LoginInv, LoginTypeOK
  <2>2. Follows(c) /\ \A d \in Calls \ {c} : step'[d] = step[d]
    BY <1>1 DEF Follows, LoginInv, LoginTypeOK
  <2> QED
    BY <1>1, <2>1, <2>2 DEF Proceeding, TypeStep, Steps, LoginInv, LoginTypeOK
<1>3. /\ \/ revoked' = revoked /\ step'[c] = "failed"
         \/ /\ revoked' = revoked \cup {token[c]}
            /\ step'[c] \in {"raise", "halfway"} \/ (~revokeAll /\ step'[c] = "out")
      /\ step'[token[c]] = "in" /\ revokeAll' = revokeAll
  BY <1>1 DEF LoginInv, LoginTypeOK
<1>4. Flagged'
  <2>1. revoked \cup expired \subseteq revoked' \cup expired'
    BY <1>1, <1>3
  <2>2. step'[c] \in {"raise", "halfway", "out"} => token[c] \in revoked' \cup expired'
    BY <1>3
  <2> QED
    BY <1>1, <1>2, <2>1, <2>2, FlaggedStep
<1>5. Endings'
  <2>1. \A t \in revoked' : t \in revoked \/ (step'[t] = "in" /\ (revokeAll => Ended(t)'))
    <3>1. ASSUME NEW t, t = token[c], step'[c] \in {"raise", "halfway"} PROVE Ended(t)'
      BY <1>1, <3>1 DEF call, Ended
    <3> QED
      BY <1>3, <3>1
  <2>2. revokeAll => step'[c] # "out"
    BY <1>3
  <2> QED
    BY <1>1, <1>2, <2>1, <2>2, EndingsStep
<1> QED
  BY <1>2, <1>4, <1>5, Advance DEF LoginInv

(* The script leaves a version that is newer than the token's.             *)
LEMMA RaiseStep ==
  ASSUME LoginInv, NEW c \in Calls, CompareAndIncreaseVersion(c)
  PROVE  LoginInv'
PROOF
<1>1. /\ UNCHANGED <<revokeAll, enabled, revoked, expired, op, ver, call>>
      /\ step[c] = "raise" /\ token[c] \in Calls /\ token[c] \in revoked \cup expired
      /\ \/ version' = Raised(c) /\ step' = [step EXCEPT ![c] = "out"]
         \/ version' \in {version, Raised(c)} /\ step' = [step EXCEPT ![c] = "halfway"]
  BY DEF CompareAndIncreaseVersion, Goes, LoginInv, LoginTypeOK, Flagged
<1>2. /\ owner[c] \in Accounts /\ owner[c] = owner[token[c]] /\ ver[c] = ver[token[c]]
      /\ ver[c] \in 1 .. version[owner[c]] /\ version[owner[c]] \in Nat
  BY <1>1 DEF LoginInv, LoginTypeOK, Carries, Asking
<1>3. /\ Raised(c) \in [Accounts -> Nat]
      /\ \A a \in Accounts : version[a] \in Nat /\ Raised(c)[a] >= version[a]
      /\ Raised(c)[owner[c]] > ver[c]
  BY <1>2 DEF Raised, LoginInv, LoginTypeOK
<1>4. version' \in [Accounts -> Nat] /\ \A a \in Accounts : version'[a] >= version[a]
  BY <1>1, <1>3 DEF LoginInv, LoginTypeOK
<1>5. Proceeding(c) /\ TypeStep
  <2>1. Follows(c) /\ \A d \in Calls \ {c} : step'[d] = step[d]
    BY <1>1 DEF Follows, LoginInv, LoginTypeOK
  <2> QED
    BY <1>1, <1>4, <2>1 DEF Proceeding, TypeStep, Steps, LoginInv, LoginTypeOK
<1>6. step'[c] \in {"out", "halfway"} /\ (step'[c] = "out" => version'[owner[c]] > ver[c])
  BY <1>1, <1>3 DEF LoginInv, LoginTypeOK
<1>7. step'[c] = "out" => Ended(token[c])'
  BY <1>1, <1>2, <1>6 DEF call, Ended
<1> QED
  BY <1>1, <1>5, <1>6, <1>7, Advance, FlaggedStep, EndingsStep DEF LoginInv

(* Time and the administrator.                                             *)
LEMMA OutsideStep ==
  ASSUME LoginInv, NEW c \in Calls,
         \/ TokenExpires(c) \/ FlagGoes(c)
         \/ \E a \in Accounts : Disable(a)
  PROVE  LoginInv'
PROOF
<1>1. /\ UNCHANGED <<revokeAll, version, op, step, ver, call>>
      /\ enabled' \subseteq enabled /\ revoked' \subseteq revoked
      /\ expired \subseteq expired' /\ expired' \subseteq Calls
      /\ revoked \cup expired \subseteq revoked' \cup expired'
  BY DEF TokenExpires, FlagGoes, Disable, LoginInv, LoginTypeOK
<1>2. Proceeding(c) /\ TypeStep
  <2>1. step' = [step EXCEPT ![c] = step[c]]
    BY <1>1 DEF LoginInv, LoginTypeOK
  <2> QED
    BY <1>1, <2>1 DEF Proceeding, TypeStep, LoginInv, LoginTypeOK
<1>3. step'[c] \in {"raise", "halfway", "out"} => token[c] \in revoked' \cup expired'
  BY <1>1 DEF LoginInv, Flagged
<1> QED
  BY <1>1, <1>2, <1>3, Advance, FlaggedStep, EndingsStep DEF LoginInv

-----------------------------------------------------------------------------
LEMMA InitLoginInv == LoginInit => LoginInv
PROOF
  BY DEF LoginInit, Steps, LoginInv, LoginTypeOK, Carries, Asking, Grows, Compared, Verified,
         Flagged, Endings

LEMMA StepLoginInv == LoginInv /\ [LoginNext]_loginVars => LoginInv'
PROOF
<1>1. ASSUME LoginInv, NEW c \in Calls, Proceeds(c) PROVE LoginInv'
  BY <1>1, EnsureStep, IssueStep, CheckStep, MarkStep, RaiseStep DEF Proceeds, Check
<1>2. ASSUME LoginInv, NEW a \in Accounts, Disable(a) PROVE LoginInv'
  <2>1. CASE \E c \in Calls : TRUE
    BY <1>2, <2>1, OutsideStep
  <2>2. CASE Calls = {}
    BY <1>2, <2>2
       DEF Disable, call, LoginInv, LoginTypeOK, Carries, Grows, Compared, Flagged, Endings, Ended
  <2> QED
    BY <2>1, <2>2
<1>3. ASSUME LoginInv, LoginNext PROVE LoginInv'
  BY <1>1, <1>2, <1>3, LoginStep, RequestStep, OutsideStep DEF LoginNext
<1>4. ASSUME LoginInv, UNCHANGED loginVars PROVE LoginInv'
  BY <1>4
     DEF loginVars, store, call, LoginInv, LoginTypeOK, Carries, Asking, Grows, Compared, Verified,
         Flagged, Endings, Ended
<1> QED
  BY <1>3, <1>4

LEMMA LoginInvariance == LoginSpec => []LoginInv
PROOF
  BY InitLoginInv, StepLoginInv, PTL DEF LoginSpec

(* No token is ahead of the version key of its account.                    *)
THEOREM LoginTypes == LoginSpec => []LoginTypeOK
PROOF
<1>1. LoginInv => LoginTypeOK
  BY DEF LoginInv
<1> QED
  BY <1>1, LoginInvariance, PTL

(* EnsureVersion, VerifyToken and Logout: no request hands out or lets     *)
(* through a token that was out of date or logged out when the request     *)
(* began, whatever else the store is asked at the same time.               *)
THEOREM OnlyLivePass == LoginSpec => []OnlyLiveTokens
PROOF
<1>1. LoginInv => NothingOutdated
  BY DEF LoginInv, Compared, NothingOutdated
<1>2. LoginInv => LoggedOutIsRefused
  BY DEF LoginInv, LoginTypeOK, Flagged, LoggedOutIsRefused
<1> QED
  BY <1>1, <1>2, LoginInvariance, PTL DEF OnlyLiveTokens

(* Logout with RevokeAllOnLogout: it ends the tokens of its version,       *)
(* unless another logout of its token stands or failed half way.           *)
THEOREM LogoutEnds == LoginSpec => []LogoutEndsAll
PROOF
<1>1. ASSUME LoginInv, NEW c \in Calls, revokeAll, step[c] = "out"
      PROVE  \/ version[owner[c]] > ver[c]
             \/ \E d \in Calls : token[d] = token[c] /\ step[d] \in {"raise", "halfway"}
  <2>1. Ended(token[c]) /\ owner[c] = owner[token[c]] /\ ver[c] = ver[token[c]]
    BY <1>1 DEF LoginInv, Carries, Asking, Endings
  <2> QED
    BY <2>1 DEF Ended
<1>2. LoginInv => LogoutEndsAll
  BY <1>1 DEF LogoutEndsAll
<1> QED
  BY <1>2, LoginInvariance, PTL
=============================================================================
