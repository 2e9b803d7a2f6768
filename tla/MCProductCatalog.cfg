\* Two writers and a reader.
SPECIFICATION Spec
CONSTANTS
  c1 = c1
  c2 = c2
  d1 = d1
  d2 = d2
  m1 = m1
  m2 = m2
  Categories = {c1, c2}
  Dishes = {d1, d2}
  Setmeals = {m1, m2}
  Writers = {w1, w2}
  Readers = {r1}
  w1 = w1
  Commands <- ByWriter
  Asked <- FiveLists
  Warm <- OneList
  Node = node
  NodeOf <- OneNode
  Seeded <- AtFirst
  HomeOf <- InNone
  UsesOf <- WithNone
  Seed = seed
  Unborn = unborn
  Gone = gone
  All = all
  NoEntry = noEntry
INVARIANTS TypeOK StaleIsExplained OrphansCameLate
CHECK_DEADLOCK FALSE
