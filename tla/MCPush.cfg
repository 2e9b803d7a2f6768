\* Two clients of one user and one disconnect request; or two nodes and two
\* requests with one message id.
SPECIFICATION PushSpec
CONSTANTS
  Sessions = {s1, s2}
  User = user
  Owners = {user}
  OwnerOf <- OneUser
  Callers = {c1}
  NoSession = NoSession
  n1 = n1
  n2 = n2
  Nodes = {n1, n2}
  Queues = {n1, n2}
  QueueOf <- OwnQueue
  redis = redis
  Stores = {redis}
  StoreOf <- OneRedis
  Messages = {m1}
  Requests = {r1, r2}
  MaxRetry = 1
  MaxFaults = 2
  NoCopy = NoCopy
INVARIANTS OneSessionUnlessRaced ClientsAreReachable OnlyPumpsHang DisconnectIsFinal
  BroadcastTypeOK ShownOncePerRecord
PROPERTIES RequestsReturn Drained
CHECK_DEADLOCK FALSE
