--------------------------- MODULE PushBroadcast ----------------------------
(***************************************************************************)
(* Push and Broadcast of websocket_push/app/push_service.go on several     *)
(* nodes: the dedupe store that admits a message id once, the delivery to  *)
(* the sessions of the node, the fanout exchange, and the consumer every   *)
(* node runs on its queue (infra/mq/broadcaster.go), which calls           *)
(* DeliverLocal.                                                           *)
(*                                                                         *)
(* To show a message is the loop over the sessions of a node, whatever     *)
(* their number: a push nobody received is shown to nobody.  A fault is an *)
(* error of the store, a publish the broker refuses, a timeout, an expired *)
(* record, a lost connection or a restart.                                 *)
(***************************************************************************)
EXTENDS Naturals, FiniteSets

CONSTANTS
  Nodes,
  Queues,
  QueueOf,     \* WS_MQ_NODE_QUEUE of each node
  Stores,
  StoreOf,     \* its dedupe store: one Redis, or the memory of each process
  Messages,    \* message ids
  Requests,
  MaxRetry,    \* WS_MQ_MAX_RETRY
  MaxFaults,   \* bound: faults in one behaviour
  NoCopy

ASSUME QueueOfAssumption == QueueOf \in [Nodes -> Queues]
ASSUME StoreOfAssumption == StoreOf \in [Nodes -> Stores]
ASSUME BoundsAssumption ==
  /\ IsFiniteSet(Nodes) /\ IsFiniteSet(Requests)
  /\ MaxRetry \in Nat /\ MaxFaults \in Nat

Kinds == {"user", "nobody", "all"}   \* Push, Push without a target, Broadcast
Copy == [of : Messages, retry : 0 .. MaxRetry]
Request == [at : Nodes, of : Messages, kind : Kinds]

ASSUME NoCopyAssumption == NoCopy \notin Copy \cup Request

VARIABLES
  held,        \* message ids each store holds a record of
  stage,       \* where each request stands
  request,
  queue,       \* how often each copy waits in each queue
  up,          \* the node has its connection and its consumer
  unread,      \* confirms of its channel nobody has read
  work,        \* where its consumer stands
  hand,        \* the delivery it works on
  dlq,         \* messages in the dead-letter queues
  shown,       \* times the nodes of each store have shown a message
  lost,        \* times each store lost the record of a message
  wasted,      \* records whose owner died or failed before it showed the message
  faults

broadcastVars == <<held, stage, request, queue, up, unread, work, hand, dlq, shown, lost, wasted, faults>>
consuming == <<work, hand>>
requests == <<stage, request>>

BroadcastTypeOK ==
  /\ held \in [Stores -> SUBSET Messages]
  /\ stage \in [Requests -> {"idle", "send", "publish", "confirm", "done"}]
  /\ request \in [Requests -> Request \cup {NoCopy}]
  /\ \A r \in Requests : stage[r] = "idle" <=> request[r] = NoCopy
  /\ queue \in [Queues -> [Copy -> Nat]]
  /\ up \in [Nodes -> BOOLEAN]
  /\ unread \in [Nodes -> Nat]
  /\ work \in [Nodes -> {"idle", "show", "retry", "bury", "ack"}]
  /\ hand \in [Nodes -> Copy \cup {NoCopy}]
  /\ \A n \in Nodes : work[n] = "idle" <=> hand[n] = NoCopy
  /\ dlq \subseteq Messages
  /\ shown \in [Stores -> [Messages -> Nat]]
  /\ lost \in [Stores -> [Messages -> Nat]]
  /\ wasted \in [Stores -> [Messages -> Nat]]
  /\ faults \in 0 .. MaxFaults

BroadcastInit ==
  /\ held = [s \in Stores |-> {}]
  /\ stage = [r \in Requests |-> "idle"]
  /\ request = [r \in Requests |-> NoCopy]
  /\ queue = [q \in Queues |-> [c \in Copy |-> 0]]
  /\ up = [n \in Nodes |-> TRUE]
  /\ unread = [n \in Nodes |-> 0]
  /\ work = [n \in Nodes |-> "idle"]
  /\ hand = [n \in Nodes |-> NoCopy]
  /\ dlq = {}
  /\ shown = [s \in Stores |-> [m \in Messages |-> 0]]
  /\ lost = [s \in Stores |-> [m \in Messages |-> 0]]
  /\ wasted = [s \in Stores |-> [m \in Messages |-> 0]]
  /\ faults = 0

Fault == faults < MaxFaults /\ faults' = faults + 1
NoFault == UNCHANGED faults

-----------------------------------------------------------------------------
Unnoticed(s, m) == FALSE                      \* mutant: the answer of SETNX is not looked at
IsDuplicate(s, m) == m \in held[s]

Record(s, m) == held' = [held EXCEPT ![s] = @ \cup {m}]
Waste(s, m) == wasted' = [wasted EXCEPT ![s][m] = @ + 1]

(* TryAcquire answers with an error.  SETNX may have made the record all   *)
(* the same, and then nobody will ever show the message for it.            *)
AcquireFails(s, m) ==
  /\ Fault
  /\ \/ UNCHANGED <<held, wasted>>
     \/ m \notin held[s] /\ Record(s, m) /\ Waste(s, m)

(* A request is answered without an effect when its message id is known.   *)
(* A Push without a target is refused after its id has been recorded.      *)
Ask(r, n, m, kind) ==
  LET s == StoreOf[n]
  IN /\ stage[r] = "idle"
     /\ request' = [request EXCEPT ![r] = [at |-> n, of |-> m, kind |-> kind]]
     /\ \/ /\ IsDuplicate(s, m)
           /\ NoFault
           /\ stage' = [stage EXCEPT ![r] = "done"]
           /\ UNCHANGED <<held, wasted>>
        \/ /\ ~IsDuplicate(s, m)
           /\ NoFault
           /\ Record(s, m)
           /\ IF kind = "nobody"
                THEN stage' = [stage EXCEPT ![r] = "done"] /\ Waste(s, m)
                ELSE stage' = [stage EXCEPT ![r] = "send"] /\ UNCHANGED wasted
        \/ /\ AcquireFails(s, m)
           /\ stage' = [stage EXCEPT ![r] = "done"]
     /\ UNCHANGED <<queue, up, unread, consuming, dlq, shown, lost>>

ShowAt(n, m) == shown' = [shown EXCEPT ![StoreOf[n]][m] = @ + 1]

(* A Push goes to the exchange only if no session of this node took it.    *)
Send(r) ==
  /\ stage[r] = "send"
  /\ ShowAt(request[r].at, request[r].of)
  /\ \E next \in {"publish", "done"} :
       /\ request[r].kind = "all" => next = "publish"
       /\ stage' = [stage EXCEPT ![r] = next]
  /\ UNCHANGED <<held, request, queue, up, unread, consuming, dlq, lost, wasted, faults>>

(* The exchange is a fanout: every queue gets a copy, the sender's too.    *)
(* The broker confirms the publish, either way.                            *)
Fanout(m) == [q \in Queues |-> [queue[q] EXCEPT ![[of |-> m, retry |-> 0]] = @ + 1]]

Publish(r) ==
  LET n == request[r].at
  IN /\ stage[r] = "publish"
     /\ IF up[n]
          THEN /\ \/ NoFault /\ queue' = Fanout(request[r].of)
                  \/ Fault /\ UNCHANGED queue
               /\ unread' = [unread EXCEPT ![n] = @ + 1]
               /\ stage' = [stage EXCEPT ![r] = "confirm"]
          ELSE /\ NoFault
               /\ UNCHANGED <<queue, unread>>
               /\ stage' = [stage EXCEPT ![r] = "done"]
     /\ UNCHANGED <<held, request, up, consuming, dlq, shown, lost, wasted>>

(* The request takes any confirm of the channel, finds the channel closed, *)
(* or times out and leaves its confirm behind.  It ignores what it hears.  *)
EndPublish(r) ==
  LET n == request[r].at
  IN /\ stage[r] = "confirm"
     /\ \/ NoFault /\ unread[n] > 0 /\ unread' = [unread EXCEPT ![n] = @ - 1]
        \/ NoFault /\ ~up[n] /\ UNCHANGED unread
        \/ Fault /\ UNCHANGED unread
     /\ stage' = [stage EXCEPT ![r] = "done"]
     /\ UNCHANGED <<held, request, queue, up, consuming, dlq, shown, lost, wasted>>

-----------------------------------------------------------------------------
MayRetry(c) == c.retry < MaxRetry
NextCopy(c) == [of |-> c.of, retry |-> c.retry + 1]

Requeued(n) ==
  IF up[n] /\ hand[n] # NoCopy
    THEN [queue EXCEPT ![QueueOf[n]][hand[n]] = @ + 1]
    ELSE queue

(* A delivery reaches DeliverLocal, which asks the store first.            *)
Receive(n, c) ==
  LET s == StoreOf[n]
      q == QueueOf[n]
  IN /\ up[n] /\ work[n] = "idle"
     /\ queue[q][c] > 0
     /\ queue' = [queue EXCEPT ![q][c] = @ - 1]
     /\ hand' = [hand EXCEPT ![n] = c]
     /\ \/ /\ IsDuplicate(s, c.of)
           /\ NoFault
           /\ work' = [work EXCEPT ![n] = "ack"]
           /\ UNCHANGED <<held, wasted>>
        \/ /\ ~IsDuplicate(s, c.of)
           /\ NoFault
           /\ Record(s, c.of)
           /\ work' = [work EXCEPT ![n] = "show"]
           /\ UNCHANGED wasted
        \/ /\ AcquireFails(s, c.of)
           /\ work' = [work EXCEPT ![n] = IF MayRetry(c) THEN "retry" ELSE "bury"]
     /\ UNCHANGED <<requests, up, unread, dlq, shown, lost>>

Show(n) ==
  /\ work[n] = "show"
  /\ ShowAt(n, hand[n].of)
  /\ work' = [work EXCEPT ![n] = "ack"]
  /\ UNCHANGED <<held, requests, queue, up, unread, hand, dlq, lost, wasted, faults>>

(* publishRetry to the node's own queue and publishDLQ: nobody reads the   *)
(* confirm of either, and their errors are dropped.                        *)
PublishAgain(n) ==
  /\ work[n] \in {"retry", "bury"}
  /\ \/ /\ up[n] /\ NoFault
        /\ IF work[n] = "retry"
             THEN /\ queue' = [queue EXCEPT ![QueueOf[n]][NextCopy(hand[n])] = @ + 1]
                  /\ UNCHANGED dlq
             ELSE dlq' = dlq \cup {hand[n].of} /\ UNCHANGED queue
        /\ unread' = [unread EXCEPT ![n] = @ + 1]
     \/ /\ up[n] /\ Fault
        /\ unread' = [unread EXCEPT ![n] = @ + 1]
        /\ UNCHANGED <<queue, dlq>>
     \/ /\ ~up[n] /\ NoFault
        /\ UNCHANGED <<queue, dlq, unread>>
  /\ work' = [work EXCEPT ![n] = "ack"]
  /\ UNCHANGED <<held, requests, up, hand, shown, lost, wasted>>

KeptBack(n) == UNCHANGED <<hand, queue>>      \* mutant: the delivery is left unacked
Nacked(n) ==                                  \* mutant: it is put back instead
  /\ queue' = Requeued(n)
  /\ hand' = [hand EXCEPT ![n] = NoCopy]
Acked(n) == hand' = [hand EXCEPT ![n] = NoCopy] /\ UNCHANGED queue

Ack(n) ==
  /\ work[n] = "ack"
  /\ Acked(n)
  /\ work' = [work EXCEPT ![n] = "idle"]
  /\ UNCHANGED <<held, requests, up, unread, dlq, shown, lost, wasted, faults>>

-----------------------------------------------------------------------------
(* The broker takes the unacked delivery back while the node still works   *)
(* on it; Consume returns, and main.go starts no other.                    *)
LoseConnection(n) ==
  /\ up[n]
  /\ Fault
  /\ queue' = Requeued(n)
  /\ up' = [up EXCEPT ![n] = FALSE]
  /\ unread' = [unread EXCEPT ![n] = 0]
  /\ UNCHANGED <<held, requests, consuming, dlq, shown, lost, wasted>>

Dying(n, m) ==
  Cardinality({r \in Requests : stage[r] = "send" /\ request[r].at = n /\ request[r].of = m})
    + (IF work[n] = "show" /\ hand[n].of = m THEN 1 ELSE 0)

(* The process dies and starts again; if no broker answers it runs on with *)
(* the noop broadcaster.  A store in its memory is emptied by Expire.      *)
Restart(n) ==
  /\ Fault
  /\ queue' = Requeued(n)
  /\ \E dialled \in BOOLEAN : up' = [up EXCEPT ![n] = dialled]
  /\ unread' = [unread EXCEPT ![n] = 0]
  /\ work' = [work EXCEPT ![n] = "idle"]
  /\ hand' = [hand EXCEPT ![n] = NoCopy]
  /\ stage' = [r \in Requests |->
                 IF stage[r] # "idle" /\ request[r].at = n THEN "done" ELSE stage[r]]
  /\ wasted' = [wasted EXCEPT ![StoreOf[n]] = [m \in Messages |-> @[m] + Dying(n, m)]]
  /\ UNCHANGED <<held, request, dlq, shown, lost>>

(* The record reaches WS_PUSH_DEDUP_TTL_SEC.                               *)
Expire(s, m) ==
  /\ m \in held[s]
  /\ Fault
  /\ held' = [held EXCEPT ![s] = @ \ {m}]
  /\ lost' = [lost EXCEPT ![s][m] = @ + 1]
  /\ UNCHANGED <<requests, queue, up, unread, consuming, dlq, shown, wasted>>

RequestStep(r) == Send(r) \/ Publish(r) \/ EndPublish(r)
ConsumerStep(n) == Show(n) \/ PublishAgain(n) \/ Ack(n)

BroadcastNext ==
  \/ \E r \in Requests :
       \/ \E n \in Nodes, m \in Messages, kind \in Kinds : Ask(r, n, m, kind)
       \/ RequestStep(r)
  \/ \E n \in Nodes :
       \/ \E c \in Copy : Receive(n, c)
       \/ ConsumerStep(n)
       \/ LoseConnection(n)
       \/ Restart(n)
  \/ \E s \in Stores, m \in Messages : Expire(s, m)

BroadcastSpec == BroadcastInit /\ [][BroadcastNext]_broadcastVars

(* The confirm listener holds one confirm.  At the second that nobody      *)
(* reads, the goroutine that reads the connection waits inside the client  *)
(* library, and no further delivery reaches the node.                      *)
Stuck(n) == unread[n] > 1
Consume(n) == ~Stuck(n) /\ \E c \in Copy : Receive(n, c)

BroadcastFairness ==
  /\ \A r \in Requests : WF_broadcastVars(RequestStep(r))
  /\ \A n \in Nodes : SF_broadcastVars(Consume(n)) /\ WF_broadcastVars(ConsumerStep(n))

BroadcastFairSpec == BroadcastSpec /\ BroadcastFairness

-----------------------------------------------------------------------------
NodesOf(s) == {n \in Nodes : StoreOf[n] = s}

(* Those that hold a record and are about to show its message.             *)
Sending(s, m) ==
  {r \in Requests : stage[r] = "send" /\ request[r].at \in NodesOf(s) /\ request[r].of = m}
Showing(s, m) == {n \in NodesOf(s) : work[n] = "show" /\ hand[n].of = m}
PendingFor(s, m) == Cardinality(Sending(s, m)) + Cardinality(Showing(s, m))

(* Every record of a message id stands for one node that shows it, no      *)
(* matter how requests with that id, fan-out copies, retries and           *)
(* redeliveries meet; only the death or the failure of its owner wastes    *)
(* it.  Where the nodes share their store, a broadcast that its sender     *)
(* shows is therefore shown by no other node, unless the record expires    *)
(* before the copy is delivered.                                           *)
ShownOncePerRecord ==
  \A s \in Stores, m \in Messages :
    shown[s][m] + PendingFor(s, m) + wasted[s][m] =
      lost[s][m] + (IF m \in held[s] THEN 1 ELSE 0)

ConsumersOf(q) == {n \in Nodes : QueueOf[n] = q}

Empty(q) ==
  /\ \A c \in Copy : queue[q][c] = 0
  /\ \A n \in ConsumersOf(q) : hand[n] = NoCopy

(* No delivery waits or comes back for ever: every queue empties and its   *)
(* last delivery is acked, unless each of its consumers has lost its       *)
(* connection or is stuck behind confirms that nobody reads.               *)
Drained ==
  \A q \in Queues : []<>(Empty(q) \/ \A n \in ConsumersOf(q) : ~up[n] \/ Stuck(n))
=============================================================================
