------------------------- MODULE EventOutboxProofs --------------------------
(***************************************************************************)
(* Proofs about EventOutbox for any number of events, relays, producers    *)
(* and consumers, any retry limits and any number of faults.               *)
(*                                                                         *)
(* An event the broker has confirmed stays alive: a copy of it is queued   *)
(* or in a consumer's hands that has not yet seen to it, or it is handled, *)
(* dead or lost.  No step of anyone ends that, so a relay that trusts a    *)
(* confirm may mark the row at any later time.                             *)
(***************************************************************************)
EXTENDS EventOutbox, WellFoundedInduction, TLAPS

Queued(e) == \E m \in Messages : m.of = e /\ queue[m] > 0
Carried(e) == \E c \in Consumers : stage[c] \in {"retry", "reject"} /\ holding[c].of = e
Alive(e) == Queued(e) \/ Carried(e) \/ Settled(e) \/ Lost(e)

(* Only what the broker took is confirmed, and only that gets published.   *)
ConfirmInv ==
  \A p \in Producers : \A i \in 1 .. Len(confirms[p]) :
    confirms[p][i].ack => Alive(confirms[p][i].of)

PublishedInv == \A r \in Relays : pc[r] = "published" => Alive(Current(r))
RowInv == \A e \in Events : status[e] = "PUBLISHED" => Alive(e)

(* A store knows an event it handled until it forgets it, and no other.    *)
KnownInv ==
  \A c \in Consumers, e \in Events :
    effects[c][e] = IF e \in known[c] THEN forgotten[c][e] + 1 ELSE forgotten[c][e]

(* Each failure of a delivery raises the retry count of its copy by one.   *)
FailedTimes(m) == failures[m.of] >= m.retry

RetryInv ==
  /\ \A m \in Messages : queue[m] > 0 => FailedTimes(m)
  /\ \A c \in Consumers :
       /\ holding[c] # NoMessage => FailedTimes(holding[c])
       /\ stage[c] \in {"retry", "reject"} => failures[holding[c].of] > holding[c].retry
       /\ stage[c] = "retry" => holding[c].retry < MaxRetries
       /\ stage[c] = "reject" => holding[c].retry = MaxRetries

IInv ==
  /\ TypeOK
  /\ ConfirmInv
  /\ PublishedInv
  /\ RowInv
  /\ KnownInv
  /\ RetryInv
  /\ DeadLetterIsEarned

-----------------------------------------------------------------------------
(* A batch has a first row, as ids are natural numbers.                    *)
LEMMA FirstRow ==
  ASSUME NEW ids \in SUBSET Events, ids # {}
  PROVE  \E e \in ids : \A f \in ids : e <= f
PROOF
<1>1. ids \subseteq Nat
  BY EventsAssumption
<1> DEFINE Less == {p \in Nat \X Nat : p[1] < p[2]}
<1>2. IsWellFoundedOn(Less, Nat)
  BY NatLessThanWellFounded DEF OpToRel
<1> HIDE DEF Less
<1>3. PICK e \in ids : \A f \in ids : ~(<<f, e>> \in Less)
  BY <1>1, <1>2, WFMin
<1>4. ASSUME NEW f \in ids PROVE e <= f
  <2>1. e \in Nat /\ f \in Nat
    BY <1>1
  <2>2. f < e => <<f, e>> \in Less
    BY <2>1 DEF Less
  <2> QED
    BY <1>3, <2>1, <2>2
<1> QED
  BY <1>4

LEMMA CurrentInBatch ==
  ASSUME TypeOK, NEW r \in Relays, pc[r] # "idle"
  PROVE  Current(r) \in batch[r] /\ Current(r) \in Events
PROOF
<1>1. batch[r] \in SUBSET Events /\ batch[r] # {}
  BY DEF TypeOK, RelaysOK
<1>2. \E e \in batch[r] : \A f \in batch[r] : e <= f
  BY <1>1, FirstRow
<1> QED
  BY <1>1, <1>2 DEF Current

LEMMA MessageFields ==
  ASSUME NEW m \in Messages
  PROVE  m.of \in Events /\ m.retry \in Nat /\ m.retry <= MaxRetries
PROOF BY RetriesAssumption DEF Messages

LEMMA FirstIsMessage ==
  ASSUME NEW e \in Events
  PROVE  First(e) \in Messages /\ First(e).of = e /\ First(e).retry = 0
PROOF BY RetriesAssumption DEF First, Messages

LEMMA NextCopyIsMessage ==
  ASSUME NEW m \in Messages, m.retry < MaxRetries
  PROVE  /\ NextCopy(m) \in Messages
         /\ NextCopy(m).of = m.of /\ NextCopy(m).retry = m.retry + 1
PROOF BY RetriesAssumption, MessageFields DEF NextCopy, Messages

(* A consumer that is busy holds a message.                                *)
LEMMA HeldMessage ==
  ASSUME TypeOK, NEW c \in Consumers, stage[c] \notin {"idle", "stopped"}
  PROVE  holding[c] \in Messages /\ holding[c] # NoMessage
PROOF BY DEF TypeOK, ConsumersOK

-----------------------------------------------------------------------------
(* What does not change keeps its type.                                    *)
LEMMA Kept ==
  ASSUME TypeOK
  PROVE  /\ UNCHANGED <<status, due, relaying>> => RelaysOK'
         /\ UNCHANGED channels => ChannelsOK'
         /\ UNCHANGED <<queue, consuming, dlq>> => ConsumersOK'
         /\ UNCHANGED history => HistoryOK'
         /\ Fault \/ UNCHANGED faults => faults' \in 0 .. MaxFaults
PROOF
<1>1. UNCHANGED <<status, due, relaying>> => RelaysOK'
  BY DEF TypeOK, RelaysOK, relaying
<1>2. UNCHANGED channels => ChannelsOK'
  BY DEF TypeOK, ChannelsOK, channels
<1>3. UNCHANGED <<queue, consuming, dlq>> => ConsumersOK'
  BY DEF TypeOK, ConsumersOK, consuming
<1>4. UNCHANGED history => HistoryOK'
  BY DEF TypeOK, HistoryOK, history
<1>5. Fault \/ UNCHANGED faults => faults' \in 0 .. MaxFaults
  BY RetriesAssumption DEF TypeOK, Fault
<1> QED
  BY <1>1, <1>2, <1>3, <1>4, <1>5

(* Every step of a relay keeps the types.                                  *)
LEMMA RelayTypes ==
  ASSUME TypeOK, NEW r \in Relays, Fetch(r) \/ RelayStep(r)
  PROVE  TypeOK'
PROOF
<1>1. CASE Fetch(r)
  <2>1. RelaysOK'
    BY <1>1, RetriesAssumption DEF Fetch, Pending, TypeOK, RelaysOK
  <2> QED
    BY <1>1, <2>1, Kept DEF Fetch, TypeOK
<1>2. CASE RelayStep(r)
  <2>1. pc[r] # "idle" /\ Current(r) \in batch[r] /\ Current(r) \in Events
    BY <1>2, CurrentInBatch DEF RelayStep, Send, ReadConfirm, NoConfirm, MarkPublished, MarkFailed
  <2>2. AttemptFails(r) /\ UNCHANGED <<status, due>> => RelaysOK'
    BY <2>1, RetriesAssumption DEF AttemptFails, TypeOK, RelaysOK
  <2>3. ASSUME NextRow(r)
        PROVE  /\ pc' \in [Relays -> {"idle", "send", "wait", "published", "failed"}]
               /\ tries' \in [Relays -> 0 .. Attempts - 1]
               /\ batch' \in [Relays -> SUBSET Events]
               /\ \A q \in Relays : pc'[q] # "idle" => batch'[q] # {}
    BY <2>1, <2>3, RetriesAssumption DEF NextRow, TypeOK, RelaysOK
  <2>4. CASE Send(r)
    <3>1. ChannelsOK'
      <4>1. ProducerOf[r] \in Producers
        BY ProducerAssumption
      <4>2. Append(wire[ProducerOf[r]], Current(r)) \in Seq(Events)
        BY <2>1, <4>1 DEF TypeOK, ChannelsOK
      <4> QED
        BY <2>4, <4>1, <4>2 DEF Send, TypeOK, ChannelsOK
    <3>2. ~closed[ProducerOf[r]] => RelaysOK'
      BY <2>1, <2>4 DEF Send, TypeOK, RelaysOK
    <3>3. closed[ProducerOf[r]] => RelaysOK'
      BY <2>2, <2>4 DEF Send
    <3> QED
      BY <2>4, <3>1, <3>2, <3>3, Kept DEF Send, TypeOK
  <2>5. CASE ReadConfirm(r)
    <3>1. ChannelsOK'
      <4>1. ProducerOf[r] \in Producers /\ confirms[ProducerOf[r]] # << >>
        BY <2>5, ProducerAssumption DEF ReadConfirm
      <4>2. Tail(confirms[ProducerOf[r]]) \in Seq(Confirm)
        BY <4>1 DEF TypeOK, ChannelsOK
      <4> QED
        BY <2>5, <4>1, <4>2 DEF ReadConfirm, TypeOK, ChannelsOK
    <3>2. AttemptFails(r) => RelaysOK'
      BY <2>2, <2>5 DEF ReadConfirm
    <3>3. pc' = [pc EXCEPT ![r] = "published"] /\ UNCHANGED <<batch, tries>> => RelaysOK'
      BY <2>1, <2>5 DEF ReadConfirm, TypeOK, RelaysOK
    <3>4. HistoryOK'
      BY <2>1, <2>5 DEF ReadConfirm, TypeOK, HistoryOK
    <3> QED
      BY <2>5, <3>1, <3>2, <3>3, <3>4, Kept DEF ReadConfirm, TypeOK
  <2>6. CASE NoConfirm(r)
    BY <2>2, <2>6, Kept DEF NoConfirm, NoFault, TypeOK
  <2>7. CASE MarkPublished(r)
    <3>1. RelaysOK'
      BY <2>1, <2>3, <2>7 DEF MarkPublished, TypeOK, RelaysOK
    <3> QED
      BY <2>7, <3>1, Kept DEF MarkPublished, NoFault, TypeOK
  <2>8. CASE MarkFailed(r)
    <3>1. status' \in [Events -> {"none", "PENDING", "FAILED", "PUBLISHED"}]
      BY <2>8 DEF MarkFailed, TypeOK, RelaysOK
    <3>2. due' \in [Events -> BOOLEAN]
      BY <2>8 DEF MarkFailed, TypeOK, RelaysOK
    <3>3. RelaysOK'
      BY <2>3, <2>8, <3>1, <3>2 DEF MarkFailed, RelaysOK
    <3> QED
      BY <2>8, <3>3, Kept DEF MarkFailed, NoFault, TypeOK
  <2> QED
    BY <1>2, <2>4, <2>5, <2>6, <2>7, <2>8 DEF RelayStep
<1> QED
  BY <1>1, <1>2

(* Every step of the broker or a producer keeps the types.                 *)
LEMMA ProducerTypes ==
  ASSUME TypeOK, NEW p \in Producers, Route(p) \/ LoseConnection(p) \/ RestartProducer(p)
  PROVE  TypeOK'
PROOF
<1>1. CASE Route(p)
  <2>1. PICK ok \in BOOLEAN :
           /\ IF ok THEN NoFault ELSE Fault
           /\ queue' = IF ok THEN [queue EXCEPT ![First(Head(wire[p]))] = @ + 1] ELSE queue
           /\ confirms' = [confirms EXCEPT ![p] = Append(@, [of |-> Head(wire[p]), ack |-> ok])]
    BY <1>1 DEF Route
  <2>2. Head(wire[p]) \in Events /\ Tail(wire[p]) \in Seq(Events)
    BY <1>1 DEF Route, TypeOK, ChannelsOK
  <2>3. ChannelsOK'
    <3>1. [of |-> Head(wire[p]), ack |-> ok] \in Confirm
      BY <2>2 DEF Confirm
    <3>2. Append(confirms[p], [of |-> Head(wire[p]), ack |-> ok]) \in Seq(Confirm)
      BY <3>1 DEF TypeOK, ChannelsOK
    <3> QED
      BY <1>1, <2>1, <2>2, <3>2 DEF Route, TypeOK, ChannelsOK
  <2>4. ConsumersOK'
    BY <1>1, <2>1, <2>2, FirstIsMessage DEF Route, TypeOK, ConsumersOK, consuming
  <2> QED
    BY <1>1, <2>1, <2>3, <2>4, Kept DEF Route, NoFault, TypeOK
<1>2. CASE LoseConnection(p)
  <2>1. ChannelsOK'
    BY <1>2 DEF LoseConnection, TypeOK, ChannelsOK
  <2> QED
    BY <1>2, <2>1, Kept DEF LoseConnection, TypeOK
<1>3. CASE RestartProducer(p)
  <2>1. ChannelsOK'
    BY <1>3 DEF RestartProducer, TypeOK, ChannelsOK
  <2>2. RelaysOK'
    BY <1>3, RetriesAssumption DEF RestartProducer, TypeOK, RelaysOK
  <2> QED
    BY <1>3, <2>1, <2>2, Kept DEF RestartProducer, TypeOK
<1> QED
  BY <1>1, <1>2, <1>3

(* Every step of a consumer keeps the types.                               *)
LEMMA ConsumerTypes ==
  ASSUME TypeOK, RetryInv, NEW c \in Consumers,
         \/ \E m \in Messages : Consume(c, m)
         \/ ConsumerStep(c) \/ LoseDeliveries(c) \/ RestartConsumer(c)
         \/ \E e \in Events : Expire(c, e)
  PROVE  TypeOK'
PROOF
<1>1. ASSUME NEW m \in Messages, Skip(c, m) PROVE TypeOK'
  <2>1. ConsumersOK'
    BY <1>1 DEF Skip, Deliverable, TypeOK, ConsumersOK, consuming
  <2> QED
    BY <1>1, <2>1, Kept DEF Skip, TypeOK
<1>2. ASSUME NEW m \in Messages, Handle(c, m) PROVE TypeOK'
  <2>1. ConsumersOK'
    BY <1>2, MessageFields, NullAssumption
       DEF Handle, Hold, Deliverable, Remembered, TypeOK, ConsumersOK
  <2>2. HistoryOK'
    BY <1>2, MessageFields DEF Handle, TypeOK, HistoryOK
  <2> QED
    BY <1>2, <2>1, <2>2, Kept DEF Handle, TypeOK
<1>3. ASSUME NEW m \in Messages, HandleFails(c, m) PROVE TypeOK'
  <2>1. ConsumersOK'
    BY <1>3, NullAssumption DEF HandleFails, Hold, Deliverable, TypeOK, ConsumersOK
  <2>2. HistoryOK'
    BY <1>3, MessageFields DEF HandleFails, TypeOK, HistoryOK
  <2> QED
    BY <1>3, <2>1, <2>2, Kept DEF HandleFails, TypeOK
<1>4. CASE Republish(c)
  <2>1. holding[c] \in Messages /\ holding[c].retry < MaxRetries
    BY <1>4, HeldMessage DEF Republish, RetryInv
  <2>2. ConsumersOK'
    BY <1>4, <2>1, NextCopyIsMessage DEF Republish, TypeOK, ConsumersOK
  <2>3. HistoryOK'
    BY <1>4, <2>1, MessageFields DEF Republish, TypeOK, HistoryOK
  <2> QED
    BY <1>4, <2>2, <2>3, Kept DEF Republish, NoFault, TypeOK
<1>5. CASE Reject(c)
  <2>1. ConsumersOK'
    BY <1>5, HeldMessage, MessageFields DEF Reject, Released, TypeOK, ConsumersOK
  <2> QED
    BY <1>5, <2>1, Kept DEF Reject, TypeOK
<1>6. CASE Ack(c)
  <2>1. ConsumersOK'
    BY <1>6 DEF Ack, Released, TypeOK, ConsumersOK
  <2> QED
    BY <1>6, <2>1, Kept DEF Ack, TypeOK
<1>7. CASE LoseDeliveries(c)
  <2>1. ConsumersOK'
    BY <1>7 DEF LoseDeliveries, Requeue, Released, TypeOK, ConsumersOK
  <2> QED
    BY <1>7, <2>1, Kept DEF LoseDeliveries, TypeOK
<1>8. CASE RestartConsumer(c)
  <2>1. ConsumersOK'
    BY <1>8 DEF RestartConsumer, Requeue, Released, Forget, TypeOK, ConsumersOK
  <2>2. HistoryOK'
    BY <1>8 DEF RestartConsumer, Forget, TypeOK, HistoryOK
  <2> QED
    BY <1>8, <2>1, <2>2, Kept DEF RestartConsumer, TypeOK
<1>9. ASSUME NEW e \in Events, Expire(c, e) PROVE TypeOK'
  <2>1. ConsumersOK'
    BY <1>9 DEF Expire, Forget, TypeOK, ConsumersOK
  <2>2. HistoryOK'
    BY <1>9 DEF Expire, Forget, TypeOK, HistoryOK
  <2> QED
    BY <1>9, <2>1, <2>2, Kept DEF Expire, TypeOK
<1> QED
  BY <1>1, <1>2, <1>3, <1>4, <1>5, <1>6, <1>7, <1>8, <1>9 DEF Consume, ConsumerStep

LEMMA TypeStep ==
  ASSUME TypeOK, RetryInv, Next
  PROVE  TypeOK'
PROOF
<1>1. ASSUME NEW e \in Events, Save(e) \/ BackoffElapses(e) PROVE TypeOK'
  <2>1. RelaysOK'
    BY <1>1 DEF Save, BackoffElapses, TypeOK, RelaysOK, relaying
  <2> QED
    BY <1>1, <2>1, Kept DEF Save, BackoffElapses, TypeOK
<1> QED
  BY <1>1, RelayTypes, ProducerTypes, ConsumerTypes DEF Next

-----------------------------------------------------------------------------
(* An event stays handled, dead or lost.                                   *)
LEMMA AliveStays ==
  ASSUME TypeOK, NEW e \in Events, Alive(e),
         Queued(e) => Alive(e)', Carried(e) => Alive(e)',
         dlq \subseteq dlq', misled \subseteq misled', refused \subseteq refused',
         \A c \in Consumers : effects[c][e] > 0 => effects'[c][e] > 0
  PROVE  Alive(e)'
PROOF
<1>1. Settled(e) => Settled(e)'
  BY DEF Settled
<1>2. Lost(e) => Lost(e)'
  BY DEF Lost
<1> QED
  BY <1>1, <1>2 DEF Alive

(* Steps that touch neither queue nor consumers.                           *)
LEMMA AliveQuiet ==
  ASSUME NEW e \in Events, Alive(e),
         UNCHANGED <<queue, consuming, dlq, effects, refused>>, misled \subseteq misled'
  PROVE  Alive(e)'
PROOF BY DEF Alive, Queued, Carried, Settled, Lost, consuming

(* A message of e in the queue keeps e alive.                              *)
LEMMA QueuedIsAlive ==
  ASSUME NEW e \in Events, NEW m \in Messages, m.of = e, queue'[m] > 0
  PROVE  Alive(e)'
PROOF BY DEF Alive, Queued

(* So does a consumer that has not seen to it yet.                         *)
LEMMA CarriedIsAlive ==
  ASSUME NEW e \in Events, NEW c \in Consumers,
         stage'[c] \in {"retry", "reject"}, holding'[c].of = e
  PROVE  Alive(e)'
PROOF BY DEF Alive, Carried

(* What others hold they go on holding.                                    *)
LEMMA CarriedByOthers ==
  ASSUME NEW e \in Events, NEW c \in Consumers, Carried(e),
         \A d \in Consumers \ {c} : stage'[d] = stage[d] /\ holding'[d] = holding[d]
  PROVE  \/ Alive(e)'
         \/ stage[c] \in {"retry", "reject"} /\ holding[c].of = e
PROOF
<1>1. PICK d \in Consumers : stage[d] \in {"retry", "reject"} /\ holding[d].of = e
  BY DEF Carried
<1>2. CASE d = c
  BY <1>1, <1>2
<1>3. CASE d # c
  <2>1. stage'[d] \in {"retry", "reject"} /\ holding'[d].of = e
    BY <1>1, <1>3
  <2> QED
    BY <2>1, CarriedIsAlive
<1> QED
  BY <1>2, <1>3

(* The deliveries of c.                                                    *)
LEMMA AliveConsume ==
  ASSUME TypeOK, KnownInv, NEW c \in Consumers, NEW m \in Messages, Consume(c, m),
         NEW e \in Events, Alive(e)
  PROVE  Alive(e)'
PROOF
<1>1. m.of \in Events
  BY MessageFields
<1>2. stage[c] = "idle" /\ queue \in [Messages -> Nat] /\ queue' = [queue EXCEPT ![m] = @ - 1]
  BY DEF Consume, Skip, Handle, HandleFails, Hold, Deliverable, TypeOK, ConsumersOK
<1>3. \A d \in Consumers \ {c} : stage'[d] = stage[d] /\ holding'[d] = holding[d]
  BY DEF Consume, Skip, Handle, HandleFails, Hold, consuming, TypeOK, ConsumersOK
<1>4. Carried(e) => Alive(e)'
  BY <1>2, <1>3, CarriedByOthers
<1>5. ASSUME m.of = e PROVE Alive(e)'
  <2>1. CASE Skip(c, m)
    <3>1. e \in known[c] /\ UNCHANGED effects
      BY <1>5, <2>1 DEF Skip, history
    <3>2. effects'[c][e] > 0
      BY <3>1 DEF KnownInv, TypeOK, HistoryOK
    <3> QED
      BY <3>2 DEF Alive, Settled
  <2>2. CASE Handle(c, m)
    <3>1. effects'[c][e] = effects[c][e] + 1 /\ effects[c][e] \in Nat
      BY <1>5, <2>2 DEF Handle, TypeOK, HistoryOK
    <3>2. effects'[c][e] > 0
      BY <3>1
    <3> QED
      BY <3>2 DEF Alive, Settled
  <2>3. CASE HandleFails(c, m)
    <3>1. holding'[c] = m /\ stage'[c] \in {"retry", "reject"}
      BY <2>3 DEF HandleFails, Hold, TypeOK, ConsumersOK
    <3> QED
      BY <1>5, <3>1, CarriedIsAlive
  <2> QED
    BY <2>1, <2>2, <2>3 DEF Consume
<1>6. ASSUME m.of # e, Queued(e) PROVE Alive(e)'
  <2>1. PICK n \in Messages : n.of = e /\ queue[n] > 0
    BY <1>6 DEF Queued
  <2>2. queue'[n] > 0
    BY <1>2, <1>6, <2>1
  <2> QED
    BY <2>1, <2>2, QueuedIsAlive
<1>7. /\ dlq \subseteq dlq' /\ misled \subseteq misled' /\ refused \subseteq refused'
      /\ \A d \in Consumers : effects[d][e] > 0 => effects'[d][e] > 0
  <2>1. UNCHANGED <<dlq, misled, refused>>
    BY DEF Consume, Skip, Handle, HandleFails, history
  <2>2. \A d \in Consumers : effects[d] \in [Events -> Nat]
    BY DEF TypeOK, HistoryOK
  <2>3. effects' = effects \/ effects' = [effects EXCEPT ![c][m.of] = @ + 1]
    BY DEF Consume, Skip, Handle, HandleFails, history
  <2>4. \A d \in Consumers : effects[d][e] > 0 => effects'[d][e] > 0
    BY <1>1, <2>2, <2>3 DEF TypeOK, HistoryOK
  <2> QED
    BY <2>1, <2>4
<1> QED
  BY <1>4, <1>5, <1>6, <1>7, AliveStays

(* A consumer that loses its deliveries, or restarts, gives its delivery   *)
(* back; one that ends with a delivery has seen to it.                     *)
LEMMA AliveRequeue ==
  ASSUME TypeOK, NEW c \in Consumers, Requeue(c), NEW e \in Events, Alive(e),
         \A d \in Consumers \ {c} : stage'[d] = stage[d],
         UNCHANGED <<dlq, effects, misled, refused>>
  PROVE  Alive(e)'
PROOF
<1>1. \A m \in Messages : queue[m] \in Nat /\ queue'[m] >= queue[m]
  BY DEF TypeOK, ConsumersOK, Requeue
<1>2. Queued(e) => Alive(e)'
  <2>1. ASSUME NEW m \in Messages, m.of = e, queue[m] > 0 PROVE Alive(e)'
    <3>1. queue'[m] > 0
      BY <1>1, <2>1 DEF TypeOK, ConsumersOK, Requeue
    <3> QED
      BY <2>1, <3>1, QueuedIsAlive
  <2> QED
    BY <2>1 DEF Queued
<1>3. ASSUME stage[c] \in {"retry", "reject"}, holding[c].of = e PROVE Alive(e)'
  <2>1. holding[c] \in Messages /\ holding[c] # NoMessage
    BY <1>3, HeldMessage
  <2>2. queue'[holding[c]] > 0
    BY <2>1 DEF TypeOK, ConsumersOK, Requeue
  <2> QED
    BY <1>3, <2>1, <2>2, QueuedIsAlive
<1>4. Carried(e) => Alive(e)'
  BY <1>3, CarriedByOthers DEF Requeue, Released, TypeOK, ConsumersOK
<1> QED
  BY <1>2, <1>4, AliveStays

LEMMA AliveConsumer ==
  ASSUME TypeOK, RetryInv, NEW c \in Consumers, NEW e \in Events, Alive(e),
         \/ ConsumerStep(c) \/ LoseDeliveries(c) \/ RestartConsumer(c)
         \/ \E f \in Events : Expire(c, f)
  PROVE  Alive(e)'
PROOF
<1>1. CASE Republish(c)
  <2>1. /\ holding[c] \in Messages /\ holding[c].retry < MaxRetries
        /\ queue \in [Messages -> Nat] /\ holding' = holding
        /\ UNCHANGED <<dlq, effects, misled>> /\ refused \subseteq refused'
        /\ \A d \in Consumers \ {c} : stage'[d] = stage[d]
    BY <1>1, HeldMessage DEF Republish, RetryInv, TypeOK, ConsumersOK
  <2> DEFINE n == NextCopy(holding[c])
  <2>2. n \in Messages /\ n.of = holding[c].of
    BY <2>1, NextCopyIsMessage
  <2>3. \/ queue' = [queue EXCEPT ![n] = @ + 1]
        \/ queue' = queue /\ refused' = refused \cup {holding[c].of}
    BY <1>1 DEF Republish
  <2> HIDE DEF n
  <2>4. ASSUME NEW m \in Messages, queue[m] > 0 PROVE queue'[m] > 0
    BY <2>1, <2>2, <2>3, <2>4
  <2>5. Queued(e) => Alive(e)'
    BY <2>4, QueuedIsAlive DEF Queued
  <2>6. ASSUME holding[c].of = e PROVE Alive(e)'
    <3>1. CASE queue' = [queue EXCEPT ![n] = @ + 1]
      <4>1. queue'[n] > 0
        BY <2>1, <2>2, <3>1
      <4> QED
        BY <2>2, <2>6, <4>1, QueuedIsAlive
    <3>2. CASE refused' = refused \cup {holding[c].of}
      BY <2>6, <3>2 DEF Alive, Lost
    <3> QED
      BY <2>3, <3>1, <3>2
  <2>7. Carried(e) => Alive(e)'
    BY <2>1, <2>6, CarriedByOthers
  <2> QED
    BY <2>1, <2>5, <2>7, AliveStays
<1>2. CASE Reject(c) \/ Ack(c)
  <2>1. /\ UNCHANGED <<queue, effects, misled, refused>> /\ dlq \subseteq dlq'
        /\ \A d \in Consumers \ {c} : stage'[d] = stage[d] /\ holding'[d] = holding[d]
    BY <1>2 DEF Reject, Ack, Released, history, TypeOK, ConsumersOK
  <2>2. Queued(e) => Alive(e)'
    BY <2>1 DEF Alive, Queued
  <2>3. ASSUME stage[c] \in {"retry", "reject"}, holding[c].of = e PROVE Alive(e)'
    <3>1. e \in dlq'
      BY <1>2, <2>3 DEF Reject, Ack
    <3> QED
      BY <3>1 DEF Alive, Settled
  <2>4. Carried(e) => Alive(e)'
    BY <2>1, <2>3, CarriedByOthers
  <2> QED
    BY <2>1, <2>2, <2>4, AliveStays
<1>3. CASE LoseDeliveries(c) \/ RestartConsumer(c)
  <2>1. /\ Requeue(c) /\ UNCHANGED <<dlq, effects, misled, refused>>
        /\ \A d \in Consumers \ {c} : stage'[d] = stage[d]
    BY <1>3 DEF LoseDeliveries, RestartConsumer, history, TypeOK, ConsumersOK
  <2> QED
    BY <2>1, AliveRequeue
<1>4. ASSUME NEW f \in Events, Expire(c, f) PROVE Alive(e)'
  BY <1>4 DEF Expire, Alive, Queued, Carried, Settled, Lost
<1> QED
  BY <1>1, <1>2, <1>3, <1>4 DEF ConsumerStep

(* No step of anyone ends the life of an event.                            *)
LEMMA AliveStep ==
  ASSUME TypeOK, KnownInv, RetryInv, Next, NEW e \in Events, Alive(e)
  PROVE  Alive(e)'
PROOF
<1>1. ASSUME NEW f \in Events, Save(f) \/ BackoffElapses(f) PROVE Alive(e)'
  BY <1>1, AliveQuiet DEF Save, BackoffElapses, history
<1>2. ASSUME NEW r \in Relays, Fetch(r) \/ RelayStep(r) PROVE Alive(e)'
  <2>1. UNCHANGED <<queue, consuming, dlq, effects, refused>> /\ misled \subseteq misled'
    BY <1>2
       DEF Fetch, RelayStep, Send, ReadConfirm, NoConfirm, MarkPublished, MarkFailed, history
  <2> QED
    BY <2>1, AliveQuiet
<1>3. ASSUME NEW p \in Producers, Route(p) PROVE Alive(e)'
  <2>1. Head(wire[p]) \in Events
    BY <1>3 DEF Route, TypeOK, ChannelsOK
  <2>2. queue' = queue \/ queue' = [queue EXCEPT ![First(Head(wire[p]))] = @ + 1]
    BY <1>3 DEF Route
  <2>3. \A m \in Messages : queue[m] > 0 => queue'[m] > 0
    BY <2>1, <2>2, FirstIsMessage DEF TypeOK, ConsumersOK
  <2>4. Queued(e) => Alive(e)'
    BY <2>3, QueuedIsAlive DEF Queued
  <2>5. Carried(e) => Alive(e)'
    BY <1>3 DEF Route, Alive, Carried, consuming
  <2> QED
    BY <1>3, <2>4, <2>5, AliveStays DEF Route, history
<1>4. ASSUME NEW p \in Producers, LoseConnection(p) \/ RestartProducer(p) PROVE Alive(e)'
  BY <1>4, AliveQuiet DEF LoseConnection, RestartProducer, history
<1> QED
  BY <1>1, <1>2, <1>3, <1>4, AliveConsume, AliveConsumer DEF Next

-----------------------------------------------------------------------------
(* An unread ack stays the ack of an event that is alive.                  *)
LEMMA ConfirmStep ==
  ASSUME TypeOK, KnownInv, RetryInv, ConfirmInv, Next
  PROVE  ConfirmInv'
PROOF
<1>1. SUFFICES ASSUME NEW p \in Producers, NEW i \in 1 .. Len(confirms'[p]), confirms'[p][i].ack
               PROVE  Alive(confirms[p][i].of)'
  BY DEF ConfirmInv
<1>2. ASSUME NEW e \in Events, e = confirms'[p][i].of, Alive(e)'
      PROVE  Alive(confirms[p][i].of)'
  BY <1>2 DEF Alive, Queued, Carried, Settled, Lost
<1>3. confirms[p] \in Seq(Confirm)
  BY DEF TypeOK, ChannelsOK
<1>4. ASSUME NEW j \in 1 .. Len(confirms[p]), confirms'[p][i] = confirms[p][j]
      PROVE  Alive(confirms[p][i].of)'
  <2>1. confirms[p][j] \in Confirm
    BY <1>3
  <2>2. confirms[p][j].of \in Events /\ Alive(confirms[p][j].of)
    BY <1>1, <1>4, <2>1 DEF Confirm, ConfirmInv
  <2>3. PICK e \in Events : e = confirms[p][j].of
    BY <2>2
  <2>4. Alive(e)
    BY <2>2, <2>3
  <2>5. Alive(e)'
    BY <2>4, AliveStep
  <2> QED
    BY <1>2, <1>4, <2>3, <2>5
<1>5. CASE confirms'[p] = confirms[p]
  BY <1>1, <1>4, <1>5
<1>6. CASE confirms[p] # << >> /\ confirms'[p] = Tail(confirms[p])
  <2>1. i + 1 \in 1 .. Len(confirms[p]) /\ confirms'[p][i] = confirms[p][i + 1]
    BY <1>1, <1>3, <1>6
  <2> QED
    BY <1>4, <2>1
<1>7. CASE Route(p)
  <2>1. PICK ok \in BOOLEAN :
           /\ queue' = IF ok THEN [queue EXCEPT ![First(Head(wire[p]))] = @ + 1] ELSE queue
           /\ confirms' = [confirms EXCEPT ![p] = Append(@, [of |-> Head(wire[p]), ack |-> ok])]
    BY <1>7 DEF Route
  <2>2. Head(wire[p]) \in Events
    BY <1>7 DEF Route, TypeOK, ChannelsOK
  <2>3. PICK e \in Events : e = Head(wire[p])
    BY <2>2
  <2>4. confirms'[p] = Append(confirms[p], [of |-> e, ack |-> ok])
    BY <2>1, <2>3 DEF TypeOK, ChannelsOK
  <2>5. CASE i <= Len(confirms[p])
    <3>1. i \in 1 .. Len(confirms[p]) /\ confirms'[p][i] = confirms[p][i]
      BY <1>1, <1>3, <2>4, <2>5
    <3> QED
      BY <1>4, <3>1
  <2>6. CASE ~(i <= Len(confirms[p]))
    <3>1. confirms'[p][i] = [of |-> e, ack |-> ok]
      BY <1>1, <1>3, <2>4, <2>6
    <3>2. queue'[First(e)] > 0
      BY <1>1, <2>1, <2>3, <3>1, FirstIsMessage DEF TypeOK, ConsumersOK
    <3>3. Alive(e)'
      BY <3>2, FirstIsMessage, QueuedIsAlive
    <3> QED
      BY <1>2, <3>1, <3>3
  <2> QED
    BY <2>5, <2>6
<1>8. CASE RestartProducer(p)
  BY <1>1, <1>8 DEF RestartProducer, TypeOK, ChannelsOK
<1>9. ~Route(p) /\ ~RestartProducer(p) =>
        confirms'[p] = confirms[p] \/ (confirms[p] # << >> /\ confirms'[p] = Tail(confirms[p]))
  <2>1. ASSUME NEW q \in Producers, q # p,
               Route(q) \/ LoseConnection(q) \/ RestartProducer(q)
        PROVE  confirms'[p] = confirms[p]
    BY <2>1 DEF Route, LoseConnection, RestartProducer, TypeOK, ChannelsOK
  <2>2. LoseConnection(p) => confirms'[p] = confirms[p]
    BY DEF LoseConnection
  <2>3. ASSUME NEW r \in Relays, Fetch(r) \/ RelayStep(r)
        PROVE  \/ confirms'[p] = confirms[p]
               \/ confirms[p] # << >> /\ confirms'[p] = Tail(confirms[p])
    BY <2>3, ProducerAssumption
       DEF Fetch, RelayStep, Send, ReadConfirm, NoConfirm, MarkPublished, MarkFailed, channels,
           TypeOK, ChannelsOK
  <2>4. ASSUME NEW e \in Events, Save(e) \/ BackoffElapses(e)
        PROVE  confirms'[p] = confirms[p]
    BY <2>4 DEF Save, BackoffElapses, channels
  <2>5. ASSUME NEW c \in Consumers,
               \/ \E m \in Messages : Consume(c, m)
               \/ ConsumerStep(c) \/ LoseDeliveries(c) \/ RestartConsumer(c)
               \/ \E e \in Events : Expire(c, e)
        PROVE  confirms'[p] = confirms[p]
    BY <2>5
       DEF Consume, Skip, Handle, HandleFails, ConsumerStep, Republish, Reject, Ack,
           LoseDeliveries, RestartConsumer, Expire, channels
  <2> QED
    BY <2>1, <2>2, <2>3, <2>4, <2>5 DEF Next
<1> QED
  BY <1>5, <1>6, <1>7, <1>8, <1>9

(* A relay that was told its row arrived can trust that until it marks it. *)
LEMMA PublishedStep ==
  ASSUME TypeOK, KnownInv, RetryInv, ConfirmInv, PublishedInv, Next
  PROVE  PublishedInv'
PROOF
<1>1. SUFFICES ASSUME NEW r \in Relays, pc'[r] = "published" PROVE Alive(Current(r))'
  BY DEF PublishedInv
<1>2. ASSUME NEW e \in Events, e = Current(r)', Alive(e)' PROVE Alive(Current(r))'
  BY <1>2 DEF Alive, Queued, Carried, Settled, Lost
<1>3. ASSUME pc[r] = "published", batch'[r] = batch[r] PROVE Alive(Current(r))'
  <2>1. PICK e \in Events : e = Current(r)
    BY <1>3, CurrentInBatch
  <2>2. e = Current(r)'
    BY <1>3, <2>1 DEF Current
  <2>3. Alive(e)
    BY <1>3, <2>1 DEF PublishedInv
  <2>4. Alive(e)'
    BY <2>3, AliveStep
  <2> QED
    BY <1>2, <2>2, <2>4
<1>4. CASE ReadConfirm(r)
  <2>1. PICK e \in Events : e = Current(r)
    BY <1>4, CurrentInBatch DEF ReadConfirm
  <2> DEFINE conf == Head(confirms[ProducerOf[r]])
  <2>2. /\ conf.ack
        /\ batch' = batch
        /\ misled' = IF conf.of = e THEN misled ELSE misled \cup {e}
    BY <1>1, <1>4, <2>1 DEF ReadConfirm, AttemptFails, IsAck, TypeOK, RelaysOK
  <2>3. e = Current(r)'
    BY <2>1, <2>2 DEF Current
  <2>4. conf.of = e => Alive(e)
    <3>1. ProducerOf[r] \in Producers /\ confirms[ProducerOf[r]] # << >>
      BY <1>4, ProducerAssumption DEF ReadConfirm
    <3>2. 1 \in 1 .. Len(confirms[ProducerOf[r]]) /\ conf = confirms[ProducerOf[r]][1]
      BY <3>1 DEF TypeOK, ChannelsOK
    <3> QED
      BY <2>2, <3>1, <3>2 DEF ConfirmInv
  <2>5. conf.of = e => Alive(e)'
    BY <2>4, AliveStep
  <2>6. conf.of # e => Alive(e)'
    BY <2>2 DEF Alive, Lost
  <2> QED
    BY <1>2, <2>3, <2>5, <2>6
<1>5. ~ReadConfirm(r) => pc[r] = "published" /\ batch'[r] = batch[r]
  <2>1. ASSUME NEW q \in Relays, q # r, Fetch(q) \/ RelayStep(q)
        PROVE  pc'[r] = pc[r] /\ batch'[r] = batch[r]
    BY <2>1
       DEF Fetch, RelayStep, Send, ReadConfirm, NoConfirm, MarkPublished, MarkFailed,
           AttemptFails, NextRow, TypeOK, RelaysOK
  <2>2. ASSUME Fetch(r) \/ RelayStep(r), ~ReadConfirm(r) PROVE FALSE
    BY <1>1, <2>2
       DEF Fetch, RelayStep, Send, NoConfirm, MarkPublished, MarkFailed,
           AttemptFails, NextRow, TypeOK, RelaysOK
  <2>3. ASSUME NEW p \in Producers, Route(p) \/ LoseConnection(p) \/ RestartProducer(p)
        PROVE  pc[r] = "published" /\ batch'[r] = batch[r]
    BY <1>1, <2>3 DEF Route, LoseConnection, RestartProducer, relaying, TypeOK, RelaysOK
  <2>4. ASSUME NEW e \in Events, Save(e) \/ BackoffElapses(e)
        PROVE  pc'[r] = pc[r] /\ batch'[r] = batch[r]
    BY <2>4 DEF Save, BackoffElapses, relaying
  <2>5. ASSUME NEW c \in Consumers,
               \/ \E m \in Messages : Consume(c, m)
               \/ ConsumerStep(c) \/ LoseDeliveries(c) \/ RestartConsumer(c)
               \/ \E e \in Events : Expire(c, e)
        PROVE  pc'[r] = pc[r] /\ batch'[r] = batch[r]
    BY <2>5
       DEF Consume, Skip, Handle, HandleFails, ConsumerStep, Republish, Reject, Ack,
           LoseDeliveries, RestartConsumer, Expire, relaying
  <2> QED
    BY <1>1, <2>1, <2>2, <2>3, <2>4, <2>5 DEF Next
<1> QED
  BY <1>3, <1>4, <1>5

(* A row becomes PUBLISHED by a relay that was told so.                    *)
LEMMA RowStep ==
  ASSUME TypeOK, KnownInv, RetryInv, PublishedInv, RowInv, Next
  PROVE  RowInv'
PROOF
<1>1. SUFFICES ASSUME NEW e \in Events, status'[e] = "PUBLISHED" PROVE Alive(e)'
  BY DEF RowInv
<1>2. status[e] # "PUBLISHED" =>
        \E r \in Relays : MarkPublished(r) /\ Current(r) = e
  <2>1. ASSUME NEW f \in Events, Save(f) \/ BackoffElapses(f), status[e] # "PUBLISHED"
        PROVE  FALSE
    BY <1>1, <2>1 DEF Save, BackoffElapses, TypeOK, RelaysOK
  <2>2. ASSUME NEW r \in Relays, Fetch(r) \/ RelayStep(r), status[e] # "PUBLISHED"
        PROVE  MarkPublished(r) /\ Current(r) = e
    BY <1>1, <2>2
       DEF Fetch, RelayStep, Send, ReadConfirm, NoConfirm, MarkPublished, MarkFailed,
           TypeOK, RelaysOK
  <2>3. ASSUME NEW p \in Producers, Route(p) \/ LoseConnection(p) \/ RestartProducer(p)
        PROVE  UNCHANGED status
    BY <2>3 DEF Route, LoseConnection, RestartProducer
  <2>4. ASSUME NEW c \in Consumers,
               \/ \E m \in Messages : Consume(c, m)
               \/ ConsumerStep(c) \/ LoseDeliveries(c) \/ RestartConsumer(c)
               \/ \E f \in Events : Expire(c, f)
        PROVE  UNCHANGED status
    BY <2>4
       DEF Consume, Skip, Handle, HandleFails, ConsumerStep, Republish, Reject, Ack,
           LoseDeliveries, RestartConsumer, Expire
  <2> QED
    BY <1>1, <2>1, <2>2, <2>3, <2>4 DEF Next
<1>3. Alive(e)
  BY <1>2 DEF RowInv, PublishedInv, MarkPublished
<1> QED
  BY <1>3, AliveStep

-----------------------------------------------------------------------------
(* What a step of a consumer does to what it knows.                        *)
LEMMA KnownStep ==
  ASSUME TypeOK, KnownInv, Next
  PROVE  KnownInv'
PROOF
<1>1. ASSUME UNCHANGED <<known, effects, forgotten>> PROVE KnownInv'
  BY <1>1 DEF KnownInv
<1>2. ASSUME NEW e \in Events, Save(e) \/ BackoffElapses(e) PROVE KnownInv'
  BY <1>1, <1>2 DEF Save, BackoffElapses, consuming, history
<1>3. ASSUME NEW r \in Relays, Fetch(r) \/ RelayStep(r) PROVE KnownInv'
  BY <1>1, <1>3
     DEF Fetch, RelayStep, Send, ReadConfirm, NoConfirm, MarkPublished, MarkFailed,
         consuming, history
<1>4. ASSUME NEW p \in Producers, Route(p) \/ LoseConnection(p) \/ RestartProducer(p)
      PROVE  KnownInv'
  BY <1>1, <1>4 DEF Route, LoseConnection, RestartProducer, consuming, history
<1>5. ASSUME NEW c \in Consumers, NEW gone \in SUBSET known[c], Forget(c, gone),
             UNCHANGED effects
      PROVE  KnownInv'
  BY <1>5 DEF Forget, KnownInv, TypeOK, ConsumersOK, HistoryOK
<1>6. ASSUME NEW c \in Consumers, NEW m \in Messages, Consume(c, m) PROVE KnownInv'
  <2>1. CASE Handle(c, m)
    <3>1. m.of \in Events
      BY MessageFields
    <3> QED
      BY <2>1, <3>1 DEF Handle, Remembered, KnownInv, TypeOK, ConsumersOK, HistoryOK
  <2>2. CASE Skip(c, m) \/ HandleFails(c, m)
    BY <1>1, <2>2 DEF Skip, HandleFails, consuming, history
  <2> QED
    BY <1>6, <2>1, <2>2 DEF Consume
<1>7. ASSUME NEW c \in Consumers, ConsumerStep(c) \/ LoseDeliveries(c) PROVE KnownInv'
  BY <1>1, <1>7 DEF ConsumerStep, Republish, Reject, Ack, LoseDeliveries, history
<1>8. ASSUME NEW c \in Consumers, RestartConsumer(c) PROVE KnownInv'
  BY <1>5, <1>8 DEF RestartConsumer
<1>9. ASSUME NEW c \in Consumers, NEW e \in Events, Expire(c, e) PROVE KnownInv'
  <2>1. {e} \in SUBSET known[c] /\ Forget(c, {e}) /\ UNCHANGED effects
    BY <1>9 DEF Expire
  <2> QED
    BY <1>5, <2>1
<1> QED
  BY <1>2, <1>3, <1>4, <1>6, <1>7, <1>8, <1>9 DEF Next

-----------------------------------------------------------------------------
(* Steps that give no one a message and change nobody's failures.          *)
LEMMA RetryQuiet ==
  ASSUME RetryInv, UNCHANGED <<queue, stage, holding, failures>>
  PROVE  RetryInv'
PROOF BY DEF RetryInv, FailedTimes

(* A message that comes back counts as often as before.                    *)
LEMMA RetryRequeue ==
  ASSUME TypeOK, RetryInv, NEW c \in Consumers, Requeue(c),
         \A d \in Consumers \ {c} : stage'[d] = stage[d],
         stage'[c] \notin {"retry", "reject"},
         UNCHANGED failures
  PROVE  RetryInv'
PROOF
<1>1. \A m \in Messages : queue'[m] > 0 => queue[m] > 0 \/ m = holding[c]
  BY DEF Requeue, TypeOK, ConsumersOK
<1>2. ASSUME NEW m \in Messages, queue'[m] > 0 PROVE FailedTimes(m)'
  BY <1>1, <1>2, NullAssumption DEF RetryInv, FailedTimes
<1>3. /\ holding'[c] = NoMessage
      /\ \A d \in Consumers \ {c} : holding'[d] = holding[d]
  BY DEF Requeue, Released, TypeOK, ConsumersOK
<1>4. ASSUME NEW d \in Consumers
      PROVE  /\ holding'[d] # NoMessage => FailedTimes(holding[d])'
             /\ stage'[d] \in {"retry", "reject"} => failures'[holding'[d].of] > holding'[d].retry
             /\ stage'[d] = "retry" => holding'[d].retry < MaxRetries
             /\ stage'[d] = "reject" => holding'[d].retry = MaxRetries
  BY <1>3 DEF RetryInv, FailedTimes
<1> QED
  BY <1>2, <1>4 DEF RetryInv

(* A delivery counts for one who holds it as it did in the queue.          *)
LEMMA RetryConsume ==
  ASSUME TypeOK, RetryInv, NEW c \in Consumers, NEW m \in Messages, Consume(c, m)
  PROVE  RetryInv'
PROOF
<1>1. /\ m.of \in Events /\ m.retry \in Nat /\ m.retry <= MaxRetries /\ MaxRetries \in Nat
      /\ \A n \in Messages : n.of \in Events /\ n.retry \in Nat
  BY MessageFields, RetriesAssumption
<1>2. queue[m] > 0 /\ FailedTimes(m)
  BY DEF Consume, Skip, Handle, HandleFails, Deliverable, RetryInv
<1>3. \A n \in Messages : queue'[n] > 0 => queue[n] > 0
  BY <1>2 DEF Consume, Skip, Handle, HandleFails, Hold, TypeOK, ConsumersOK
<1>4. \A f \in Events : failures[f] \in Nat /\ failures'[f] \in Nat /\ failures'[f] >= failures[f]
  BY <1>1 DEF Consume, Skip, Handle, HandleFails, history, TypeOK, HistoryOK
<1>5. ASSUME NEW n \in Messages, FailedTimes(n) PROVE FailedTimes(n)'
  BY <1>1, <1>4, <1>5 DEF FailedTimes
<1>6. ASSUME NEW n \in Messages, queue'[n] > 0 PROVE FailedTimes(n)'
  BY <1>3, <1>5, <1>6 DEF RetryInv
<1>7. ASSUME NEW d \in Consumers, stage'[d] = stage[d], holding'[d] = holding[d]
      PROVE  /\ holding'[d] # NoMessage => FailedTimes(holding[d])'
             /\ stage'[d] \in {"retry", "reject"} => failures'[holding'[d].of] > holding'[d].retry
             /\ stage'[d] = "retry" => holding'[d].retry < MaxRetries
             /\ stage'[d] = "reject" => holding'[d].retry = MaxRetries
  <2>1. CASE holding[d] = NoMessage
    BY <1>7, <2>1 DEF TypeOK, ConsumersOK
  <2>2. CASE holding[d] # NoMessage
    <3>1. PICK n \in Messages : n = holding[d]
      BY <2>2 DEF TypeOK, ConsumersOK
    <3>2. FailedTimes(n)'
      BY <1>5, <2>2, <3>1 DEF RetryInv
    <3>3. FailedTimes(holding[d])'
      BY <1>7, <3>1, <3>2 DEF FailedTimes
    <3>4. stage[d] \in {"retry", "reject"} => failures'[n.of] > n.retry
      BY <1>1, <1>4, <3>1 DEF RetryInv
    <3> QED
      BY <1>7, <3>1, <3>3, <3>4 DEF RetryInv
  <2> QED
    BY <2>1, <2>2
<1>8. \A d \in Consumers \ {c} : stage'[d] = stage[d] /\ holding'[d] = holding[d]
  BY DEF Consume, Skip, Handle, HandleFails, Hold, consuming, TypeOK, ConsumersOK
<1>9. CASE Skip(c, m)
  <2>1. stage' = stage /\ holding' = holding
    BY <1>9 DEF Skip, consuming
  <2> QED
    BY <1>6, <1>7, <2>1 DEF RetryInv
<1>10. ASSUME Handle(c, m) \/ HandleFails(c, m)
       PROVE  /\ holding'[c] # NoMessage => FailedTimes(holding[c])'
              /\ stage'[c] \in {"retry", "reject"} => failures'[holding'[c].of] > holding'[c].retry
              /\ stage'[c] = "retry" => holding'[c].retry < MaxRetries
              /\ stage'[c] = "reject" => holding'[c].retry = MaxRetries
  <2>1. holding'[c] = m
    BY <1>10 DEF Handle, HandleFails, Hold, TypeOK, ConsumersOK
  <2>2. FailedTimes(holding[c])'
    BY <1>2, <1>5, <2>1 DEF FailedTimes
  <2>3. CASE Handle(c, m)
    <3>1. stage'[c] = "ack"
      BY <2>3 DEF Handle, TypeOK, ConsumersOK
    <3> QED
      BY <2>2, <3>1
  <2>4. CASE HandleFails(c, m)
    <3>1. /\ failures'[m.of] = failures[m.of] + 1
          /\ stage'[c] = IF m.retry < MaxRetries THEN "retry" ELSE "reject"
      BY <1>1, <2>4 DEF HandleFails, MayRetry, TypeOK, ConsumersOK, HistoryOK
    <3>2. failures'[m.of] > m.retry
      BY <1>1, <1>2, <1>4, <3>1 DEF FailedTimes
    <3> QED
      BY <1>1, <2>1, <2>2, <3>1, <3>2
  <2> QED
    BY <1>10, <2>3, <2>4
<1>11. CASE Handle(c, m) \/ HandleFails(c, m)
  BY <1>6, <1>7, <1>8, <1>10, <1>11 DEF RetryInv
<1> QED
  BY <1>9, <1>11 DEF Consume

LEMMA RetryStep ==
  ASSUME TypeOK, RetryInv, Next
  PROVE  RetryInv'
PROOF
<1>1. ASSUME NEW e \in Events, Save(e) \/ BackoffElapses(e) PROVE RetryInv'
  BY <1>1, RetryQuiet DEF Save, BackoffElapses, consuming, history
<1>2. ASSUME NEW r \in Relays, Fetch(r) \/ RelayStep(r) PROVE RetryInv'
  <2>1. UNCHANGED <<queue, stage, holding, failures>>
    BY <1>2
       DEF Fetch, RelayStep, Send, ReadConfirm, NoConfirm, MarkPublished, MarkFailed,
           consuming, history
  <2> QED
    BY <2>1, RetryQuiet
<1>3. ASSUME NEW p \in Producers, Route(p) PROVE RetryInv'
  <2>1. PICK e \in Events : e = Head(wire[p])
    BY <1>3 DEF Route, TypeOK, ChannelsOK
  <2>2. queue' = queue \/ queue' = [queue EXCEPT ![First(e)] = @ + 1]
    BY <1>3, <2>1 DEF Route
  <2>3. \A m \in Messages : queue'[m] > 0 => queue[m] > 0 \/ m = First(e)
    BY <2>2 DEF TypeOK, ConsumersOK
  <2>4. FailedTimes(First(e))
    BY FirstIsMessage DEF FailedTimes, TypeOK, HistoryOK
  <2>5. \A m \in Messages : queue'[m] > 0 => FailedTimes(m)
    BY <2>3, <2>4 DEF RetryInv
  <2>6. UNCHANGED <<stage, holding, failures>>
    BY <1>3 DEF Route, consuming, history
  <2> QED
    BY <2>5, <2>6 DEF RetryInv, FailedTimes
<1>4. ASSUME NEW p \in Producers, LoseConnection(p) \/ RestartProducer(p) PROVE RetryInv'
  BY <1>4, RetryQuiet DEF LoseConnection, RestartProducer, consuming, history
<1>5. ASSUME NEW c \in Consumers, Republish(c) PROVE RetryInv'
  <2>1. PICK m \in Messages :
           m = holding[c] /\ m.retry < MaxRetries /\ failures[m.of] > m.retry
    BY <1>5, HeldMessage DEF Republish, RetryInv
  <2>2. NextCopy(m) \in Messages /\ FailedTimes(NextCopy(m))
    BY <2>1, NextCopyIsMessage, MessageFields DEF FailedTimes, TypeOK, HistoryOK
  <2>3. queue' = queue \/ queue' = [queue EXCEPT ![NextCopy(m)] = @ + 1]
    BY <1>5, <2>1 DEF Republish
  <2>4. \A n \in Messages : queue'[n] > 0 => queue[n] > 0 \/ n = NextCopy(m)
    BY <2>3 DEF TypeOK, ConsumersOK
  <2>5. \A n \in Messages : queue'[n] > 0 => FailedTimes(n)
    BY <2>2, <2>4 DEF RetryInv
  <2>6. /\ UNCHANGED <<holding, failures>> /\ stage'[c] = "ack"
        /\ \A d \in Consumers \ {c} : stage'[d] = stage[d]
    BY <1>5 DEF Republish, TypeOK, ConsumersOK
  <2> QED
    BY <2>5, <2>6 DEF RetryInv, FailedTimes
<1>6. ASSUME NEW c \in Consumers, Reject(c) \/ Ack(c) PROVE RetryInv'
  <2>1. /\ UNCHANGED <<queue, failures>> /\ stage'[c] = "idle" /\ holding'[c] = NoMessage
        /\ \A d \in Consumers \ {c} : stage'[d] = stage[d] /\ holding'[d] = holding[d]
    BY <1>6 DEF Reject, Ack, Released, history, TypeOK, ConsumersOK
  <2> QED
    BY <2>1 DEF RetryInv, FailedTimes
<1>7. ASSUME NEW c \in Consumers, LoseDeliveries(c) \/ RestartConsumer(c) PROVE RetryInv'
  <2>1. /\ Requeue(c) /\ UNCHANGED failures /\ stage'[c] \in {"idle", "stopped"}
        /\ \A d \in Consumers \ {c} : stage'[d] = stage[d]
    BY <1>7 DEF LoseDeliveries, RestartConsumer, history, TypeOK, ConsumersOK
  <2> QED
    BY <2>1, RetryRequeue
<1>8. ASSUME NEW c \in Consumers, NEW e \in Events, Expire(c, e) PROVE RetryInv'
  BY <1>8, RetryQuiet DEF Expire
<1> QED
  BY <1>1, <1>2, <1>3, <1>4, <1>5, <1>6, <1>7, <1>8, RetryConsume DEF Next, ConsumerStep

(* Only a delivery that was tried for the last time is rejected.           *)
LEMMA DeadStep ==
  ASSUME TypeOK, RetryInv, DeadLetterIsEarned, Next
  PROVE  DeadLetterIsEarned'
PROOF
<1>1. /\ \A f \in Events : failures[f] \in Nat
      /\ failures' = failures \/ \E f \in Events : failures' = [failures EXCEPT ![f] = @ + 1]
  <2>1. ASSUME NEW c \in Consumers, NEW m \in Messages, Consume(c, m)
        PROVE  failures' = failures \/ failures' = [failures EXCEPT ![m.of] = @ + 1]
    BY <2>1 DEF Consume, Skip, Handle, HandleFails, history
  <2>2. ASSUME NEW c \in Consumers,
               \/ ConsumerStep(c) \/ LoseDeliveries(c) \/ RestartConsumer(c)
               \/ \E f \in Events : Expire(c, f)
        PROVE  failures' = failures
    BY <2>2 DEF ConsumerStep, Republish, Reject, Ack, LoseDeliveries, RestartConsumer, Expire,
                history
  <2>3. ASSUME NEW r \in Relays, Fetch(r) \/ RelayStep(r) PROVE failures' = failures
    BY <2>3 DEF Fetch, RelayStep, Send, ReadConfirm, NoConfirm, MarkPublished, MarkFailed,
                history
  <2>4. ASSUME NEW p \in Producers, Route(p) \/ LoseConnection(p) \/ RestartProducer(p)
        PROVE  failures' = failures
    BY <2>4 DEF Route, LoseConnection, RestartProducer, history
  <2>5. ASSUME NEW f \in Events, Save(f) \/ BackoffElapses(f) PROVE failures' = failures
    BY <2>5 DEF Save, BackoffElapses, history
  <2> QED
    BY <2>1, <2>2, <2>3, <2>4, <2>5, MessageFields DEF Next, TypeOK, HistoryOK
<1>2. \A f \in Events : failures'[f] >= failures[f] /\ failures'[f] \in Nat
  BY <1>1 DEF TypeOK, HistoryOK
<1>3. dlq \subseteq Events
  BY DEF TypeOK, ConsumersOK
<1>4. dlq' = dlq \/ \E c \in Consumers : Reject(c)
  <2>1. ASSUME NEW c \in Consumers,
               \/ \E m \in Messages : Consume(c, m)
               \/ ConsumerStep(c) \/ LoseDeliveries(c) \/ RestartConsumer(c)
               \/ \E f \in Events : Expire(c, f)
        PROVE  dlq' = dlq \/ Reject(c)
    BY <2>1 DEF Consume, Skip, Handle, HandleFails, ConsumerStep, Republish, Ack,
                LoseDeliveries, RestartConsumer, Expire
  <2>2. ASSUME NEW r \in Relays, Fetch(r) \/ RelayStep(r) PROVE dlq' = dlq
    BY <2>2 DEF Fetch, RelayStep, Send, ReadConfirm, NoConfirm, MarkPublished, MarkFailed
  <2>3. ASSUME NEW p \in Producers, Route(p) \/ LoseConnection(p) \/ RestartProducer(p)
        PROVE  dlq' = dlq
    BY <2>3 DEF Route, LoseConnection, RestartProducer
  <2>4. ASSUME NEW f \in Events, Save(f) \/ BackoffElapses(f) PROVE dlq' = dlq
    BY <2>4 DEF Save, BackoffElapses
  <2> QED
    BY <2>1, <2>2, <2>3, <2>4 DEF Next
<1>5. CASE dlq' = dlq
  <2>1. \A f \in dlq : failures[f] > MaxRetries
    BY DEF DeadLetterIsEarned
  <2> QED
    BY <1>1, <1>2, <1>3, <1>5, <2>1, RetriesAssumption DEF DeadLetterIsEarned
<1>6. ASSUME NEW c \in Consumers, Reject(c) PROVE DeadLetterIsEarned'
  <2>1. /\ holding[c] \in Messages /\ holding[c].retry = MaxRetries
        /\ failures[holding[c].of] > holding[c].retry
        /\ failures' = failures /\ dlq' = dlq \cup {holding[c].of}
    BY <1>6, HeldMessage DEF Reject, RetryInv, history
  <2> QED
    BY <2>1 DEF DeadLetterIsEarned
<1> QED
  BY <1>4, <1>5, <1>6

-----------------------------------------------------------------------------
LEMMA InitIInv == Init => IInv
PROOF
<1> SUFFICES ASSUME Init PROVE IInv
  OBVIOUS
<1>1. RelaysOK /\ ChannelsOK
  BY RetriesAssumption DEF Init, RelaysOK, ChannelsOK
<1>2. ConsumersOK /\ HistoryOK /\ faults \in 0 .. MaxFaults
  BY RetriesAssumption, NullAssumption DEF Init, ConsumersOK, HistoryOK
<1>3. ConfirmInv /\ PublishedInv /\ RowInv
  BY DEF Init, ConfirmInv, PublishedInv, RowInv
<1>4. KnownInv /\ RetryInv /\ DeadLetterIsEarned
  BY DEF Init, KnownInv, RetryInv, DeadLetterIsEarned
<1> QED
  BY <1>1, <1>2, <1>3, <1>4 DEF IInv, TypeOK

LEMMA StepIInv == IInv /\ [Next]_vars => IInv'
PROOF
<1>1. ASSUME IInv, Next PROVE IInv'
  BY <1>1, TypeStep, ConfirmStep, PublishedStep, RowStep, KnownStep, RetryStep, DeadStep
     DEF IInv
<1>2. ASSUME IInv, UNCHANGED vars PROVE IInv'
  <2>1. TypeOK'
    BY <1>2, Kept DEF vars, IInv, TypeOK
  <2>2. KnownInv' /\ RetryInv' /\ DeadLetterIsEarned'
    BY <1>2 DEF vars, consuming, history, IInv, KnownInv, RetryInv, FailedTimes,
                DeadLetterIsEarned
  <2>3. ConfirmInv' /\ RowInv'
    BY <1>2 DEF vars, channels, consuming, history, IInv, ConfirmInv, RowInv, Alive, Queued,
                Carried, Settled, Lost
  <2>4. PublishedInv'
    BY <1>2 DEF vars, relaying, consuming, history, IInv, PublishedInv, Current, Alive, Queued,
                Carried, Settled, Lost
  <2> QED
    BY <2>1, <2>2, <2>3, <2>4 DEF IInv
<1> QED
  BY <1>1, <1>2

LEMMA Invariance == Spec => []IInv
PROOF
  BY InitIInv, StepIInv, PTL DEF Spec

(* The rows, batches, channels and deliveries have their types.            *)
THEOREM Types == Spec => []TypeOK
PROOF
<1>1. IInv => TypeOK
  BY DEF IInv
<1> QED
  BY <1>1, Invariance, PTL

(* FlushOutbox and Flush with handleDelivery: however many relays publish  *)
(* one row, and whoever crashes, a PUBLISHED row has a message waiting, or *)
(* was handled, or is a dead letter, or went one of the two ways an event  *)
(* is lost.                                                                *)
THEOREM PublishedIsAccounted == Spec => []NothingUnaccounted
PROOF
<1>1. ASSUME IInv, NEW e \in Events, status[e] = "PUBLISHED"
      PROVE  Waiting(e) \/ Settled(e) \/ Lost(e)
  <2>1. TypeOK /\ Alive(e)
    BY <1>1 DEF IInv, RowInv
  <2>2. Queued(e) => Waiting(e)
    BY DEF Queued, Waiting
  <2>3. Carried(e) => Waiting(e)
    BY <2>1, HeldMessage DEF Carried, Waiting
  <2> QED
    BY <2>1, <2>2, <2>3 DEF Alive
<1>2. IInv => NothingUnaccounted
  BY <1>1 DEF NothingUnaccounted
<1> QED
  BY <1>2, Invariance, PTL

(* republishForRetry and Nack: an event is dead only after MaxRetries + 1  *)
(* handlings of it failed.                                                 *)
THEOREM DeadLettersAreEarned == Spec => []DeadLetterIsEarned
PROOF
<1>1. IInv => DeadLetterIsEarned
  BY DEF IInv
<1> QED
  BY <1>1, Invariance, PTL

(* withConsumeIdempotency: a consumer handles an event once more than its  *)
(* store forgot it, whatever is published and delivered again.             *)
THEOREM HandlingIsOnce == Spec => []HandledOnce
PROOF
<1>1. ASSUME IInv, NEW c \in Consumers, NEW e \in Events
      PROVE  effects[c][e] <= forgotten[c][e] + 1
  <2>1. effects[c][e] = IF e \in known[c] THEN forgotten[c][e] + 1 ELSE forgotten[c][e]
    BY <1>1 DEF IInv, KnownInv
  <2>2. forgotten[c][e] \in Nat
    BY <1>1 DEF IInv, TypeOK, HistoryOK
  <2> QED
    BY <2>1, <2>2
<1>2. IInv => HandledOnce
  BY <1>1 DEF HandledOnce
<1> QED
  BY <1>2, Invariance, PTL
=============================================================================
