---------------------------- MODULE EventOutbox -----------------------------
(***************************************************************************)
(* Order events from the outbox table to their handler (order_event): the  *)
(* rows Publish writes (infra/outbox/repo.go), the relays that flush them  *)
(* through a confirming channel (infra/rabbitmq/producer.go), the queue    *)
(* with its dead letters, and the consumers with their retries             *)
(* (consumer.go) and their memory of what they handled                     *)
(* (infra/idempotency).                                                    *)
(*                                                                         *)
(* A relay is one flusher: the two-second ticker of a process, or a flush  *)
(* the compensation jobs ask for; relays of one process share its          *)
(* producer.  Rows are named by their id, events by their row.  A fault is *)
(* a timeout, a broker that refuses a message, a lost connection, a failed *)
(* UPDATE or a restart.                                                    *)
(***************************************************************************)
EXTENDS Naturals, Sequences, FiniteSets

CONSTANTS
  Events,      \* ids of the outbox rows
  Relays,
  Producers,   \* processes that flush, each with one channel
  ProducerOf,
  Consumers,
  MaxRetries,  \* ConsumerConfig.MaxRetries
  Attempts,    \* ProducerConfig.MaxRetries + 1
  MaxFaults,   \* bound: faults in one behaviour
  NoMessage

ASSUME EventsAssumption == Events \subseteq Nat
ASSUME ProducerAssumption == ProducerOf \in [Relays -> Producers]
ASSUME RetriesAssumption == MaxRetries \in Nat /\ Attempts \in Nat \ {0} /\ MaxFaults \in Nat

Messages == [of : Events, retry : 0 .. MaxRetries]
Confirm == [of : Events, ack : BOOLEAN]

ASSUME NullAssumption == NoMessage \notin Messages

VARIABLES
  status,      \* order_event_outbox.status, "none" before the row exists
  due,         \* next_retry_at has passed
  pc,          \* where each relay stands
  batch,       \* rows of its fetch it has not marked yet
  tries,       \* failed attempts to publish the current one
  wire,        \* publishes of each channel the broker has not read
  confirms,    \* confirms of each channel nobody has read
  closed,      \* the connection of each producer is gone
  queue,       \* copies of each message that wait in order.event
  stage,       \* where each consumer stands
  holding,     \* the delivery it has not acked
  known,       \* events its idempotency store remembers
  dlq,         \* events in order.event.dlq
  effects,     \* successful handlings, by consumer and event
  failures,    \* failed handlings of each event
  forgotten,   \* times a store lost the record of an event
  misled,      \* events published by a confirm that was not theirs
  refused,     \* events the broker refused a retry of
  faults

relaying == <<pc, batch, tries>>
channels == <<wire, confirms, closed>>
consuming == <<stage, holding, known>>
history == <<effects, failures, forgotten, misled, refused>>
vars == <<status, due, relaying, channels, queue, consuming, dlq, history, faults>>

RelaysOK ==
  /\ status \in [Events -> {"none", "PENDING", "FAILED", "PUBLISHED"}]
  /\ due \in [Events -> BOOLEAN]
  /\ pc \in [Relays -> {"idle", "send", "wait", "published", "failed"}]
  /\ batch \in [Relays -> SUBSET Events]
  /\ \A r \in Relays : pc[r] # "idle" => batch[r] # {}
  /\ tries \in [Relays -> 0 .. Attempts - 1]

ChannelsOK ==
  /\ wire \in [Producers -> Seq(Events)]
  /\ confirms \in [Producers -> Seq(Confirm)]
  /\ closed \in [Producers -> BOOLEAN]

ConsumersOK ==
  /\ queue \in [Messages -> Nat]
  /\ stage \in [Consumers -> {"idle", "retry", "reject", "ack", "stopped"}]
  /\ holding \in [Consumers -> Messages \cup {NoMessage}]
  /\ \A c \in Consumers : stage[c] \in {"idle", "stopped"} <=> holding[c] = NoMessage
  /\ known \in [Consumers -> SUBSET Events]
  /\ dlq \subseteq Events

HistoryOK ==
  /\ effects \in [Consumers -> [Events -> Nat]]
  /\ failures \in [Events -> Nat]
  /\ forgotten \in [Consumers -> [Events -> Nat]]
  /\ misled \subseteq Events
  /\ refused \subseteq Events

TypeOK == RelaysOK /\ ChannelsOK /\ ConsumersOK /\ HistoryOK /\ faults \in 0 .. MaxFaults

Init ==
  /\ status = [e \in Events |-> "none"]
  /\ due = [e \in Events |-> FALSE]
  /\ pc = [r \in Relays |-> "idle"]
  /\ batch = [r \in Relays |-> {}]
  /\ tries = [r \in Relays |-> 0]
  /\ wire = [p \in Producers |-> << >>]
  /\ confirms = [p \in Producers |-> << >>]
  /\ closed = [p \in Producers |-> FALSE]
  /\ queue = [m \in Messages |-> 0]
  /\ stage = [c \in Consumers |-> "idle"]
  /\ holding = [c \in Consumers |-> NoMessage]
  /\ known = [c \in Consumers |-> {}]
  /\ dlq = {}
  /\ effects = [c \in Consumers |-> [e \in Events |-> 0]]
  /\ failures = [e \in Events |-> 0]
  /\ forgotten = [c \in Consumers |-> [e \in Events |-> 0]]
  /\ misled = {}
  /\ refused = {}
  /\ faults = 0

Fault == faults < MaxFaults /\ faults' = faults + 1
NoFault == UNCHANGED faults

-----------------------------------------------------------------------------
(* Publish: the row is there at once and due; saving an event again only   *)
(* replaces its payload.                                                   *)
Save(e) ==
  /\ status[e] = "none"
  /\ status' = [status EXCEPT ![e] = "PENDING"]
  /\ due' = [due EXCEPT ![e] = TRUE]
  /\ UNCHANGED <<relaying, channels, queue, consuming, dlq, history, faults>>

(* FetchPending claims nothing: two relays may fetch one row.  The batch   *)
(* is never smaller here than what is pending.                             *)
PendingOnly == {e \in Events : status[e] = "PENDING" /\ due[e]}   \* mutant: FAILED left out
Pending == {e \in Events : status[e] \in {"PENDING", "FAILED"} /\ due[e]}

Fetch(r) ==
  /\ pc[r] = "idle"
  /\ Pending # {}
  /\ batch' = [batch EXCEPT ![r] = Pending]
  /\ pc' = [pc EXCEPT ![r] = "send"]
  /\ tries' = [tries EXCEPT ![r] = 0]
  /\ UNCHANGED <<status, due, channels, queue, consuming, dlq, history, faults>>

(* ORDER BY id                                                             *)
Current(r) == CHOOSE e \in batch[r] : \A f \in batch[r] : e <= f

NextRow(r) ==
  /\ batch' = [batch EXCEPT ![r] = @ \ {Current(r)}]
  /\ pc' = [pc EXCEPT ![r] = IF batch[r] = {Current(r)} THEN "idle" ELSE "send"]
  /\ tries' = [tries EXCEPT ![r] = 0]

(* publishOnce failed: Publish tries again, Attempts times in all.         *)
AttemptFails(r) ==
  /\ IF tries[r] + 1 < Attempts
       THEN pc' = [pc EXCEPT ![r] = "send"] /\ tries' = [tries EXCEPT ![r] = @ + 1]
       ELSE pc' = [pc EXCEPT ![r] = "failed"] /\ UNCHANGED tries
  /\ UNCHANGED batch

Send(r) ==
  /\ pc[r] = "send"
  /\ \/ /\ ~closed[ProducerOf[r]]
        /\ wire' = [wire EXCEPT ![ProducerOf[r]] = Append(@, Current(r))]
        /\ pc' = [pc EXCEPT ![r] = "wait"]
        /\ UNCHANGED <<batch, tries>>
     \/ /\ closed[ProducerOf[r]]
        /\ AttemptFails(r)
        /\ UNCHANGED wire
  /\ UNCHANGED <<status, due, confirms, closed, queue, consuming, dlq, history, faults>>

(* The confirm is the next one on the channel: nothing ties it to the      *)
(* message, and a publish that timed out has left its own behind.          *)
AnyAnswer(conf) == TRUE   \* mutant: conf.Ack is not looked at
IsAck(conf) == conf.ack

ReadConfirm(r) ==
  LET p == ProducerOf[r]
      conf == Head(confirms[p])
  IN /\ pc[r] = "wait"
     /\ confirms[p] # << >>
     /\ confirms' = [confirms EXCEPT ![p] = Tail(@)]
     /\ \/ /\ IsAck(conf)
           /\ pc' = [pc EXCEPT ![r] = "published"]
           /\ misled' = IF conf.of = Current(r) THEN misled ELSE misled \cup {Current(r)}
           /\ UNCHANGED <<batch, tries>>
        \/ /\ ~IsAck(conf)
           /\ AttemptFails(r)
           /\ UNCHANGED misled
     /\ UNCHANGED <<status, due, wire, closed, queue, consuming, dlq, effects, failures,
                    forgotten, refused, faults>>

(* The publish timed out, or the confirm channel was closed.               *)
NoConfirm(r) ==
  /\ pc[r] = "wait"
  /\ \/ Fault
     \/ NoFault /\ closed[ProducerOf[r]] /\ confirms[ProducerOf[r]] = << >>
  /\ AttemptFails(r)
  /\ UNCHANGED <<status, due, channels, queue, consuming, dlq, history>>

(* Both marks are an UPDATE by event_id alone, and their errors are        *)
(* dropped: a relay that fails reverts the row another has published.      *)
MarkPublished(r) ==
  /\ pc[r] = "published"
  /\ \/ NoFault /\ status' = [status EXCEPT ![Current(r)] = "PUBLISHED"]
     \/ Fault /\ UNCHANGED status
  /\ NextRow(r)
  /\ UNCHANGED <<due, channels, queue, consuming, dlq, history>>

MarkFailed(r) ==
  /\ pc[r] = "failed"
  /\ \/ /\ NoFault
        /\ status' = [status EXCEPT ![Current(r)] = "FAILED"]
        /\ due' = [due EXCEPT ![Current(r)] = FALSE]
     \/ Fault /\ UNCHANGED <<status, due>>
  /\ NextRow(r)
  /\ UNCHANGED <<channels, queue, consuming, dlq, history>>

BackoffElapses(e) ==
  /\ status[e] = "FAILED"
  /\ ~due[e]
  /\ due' = [due EXCEPT ![e] = TRUE]
  /\ UNCHANGED <<status, relaying, channels, queue, consuming, dlq, history, faults>>

-----------------------------------------------------------------------------
First(e) == [of |-> e, retry |-> 0]
NextCopy(m) == [of |-> m.of, retry |-> m.retry + 1]

(* The broker takes the next publish of a channel and confirms it, either  *)
(* way, in order.  The queue is bound: topology.go declares it at start.   *)
(* (A message that no queue takes would be returned, which nobody listens  *)
(* for, and confirmed all the same.)                                       *)
Route(p) ==
  /\ wire[p] # << >>
  /\ \E ok \in BOOLEAN :
       /\ IF ok THEN NoFault ELSE Fault
       /\ queue' = IF ok THEN [queue EXCEPT ![First(Head(wire[p]))] = @ + 1] ELSE queue
       /\ confirms' = [confirms EXCEPT ![p] = Append(@, [of |-> Head(wire[p]), ack |-> ok])]
  /\ wire' = [wire EXCEPT ![p] = Tail(@)]
  /\ UNCHANGED <<status, due, relaying, closed, consuming, dlq, history>>

(* What was on its way is lost, the confirms that arrived can still be     *)
(* read; nothing dials again.                                              *)
LoseConnection(p) ==
  /\ ~closed[p]
  /\ Fault
  /\ closed' = [closed EXCEPT ![p] = TRUE]
  /\ wire' = [wire EXCEPT ![p] = << >>]
  /\ UNCHANGED <<status, due, relaying, confirms, queue, consuming, dlq, history>>

RestartProducer(p) ==
  /\ Fault
  /\ wire' = [wire EXCEPT ![p] = << >>]
  /\ confirms' = [confirms EXCEPT ![p] = << >>]
  /\ closed' = [closed EXCEPT ![p] = FALSE]
  /\ pc' = [r \in Relays |-> IF ProducerOf[r] = p THEN "idle" ELSE pc[r]]
  /\ batch' = [r \in Relays |-> IF ProducerOf[r] = p THEN {} ELSE batch[r]]
  /\ tries' = [r \in Relays |-> IF ProducerOf[r] = p THEN 0 ELSE tries[r]]
  /\ UNCHANGED <<status, due, queue, consuming, dlq, history>>

-----------------------------------------------------------------------------
(* withConsumeIdempotency around Handle, for a delivery of m.  The store   *)
(* is in the process and deliveries are handled one by one, so the record  *)
(* of a failed handling is gone before anyone else asks for it.            *)
Deliverable(c, m) == stage[c] = "idle" /\ queue[m] > 0

Hold(c, m) ==
  /\ queue' = [queue EXCEPT ![m] = @ - 1]
  /\ holding' = [holding EXCEPT ![c] = m]

Unrecorded(c, m) == known[c]                 \* mutant: MarkDone left out
Remembered(c, m) == known[c] \cup {m.of}

(* A duplicate is acked at once.                                           *)
Skip(c, m) ==
  /\ Deliverable(c, m)
  /\ m.of \in known[c]
  /\ queue' = [queue EXCEPT ![m] = @ - 1]
  /\ UNCHANGED <<status, due, relaying, channels, consuming, dlq, history, faults>>

Handle(c, m) ==
  /\ Deliverable(c, m)
  /\ m.of \notin known[c]
  /\ Hold(c, m)
  /\ effects' = [effects EXCEPT ![c][m.of] = @ + 1]
  /\ known' = [known EXCEPT ![c] = Remembered(c, m)]
  /\ stage' = [stage EXCEPT ![c] = "ack"]
  /\ UNCHANGED <<status, due, relaying, channels, dlq, failures, forgotten, misled, refused,
                 faults>>

(* The dispatcher failed: a retry while the header allows it, else reject. *)
OneLess(m) == m.retry + 1 < MaxRetries       \* mutant: gives up one retry early
MayRetry(m) == m.retry < MaxRetries

HandleFails(c, m) ==
  /\ Deliverable(c, m)
  /\ m.of \notin known[c]
  /\ Hold(c, m)
  /\ failures' = [failures EXCEPT ![m.of] = @ + 1]
  /\ stage' = [stage EXCEPT ![c] = IF MayRetry(m) THEN "retry" ELSE "reject"]
  /\ UNCHANGED <<status, due, relaying, channels, known, dlq, effects, forgotten, misled,
                 refused, faults>>

(* republishForRetry, on a channel without confirms: the broker may refuse *)
(* the copy and nobody hears of it.                                        *)
Republish(c) ==
  /\ stage[c] = "retry"
  /\ \/ /\ NoFault
        /\ queue' = [queue EXCEPT ![NextCopy(holding[c])] = @ + 1]
        /\ UNCHANGED refused
     \/ /\ Fault
        /\ refused' = refused \cup {holding[c].of}
        /\ UNCHANGED queue
  /\ stage' = [stage EXCEPT ![c] = "ack"]
  /\ UNCHANGED <<status, due, relaying, channels, holding, known, dlq, effects, failures,
                 forgotten, misled>>

Released(c) == holding' = [holding EXCEPT ![c] = NoMessage]

(* Nack without requeue: the queue's dead-letter exchange takes it.        *)
Reject(c) ==
  /\ stage[c] = "reject"
  /\ dlq' = dlq \cup {holding[c].of}
  /\ Released(c)
  /\ stage' = [stage EXCEPT ![c] = "idle"]
  /\ UNCHANGED <<status, due, relaying, channels, queue, known, history, faults>>

Ack(c) ==
  /\ stage[c] = "ack"
  /\ Released(c)
  /\ stage' = [stage EXCEPT ![c] = "idle"]
  /\ UNCHANGED <<status, due, relaying, channels, queue, known, dlq, history, faults>>

(* The broker takes back what was not acked.                               *)
Requeue(c) ==
  /\ queue' = IF holding[c] = NoMessage THEN queue ELSE [queue EXCEPT ![holding[c]] = @ + 1]
  /\ Released(c)

(* The delivery channel closes: StartConsume returns, and its goroutine    *)
(* is not started again while the process lives.                           *)
LoseDeliveries(c) ==
  /\ stage[c] # "stopped"
  /\ Fault
  /\ Requeue(c)
  /\ stage' = [stage EXCEPT ![c] = "stopped"]
  /\ UNCHANGED <<status, due, relaying, channels, known, dlq, history>>

Forget(c, gone) ==
  /\ known' = [known EXCEPT ![c] = @ \ gone]
  /\ forgotten' = [forgotten EXCEPT ![c] =
                     [e \in Events |-> IF e \in gone THEN @[e] + 1 ELSE @[e]]]

RestartConsumer(c) ==
  /\ Fault
  /\ Requeue(c)
  /\ Forget(c, known[c])
  /\ stage' = [stage EXCEPT ![c] = "idle"]
  /\ UNCHANGED <<status, due, relaying, channels, dlq, effects, failures, misled, refused>>

(* The record outlives its TTL before the last copy of the event arrives.  *)
Expire(c, e) ==
  /\ e \in known[c]
  /\ Fault
  /\ Forget(c, {e})
  /\ UNCHANGED <<status, due, relaying, channels, queue, stage, holding, dlq, effects,
                 failures, misled, refused>>

-----------------------------------------------------------------------------
RelayStep(r) == Send(r) \/ ReadConfirm(r) \/ NoConfirm(r) \/ MarkPublished(r) \/ MarkFailed(r)
Consume(c, m) == Skip(c, m) \/ Handle(c, m) \/ HandleFails(c, m)
ConsumerStep(c) == Republish(c) \/ Reject(c) \/ Ack(c)

Next ==
  \/ \E e \in Events : Save(e) \/ BackoffElapses(e)
  \/ \E r \in Relays : Fetch(r) \/ RelayStep(r)
  \/ \E p \in Producers : Route(p) \/ LoseConnection(p) \/ RestartProducer(p)
  \/ \E c \in Consumers :
       \/ \E m \in Messages : Consume(c, m)
       \/ ConsumerStep(c)
       \/ LoseDeliveries(c)
       \/ RestartConsumer(c)
       \/ \E e \in Events : Expire(c, e)

Spec == Init /\ [][Next]_vars

(* The ticker of worker/bootstrap.go flushes again and again, the broker   *)
(* and the consumer loop go on, and time passes; nothing restarts a        *)
(* process.                                                                *)
Fairness ==
  /\ \A r \in Relays : WF_vars(Fetch(r)) /\ WF_vars(RelayStep(r))
  /\ \A p \in Producers : WF_vars(Route(p))
  /\ \A c \in Consumers : WF_vars(ConsumerStep(c))
  /\ \A c \in Consumers, m \in Messages : SF_vars(Consume(c, m))
  /\ \A e \in Events : WF_vars(BackoffElapses(e))

FairSpec == Spec /\ Fairness

-----------------------------------------------------------------------------
Waiting(e) ==
  \/ \E m \in Messages : m.of = e /\ queue[m] > 0
  \/ \E c \in Consumers : holding[c] # NoMessage /\ holding[c].of = e

Settled(e) == e \in dlq \/ \E c \in Consumers : effects[c][e] > 0

(* The two ways an event gets lost: its relay took the confirm of another  *)
(* publish for its own, or the broker refused the copy that was to be      *)
(* retried.                                                                *)
Lost(e) == e \in misled \cup refused

(* A PUBLISHED row is backed by a message: it waits in the queue, a        *)
(* consumer holds it, it was handled or it is a dead letter.               *)
NothingUnaccounted ==
  \A e \in Events : status[e] = "PUBLISHED" => Waiting(e) \/ Settled(e) \/ Lost(e)

(* A dead letter has failed once and MaxRetries times more, however its    *)
(* copies were delivered.                                                  *)
DeadLetterIsEarned == \A e \in dlq : failures[e] > MaxRetries

(* However often an event is published and delivered, a consumer handles   *)
(* it once for every time its store lost the record, and once more.        *)
HandledOnce ==
  \A c \in Consumers, e \in Events : effects[c][e] <= forgotten[c][e] + 1

(* Every event is handled or becomes a dead letter, unless it was lost, or *)
(* everyone who could carry it has lost its connection.                    *)
Delivered ==
  \A e \in Events :
    status[e] # "none" ~>
      \/ Settled(e)
      \/ Lost(e)
      \/ \E p \in Producers : closed[p]
      \/ \E c \in Consumers : stage[c] = "stopped"
=============================================================================
