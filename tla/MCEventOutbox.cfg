SPECIFICATION FairSpec
CONSTANTS
  Events = {1, 2}
  Relays = {r1}
  p1 = p1
  Producers = {p1}
  ProducerOf <- OneProducer
  Consumers = {c1}
  MaxRetries = 1
  Attempts = 2
  MaxFaults = 2
  NoMessage = NoMessage
INVARIANTS NothingUnaccounted DeadLetterIsEarned HandledOnce
PROPERTY Delivered
CHECK_DEADLOCK FALSE
