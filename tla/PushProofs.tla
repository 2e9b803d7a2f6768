-------------------------------- MODULE PushProofs ---------------------------
(***************************************************************************)
(* Proofs about the two sides of websocket_push, which share no state.     *)
(* First PushSessions, for any number of sessions, users and requests: a   *)
(* session enters the registry and the client map once; what a thread      *)
(* found in either of them can only have left it since.  Then              *)
(* PushBroadcast, for any number of nodes, queues, stores, messages and    *)
(* requests, any retry limit and any number of faults: a record of a       *)
(* message id is an entry of an account that every step leaves balanced.   *)
(***************************************************************************)
EXTENDS PushSessions, PushBroadcast, FiniteSetTheorems, TLAPS

Active == Disconnecting \cup {"pump"}

(* Its Connect has added it to the registry.                               *)
Added(s) ==
  \/ place[Connector(s)] \in {"open", "done"}
  \/ place[Connector(s)] \in Disconnecting /\ target[Connector(s)] = s

(* A thread at work has a session, and is in a callback only while it      *)
(* disconnects; a callback runs alone, while its Once does.  Pumps start   *)
(* with the client.                                                        *)
AimInv ==
  /\ \A th \in Threads : place[th] \in Active => target[th] \in Sessions
  /\ \A th \in Threads : inCallback[th] => place[th] \in Disconnecting /\ once[target[th]] = "running"
  /\ \A th, u \in Threads : inCallback[th] /\ inCallback[u] /\ target[th] = target[u] => th = u
  /\ \A s \in Sessions : place[Connector(s)] # "done" => place[Reader(s)] = "idle" /\ place[Writer(s)] = "idle"

(* Whatever is known of a session was learnt after it was added, once.     *)
AddedInv ==
  /\ \A s \in sessions : Added(s)
  /\ \A th \in Threads : target[th] \in Sessions => Added(target[th])
  /\ \A s \in Sessions : \A t \in found[s] : Added(t)
  /\ \A s \in Sessions : once[s] # "unused" => Added(s)
  /\ \A s \in clients : place[Connector(s)] = "done"
  /\ \A s \in Sessions : target[Connector(s)] = s => place[Connector(s)] \in Disconnecting \cup {"done"}

(* A thread that is done with a session, and a Once that is finished,      *)
(* leave it out of the registry.                                           *)
FinalInv ==
  /\ \A th \in Threads : place[th] \notin Active => target[th] \notin sessions
  /\ \A s \in Sessions : once[s] = "finished" => s \notin sessions

(* A thread removes a session only after its client left the map.          *)
ReachInv ==
  /\ ClientsAreReachable
  /\ \A th \in Threads : place[th] = "remove" => target[th] \notin clients \ orphans

(* A thread that waits at a Once because it took the client out of the map *)
Taker(th) == place[th] = "once" /\ (inCallback[th] \/ th \notin Pumps)

(* is the only one: the client was there once.                             *)
TakeInv ==
  /\ \A th \in Threads : Taker(th) \/ (inCallback[th] /\ th \notin Pumps) =>
       target[th] \notin clients /\ place[Connector(target[th])] = "done"
  /\ \A th, u \in Threads : Taker(th) /\ Taker(u) /\ target[th] = target[u] => th = u
  /\ \A th \in Threads : inCallback[th] /\ place[th] = "once" => th \in Pumps

(* Connects under way together are known to race; and one that has looked  *)
(* for the others has disconnected, or will, those that do not.            *)
RacedInv == \A s, t \in Connecting : s # t => {s, t} \in raced

Settled(s, t) ==
  \/ t \in found[s]
  \/ place[Connector(s)] \in Disconnecting /\ target[Connector(s)] = t
  \/ {s, t} \in raced

SettledInv ==
  \A s \in Connecting : place[Connector(s)] # "find" =>
    \A t \in sessions : OwnerOf[t] = OwnerOf[s] => Settled(s, t)

IInv ==
  /\ TypeOK
  /\ AimInv
  /\ AddedInv
  /\ FinalInv
  /\ ReachInv
  /\ TakeInv
  /\ RacedInv
  /\ SettledInv
  /\ OneSessionUnlessRaced

-----------------------------------------------------------------------------

(* Connectors, pumps and callers are different threads,                    *)
LEMMA ThreadKinds ==
  /\ Connectors \subseteq Threads /\ Pumps \subseteq Threads /\ Connectors \cap Pumps = {}
  /\ \A s \in Sessions : Connector(s) \in Connectors /\ Reader(s) \in Pumps /\ Writer(s) \in Pumps
  /\ \A c \in Callers : Caller(c) \in Threads /\ Caller(c) \notin Connectors \cup Pumps
PROOF
<1> QED
  BY DEF Threads, Connectors, Pumps, Connector, Reader, Writer, Caller

(* each session has a connector of its own,                                *)
LEMMA ConnectorsDiffer ==
  /\ \A s, t \in Sessions : Connector(s) = Connector(t) => s = t
  /\ \A th \in Connectors : \E s \in Sessions : th = Connector(s)
PROOF
<1> QED
  BY DEF Connectors, Connector

(* and two pumps.                                                          *)
LEMMA PumpsDiffer ==
  \A s, t \in Sessions : /\ Reader(s) = Reader(t) \/ Writer(s) = Writer(t) => s = t
                         /\ Reader(s) # Writer(t)
PROOF
<1> QED
  BY DEF Reader, Writer

(* Where a thread goes when its Disconnect returns, and what becomes of    *)
(* the Once when that was the callback.                                    *)
LEMMA ReturnFacts ==
  ASSUME TypeOK, AimInv, NEW th \in Threads, place[th] \in Disconnecting, Return(th)
  PROVE  \E at \in {"done", "remove", "supersede"} :
           /\ place' = [place EXCEPT ![th] = at]
           /\ at = "remove" <=> inCallback[th] /\ th \notin Pumps
           /\ at = "supersede" <=> ~inCallback[th] /\ th \in Connectors /\ th # Connector(target[th])
           /\ once' = IF inCallback[th] THEN [once EXCEPT ![target[th]] = "finished"] ELSE once
           /\ inCallback' = [inCallback EXCEPT ![th] = FALSE]
PROOF
<1>1. CASE inCallback[th]
  <2>1. AfterClose(th) \in {"done", "remove"} /\ (AfterClose(th) = "remove" <=> th \notin Pumps)
    BY DEF AfterClose
  <2> QED
    BY <1>1, <2>1 DEF Return, Goto
<1>2. CASE ~inCallback[th]
  <2>1. Resume(th) \in {"done", "supersede"} /\ (Resume(th) = "supersede" <=> th \in Connectors /\ th # Connector(target[th]))
    BY DEF Resume
  <2>2. inCallback = [inCallback EXCEPT ![th] = FALSE]
    BY <1>2 DEF TypeOK
  <2> QED
    BY <1>2, <2>1, <2>2 DEF Return, Goto
<1> QED
  BY <1>1, <1>2

(* Every step keeps the variables in their types.                          *)
LEMMA TypeStep ==
  ASSUME TypeOK, AimInv, Next
  PROVE  TypeOK'
PROOF
<1> USE ThreadKinds DEF Goto, history, TypeOK, Disconnecting, Places, AimInv, Active
<1>1. ASSUME NEW s \in Sessions, BeginConnect(s) PROVE TypeOK'
  <2>1. raced' \subseteq SUBSET Sessions
    BY <1>1 DEF BeginConnect, Connecting
  <2>2. place' \in [Threads -> Places]
    BY <1>1 DEF BeginConnect
  <2>3. \A th \in Threads \ Connectors : place'[th] \notin {"find", "supersede", "open"}
    BY <1>1 DEF BeginConnect
  <2>4. \A th \in Threads \ Pumps : place'[th] # "pump"
    BY <1>1 DEF BeginConnect
  <2> QED
    BY <1>1, <2>1, <2>2, <2>3, <2>4 DEF BeginConnect
<1>2. ASSUME NEW s \in Sessions, FindByUser(s) PROVE TypeOK'
  BY <1>2 DEF FindByUser, SameUser
<1>3. ASSUME NEW s \in Sessions, NEW old \in Sessions, Supersede(s, old) PROVE TypeOK'
  BY <1>3 DEF Supersede, Aim
<1>4. ASSUME NEW s \in Sessions, Add(s) PROVE TypeOK'
  BY <1>4 DEF Add
<1>5. ASSUME NEW s \in Sessions, Attach(s) PROVE TypeOK'
  <2>1. place' \in [Threads -> Places] /\ target' \in [Threads -> Sessions \cup {NoSession}]
    BY <1>5 DEF Attach
  <2>2. \A th \in Threads : place'[th] \in {place[th], "done", "pump"}
    BY <1>5 DEF Attach
  <2>3. \A th \in Threads : th \notin {Reader(s), Writer(s)} => place'[th] \in {place[th], "done"}
    BY <1>5 DEF Attach
  <2>4. \A th \in Threads \ Pumps : place'[th] # "pump"
    BY <2>3
  <2>5. orphans' \subseteq Sessions
    BY <1>5 DEF Attach
  <2> QED
    BY <1>5, <2>1, <2>2, <2>4, <2>5 DEF Attach
<1>6. ASSUME NEW s \in Sessions, NoClient(s) PROVE TypeOK'
  BY <1>6 DEF NoClient, Aim
<1>7. ASSUME NEW c \in Callers, NEW s \in Sessions, CallDisconnect(c, s) PROVE TypeOK'
  BY <1>7 DEF CallDisconnect, Aim
<1>8. ASSUME NEW th \in Pumps, PumpEnds(th) PROVE TypeOK'
  BY <1>8 DEF PumpEnds
<1>9. ASSUME NEW th \in Threads, GetByID(th) PROVE TypeOK'
  <2>1. CASE target[th] \in sessions /\ Goto(th, "close") /\ UNCHANGED <<once, inCallback>>
    BY <1>9, <2>1 DEF GetByID
  <2>2. CASE target[th] \notin sessions /\ Return(th)
    <3>1. PICK at \in {"done", "remove", "supersede"} :
            /\ place' = [place EXCEPT ![th] = at]
            /\ at = "remove" <=> inCallback[th] /\ th \notin Pumps
            /\ at = "supersede" <=> ~inCallback[th] /\ th \in Connectors /\ th # Connector(target[th])
            /\ once' = IF inCallback[th] THEN [once EXCEPT ![target[th]] = "finished"] ELSE once
            /\ inCallback' = [inCallback EXCEPT ![th] = FALSE]
      BY <1>9, <2>2, ReturnFacts DEF GetByID
    <3> QED
      BY <1>9, <2>2, <3>1 DEF GetByID
  <2> QED
    BY <1>9, <2>1, <2>2 DEF GetByID
<1>10. ASSUME NEW th \in Threads, Close(th) PROVE TypeOK'
  BY <1>10 DEF Close, Taken
<1>11. ASSUME NEW th \in Threads, EnterOnce(th) PROVE TypeOK'
  <2>1. target[th] \in Sessions
    BY <1>11 DEF EnterOnce
  <2>2. CASE once[target[th]] = "unused"
    <3>1. /\ once' = [once EXCEPT ![target[th]] = "running"]
          /\ inCallback' = [inCallback EXCEPT ![th] = TRUE]
          /\ place' = [place EXCEPT ![th] = "get"]
      BY <1>11, <2>2 DEF EnterOnce
    <3> QED
      BY <1>11, <2>1, <2>2, <3>1 DEF EnterOnce
  <2>3. CASE once[target[th]] = "finished"
    <3>1. PICK at \in {"done", "remove"} : place' = [place EXCEPT ![th] = at] /\ (at = "remove" <=> th \notin Pumps)
      BY <1>11, <2>3 DEF EnterOnce, AfterClose
    <3>2. UNCHANGED <<once, inCallback>>
      BY <1>11, <2>3 DEF EnterOnce
    <3> QED
      BY <1>11, <2>1, <2>3, <3>1, <3>2 DEF EnterOnce
  <2> QED
    BY <1>11, <2>2, <2>3 DEF EnterOnce
<1>12. ASSUME NEW th \in Threads, Remove(th) PROVE TypeOK'
  <2>1. PICK at \in {"done", "remove", "supersede"} :
          /\ place' = [place EXCEPT ![th] = at]
          /\ at = "remove" <=> inCallback[th] /\ th \notin Pumps
          /\ at = "supersede" <=> ~inCallback[th] /\ th \in Connectors /\ th # Connector(target[th])
          /\ once' = IF inCallback[th] THEN [once EXCEPT ![target[th]] = "finished"] ELSE once
          /\ inCallback' = [inCallback EXCEPT ![th] = FALSE]
    BY <1>12, ReturnFacts DEF Remove
  <2> QED
    BY <1>12, <2>1 DEF Remove, Removed
<1> QED
  BY <1>1, <1>2, <1>3, <1>4, <1>5, <1>6, <1>7, <1>8, <1>9, <1>10, <1>11, <1>12 DEF Next, Connect, Disconnect

(* The Once admits one thread to the callback.                             *)
LEMMA AimStep ==
  ASSUME TypeOK, AimInv, Next
  PROVE  AimInv'
PROOF
<1> USE ThreadKinds, ConnectorsDiffer DEF Goto, history, TypeOK, Disconnecting, AimInv, Active
<1>1. ASSUME NEW s \in Sessions, BeginConnect(s) PROVE AimInv'
  BY <1>1 DEF BeginConnect, Connecting
<1>2. ASSUME NEW s \in Sessions, FindByUser(s) PROVE AimInv'
  BY <1>2 DEF FindByUser, SameUser
<1>3. ASSUME NEW s \in Sessions, NEW old \in Sessions, Supersede(s, old) PROVE AimInv'
  BY <1>3 DEF Supersede, Aim
<1>4. ASSUME NEW s \in Sessions, Add(s) PROVE AimInv'
  BY <1>4 DEF Add
<1>5. ASSUME NEW s \in Sessions, Attach(s) PROVE AimInv'
  <2>1. place[Reader(s)] = "idle" /\ place[Writer(s)] = "idle" /\ ~inCallback[Reader(s)] /\ ~inCallback[Writer(s)]
    BY <1>5 DEF Attach
  <2>2. \A th \in Threads : inCallback[th] => th \notin {Connector(s), Reader(s), Writer(s)}
    BY <1>5, <2>1 DEF Attach
  <2>3. \A th \in Threads : inCallback'[th] => inCallback[th] /\ target'[th] = target[th] /\ place'[th] = place[th]
    BY <1>5, <2>2 DEF Attach
  <2>4. \A th \in Threads : place'[th] \in Active => target'[th] \in Sessions
    BY <1>5 DEF Attach
  <2>5. \A t \in Sessions : place'[Connector(t)] # "done" => place'[Reader(t)] = "idle" /\ place'[Writer(t)] = "idle"
    BY <1>5, PumpsDiffer DEF Attach
  <2>6. \A th \in Threads : inCallback'[th] => place'[th] \in Disconnecting /\ once'[target'[th]] = "running"
    BY <1>5, <2>3 DEF Attach
  <2>7. \A th, u \in Threads : inCallback'[th] /\ inCallback'[u] /\ target'[th] = target'[u] => th = u
    BY <2>3
  <2> QED
    BY <2>4, <2>5, <2>6, <2>7
<1>6. ASSUME NEW s \in Sessions, NoClient(s) PROVE AimInv'
  <2>1. CASE Goto(Connector(s), "get") /\ Aim(Connector(s), s)
    BY <1>6, <2>1 DEF NoClient, Aim
  <2>2. CASE Goto(Connector(s), "done") /\ UNCHANGED target
    BY <1>6, <2>2 DEF NoClient
  <2> QED
    BY <1>6, <2>1, <2>2 DEF NoClient
<1>7. ASSUME NEW c \in Callers, NEW s \in Sessions, CallDisconnect(c, s) PROVE AimInv'
  BY <1>7 DEF CallDisconnect, Aim
<1>8. ASSUME NEW th \in Pumps, PumpEnds(th) PROVE AimInv'
  BY <1>8 DEF PumpEnds
<1>9. ASSUME NEW th \in Threads, GetByID(th) PROVE AimInv'
  BY <1>9 DEF GetByID, Return, AfterClose, Resume
<1>10. ASSUME NEW th \in Threads, Close(th) PROVE AimInv'
  BY <1>10 DEF Close, Taken
<1>11. ASSUME NEW th \in Threads, EnterOnce(th) PROVE AimInv'
  <2>1. target[th] \in Sessions
    BY <1>11 DEF EnterOnce
  <2>2. CASE once[target[th]] = "unused"
    <3>1. /\ once' = [once EXCEPT ![target[th]] = "running"]
          /\ inCallback' = [inCallback EXCEPT ![th] = TRUE]
          /\ place' = [place EXCEPT ![th] = "get"]
      BY <1>11, <2>2 DEF EnterOnce
    <3> QED
      BY <1>11, <2>1, <2>2, <3>1 DEF EnterOnce
  <2>3. CASE once[target[th]] = "finished"
    <3>1. PICK at \in {"done", "remove"} : place' = [place EXCEPT ![th] = at] /\ (at = "remove" <=> th \notin Pumps)
      BY <1>11, <2>3 DEF EnterOnce, AfterClose
    <3>2. UNCHANGED <<once, inCallback>>
      BY <1>11, <2>3 DEF EnterOnce
    <3> QED
      BY <1>11, <2>1, <2>3, <3>1, <3>2 DEF EnterOnce
  <2> QED
    BY <1>11, <2>2, <2>3 DEF EnterOnce
<1>12. ASSUME NEW th \in Threads, Remove(th) PROVE AimInv'
  <2>1. PICK at \in {"done", "remove", "supersede"} :
          /\ place' = [place EXCEPT ![th] = at]
          /\ at = "remove" <=> inCallback[th] /\ th \notin Pumps
          /\ at = "supersede" <=> ~inCallback[th] /\ th \in Connectors /\ th # Connector(target[th])
          /\ once' = IF inCallback[th] THEN [once EXCEPT ![target[th]] = "finished"] ELSE once
          /\ inCallback' = [inCallback EXCEPT ![th] = FALSE]
    BY <1>12, ReturnFacts DEF Remove
  <2> QED
    BY <1>12, <2>1 DEF Remove
<1> QED
  BY <1>1, <1>2, <1>3, <1>4, <1>5, <1>6, <1>7, <1>8, <1>9, <1>10, <1>11, <1>12 DEF Next, Connect, Disconnect

(* A session that was added stays so.                                      *)
LEMMA AddedStep ==
  ASSUME TypeOK, AimInv, AddedInv, Next
  PROVE  AddedInv'
PROOF
<1> USE ThreadKinds, ConnectorsDiffer DEF Goto, history, TypeOK, Disconnecting, AimInv, Active, AddedInv, Added
<1>1. ASSUME NEW s \in Sessions, BeginConnect(s) PROVE AddedInv'
  BY <1>1 DEF BeginConnect, Connecting
<1>2. ASSUME NEW s \in Sessions, FindByUser(s) PROVE AddedInv'
  BY <1>2 DEF FindByUser, SameUser
<1>3. ASSUME NEW s \in Sessions, NEW old \in Sessions, Supersede(s, old) PROVE AddedInv'
  BY <1>3 DEF Supersede, Aim
<1>4. ASSUME NEW s \in Sessions, Add(s) PROVE AddedInv'
  BY <1>4 DEF Add
<1>5. ASSUME NEW s \in Sessions, Attach(s) PROVE AddedInv'
  <2>1. Added(s) /\ Added(s)'
    BY <1>5 DEF Attach
  <2>2. \A t \in Sessions : t # s => place'[Connector(t)] = place[Connector(t)] /\ target'[Connector(t)] = target[Connector(t)]
    BY <1>5 DEF Attach
  <2>3. \A t \in Sessions : Added(t) => Added(t)'
    BY <2>1, <2>2
  <2>4. \A th \in Threads : target'[th] \in {target[th], s}
    BY <1>5 DEF Attach
  <2>5. \A t \in Sessions : target'[Connector(t)] = t => place'[Connector(t)] \in Disconnecting \cup {"done"}
    BY <1>5 DEF Attach
  <2>6. \A t \in clients' : place'[Connector(t)] = "done"
    BY <1>5, <2>2 DEF Attach
  <2>7. \A th \in Threads : \A t \in Sessions : target'[th] = t => Added(t)'
    BY <2>1, <2>3, <2>4
  <2>8. /\ \A t \in sessions' : Added(t)'
        /\ \A t \in Sessions : \A u \in found'[t] : Added(u)'
        /\ \A t \in Sessions : once'[t] # "unused" => Added(t)'
    BY <1>5, <2>3 DEF Attach
  <2> QED
    BY <2>5, <2>6, <2>7, <2>8
<1>6. ASSUME NEW s \in Sessions, NoClient(s) PROVE AddedInv'
  BY <1>6 DEF NoClient, Aim
<1>7. ASSUME NEW c \in Callers, NEW s \in Sessions, CallDisconnect(c, s) PROVE AddedInv'
  BY <1>7 DEF CallDisconnect, Aim
<1>8. ASSUME NEW th \in Pumps, PumpEnds(th) PROVE AddedInv'
  BY <1>8 DEF PumpEnds
<1>9. ASSUME NEW th \in Threads, GetByID(th) PROVE AddedInv'
  <2>1. CASE target[th] \in sessions /\ Goto(th, "close") /\ UNCHANGED <<once, inCallback>>
    BY <1>9, <2>1 DEF GetByID
  <2>2. CASE target[th] \notin sessions /\ Return(th)
    <3>1. PICK at \in {"done", "remove", "supersede"} :
            /\ place' = [place EXCEPT ![th] = at]
            /\ at = "remove" <=> inCallback[th] /\ th \notin Pumps
            /\ at = "supersede" <=> ~inCallback[th] /\ th \in Connectors /\ th # Connector(target[th])
            /\ once' = IF inCallback[th] THEN [once EXCEPT ![target[th]] = "finished"] ELSE once
            /\ inCallback' = [inCallback EXCEPT ![th] = FALSE]
      BY <1>9, <2>2, ReturnFacts DEF GetByID
    <3> QED
      BY <1>9, <2>2, <3>1 DEF GetByID
  <2> QED
    BY <1>9, <2>1, <2>2 DEF GetByID
<1>10. ASSUME NEW th \in Threads, Close(th) PROVE AddedInv'
  BY <1>10 DEF Close, Taken
<1>11. ASSUME NEW th \in Threads, EnterOnce(th) PROVE AddedInv'
  <2>1. target[th] \in Sessions
    BY <1>11 DEF EnterOnce
  <2>2. CASE once[target[th]] = "unused"
    <3>1. /\ once' = [once EXCEPT ![target[th]] = "running"]
          /\ inCallback' = [inCallback EXCEPT ![th] = TRUE]
          /\ place' = [place EXCEPT ![th] = "get"]
      BY <1>11, <2>2 DEF EnterOnce
    <3> QED
      BY <1>11, <2>1, <2>2, <3>1 DEF EnterOnce
  <2>3. CASE once[target[th]] = "finished"
    <3>1. PICK at \in {"done", "remove"} : place' = [place EXCEPT ![th] = at] /\ (at = "remove" <=> th \notin Pumps)
      BY <1>11, <2>3 DEF EnterOnce, AfterClose
    <3>2. UNCHANGED <<once, inCallback>>
      BY <1>11, <2>3 DEF EnterOnce
    <3> QED
      BY <1>11, <2>1, <2>3, <3>1, <3>2 DEF EnterOnce
  <2> QED
    BY <1>11, <2>2, <2>3 DEF EnterOnce
<1>12. ASSUME NEW th \in Threads, Remove(th) PROVE AddedInv'
  <2>1. PICK at \in {"done", "remove", "supersede"} :
          /\ place' = [place EXCEPT ![th] = at]
          /\ at = "remove" <=> inCallback[th] /\ th \notin Pumps
          /\ at = "supersede" <=> ~inCallback[th] /\ th \in Connectors /\ th # Connector(target[th])
          /\ once' = IF inCallback[th] THEN [once EXCEPT ![target[th]] = "finished"] ELSE once
          /\ inCallback' = [inCallback EXCEPT ![th] = FALSE]
    BY <1>12, ReturnFacts DEF Remove
  <2> QED
    BY <1>12, <2>1 DEF Remove, Removed
<1> QED
  BY <1>1, <1>2, <1>3, <1>4, <1>5, <1>6, <1>7, <1>8, <1>9, <1>10, <1>11, <1>12 DEF Next, Connect, Disconnect

(* A session is not added again.                                           *)
LEMMA FinalStep ==
  ASSUME TypeOK, AimInv, AddedInv, FinalInv, Next
  PROVE  FinalInv'
PROOF
<1> USE ThreadKinds, ConnectorsDiffer DEF Goto, history, TypeOK, Disconnecting, AimInv, Active, AddedInv, Added, FinalInv
<1>1. ASSUME NEW s \in Sessions, BeginConnect(s) PROVE FinalInv'
  BY <1>1 DEF BeginConnect, Connecting
<1>2. ASSUME NEW s \in Sessions, FindByUser(s) PROVE FinalInv'
  BY <1>2 DEF FindByUser, SameUser
<1>3. ASSUME NEW s \in Sessions, NEW old \in Sessions, Supersede(s, old) PROVE FinalInv'
  BY <1>3 DEF Supersede, Aim
<1>4. ASSUME NEW s \in Sessions, Add(s) PROVE FinalInv'
  BY <1>4 DEF Add
<1>5. ASSUME NEW s \in Sessions, Attach(s) PROVE FinalInv'
  BY <1>5 DEF Attach, GivenUp
<1>6. ASSUME NEW s \in Sessions, NoClient(s) PROVE FinalInv'
  BY <1>6 DEF NoClient, Aim
<1>7. ASSUME NEW c \in Callers, NEW s \in Sessions, CallDisconnect(c, s) PROVE FinalInv'
  BY <1>7 DEF CallDisconnect, Aim
<1>8. ASSUME NEW th \in Pumps, PumpEnds(th) PROVE FinalInv'
  BY <1>8 DEF PumpEnds
<1>9. ASSUME NEW th \in Threads, GetByID(th) PROVE FinalInv'
  BY <1>9 DEF GetByID, Return, AfterClose, Resume
<1>10. ASSUME NEW th \in Threads, Close(th) PROVE FinalInv'
  BY <1>10 DEF Close, Taken
<1>11. ASSUME NEW th \in Threads, EnterOnce(th) PROVE FinalInv'
  <2>1. target[th] \in Sessions
    BY <1>11 DEF EnterOnce
  <2>2. CASE once[target[th]] = "unused"
    <3>1. /\ once' = [once EXCEPT ![target[th]] = "running"]
          /\ inCallback' = [inCallback EXCEPT ![th] = TRUE]
          /\ place' = [place EXCEPT ![th] = "get"]
      BY <1>11, <2>2 DEF EnterOnce
    <3> QED
      BY <1>11, <2>1, <2>2, <3>1 DEF EnterOnce
  <2>3. CASE once[target[th]] = "finished"
    <3>1. PICK at \in {"done", "remove"} : place' = [place EXCEPT ![th] = at] /\ (at = "remove" <=> th \notin Pumps)
      BY <1>11, <2>3 DEF EnterOnce, AfterClose
    <3>2. UNCHANGED <<once, inCallback>>
      BY <1>11, <2>3 DEF EnterOnce
    <3> QED
      BY <1>11, <2>1, <2>3, <3>1, <3>2 DEF EnterOnce
  <2> QED
    BY <1>11, <2>2, <2>3 DEF EnterOnce
<1>12. ASSUME NEW th \in Threads, Remove(th) PROVE FinalInv'
  BY <1>12 DEF Remove, Removed, Return, AfterClose, Resume
<1> QED
  BY <1>1, <1>2, <1>3, <1>4, <1>5, <1>6, <1>7, <1>8, <1>9, <1>10, <1>11, <1>12 DEF Next, Connect, Disconnect

(* Disconnect closes the client before it removes the session.             *)
LEMMA ReachStep ==
  ASSUME TypeOK, AimInv, AddedInv, FinalInv, ReachInv, Next
  PROVE  ReachInv'
PROOF
<1> USE ThreadKinds, ConnectorsDiffer DEF Goto, history, TypeOK, Disconnecting, AimInv, Active, FinalInv, ReachInv, ClientsAreReachable
<1>1. ASSUME NEW s \in Sessions, BeginConnect(s) PROVE ReachInv'
  BY <1>1 DEF BeginConnect, Connecting
<1>2. ASSUME NEW s \in Sessions, FindByUser(s) PROVE ReachInv'
  BY <1>2 DEF FindByUser, SameUser
<1>3. ASSUME NEW s \in Sessions, NEW old \in Sessions, Supersede(s, old) PROVE ReachInv'
  BY <1>3 DEF Supersede, Aim
<1>4. ASSUME NEW s \in Sessions, Add(s) PROVE ReachInv'
  BY <1>4 DEF Add
<1>5. ASSUME NEW s \in Sessions, Attach(s) PROVE ReachInv'
  BY <1>5 DEF Attach, GivenUp
<1>6. ASSUME NEW s \in Sessions, NoClient(s) PROVE ReachInv'
  BY <1>6 DEF NoClient, Aim
<1>7. ASSUME NEW c \in Callers, NEW s \in Sessions, CallDisconnect(c, s) PROVE ReachInv'
  BY <1>7 DEF CallDisconnect, Aim
<1>8. ASSUME NEW th \in Pumps, PumpEnds(th) PROVE ReachInv'
  BY <1>8 DEF PumpEnds
<1>9. ASSUME NEW th \in Threads, GetByID(th) PROVE ReachInv'
  BY <1>9 DEF GetByID, Return, AfterClose, Resume
<1>10. ASSUME NEW th \in Threads, Close(th) PROVE ReachInv'
  BY <1>10 DEF Close, Taken
<1>11. ASSUME NEW th \in Threads, EnterOnce(th) PROVE ReachInv'
  BY <1>11 DEF EnterOnce, AfterClose
<1>12. ASSUME NEW th \in Threads, Remove(th) PROVE ReachInv'
  BY <1>12 DEF Remove, Removed, Return, AfterClose, Resume
<1> QED
  BY <1>1, <1>2, <1>3, <1>4, <1>5, <1>6, <1>7, <1>8, <1>9, <1>10, <1>11, <1>12 DEF Next, Connect, Disconnect

(* Gateway.Close hands the client to one thread.                           *)
LEMMA TakeStep ==
  ASSUME TypeOK, AimInv, AddedInv, TakeInv, Next
  PROVE  TakeInv'
PROOF
<1> USE ThreadKinds, ConnectorsDiffer DEF Goto, history, TypeOK, Disconnecting, AimInv, Active, AddedInv, Added, TakeInv, Taker
<1>1. ASSUME NEW s \in Sessions, BeginConnect(s) PROVE TakeInv'
  BY <1>1 DEF BeginConnect, Connecting
<1>2. ASSUME NEW s \in Sessions, FindByUser(s) PROVE TakeInv'
  BY <1>2 DEF FindByUser, SameUser
<1>3. ASSUME NEW s \in Sessions, NEW old \in Sessions, Supersede(s, old) PROVE TakeInv'
  BY <1>3 DEF Supersede, Aim
<1>4. ASSUME NEW s \in Sessions, Add(s) PROVE TakeInv'
  BY <1>4 DEF Add
<1>5. ASSUME NEW s \in Sessions, Attach(s) PROVE TakeInv'
  BY <1>5 DEF Attach, GivenUp
<1>6. ASSUME NEW s \in Sessions, NoClient(s) PROVE TakeInv'
  <2>1. CASE Goto(Connector(s), "get") /\ Aim(Connector(s), s)
    BY <1>6, <2>1 DEF NoClient, Aim
  <2>2. CASE Goto(Connector(s), "done") /\ UNCHANGED target
    BY <1>6, <2>2 DEF NoClient
  <2> QED
    BY <1>6, <2>1, <2>2 DEF NoClient
<1>7. ASSUME NEW c \in Callers, NEW s \in Sessions, CallDisconnect(c, s) PROVE TakeInv'
  BY <1>7 DEF CallDisconnect, Aim
<1>8. ASSUME NEW th \in Pumps, PumpEnds(th) PROVE TakeInv'
  BY <1>8 DEF PumpEnds
<1>9. ASSUME NEW th \in Threads, GetByID(th) PROVE TakeInv'
  <2>1. CASE target[th] \in sessions /\ Goto(th, "close") /\ UNCHANGED <<once, inCallback>>
    BY <1>9, <2>1 DEF GetByID
  <2>2. CASE target[th] \notin sessions /\ Return(th)
    <3>1. PICK at \in {"done", "remove", "supersede"} :
            /\ place' = [place EXCEPT ![th] = at]
            /\ at = "remove" <=> inCallback[th] /\ th \notin Pumps
            /\ at = "supersede" <=> ~inCallback[th] /\ th \in Connectors /\ th # Connector(target[th])
            /\ once' = IF inCallback[th] THEN [once EXCEPT ![target[th]] = "finished"] ELSE once
            /\ inCallback' = [inCallback EXCEPT ![th] = FALSE]
      BY <1>9, <2>2, ReturnFacts DEF GetByID
    <3> QED
      BY <1>9, <2>2, <3>1 DEF GetByID
  <2> QED
    BY <1>9, <2>1, <2>2 DEF GetByID
<1>10. ASSUME NEW th \in Threads, Close(th) PROVE TakeInv'
  BY <1>10 DEF Close, Taken
<1>11. ASSUME NEW th \in Threads, EnterOnce(th) PROVE TakeInv'
  <2>1. target[th] \in Sessions
    BY <1>11 DEF EnterOnce
  <2>2. CASE once[target[th]] = "unused"
    <3>1. /\ once' = [once EXCEPT ![target[th]] = "running"]
          /\ inCallback' = [inCallback EXCEPT ![th] = TRUE]
          /\ place' = [place EXCEPT ![th] = "get"]
      BY <1>11, <2>2 DEF EnterOnce
    <3> QED
      BY <1>11, <2>1, <2>2, <3>1 DEF EnterOnce
  <2>3. CASE once[target[th]] = "finished"
    <3>1. PICK at \in {"done", "remove"} : place' = [place EXCEPT ![th] = at] /\ (at = "remove" <=> th \notin Pumps)
      BY <1>11, <2>3 DEF EnterOnce, AfterClose
    <3>2. UNCHANGED <<once, inCallback>>
      BY <1>11, <2>3 DEF EnterOnce
    <3> QED
      BY <1>11, <2>1, <2>3, <3>1, <3>2 DEF EnterOnce
  <2> QED
    BY <1>11, <2>2, <2>3 DEF EnterOnce
<1>12. ASSUME NEW th \in Threads, Remove(th) PROVE TakeInv'
  <2>1. PICK at \in {"done", "remove", "supersede"} :
          /\ place' = [place EXCEPT ![th] = at]
          /\ at = "remove" <=> inCallback[th] /\ th \notin Pumps
          /\ at = "supersede" <=> ~inCallback[th] /\ th \in Connectors /\ th # Connector(target[th])
          /\ once' = IF inCallback[th] THEN [once EXCEPT ![target[th]] = "finished"] ELSE once
          /\ inCallback' = [inCallback EXCEPT ![th] = FALSE]
    BY <1>12, ReturnFacts DEF Remove
  <2> QED
    BY <1>12, <2>1 DEF Remove
<1> QED
  BY <1>1, <1>2, <1>3, <1>4, <1>5, <1>6, <1>7, <1>8, <1>9, <1>10, <1>11, <1>12 DEF Next, Connect, Disconnect

(* A Connect that is under way was so before, or has just begun.           *)
LEMMA ConnectingStep ==
  ASSUME TypeOK, AimInv, AddedInv, Next, NEW s \in Connecting'
  PROVE  s \in Connecting \/ BeginConnect(s)
PROOF
<1> USE ThreadKinds, ConnectorsDiffer DEF Connecting, Goto, TypeOK, Disconnecting
<1>1. ASSUME NEW t \in Sessions, BeginConnect(t) PROVE s \in Connecting \/ BeginConnect(s)
  <2>1. CASE t = s
    BY <1>1, <2>1
  <2>2. CASE t # s
    <3>1. Connector(t) # Connector(s)
      BY <2>2
    <3> QED
      BY <1>1, <3>1 DEF BeginConnect
  <2> QED
    BY <2>1, <2>2
<1>2. ASSUME NEW t \in Sessions, Connect(t) PROVE s \in Connecting
  <2>1. CASE FindByUser(t) \/ Add(t)
    BY <2>1 DEF FindByUser, Add
  <2>2. CASE \E old \in Sessions : Supersede(t, old)
    BY <2>2 DEF Supersede, Aim, AddedInv
  <2>3. CASE Attach(t)
    BY <2>3 DEF Attach
  <2>4. CASE NoClient(t)
    BY <2>4 DEF NoClient, Aim
  <2> QED
    BY <1>2, <2>1, <2>2, <2>3, <2>4 DEF Connect
<1>3. ASSUME NEW c \in Callers, NEW t \in Sessions, CallDisconnect(c, t) PROVE s \in Connecting
  BY <1>3 DEF CallDisconnect, Aim
<1>4. ASSUME NEW th \in Pumps, PumpEnds(th) PROVE s \in Connecting
  BY <1>4 DEF PumpEnds
<1>5. ASSUME NEW th \in Threads, Disconnect(th) PROVE s \in Connecting
  <2>1. /\ target' = target
        /\ place[th] \in Disconnecting
        /\ \A u \in Threads : u # th => place'[u] = place[u]
    BY <1>5 DEF Disconnect, GetByID, Close, EnterOnce, Remove, Return
  <2>2. CASE th = Connector(s)
    BY <2>1, <2>2
  <2>3. CASE th # Connector(s)
    BY <2>1, <2>3
  <2> QED
    BY <2>2, <2>3
<1> QED
  BY <1>1, <1>2, <1>3, <1>4, <1>5 DEF Next

(* Only its own Connect adds a session, and races are not forgotten.       *)
LEMMA NewSession ==
  ASSUME Next
  PROVE  /\ \A t \in sessions' : t \in sessions \/ (t \in Sessions /\ Add(t))
         /\ raced \subseteq raced'
PROOF
<1>1. ASSUME NEW t \in Sessions, BeginConnect(t) \/ Connect(t)
      PROVE  (sessions' = sessions \/ (Add(t) /\ sessions' = sessions \cup {t})) /\ raced \subseteq raced'
  BY <1>1 DEF BeginConnect, Connect, FindByUser, Supersede, Add, Attach, NoClient, history
<1>2. ASSUME NEW c \in Callers, NEW t \in Sessions, CallDisconnect(c, t) PROVE UNCHANGED <<sessions, raced>>
  BY <1>2 DEF CallDisconnect, history
<1>3. ASSUME NEW th \in Pumps, PumpEnds(th) PROVE UNCHANGED <<sessions, raced>>
  BY <1>3 DEF PumpEnds, history
<1>4. ASSUME NEW th \in Threads, Disconnect(th) PROVE sessions' \subseteq sessions /\ UNCHANGED raced
  BY <1>4 DEF Disconnect, GetByID, Close, EnterOnce, Remove, Removed, history
<1> QED
  BY <1>1, <1>2, <1>3, <1>4 DEF Next

(* A Connect that begins races with all that are under way.                *)
LEMMA RacedStep ==
  ASSUME TypeOK, AimInv, AddedInv, RacedInv, Next
  PROVE  RacedInv'
PROOF
<1> SUFFICES ASSUME NEW s \in Connecting', NEW t \in Connecting', s # t
             PROVE  {s, t} \in raced'
  BY DEF RacedInv
<1>1. /\ s \in Connecting \/ BeginConnect(s)
      /\ t \in Connecting \/ BeginConnect(t)
  BY ConnectingStep
<1>2. s \in Sessions /\ t \in Sessions /\ {s, t} = {t, s}
  BY DEF Connecting
<1>3. CASE s \in Connecting /\ t \in Connecting
  BY <1>3, NewSession DEF RacedInv
<1>4. CASE BeginConnect(s) /\ t \in Connecting
  BY <1>4 DEF BeginConnect
<1>5. CASE BeginConnect(t) /\ s \in Connecting
  BY <1>2, <1>5 DEF BeginConnect
<1>6. ~(BeginConnect(s) /\ BeginConnect(t))
  BY <1>2, ThreadKinds, ConnectorsDiffer DEF BeginConnect, Goto, TypeOK
<1> QED
  BY <1>1, <1>3, <1>4, <1>5, <1>6

(* What a Connect has settled with an older session stays settled.         *)
LEMMA SettledStep ==
  ASSUME TypeOK, AimInv, AddedInv, RacedInv, SettledInv, Next
  PROVE  SettledInv'
PROOF
<1> USE ThreadKinds, ConnectorsDiffer DEF Goto, TypeOK, Disconnecting
<1> SUFFICES ASSUME NEW s \in Connecting', place'[Connector(s)] # "find",
                    NEW t \in sessions', OwnerOf[t] = OwnerOf[s]
             PROVE  Settled(s, t)'
  BY DEF SettledInv
<1>1. s \in Connecting /\ s \in Sessions
  BY ConnectingStep DEF BeginConnect, Connecting
<1>2. t \in Sessions /\ raced \subseteq raced'
  BY NewSession
<1>3. CASE t \notin sessions
  <2>1. Add(t)
    BY <1>3, NewSession
  <2>2. t \in Connecting
    BY <1>2, <2>1 DEF Add, Connecting, AddedInv
  <2>3. s # t
    BY <1>2, <2>1 DEF Add, Connecting
  <2> QED
    BY <1>1, <1>2, <2>2, <2>3 DEF RacedInv, Settled
<1>4. CASE t \in sessions /\ place[Connector(s)] = "find"
  <2>1. FindByUser(s)
    <3>1. ASSUME NEW u \in Sessions, BeginConnect(u) \/ Connect(u) PROVE u = s /\ FindByUser(s)
      BY <1>1, <1>4, <3>1 DEF BeginConnect, Connect, FindByUser, Supersede, Add, Attach, NoClient
    <3>2. ASSUME NEW c \in Callers, NEW u \in Sessions, CallDisconnect(c, u) PROVE FALSE
      BY <1>1, <1>4, <3>2 DEF CallDisconnect
    <3>3. ASSUME NEW th \in Pumps, PumpEnds(th) PROVE FALSE
      BY <1>1, <1>4, <3>3 DEF PumpEnds
    <3>4. ASSUME NEW th \in Threads, Disconnect(th) PROVE FALSE
      BY <1>1, <1>4, <3>4 DEF Disconnect, GetByID, Close, EnterOnce, Remove, Return
    <3> QED
      BY <3>1, <3>2, <3>3, <3>4 DEF Next
  <2> QED
    BY <1>1, <1>2, <1>4, <2>1 DEF FindByUser, SameUser, Settled
<1>5. CASE t \in sessions /\ place[Connector(s)] # "find"
  <2>1. Settled(s, t)
    BY <1>1, <1>5 DEF SettledInv
  <2>2. CASE {s, t} \in raced
    BY <1>2, <2>2 DEF Settled
  <2>3. CASE t \in found[s]
    <3>1. ASSUME NEW u \in Sessions, BeginConnect(u) \/ Connect(u) PROVE Settled(s, t)'
      <4>1. CASE \E old \in Sessions : Supersede(u, old)
        BY <1>1, <2>3, <4>1 DEF Supersede, Aim, Settled
      <4>2. CASE FindByUser(u)
        BY <1>1, <1>5, <2>3, <4>2 DEF FindByUser, Settled
      <4>3. CASE UNCHANGED found
        BY <2>3, <4>3 DEF Settled
      <4> QED
        BY <3>1, <4>1, <4>2, <4>3 DEF BeginConnect, Connect, Add, Attach, NoClient
    <3>2. ASSUME NEW c \in Callers, NEW u \in Sessions, CallDisconnect(c, u) PROVE UNCHANGED found
      BY <3>2 DEF CallDisconnect
    <3>3. ASSUME NEW th \in Pumps, PumpEnds(th) PROVE UNCHANGED found
      BY <3>3 DEF PumpEnds
    <3>4. ASSUME NEW th \in Threads, Disconnect(th) PROVE UNCHANGED found
      BY <3>4 DEF Disconnect, GetByID, Close, EnterOnce, Remove
    <3> QED
      BY <2>3, <3>1, <3>2, <3>3, <3>4 DEF Next, Settled
  <2>4. CASE place[Connector(s)] \in Disconnecting /\ target[Connector(s)] = t
    <3> SUFFICES place'[Connector(s)] \in Disconnecting /\ target'[Connector(s)] = t
      BY DEF Settled
    <3>1. ASSUME NEW u \in Sessions, BeginConnect(u) \/ Connect(u)
          PROVE  place'[Connector(s)] = place[Connector(s)] /\ target'[Connector(s)] = t
      BY <1>1, <2>4, <3>1 DEF BeginConnect, Connect, FindByUser, Supersede, Add, Attach, NoClient, Aim
    <3>2. ASSUME NEW c \in Callers, NEW u \in Sessions, CallDisconnect(c, u)
          PROVE  place'[Connector(s)] = place[Connector(s)] /\ target'[Connector(s)] = t
      BY <1>1, <2>4, <3>2 DEF CallDisconnect, Aim
    <3>3. ASSUME NEW th \in Pumps, PumpEnds(th)
          PROVE  place'[Connector(s)] = place[Connector(s)] /\ target'[Connector(s)] = t
      BY <1>1, <2>4, <3>3 DEF PumpEnds
    <3>4. ASSUME NEW th \in Threads, Disconnect(th)
          PROVE  place'[Connector(s)] \in Disconnecting /\ target'[Connector(s)] = t
      <4>1. target' = target /\ \A u \in Threads : u # th => place'[u] = place[u]
        BY <3>4 DEF Disconnect, GetByID, Close, EnterOnce, Remove, Return
      <4>2. CASE th # Connector(s)
        BY <1>1, <2>4, <4>1, <4>2
      <4>3. CASE th = Connector(s)
        <5>1. ~Remove(th)
          BY <2>4, <4>3 DEF Remove, Removed
        <5>2. GetByID(th) \/ Close(th) \/ EnterOnce(th) => place'[th] \in Disconnecting
          BY <1>1, <1>5, <2>4, <4>3 DEF GetByID, Close, EnterOnce, AfterClose
        <5> QED
          BY <2>4, <3>4, <4>1, <4>3, <5>1, <5>2 DEF Disconnect
      <4> QED
        BY <4>2, <4>3
    <3> QED
      BY <2>4, <3>1, <3>2, <3>3, <3>4 DEF Next
  <2> QED
    BY <2>1, <2>2, <2>3, <2>4 DEF Settled
<1> QED
  BY <1>3, <1>4, <1>5

(* A session is added beside another one of its owner only after a race.   *)
LEMMA OneSessionStep ==
  ASSUME TypeOK, AddedInv, SettledInv, OneSessionUnlessRaced, Next
  PROVE  OneSessionUnlessRaced'
PROOF
<1> SUFFICES ASSUME NEW s \in sessions', NEW t \in sessions', s # t, OwnerOf[s] = OwnerOf[t]
             PROVE  {s, t} \in raced'
  BY DEF OneSessionUnlessRaced
<1>1. ASSUME NEW u \in Sessions, Add(u), NEW v \in sessions, OwnerOf[u] = OwnerOf[v]
      PROVE  {u, v} \in raced
  <2>1. u \in Connecting /\ place[Connector(u)] = "supersede" /\ found[u] = {}
    BY <1>1, ThreadKinds DEF Add, Connecting, AddedInv, Disconnecting
  <2> QED
    BY <1>1, <2>1 DEF SettledInv, Settled, Disconnecting
<1>2. CASE s \in sessions /\ t \in sessions
  BY <1>2, NewSession DEF OneSessionUnlessRaced
<1>3. CASE s \notin sessions
  <2>1. s \in Sessions /\ Add(s) /\ t \in sessions
    BY <1>3, NewSession DEF Add
  <2> QED
    BY <1>1, <2>1, NewSession
<1>4. CASE t \notin sessions
  <2>1. t \in Sessions /\ Add(t) /\ s \in sessions /\ {s, t} = {t, s}
    BY <1>4, NewSession DEF Add
  <2> QED
    BY <1>1, <2>1, NewSession
<1> QED
  BY <1>2, <1>3, <1>4

-----------------------------------------------------------------------------
(* The invariant holds in the initial states.                              *)
LEMMA InitIInv ==
  ASSUME Init
  PROVE  IInv
PROOF
<1> USE ThreadKinds, NoSessionAssumption DEF Init
<1>1. TypeOK
  BY DEF TypeOK, Places, Disconnecting
<1>2. AimInv
  BY DEF AimInv, Active, Disconnecting
<1>3. AddedInv
  BY DEF AddedInv
<1>4. FinalInv /\ ReachInv
  BY DEF FinalInv, ReachInv, ClientsAreReachable
<1>5. TakeInv
  BY DEF TakeInv, Taker
<1>6. RacedInv /\ SettledInv /\ OneSessionUnlessRaced
  BY DEF RacedInv, SettledInv, OneSessionUnlessRaced, Connecting, Disconnecting
<1> QED
  BY <1>1, <1>2, <1>3, <1>4, <1>5, <1>6 DEF IInv

(* Every step keeps it, and a step that leaves everything alone does too.  *)
LEMMA StepIInv ==
  ASSUME IInv, [Next]_vars
  PROVE  IInv'
PROOF
<1> USE DEF IInv
<1>1. CASE Next
  BY <1>1, TypeStep, AimStep, AddedStep, FinalStep, ReachStep, TakeStep, RacedStep, SettledStep, OneSessionStep
<1>2. CASE UNCHANGED vars
  <2> USE <1>2 DEF vars
  <2>1. TypeOK' /\ AimInv'
    BY DEF TypeOK, AimInv
  <2>2. AddedInv' /\ FinalInv'
    BY DEF AddedInv, FinalInv, Added
  <2>3. ReachInv' /\ TakeInv'
    BY DEF ReachInv, ClientsAreReachable, TakeInv, Taker
  <2>4. Connecting' = Connecting
    BY DEF Connecting
  <2>5. RacedInv' /\ SettledInv' /\ OneSessionUnlessRaced'
    BY <2>4 DEF RacedInv, SettledInv, Settled, OneSessionUnlessRaced
  <2> QED
    BY <2>1, <2>2, <2>3, <2>5
<1> QED
  BY <1>1, <1>2

(* The invariant of the sessions of a node.                                *)
LEMMA Invariance == Spec => []IInv
PROOF
<1> QED
  BY InitIInv, StepIInv, PTL DEF Spec

(* Type correctness, also of where each kind of thread may stand.          *)
THEOREM SessionTypes == Spec => []TypeOK
PROOF
<1>1. IInv => TypeOK
  BY DEF IInv
<1> QED
  BY <1>1, Invariance, PTL

(* Connect leaves its user one session per client type, unless two of his  *)
(* Connects overlapped.                                                    *)
THEOREM NewestSessionWins == Spec => []OneSessionUnlessRaced
PROOF
<1>1. IInv => OneSessionUnlessRaced
  BY DEF IInv
<1> QED
  BY <1>1, Invariance, PTL

(* Disconnect closes the client before it forgets the session.             *)
THEOREM ClientsHaveSessions == Spec => []ClientsAreReachable
PROOF
<1>1. IInv => ClientsAreReachable
  BY DEF IInv, ReachInv
<1> QED
  BY <1>1, Invariance, PTL

(* A close() that waits for itself is that of a pump, and keeps no request *)
(* waiting.                                                                *)
THEOREM RequestsDoNotHang == Spec => []OnlyPumpsHang
PROOF
<1>1. IInv => OnlyPumpsHang
  BY DEF IInv, OnlyPumpsHang, Hung, TakeInv, Taker
<1> QED
  BY <1>1, Invariance, PTL

(* No session comes back after a Disconnect of it returned.                *)
THEOREM DisconnectedForGood == Spec => []DisconnectIsFinal
PROOF
<1>1. IInv => DisconnectIsFinal
  BY DEF IInv, DisconnectIsFinal, FinalInv, Active, Disconnecting
<1> QED
  BY <1>1, Invariance, PTL

-----------------------------------------------------------------------------
(* PushBroadcast.                                                          *)
(* A copy is published again only while it may be retried.                 *)
RetryInv == \A n \in Nodes : work[n] = "retry" => MayRetry(hand[n])

BroadcastInv == BroadcastTypeOK /\ RetryInv /\ ShownOncePerRecord

LEMMA RequeuedType ==
  ASSUME BroadcastTypeOK, NEW n \in Nodes
  PROVE  Requeued(n) \in [Queues -> [Copy -> Nat]]
BY QueueOfAssumption DEF BroadcastTypeOK, Requeued

LEMMA FaultType ==
  ASSUME BroadcastTypeOK, Fault \/ NoFault
  PROVE  faults' \in 0 .. MaxFaults
BY BoundsAssumption DEF BroadcastTypeOK, Fault, NoFault

(* An answer of the store changes at most one record, and wastes at most   *)
(* one.                                                                    *)
LEMMA RecordType ==
  ASSUME BroadcastTypeOK, NEW s \in Stores, NEW m \in Messages,
         held' = held \/ Record(s, m), wasted' = wasted \/ Waste(s, m)
  PROVE  held' \in [Stores -> SUBSET Messages] /\ wasted' \in [Stores -> [Messages -> Nat]]
<1>1. held \in [Stores -> SUBSET Messages] /\ wasted \in [Stores -> [Messages -> Nat]]
  BY DEF BroadcastTypeOK
<1>2. held[s] \cup {m} \in SUBSET Messages
  BY <1>1
<1>3. held' \in [Stores -> SUBSET Messages]
  BY <1>1, <1>2 DEF Record
<1>4. [wasted[s] EXCEPT ![m] = @ + 1] \in [Messages -> Nat]
  BY <1>1
<1>5. wasted' \in [Stores -> [Messages -> Nat]]
  BY <1>1, <1>4 DEF Waste
<1> QED
  BY <1>3, <1>5

LEMMA AskType ==
  ASSUME BroadcastTypeOK, RetryInv, NEW r \in Requests, NEW n \in Nodes, NEW m \in Messages, NEW kind \in Kinds,
         Ask(r, n, m, kind)
  PROVE  BroadcastTypeOK' /\ RetryInv'
<1>1. [at |-> n, of |-> m, kind |-> kind] \in Request
  BY DEF Request
<1>2. /\ request' \in [Requests -> Request \cup {NoCopy}]
      /\ \A q \in Requests : request'[q] = IF q = r THEN [at |-> n, of |-> m, kind |-> kind] ELSE request[q]
  BY <1>1 DEF BroadcastTypeOK, Ask
<1>3. /\ stage' \in [Requests -> {"idle", "send", "publish", "confirm", "done"}]
      /\ \A q \in Requests : q # r => stage'[q] = stage[q]
      /\ stage'[r] # "idle"
  BY DEF BroadcastTypeOK, Ask
<1>4. \A q \in Requests : stage'[q] = "idle" <=> request'[q] = NoCopy
  BY <1>1, <1>2, <1>3, NoCopyAssumption DEF BroadcastTypeOK
<1>5. held' \in [Stores -> SUBSET Messages] /\ wasted' \in [Stores -> [Messages -> Nat]]
  <2>1. /\ held' = held \/ Record(StoreOf[n], m)
        /\ wasted' = wasted \/ Waste(StoreOf[n], m)
    BY DEF Ask, AcquireFails
  <2> QED
    BY <2>1, RecordType, StoreOfAssumption
<1>6. faults' \in 0 .. MaxFaults
  BY FaultType DEF Ask, AcquireFails
<1> QED
  BY <1>2, <1>3, <1>4, <1>5, <1>6 DEF BroadcastTypeOK, RetryInv, Ask, consuming, MayRetry

(* A showing is counted at the store of its node.                          *)
LEMMA ShowAtCounts ==
  ASSUME BroadcastTypeOK, NEW n \in Nodes, NEW v \in Messages, ShowAt(n, v)
  PROVE  /\ shown' \in [Stores -> [Messages -> Nat]]
         /\ shown'[StoreOf[n]][v] = shown[StoreOf[n]][v] + 1
         /\ \A s \in Stores, m \in Messages : s # StoreOf[n] \/ m # v => shown'[s][m] = shown[s][m]
<1>1. StoreOf[n] \in Stores
  BY StoreOfAssumption
<1>2. shown \in [Stores -> [Messages -> Nat]]
  BY DEF BroadcastTypeOK
<1>3. shown' = [shown EXCEPT ![StoreOf[n]] = [shown[StoreOf[n]] EXCEPT ![v] = @ + 1]]
  BY DEF ShowAt
<1>4. [shown[StoreOf[n]] EXCEPT ![v] = @ + 1] \in [Messages -> Nat]
  BY <1>1, <1>2
<1> QED
  BY <1>1, <1>2, <1>3, <1>4

LEMMA SendType ==
  ASSUME BroadcastTypeOK, RetryInv, NEW r \in Requests, Send(r)
  PROVE  BroadcastTypeOK' /\ RetryInv'
<1>1. request[r] \in Request
  BY DEF BroadcastTypeOK, Send
<1>2. shown' \in [Stores -> [Messages -> Nat]]
  BY <1>1, ShowAtCounts DEF Send, Request
<1>3. /\ stage' \in [Requests -> {"idle", "send", "publish", "confirm", "done"}]
      /\ \A q \in Requests : stage'[q] = "idle" <=> request[q] = NoCopy
  BY DEF BroadcastTypeOK, Send
<1> QED
  BY <1>2, <1>3 DEF BroadcastTypeOK, RetryInv, Send, consuming, MayRetry

LEMMA PublishType ==
  ASSUME BroadcastTypeOK, RetryInv, NEW r \in Requests, Publish(r)
  PROVE  BroadcastTypeOK' /\ RetryInv'
<1>1. request[r] \in Request
  BY DEF BroadcastTypeOK, Publish
<1>2. \A m \in Messages : [of |-> m, retry |-> 0] \in Copy
  BY BoundsAssumption DEF Copy
<1>3. \A m \in Messages : Fanout(m) \in [Queues -> [Copy -> Nat]]
  <2>1. ASSUME NEW m \in Messages, NEW q \in Queues
        PROVE  [queue[q] EXCEPT ![[of |-> m, retry |-> 0]] = @ + 1] \in [Copy -> Nat]
    BY <1>2 DEF BroadcastTypeOK
  <2> QED
    BY <2>1 DEF Fanout
<1>4. queue' \in [Queues -> [Copy -> Nat]]
  BY <1>1, <1>3 DEF BroadcastTypeOK, Publish, Request
<1>5. /\ stage' \in [Requests -> {"idle", "send", "publish", "confirm", "done"}]
      /\ \A q \in Requests : stage'[q] = "idle" <=> request[q] = NoCopy
  <2>1. stage[r] = "publish" /\ \E to \in {"confirm", "done"} : stage' = [stage EXCEPT ![r] = to]
    BY DEF Publish
  <2> QED
    BY <2>1 DEF BroadcastTypeOK
<1>6. unread' \in [Nodes -> Nat]
  <2> DEFINE n == request[r].at
  <2>1. n \in Nodes
    BY <1>1 DEF Request
  <2>2. unread' = unread \/ unread' = [unread EXCEPT ![n] = @ + 1]
    BY DEF Publish
  <2> HIDE DEF n
  <2> QED
    BY <2>1, <2>2 DEF BroadcastTypeOK
<1>7. faults' \in 0 .. MaxFaults
  BY FaultType DEF BroadcastTypeOK, Publish
<1> QED
  BY <1>4, <1>5, <1>6, <1>7 DEF BroadcastTypeOK, RetryInv, Publish, consuming, MayRetry

LEMMA EndPublishType ==
  ASSUME BroadcastTypeOK, RetryInv, NEW r \in Requests, EndPublish(r)
  PROVE  BroadcastTypeOK' /\ RetryInv'
<1>1. request[r] \in Request
  BY DEF BroadcastTypeOK, EndPublish
<1>5. /\ stage' \in [Requests -> {"idle", "send", "publish", "confirm", "done"}]
      /\ \A q \in Requests : stage'[q] = "idle" <=> request[q] = NoCopy
  BY DEF BroadcastTypeOK, EndPublish
<1>6. unread' \in [Nodes -> Nat]
  <2> DEFINE n == request[r].at
  <2>1. n \in Nodes
    BY <1>1 DEF Request
  <2>2. unread' = unread \/ (unread[n] > 0 /\ unread' = [unread EXCEPT ![n] = @ - 1])
    BY DEF EndPublish
  <2> HIDE DEF n
  <2> QED
    BY <2>1, <2>2 DEF BroadcastTypeOK
<1>7. faults' \in 0 .. MaxFaults
  BY FaultType DEF BroadcastTypeOK, EndPublish
<1> QED
  BY <1>5, <1>6, <1>7 DEF BroadcastTypeOK, RetryInv, EndPublish, consuming, MayRetry

LEMMA ReceiveType ==
  ASSUME BroadcastTypeOK, RetryInv, NEW n \in Nodes, NEW c \in Copy, Receive(n, c)
  PROVE  BroadcastTypeOK' /\ RetryInv'
<1>1. c.of \in Messages /\ c # NoCopy /\ StoreOf[n] \in Stores /\ QueueOf[n] \in Queues
  BY NoCopyAssumption, StoreOfAssumption, QueueOfAssumption DEF Copy
<1>2. queue' \in [Queues -> [Copy -> Nat]]
  BY <1>1 DEF BroadcastTypeOK, Receive
<1>3. /\ work' \in [Nodes -> {"idle", "show", "retry", "bury", "ack"}]
      /\ hand' \in [Nodes -> Copy \cup {NoCopy}]
      /\ \A k \in Nodes : work'[k] = "idle" <=> hand'[k] = NoCopy
      /\ \A k \in Nodes : work'[k] = "retry" => MayRetry(hand'[k])
  <2>1. \E to \in {"show", "ack", "retry", "bury"} :
          work' = [work EXCEPT ![n] = to] /\ (to = "retry" => MayRetry(c))
    BY DEF Receive
  <2>2. hand' = [hand EXCEPT ![n] = c]
    BY DEF Receive
  <2> QED
    BY <1>1, <2>1, <2>2 DEF BroadcastTypeOK, RetryInv, MayRetry
<1>4. /\ held' \in [Stores -> SUBSET Messages]
      /\ wasted' \in [Stores -> [Messages -> Nat]]
  <2>1. /\ held' = held \/ Record(StoreOf[n], c.of)
        /\ wasted' = wasted \/ Waste(StoreOf[n], c.of)
    BY DEF Receive, AcquireFails
  <2> QED
    BY <1>1, <2>1, RecordType
<1>5. faults' \in 0 .. MaxFaults
  BY FaultType DEF Receive, AcquireFails
<1> QED
  BY <1>2, <1>3, <1>4, <1>5 DEF BroadcastTypeOK, RetryInv, Receive, requests, MayRetry

LEMMA ShowType ==
  ASSUME BroadcastTypeOK, RetryInv, NEW n \in Nodes, Show(n)
  PROVE  BroadcastTypeOK' /\ RetryInv'
<1>1. hand[n] \in Copy /\ StoreOf[n] \in Stores
  BY StoreOfAssumption DEF BroadcastTypeOK, Show
<1>2. shown' \in [Stores -> [Messages -> Nat]]
  BY <1>1, ShowAtCounts DEF Show, Copy
<1>3. /\ work' \in [Nodes -> {"idle", "show", "retry", "bury", "ack"}]
      /\ \A k \in Nodes : work'[k] = "idle" <=> hand[k] = NoCopy
      /\ \A k \in Nodes : work'[k] = "retry" => work[k] = "retry"
  BY DEF BroadcastTypeOK, Show
<1> QED
  BY <1>2, <1>3 DEF BroadcastTypeOK, RetryInv, Show, requests, MayRetry

LEMMA PublishAgainType ==
  ASSUME BroadcastTypeOK, RetryInv, NEW n \in Nodes, PublishAgain(n)
  PROVE  BroadcastTypeOK' /\ RetryInv'
<1>1. hand[n] \in Copy /\ QueueOf[n] \in Queues
  BY QueueOfAssumption DEF BroadcastTypeOK, PublishAgain
<1>2. work[n] = "retry" => NextCopy(hand[n]) \in Copy
  BY <1>1, BoundsAssumption DEF RetryInv, MayRetry, NextCopy, Copy
<1>3. queue' \in [Queues -> [Copy -> Nat]]
  <2>1. \A c \in Copy : [queue EXCEPT ![QueueOf[n]][c] = @ + 1] \in [Queues -> [Copy -> Nat]]
    BY <1>1 DEF BroadcastTypeOK
  <2>2. \/ queue' = queue
        \/ work[n] = "retry" /\ queue' = [queue EXCEPT ![QueueOf[n]][NextCopy(hand[n])] = @ + 1]
    BY DEF PublishAgain
  <2> QED
    BY <1>2, <2>1, <2>2 DEF BroadcastTypeOK
<1>4. /\ dlq' \subseteq Messages
      /\ unread' \in [Nodes -> Nat]
  BY <1>1 DEF BroadcastTypeOK, PublishAgain, Copy
<1>6. faults' \in 0 .. MaxFaults
  BY FaultType DEF PublishAgain
<1>5. /\ work' \in [Nodes -> {"idle", "show", "retry", "bury", "ack"}]
      /\ \A k \in Nodes : work'[k] = "idle" <=> hand[k] = NoCopy
      /\ \A k \in Nodes : work'[k] = "retry" => work[k] = "retry"
  BY DEF BroadcastTypeOK, PublishAgain
<1> QED
  BY <1>3, <1>4, <1>5, <1>6 DEF BroadcastTypeOK, RetryInv, PublishAgain, requests, MayRetry

LEMMA AckType ==
  ASSUME BroadcastTypeOK, RetryInv, NEW n \in Nodes, Ack(n)
  PROVE  BroadcastTypeOK' /\ RetryInv'
<1>1. /\ work' \in [Nodes -> {"idle", "show", "retry", "bury", "ack"}]
      /\ hand' \in [Nodes -> Copy \cup {NoCopy}]
      /\ \A k \in Nodes : work'[k] = "idle" <=> hand'[k] = NoCopy
      /\ \A k \in Nodes : work'[k] = "retry" => work[k] = "retry" /\ hand'[k] = hand[k]
  BY DEF BroadcastTypeOK, Ack, Acked
<1> QED
  BY <1>1 DEF BroadcastTypeOK, RetryInv, Ack, Acked, requests, MayRetry

LEMMA LoseConnectionType ==
  ASSUME BroadcastTypeOK, RetryInv, NEW n \in Nodes, LoseConnection(n)
  PROVE  BroadcastTypeOK' /\ RetryInv'
<1>1. /\ up' \in [Nodes -> BOOLEAN]
      /\ unread' \in [Nodes -> Nat]
      /\ faults' \in 0 .. MaxFaults
  BY BoundsAssumption DEF BroadcastTypeOK, LoseConnection, Fault
<1> QED
  BY <1>1, RequeuedType DEF BroadcastTypeOK, RetryInv, LoseConnection, consuming, requests, MayRetry

(* The requests at a node that hold a record.                              *)
At(n, m) == {r \in Requests : stage[r] = "send" /\ request[r].at = n /\ request[r].of = m}

LEMMA DyingType ==
  ASSUME NEW n \in Nodes, NEW m \in Messages
  PROVE  Dying(n, m) \in Nat
<1>1. IsFiniteSet(At(n, m))
  BY FS_Subset, BoundsAssumption DEF At
<1>2. Cardinality(At(n, m)) \in Nat
  BY <1>1, FS_CardinalityType
<1> QED
  BY <1>2 DEF Dying, At

LEMMA RestartType ==
  ASSUME BroadcastTypeOK, RetryInv, NEW n \in Nodes, Restart(n)
  PROVE  BroadcastTypeOK' /\ RetryInv'
<1>1. /\ up' \in [Nodes -> BOOLEAN]
      /\ unread' \in [Nodes -> Nat]
      /\ faults' \in 0 .. MaxFaults
  BY BoundsAssumption DEF BroadcastTypeOK, Restart, Fault
<1>2. /\ work' \in [Nodes -> {"idle", "show", "retry", "bury", "ack"}]
      /\ hand' \in [Nodes -> Copy \cup {NoCopy}]
      /\ \A k \in Nodes : work'[k] = "idle" <=> hand'[k] = NoCopy
      /\ \A k \in Nodes : work'[k] = "retry" => work[k] = "retry" /\ hand'[k] = hand[k]
  BY DEF BroadcastTypeOK, Restart
<1>3. /\ stage' \in [Requests -> {"idle", "send", "publish", "confirm", "done"}]
      /\ \A q \in Requests : stage'[q] = "idle" <=> request[q] = NoCopy
  BY DEF BroadcastTypeOK, Restart
<1>4. wasted' \in [Stores -> [Messages -> Nat]]
  <2>1. StoreOf[n] \in Stores /\ wasted[StoreOf[n]] \in [Messages -> Nat]
    BY StoreOfAssumption DEF BroadcastTypeOK
  <2>2. [m \in Messages |-> wasted[StoreOf[n]][m] + Dying(n, m)] \in [Messages -> Nat]
    BY <2>1, DyingType
  <2> QED
    BY <2>1, <2>2 DEF BroadcastTypeOK, Restart
<1> QED
  BY <1>1, <1>2, <1>3, <1>4, RequeuedType DEF BroadcastTypeOK, RetryInv, Restart, requests, MayRetry

LEMMA ExpireType ==
  ASSUME BroadcastTypeOK, RetryInv, NEW s \in Stores, NEW m \in Messages, Expire(s, m)
  PROVE  BroadcastTypeOK' /\ RetryInv'
<1>1. /\ held' \in [Stores -> SUBSET Messages]
      /\ lost' \in [Stores -> [Messages -> Nat]]
      /\ faults' \in 0 .. MaxFaults
  BY BoundsAssumption DEF BroadcastTypeOK, Expire, Fault
<1> QED
  BY <1>1 DEF BroadcastTypeOK, RetryInv, Expire, consuming, requests, MayRetry

LEMMA InitType == BroadcastInit => BroadcastTypeOK /\ RetryInv
BY BoundsAssumption DEF BroadcastInit, BroadcastTypeOK, RetryInv

-----------------------------------------------------------------------------
(* The account of one record: ShownOncePerRecord, for one message.         *)
Balance(s, m) ==
  shown[s][m] + PendingFor(s, m) + wasted[s][m] = lost[s][m] + (IF m \in held[s] THEN 1 ELSE 0)

(* Few requests and few nodes hold a record of a message.                  *)
LEMMA PendingFinite ==
  ASSUME NEW s \in Stores, NEW m \in Messages
  PROVE  /\ IsFiniteSet(Sending(s, m)) /\ Cardinality(Sending(s, m)) \in Nat
         /\ IsFiniteSet(Showing(s, m)) /\ Cardinality(Showing(s, m)) \in Nat
<1>1. Sending(s, m) \in SUBSET Requests /\ Showing(s, m) \in SUBSET Nodes
  BY DEF Sending, Showing, NodesOf
<1>2. IsFiniteSet(Sending(s, m)) /\ IsFiniteSet(Showing(s, m))
  BY <1>1, FS_Subset, BoundsAssumption
<1> QED
  BY <1>2, FS_CardinalityType

(* A step that neither makes, shows, wastes nor loses a record.            *)
LEMMA BalanceKept ==
  ASSUME NEW s \in Stores, NEW m \in Messages, Balance(s, m),
         Sending(s, m)' = Sending(s, m), Showing(s, m)' = Showing(s, m),
         shown'[s][m] = shown[s][m], wasted'[s][m] = wasted[s][m], lost'[s][m] = lost[s][m],
         m \in held'[s] <=> m \in held[s]
  PROVE  Balance(s, m)'
BY DEF Balance, PendingFor

(* A request whose message id is new makes a record, which it will show,   *)
(* or wastes it at once.                                                   *)
LEMMA AskBalance ==
  ASSUME BroadcastTypeOK, ShownOncePerRecord,
         NEW r \in Requests, NEW n \in Nodes, NEW v \in Messages, NEW kind \in Kinds,
         Ask(r, n, v, kind)
  PROVE  ShownOncePerRecord'
<1> SUFFICES ASSUME NEW s \in Stores, NEW m \in Messages
             PROVE  Balance(s, m)'
  BY DEF ShownOncePerRecord, Balance
<1> DEFINE t == StoreOf[n]
<1>1. t \in Stores /\ n \in NodesOf(t)
  BY StoreOfAssumption DEF NodesOf
<1>2. Balance(s, m)
  BY DEF ShownOncePerRecord, Balance
<1>3. /\ shown'[s][m] = shown[s][m] /\ lost'[s][m] = lost[s][m]
      /\ Showing(s, m)' = Showing(s, m)
  BY DEF Ask, consuming, Showing, NodesOf
<1>4. request'[r] = [at |-> n, of |-> v, kind |-> kind]
  BY DEF Ask, BroadcastTypeOK
<1>5. \A q \in Requests : q # r => stage'[q] = stage[q] /\ request'[q] = request[q]
  BY DEF Ask, BroadcastTypeOK
<1>6. r \notin Sending(s, m)
  BY DEF Ask, Sending
<1>7. stage'[r] # "send" => Sending(s, m)' = Sending(s, m)
  BY <1>5, <1>6 DEF Sending, NodesOf
<1>8. CASE s # t \/ m # v
  <2>1. Sending(s, m)' = Sending(s, m)
    BY <1>4, <1>5, <1>6, <1>8 DEF Sending, NodesOf
  <2>2. wasted'[s][m] = wasted[s][m] /\ (m \in held'[s] <=> m \in held[s])
    BY <1>1, <1>8 DEF Ask, AcquireFails, Record, Waste, BroadcastTypeOK
  <2> QED
    BY <1>2, <1>3, <2>1, <2>2, BalanceKept
<1>9. CASE s = t /\ m = v
  <2>1. CASE stage'[r] = "send"
    <3>1. Sending(s, m)' = Sending(s, m) \cup {r}
      BY <1>1, <1>4, <1>5, <1>6, <1>9, <2>1 DEF Sending, NodesOf
    <3>2. m \notin held[s] /\ m \in held'[s] /\ wasted'[s][m] = wasted[s][m]
      BY <1>1, <1>9, <2>1 DEF Ask, Record, BroadcastTypeOK, IsDuplicate
    <3>3. Cardinality(Sending(s, m)') = Cardinality(Sending(s, m)) + 1
      BY <1>6, <3>1, PendingFinite, FS_AddElement
    <3>4. PendingFor(s, m)' = PendingFor(s, m) + 1
      BY <1>3, <3>3, PendingFinite DEF PendingFor
    <3> QED
      BY <1>2, <1>3, <3>2, <3>4, PendingFinite DEF Balance, PendingFor, BroadcastTypeOK
  <2>2. CASE stage'[r] # "send"
    <3>1. PendingFor(s, m)' = PendingFor(s, m)
      BY <1>3, <1>7, <2>2 DEF PendingFor
    <3>2. \/ wasted'[s][m] = wasted[s][m] /\ (m \in held'[s] <=> m \in held[s])
          \/ wasted'[s][m] = wasted[s][m] + 1 /\ m \in held'[s] /\ m \notin held[s]
      <4>1. \/ held' = held /\ wasted' = wasted
            \/ v \notin held[t] /\ Record(t, v) /\ Waste(t, v)
        BY <2>2 DEF Ask, AcquireFails, IsDuplicate, BroadcastTypeOK
      <4> QED
        BY <1>1, <1>9, <4>1 DEF Record, Waste, BroadcastTypeOK
    <3> QED
      BY <1>2, <1>3, <3>1, <3>2, PendingFinite DEF Balance, PendingFor, BroadcastTypeOK
  <2> QED
    BY <2>1, <2>2
<1> QED
  BY <1>8, <1>9

(* To show a message takes it from the pending ones.                       *)
LEMMA SendBalance ==
  ASSUME BroadcastTypeOK, ShownOncePerRecord, NEW r \in Requests, Send(r)
  PROVE  ShownOncePerRecord'
<1> SUFFICES ASSUME NEW s \in Stores, NEW m \in Messages
             PROVE  Balance(s, m)'
  BY DEF ShownOncePerRecord, Balance
<1> DEFINE n == request[r].at
           v == request[r].of
           t == StoreOf[n]
<1>1. n \in Nodes /\ v \in Messages /\ t \in Stores /\ n \in NodesOf(t)
  BY StoreOfAssumption DEF Send, BroadcastTypeOK, Request, NodesOf
<1>2. Balance(s, m)
  BY DEF ShownOncePerRecord, Balance
<1>3. /\ wasted'[s][m] = wasted[s][m] /\ lost'[s][m] = lost[s][m] /\ held' = held
      /\ Showing(s, m)' = Showing(s, m)
  BY DEF Send, consuming, Showing, NodesOf
<1>4. stage[r] = "send" /\ stage'[r] # "send" /\ request' = request
  BY DEF Send, BroadcastTypeOK
<1>5. \A q \in Requests : q # r => stage'[q] = stage[q]
  BY DEF Send, BroadcastTypeOK
<1>6. Sending(s, m)' = Sending(s, m) \ {r}
  BY <1>4, <1>5 DEF Sending, NodesOf
<1>7. CASE s # t \/ m # v
  <2>1. Sending(s, m)' = Sending(s, m)
    BY <1>6, <1>7 DEF Sending, NodesOf
  <2>2. shown'[s][m] = shown[s][m]
    BY <1>1, <1>7, ShowAtCounts DEF Send
  <2> QED
    BY <1>2, <1>3, <2>1, <2>2, BalanceKept
<1>8. CASE s = t /\ m = v
  <2>1. r \in Sending(s, m)
    BY <1>1, <1>4, <1>8 DEF Sending
  <2>2. Cardinality(Sending(s, m)') = Cardinality(Sending(s, m)) - 1
    <3>1. IsFiniteSet(Sending(s, m))
      BY <1>1, PendingFinite
    <3>2. Cardinality(Sending(s, m) \ {r}) = Cardinality(Sending(s, m)) - 1
      BY <2>1, <3>1, FS_RemoveElement, Zenon
    <3> QED
      BY <1>6, <3>2, Zenon
  <2>3. shown'[s][m] = shown[s][m] + 1
    BY <1>1, <1>8, ShowAtCounts DEF Send
  <2> QED
    BY <1>2, <1>3, <2>2, <2>3, PendingFinite DEF Balance, PendingFor, BroadcastTypeOK
<1> QED
  BY <1>7, <1>8

(* A step of a request that shows nothing.                                 *)
LEMMA PublishBalance ==
  ASSUME BroadcastTypeOK, ShownOncePerRecord, NEW r \in Requests, Publish(r) \/ EndPublish(r)
  PROVE  ShownOncePerRecord'
<1> SUFFICES ASSUME NEW s \in Stores, NEW m \in Messages
             PROVE  Balance(s, m)'
  BY DEF ShownOncePerRecord, Balance
<1>1. Balance(s, m)
  BY DEF ShownOncePerRecord, Balance
<1>2. /\ shown'[s][m] = shown[s][m] /\ wasted'[s][m] = wasted[s][m]
      /\ lost'[s][m] = lost[s][m] /\ held' = held
      /\ Showing(s, m)' = Showing(s, m)
  BY DEF Publish, EndPublish, consuming, Showing, NodesOf
<1>3. \A q \in Requests : /\ request'[q] = request[q]
                          /\ stage'[q] = "send" <=> stage[q] = "send"
  BY DEF Publish, EndPublish, BroadcastTypeOK
<1>4. Sending(s, m)' = Sending(s, m)
  BY <1>3 DEF Sending, NodesOf
<1> QED
  BY <1>1, <1>2, <1>4, BalanceKept

(* A delivery makes a record unless it is a duplicate; a failed answer may   *)
(* one.                                                                    *)
LEMMA ReceiveBalance ==
  ASSUME BroadcastTypeOK, ShownOncePerRecord, NEW n \in Nodes, NEW c \in Copy, Receive(n, c)
  PROVE  ShownOncePerRecord'
<1> SUFFICES ASSUME NEW s \in Stores, NEW m \in Messages
             PROVE  Balance(s, m)'
  BY DEF ShownOncePerRecord, Balance
<1> DEFINE t == StoreOf[n]
<1>1. t \in Stores /\ n \in NodesOf(t) /\ c.of \in Messages
  BY StoreOfAssumption DEF NodesOf, Copy
<1>2. Balance(s, m)
  BY DEF ShownOncePerRecord, Balance
<1>3. /\ shown'[s][m] = shown[s][m] /\ lost'[s][m] = lost[s][m]
      /\ Sending(s, m)' = Sending(s, m)
  BY DEF Receive, requests, Sending, NodesOf
<1>4. \A k \in Nodes : k # n => work'[k] = work[k] /\ hand'[k] = hand[k]
  BY DEF Receive, BroadcastTypeOK
<1>5. hand'[n] = c /\ n \notin Showing(s, m)
  BY DEF Receive, BroadcastTypeOK, Showing
<1>6. CASE s # t \/ m # c.of
  <2>1. Showing(s, m)' = Showing(s, m)
    BY <1>4, <1>5, <1>6 DEF Showing, NodesOf
  <2>2. wasted'[s][m] = wasted[s][m] /\ (m \in held'[s] <=> m \in held[s])
    BY <1>1, <1>6 DEF Receive, AcquireFails, Record, Waste, BroadcastTypeOK
  <2> QED
    BY <1>2, <1>3, <2>1, <2>2, BalanceKept
<1>7. CASE s = t /\ m = c.of
  <2>1. CASE work'[n] = "show"
    <3>1. Showing(s, m)' = Showing(s, m) \cup {n}
      BY <1>1, <1>4, <1>5, <1>7, <2>1 DEF Showing, NodesOf
    <3>2. m \notin held[s] /\ m \in held'[s] /\ wasted'[s][m] = wasted[s][m]
      BY <1>1, <1>7, <2>1 DEF Receive, Record, BroadcastTypeOK, IsDuplicate
    <3>3. Cardinality(Showing(s, m)') = Cardinality(Showing(s, m)) + 1
      BY <1>5, <3>1, PendingFinite, FS_AddElement
    <3> QED
      BY <1>2, <1>3, <3>2, <3>3, PendingFinite DEF Balance, PendingFor, BroadcastTypeOK
  <2>2. CASE work'[n] # "show"
    <3>1. Showing(s, m)' = Showing(s, m)
      BY <1>4, <1>5, <2>2 DEF Showing, NodesOf
    <3>2. \/ wasted'[s][m] = wasted[s][m] /\ (m \in held'[s] <=> m \in held[s])
          \/ wasted'[s][m] = wasted[s][m] + 1 /\ m \in held'[s] /\ m \notin held[s]
      <4>1. \/ held' = held /\ wasted' = wasted
            \/ c.of \notin held[t] /\ Record(t, c.of) /\ Waste(t, c.of)
        BY <2>2 DEF Receive, AcquireFails, IsDuplicate, BroadcastTypeOK
      <4> QED
        BY <1>1, <1>7, <4>1 DEF Record, Waste, BroadcastTypeOK
    <3> QED
      BY <1>2, <1>3, <3>1, <3>2, PendingFinite DEF Balance, PendingFor, BroadcastTypeOK
  <2> QED
    BY <2>1, <2>2
<1> QED
  BY <1>6, <1>7

LEMMA ShowBalance ==
  ASSUME BroadcastTypeOK, ShownOncePerRecord, NEW n \in Nodes, Show(n)
  PROVE  ShownOncePerRecord'
<1> SUFFICES ASSUME NEW s \in Stores, NEW m \in Messages
             PROVE  Balance(s, m)'
  BY DEF ShownOncePerRecord, Balance
<1> DEFINE v == hand[n].of
           t == StoreOf[n]
<1>1. v \in Messages /\ t \in Stores /\ n \in NodesOf(t)
  BY StoreOfAssumption DEF Show, BroadcastTypeOK, Copy, NodesOf
<1>2. Balance(s, m)
  BY DEF ShownOncePerRecord, Balance
<1>3. /\ wasted'[s][m] = wasted[s][m] /\ lost'[s][m] = lost[s][m] /\ held' = held
      /\ Sending(s, m)' = Sending(s, m)
  BY DEF Show, requests, Sending, NodesOf
<1>4. work[n] = "show" /\ work'[n] # "show" /\ hand' = hand
  BY DEF Show, BroadcastTypeOK
<1>5. \A k \in Nodes : k # n => work'[k] = work[k]
  BY DEF Show, BroadcastTypeOK
<1>6. Showing(s, m)' = Showing(s, m) \ {n}
  BY <1>4, <1>5 DEF Showing, NodesOf
<1>7. CASE s # t \/ m # v
  <2>1. Showing(s, m)' = Showing(s, m)
    BY <1>6, <1>7 DEF Showing, NodesOf
  <2>2. shown'[s][m] = shown[s][m]
    BY <1>1, <1>7, ShowAtCounts DEF Show
  <2> QED
    BY <1>2, <1>3, <2>1, <2>2, BalanceKept
<1>8. CASE s = t /\ m = v
  <2>1. n \in Showing(s, m)
    BY <1>1, <1>4, <1>8 DEF Showing
  <2>2. Cardinality(Showing(s, m)') = Cardinality(Showing(s, m)) - 1
    <3>1. IsFiniteSet(Showing(s, m))
      BY <1>1, PendingFinite
    <3>2. Cardinality(Showing(s, m) \ {n}) = Cardinality(Showing(s, m)) - 1
      BY <2>1, <3>1, FS_RemoveElement, Zenon
    <3> QED
      BY <1>6, <3>2, Zenon
  <2>3. shown'[s][m] = shown[s][m] + 1
    BY <1>1, <1>8, ShowAtCounts DEF Show
  <2> QED
    BY <1>2, <1>3, <2>2, <2>3, PendingFinite DEF Balance, PendingFor, BroadcastTypeOK
<1> QED
  BY <1>7, <1>8

(* A step of the consumer, or of its connection, that shows nothing.       *)
LEMMA QuietBalance ==
  ASSUME BroadcastTypeOK, ShownOncePerRecord, NEW n \in Nodes,
         PublishAgain(n) \/ Ack(n) \/ LoseConnection(n)
  PROVE  ShownOncePerRecord'
<1> SUFFICES ASSUME NEW s \in Stores, NEW m \in Messages
             PROVE  Balance(s, m)'
  BY DEF ShownOncePerRecord, Balance
<1>1. Balance(s, m)
  BY DEF ShownOncePerRecord, Balance
<1>2. /\ shown'[s][m] = shown[s][m] /\ wasted'[s][m] = wasted[s][m]
      /\ lost'[s][m] = lost[s][m] /\ held' = held
      /\ Sending(s, m)' = Sending(s, m)
  BY DEF PublishAgain, Ack, LoseConnection, requests, Sending, NodesOf
<1>3. \A k \in Nodes : /\ work'[k] = "show" <=> work[k] = "show"
                       /\ work[k] = "show" => hand'[k] = hand[k]
  BY DEF PublishAgain, Ack, Acked, LoseConnection, consuming, BroadcastTypeOK
<1>4. Showing(s, m)' = Showing(s, m)
  BY <1>3 DEF Showing, NodesOf
<1> QED
  BY <1>1, <1>2, <1>4, BalanceKept

(* What dies with a node is counted as wasted.                             *)
LEMMA RestartBalance ==
  ASSUME BroadcastTypeOK, ShownOncePerRecord, NEW n \in Nodes, Restart(n)
  PROVE  ShownOncePerRecord'
<1> SUFFICES ASSUME NEW s \in Stores, NEW m \in Messages
             PROVE  Balance(s, m)'
  BY DEF ShownOncePerRecord, Balance
<1> DEFINE t == StoreOf[n]
<1>1. t \in Stores /\ n \in NodesOf(t)
  BY StoreOfAssumption DEF NodesOf
<1>2. Balance(s, m)
  BY DEF ShownOncePerRecord, Balance
<1>3. shown'[s][m] = shown[s][m] /\ lost'[s][m] = lost[s][m] /\ held' = held
  BY DEF Restart
<1>4. \A q \in Requests : /\ request'[q] = request[q]
                          /\ stage'[q] = "send" <=> stage[q] = "send" /\ request[q].at # n
  BY DEF Restart, BroadcastTypeOK
<1>5. Sending(s, m)' = Sending(s, m) \ At(n, m)
  BY <1>4 DEF Sending, At, NodesOf
<1>6. Showing(s, m)' = Showing(s, m) \ {n}
  BY DEF Restart, BroadcastTypeOK, Showing, NodesOf
<1>7. CASE s # t
  <2>1. Sending(s, m)' = Sending(s, m) /\ Showing(s, m)' = Showing(s, m)
    BY <1>5, <1>6, <1>7 DEF Sending, Showing, At, NodesOf
  <2>2. wasted'[s][m] = wasted[s][m]
    BY <1>1, <1>7 DEF Restart, BroadcastTypeOK
  <2> QED
    BY <1>2, <1>3, <2>1, <2>2, BalanceKept
<1>8. CASE s = t
  <2>1. At(n, m) \subseteq Sending(s, m)
    BY <1>1, <1>8 DEF Sending, At
  <2>2. Cardinality(Sending(s, m)') = Cardinality(Sending(s, m)) - Cardinality(At(n, m))
    <3>1. Sending(s, m) \cap At(n, m) = At(n, m)
      BY <2>1
    <3> QED
      BY <1>5, <3>1, PendingFinite, FS_Difference
  <2>3. n \in Showing(s, m) <=> work[n] = "show" /\ hand[n].of = m
    BY <1>1, <1>8 DEF Showing
  <2>4. Cardinality(Showing(s, m)') =
          Cardinality(Showing(s, m)) - (IF work[n] = "show" /\ hand[n].of = m THEN 1 ELSE 0)
    <3>1. Cardinality(Showing(s, m) \ {n}) =
            IF n \in Showing(s, m) THEN Cardinality(Showing(s, m)) - 1 ELSE Cardinality(Showing(s, m))
      BY PendingFinite, FS_RemoveElement
    <3>2. CASE n \in Showing(s, m)
      BY <1>6, <2>3, <3>1, <3>2
    <3>3. CASE n \notin Showing(s, m)
      BY <1>6, <2>3, <3>1, <3>3, PendingFinite
    <3> QED
      BY <3>2, <3>3
  <2>5. wasted'[s][m] = wasted[s][m] + Dying(n, m)
    BY <1>1, <1>8 DEF Restart, BroadcastTypeOK
  <2>6. Cardinality(At(n, m)) \in Nat
    BY FS_Subset, FS_CardinalityType, BoundsAssumption DEF At
  <2>7. PendingFor(s, m)' = PendingFor(s, m) - Dying(n, m)
    BY <2>2, <2>4, <2>6, PendingFinite DEF PendingFor, Dying, At
  <2>8. PendingFor(s, m) \in Nat /\ Dying(n, m) \in Nat
    BY PendingFinite, DyingType DEF PendingFor
  <2> QED
    BY <1>2, <1>3, <2>5, <2>7, <2>8 DEF Balance, BroadcastTypeOK
<1> QED
  BY <1>7, <1>8

(* A record that expires is lost, and the next one is another.             *)
LEMMA ExpireBalance ==
  ASSUME BroadcastTypeOK, ShownOncePerRecord, NEW t \in Stores, NEW v \in Messages, Expire(t, v)
  PROVE  ShownOncePerRecord'
<1> SUFFICES ASSUME NEW s \in Stores, NEW m \in Messages
             PROVE  Balance(s, m)'
  BY DEF ShownOncePerRecord, Balance
<1>1. Balance(s, m)
  BY DEF ShownOncePerRecord, Balance
<1>2. /\ shown'[s][m] = shown[s][m] /\ wasted'[s][m] = wasted[s][m]
      /\ Sending(s, m)' = Sending(s, m) /\ Showing(s, m)' = Showing(s, m)
  BY DEF Expire, requests, consuming, Sending, Showing, NodesOf
<1>3. CASE s # t \/ m # v
  <2>1. lost'[s][m] = lost[s][m] /\ (m \in held'[s] <=> m \in held[s])
    BY <1>3 DEF Expire, BroadcastTypeOK
  <2> QED
    BY <1>1, <1>2, <2>1, BalanceKept
<1>4. CASE s = t /\ m = v
  <2>1. lost'[s][m] = lost[s][m] + 1 /\ m \in held[s] /\ m \notin held'[s]
    BY <1>4 DEF Expire, BroadcastTypeOK
  <2>2. PendingFor(s, m)' = PendingFor(s, m)
    BY <1>2 DEF PendingFor
  <2> QED
    BY <1>1, <1>2, <2>1, <2>2, PendingFinite DEF Balance, PendingFor, BroadcastTypeOK
<1> QED
  BY <1>3, <1>4

LEMMA InitBroadcastInv == BroadcastInit => BroadcastInv
<1> SUFFICES ASSUME BroadcastInit
             PROVE  BroadcastInv
  OBVIOUS
<1>1. ASSUME NEW s \in Stores, NEW m \in Messages
      PROVE  Balance(s, m)
  <2>1. Sending(s, m) = {} /\ Showing(s, m) = {}
    BY DEF BroadcastInit, Sending, Showing, NodesOf
  <2> QED
    BY <2>1, FS_EmptySet DEF BroadcastInit, Balance, PendingFor
<1> QED
  BY <1>1, InitType DEF BroadcastInv, ShownOncePerRecord, Balance

LEMMA StepBroadcastInv ==
  ASSUME BroadcastInv, [BroadcastNext]_broadcastVars
  PROVE  BroadcastInv'
<1> USE DEF BroadcastInv
<1>1. ASSUME NEW r \in Requests, NEW n \in Nodes, NEW m \in Messages, NEW kind \in Kinds,
             Ask(r, n, m, kind)
      PROVE  BroadcastInv'
  BY <1>1, AskType, AskBalance
<1>2. ASSUME NEW r \in Requests, RequestStep(r)
      PROVE  BroadcastInv'
  BY <1>2, SendType, SendBalance, PublishType, EndPublishType, PublishBalance DEF RequestStep
<1>3. ASSUME NEW n \in Nodes, NEW c \in Copy, Receive(n, c)
      PROVE  BroadcastInv'
  BY <1>3, ReceiveType, ReceiveBalance
<1>4. ASSUME NEW n \in Nodes, ConsumerStep(n)
      PROVE  BroadcastInv'
  BY <1>4, ShowType, ShowBalance, PublishAgainType, AckType, QuietBalance DEF ConsumerStep
<1>5. ASSUME NEW n \in Nodes, LoseConnection(n)
      PROVE  BroadcastInv'
  BY <1>5, LoseConnectionType, QuietBalance
<1>6. ASSUME NEW n \in Nodes, Restart(n)
      PROVE  BroadcastInv'
  BY <1>6, RestartType, RestartBalance
<1>7. ASSUME NEW s \in Stores, NEW m \in Messages, Expire(s, m)
      PROVE  BroadcastInv'
  BY <1>7, ExpireType, ExpireBalance
<1>8. ASSUME UNCHANGED broadcastVars
      PROVE  BroadcastInv'
  <2>1. BroadcastTypeOK' /\ RetryInv'
    BY <1>8 DEF BroadcastTypeOK, RetryInv, MayRetry, broadcastVars, requests, consuming
  <2>2. ASSUME NEW s \in Stores, NEW m \in Messages
        PROVE  Balance(s, m)'
    <3>1. Balance(s, m)
      BY DEF ShownOncePerRecord, Balance
    <3>2. /\ Sending(s, m)' = Sending(s, m)
          /\ Showing(s, m)' = Showing(s, m)
      BY <1>8 DEF broadcastVars, requests, consuming, Sending, Showing, NodesOf
    <3> QED
      BY <1>8, <3>1, <3>2, BalanceKept DEF broadcastVars
  <2> QED
    BY <2>1, <2>2 DEF ShownOncePerRecord, Balance
<1> QED
  BY <1>1, <1>2, <1>3, <1>4, <1>5, <1>6, <1>7, <1>8 DEF BroadcastNext

(* The account of every store and message is balanced, in every state.     *)
THEOREM BroadcastInvariant == BroadcastSpec => []BroadcastInv
<1>1. BroadcastInit => BroadcastInv
  BY InitBroadcastInv
<1>2. BroadcastInv /\ [BroadcastNext]_broadcastVars => BroadcastInv'
  BY StepBroadcastInv
<1> QED
  BY <1>1, <1>2, PTL DEF BroadcastSpec

(* The state of the nodes, of the broker and of the stores keeps its       *)
(* types.                                                                  *)
THEOREM BroadcastTypes == BroadcastSpec => []BroadcastTypeOK
BY BroadcastInvariant, PTL DEF BroadcastInv

(* Every record of a message id is shown once, will be shown once, or was  *)
(* wasted by the death or the failure of its owner: for any number of      *)
(* nodes, requests and faults.                                             *)
THEOREM BroadcastOnce == BroadcastSpec => []ShownOncePerRecord
BY BroadcastInvariant, PTL DEF BroadcastInv

(* A message whose record does not expire is shown by at most one node of  *)
(* those that share the store, and once.                                   *)
ShownAtMostOnce ==
  \A s \in Stores, m \in Messages : lost[s][m] = 0 => shown[s][m] <= 1

(* Therefore the fan-out copy of a message that its sender showed is shown *)
(* by no other node of the store while the record lives.                   *)
THEOREM BroadcastAtMostOnce == BroadcastSpec => []ShownAtMostOnce
<1>1. BroadcastInv => ShownAtMostOnce
  <2> SUFFICES ASSUME BroadcastInv, NEW s \in Stores, NEW m \in Messages, lost[s][m] = 0
               PROVE  shown[s][m] <= 1
    BY DEF ShownAtMostOnce
  <2>1. shown[s][m] + PendingFor(s, m) + wasted[s][m] = IF m \in held[s] THEN 1 ELSE 0
    BY DEF BroadcastInv, BroadcastTypeOK, ShownOncePerRecord
  <2>2. shown[s][m] \in Nat /\ wasted[s][m] \in Nat /\ PendingFor(s, m) \in Nat
    BY PendingFinite DEF BroadcastInv, BroadcastTypeOK, PendingFor
  <2> QED
    BY <2>1, <2>2
<1> QED
  BY <1>1, BroadcastInvariant, PTL
=============================================================================
