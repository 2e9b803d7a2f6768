---------------------------- MODULE PushSessions ----------------------------
(***************************************************************************)
(* The websocket sessions of one node: Connect and Disconnect              *)
(* (websocket_push/app/session_service.go) over the in-memory registry,    *)
(* and the gateway (infra/ws/gateway.go) with the two goroutines of each   *)
(* client.                                                                 *)
(*                                                                         *)
(* A session id stands for one Connect, as ids are never reused.  A thread *)
(* is the request that connects it, the read or the write pump of its      *)
(* client, or a POST /ws/disconnect.  Threads that close a client meet in  *)
(* its sync.Once, whose function is the callback that calls Disconnect; a  *)
(* thread in that callback runs the same code one level deeper.            *)
(* Heartbeats write LastSeenAt, which nothing reads, and are left out.     *)
(***************************************************************************)
EXTENDS Naturals

CONSTANTS
  Sessions,
  Owners,      \* pairs of a user and a client type
  OwnerOf,     \* whose session it is
  Callers,     \* POST /ws/disconnect requests
  NoSession

ASSUME OwnerOfAssumption == OwnerOf \in [Sessions -> Owners]
ASSUME NoSessionAssumption == NoSession \notin Sessions

Connector(s) == <<"connect", s>>
Reader(s) == <<"read", s>>
Writer(s) == <<"write", s>>
Caller(c) == <<"call", c>>

Connectors == {Connector(s) : s \in Sessions}
Pumps == {Reader(s) : s \in Sessions} \cup {Writer(s) : s \in Sessions}
Threads == Connectors \cup Pumps \cup {Caller(c) : c \in Callers}

VARIABLES
  sessions,    \* MemoryRegistry.sessions
  clients,     \* Gateway.clients
  once,        \* the sync.Once of each client
  place,       \* where each thread stands
  target,      \* the session it disconnects
  inCallback,  \* it runs the onDisconnect of target inside once
  found,       \* older sessions a Connect still has to disconnect
  raced,       \* pairs of sessions whose Connects overlapped
  orphans      \* sessions disconnected before their client was attached

vars == <<sessions, clients, once, place, target, inCallback, found, raced, orphans>>
history == <<raced, orphans>>

Disconnecting == {"get", "close", "once", "remove"}
Places == {"idle", "find", "supersede", "open", "pump", "done"} \cup Disconnecting

TypeOK ==
  /\ sessions \subseteq Sessions
  /\ clients \subseteq Sessions
  /\ once \in [Sessions -> {"unused", "running", "finished"}]
  /\ place \in [Threads -> Places]
  /\ \A th \in Threads \ Connectors : place[th] \notin {"find", "supersede", "open"}
  /\ \A th \in Threads \ Pumps : place[th] # "pump"
  /\ target \in [Threads -> Sessions \cup {NoSession}]
  /\ inCallback \in [Threads -> BOOLEAN]
  /\ found \in [Sessions -> SUBSET Sessions]
  /\ raced \subseteq SUBSET Sessions
  /\ orphans \subseteq Sessions

Init ==
  /\ sessions = {}
  /\ clients = {}
  /\ once = [s \in Sessions |-> "unused"]
  /\ place = [th \in Threads |-> "idle"]
  /\ target = [th \in Threads |-> NoSession]
  /\ inCallback = [th \in Threads |-> FALSE]
  /\ found = [s \in Sessions |-> {}]
  /\ raced = {}
  /\ orphans = {}

-----------------------------------------------------------------------------
Goto(th, where) == place' = [place EXCEPT ![th] = where]
Aim(th, s) == target' = [target EXCEPT ![th] = s]

(* Connects that have not added their session yet.                         *)
Connecting ==
  {s \in Sessions : place[Connector(s)] \in {"find", "supersede"} \cup Disconnecting /\ target[Connector(s)] # s}

BeginConnect(s) ==
  /\ place[Connector(s)] = "idle"
  /\ Goto(Connector(s), "find")
  /\ raced' = raced \cup {{s, t} : t \in Connecting}
  /\ UNCHANGED <<sessions, clients, once, target, inCallback, found, orphans>>

OtherTypes(s) == {t \in sessions : OwnerOf[t] # OwnerOf[s]}   \* mutant: the type test inverted
SameUser(s) == {t \in sessions : OwnerOf[t] = OwnerOf[s]}

FindByUser(s) ==
  /\ place[Connector(s)] = "find"
  /\ found' = [found EXCEPT ![s] = SameUser(s)]
  /\ Goto(Connector(s), "supersede")
  /\ UNCHANGED <<sessions, clients, once, target, inCallback, history>>

Supersede(s, old) ==
  /\ place[Connector(s)] = "supersede"
  /\ old \in found[s]
  /\ found' = [found EXCEPT ![s] = @ \ {old}]
  /\ Goto(Connector(s), "get")
  /\ Aim(Connector(s), old)
  /\ UNCHANGED <<sessions, clients, once, inCallback, history>>

Add(s) ==
  /\ place[Connector(s)] = "supersede"
  /\ found[s] = {}
  /\ sessions' = sessions \cup {s}
  /\ Goto(Connector(s), "open")
  /\ UNCHANGED <<clients, once, target, inCallback, found, history>>

(* Somebody has looked for the client of s and will not look again.        *)
GivenUp(s) == s \notin sessions \/ \E th \in Threads : target[th] = s /\ place[th] = "remove"

Attach(s) ==
  /\ place[Connector(s)] = "open"
  /\ clients' = clients \cup {s}
  /\ place' = [place EXCEPT ![Connector(s)] = "done", ![Reader(s)] = "pump", ![Writer(s)] = "pump"]
  /\ target' = [target EXCEPT ![Reader(s)] = s, ![Writer(s)] = s]
  /\ orphans' = IF GivenUp(s) THEN orphans \cup {s} ELSE orphans
  /\ UNCHANGED <<sessions, once, inCallback, found, raced>>

(* The upgrade fails; or the session was opened by POST /ws/connect, which *)
(* attaches no client.                                                     *)
NoClient(s) ==
  /\ place[Connector(s)] = "open"
  /\ \/ Goto(Connector(s), "get") /\ Aim(Connector(s), s)
     \/ Goto(Connector(s), "done") /\ UNCHANGED target
  /\ UNCHANGED <<sessions, clients, once, inCallback, found, history>>

CallDisconnect(c, s) ==
  /\ place[Caller(c)] = "idle"
  /\ place[Connector(s)] = "done"
  /\ Goto(Caller(c), "get")
  /\ Aim(Caller(c), s)
  /\ UNCHANGED <<sessions, clients, once, inCallback, found, history>>

(* The peer went away or missed its heartbeat, or the client was closed:   *)
(* the deferred close() of the pump.                                       *)
PumpEnds(th) ==
  /\ place[th] = "pump"
  /\ Goto(th, "once")
  /\ UNCHANGED <<sessions, clients, once, target, inCallback, found, history>>

-----------------------------------------------------------------------------
(* Disconnect returns: to the callback it was called from, which ends the  *)
(* Once and with it close(), or to its caller.                             *)
AfterClose(th) == IF th \in Pumps THEN "done" ELSE "remove"
Resume(th) == IF th \in Connectors /\ th # Connector(target[th]) THEN "supersede" ELSE "done"

Return(th) ==
  IF inCallback[th]
    THEN /\ once' = [once EXCEPT ![target[th]] = "finished"]
         /\ inCallback' = [inCallback EXCEPT ![th] = FALSE]
         /\ Goto(th, AfterClose(th))
    ELSE /\ Goto(th, Resume(th))
         /\ UNCHANGED <<once, inCallback>>

GetByID(th) ==
  /\ place[th] = "get"
  /\ \/ target[th] \in sessions /\ Goto(th, "close") /\ UNCHANGED <<once, inCallback>>
     \/ target[th] \notin sessions /\ Return(th)
  /\ UNCHANGED <<sessions, clients, target, found, history>>

(* Gateway.Close: whoever takes the client out of the map closes it.       *)
Untouched(s) == clients                    \* mutant: leaves the client in the map
Taken(s) == clients \ {s}

CloseForgotten(th) ==                      \* mutant: Disconnect without Gateway.Close
  /\ place[th] = "close"
  /\ Goto(th, "remove")
  /\ UNCHANGED <<sessions, clients, once, target, inCallback, found, history>>

Close(th) ==
  /\ place[th] = "close"
  /\ Goto(th, IF target[th] \in clients THEN "once" ELSE "remove")
  /\ clients' = Taken(target[th])
  /\ UNCHANGED <<sessions, once, target, inCallback, found, history>>

(* client.close(): the first one in runs the callback, the others wait for *)
(* it to finish.  That holds for the thread in the callback too, when it   *)
(* is the one that took the client out of the map: it waits for itself.    *)
EnterOnce(th) ==
  /\ place[th] = "once"
  /\ \/ /\ once[target[th]] = "unused"
        /\ once' = [once EXCEPT ![target[th]] = "running"]
        /\ inCallback' = [inCallback EXCEPT ![th] = TRUE]
        /\ Goto(th, "get")
     \/ /\ once[target[th]] = "finished"
        /\ Goto(th, AfterClose(th))
        /\ UNCHANGED <<once, inCallback>>
  /\ UNCHANGED <<sessions, clients, target, found, history>>

Kept(s) == sessions                        \* mutant: the entry stays
Removed(s) == sessions \ {s}

Remove(th) ==
  /\ place[th] = "remove"
  /\ sessions' = Removed(target[th])
  /\ Return(th)
  /\ UNCHANGED <<clients, target, found, history>>

Disconnect(th) == GetByID(th) \/ Close(th) \/ EnterOnce(th) \/ Remove(th)

-----------------------------------------------------------------------------
Connect(s) == FindByUser(s) \/ (\E old \in Sessions : Supersede(s, old)) \/ Add(s) \/ Attach(s) \/ NoClient(s)

Next ==
  \/ \E s \in Sessions : BeginConnect(s) \/ Connect(s)
  \/ \E c \in Callers, s \in Sessions : CallDisconnect(c, s)
  \/ \E th \in Pumps : PumpEnds(th)
  \/ \E th \in Threads : Disconnect(th)

Spec == Init /\ [][Next]_vars

(* Goroutines are scheduled.  A pump ends when its client is closed, as    *)
(* its connection and its done channel are.                                *)
Fairness ==
  /\ \A s \in Sessions : WF_vars(Connect(s))
  /\ \A th \in Threads : WF_vars(Disconnect(th))
  /\ \A s \in Sessions : \A th \in {Reader(s), Writer(s)} : WF_vars(once[s] # "unused" /\ PumpEnds(th))

FairSpec == Spec /\ Fairness

-----------------------------------------------------------------------------
(* A user has one session per client type, unless two of his Connects      *)
(* overlapped: each looks for the others before any of them is added.      *)
OneSessionUnlessRaced ==
  \A s, t \in sessions : s # t /\ OwnerOf[s] = OwnerOf[t] => {s, t} \in raced

(* Pushes find a client through its session: a client has one, unless the  *)
(* session was disconnected between Connect and Attach.                    *)
ClientsAreReachable == clients \ orphans \subseteq sessions

(* A thread that closes a client and takes it out of the map inside the    *)
(* callback of the same close() waits for itself.                          *)
Hung(s) == \E th \in Threads : target[th] = s /\ inCallback[th] /\ place[th] = "once"

(* Only pumps hang, both of the client or none; requests never wait there, *)
(* and nothing is sent to that client any more.                            *)
OnlyPumpsHang ==
  \A s \in Sessions : Hung(s) =>
    /\ s \notin clients
    /\ \A th \in Threads : target[th] = s /\ place[th] = "once" => th \in Pumps

(* When Disconnect has returned the session is gone for good, whoever else *)
(* disconnects it meanwhile.                                               *)
DisconnectIsFinal ==
  \A th \in Threads : place[th] \in {"supersede", "done"} => target[th] \notin sessions

(* Every Connect and every Disconnect request returns, although the pumps  *)
(* it meets may hang.                                                      *)
RequestsReturn ==
  \A th \in Threads \ Pumps : place[th] # "idle" ~> place[th] = "done"
=============================================================================
