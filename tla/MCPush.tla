------------------------------- MODULE MCPush -------------------------------
(* Constants of the TLC run over both sides of websocket_push.  Of the     *)
(* sessions, one user opens every one with the same client type.  Of the   *)
(* messages, the wiring of cmd/api/main.go with a Redis, which all nodes   *)
(* share and which survives them, and with a queue for each node.          *)
(*                                                                         *)
(* The two sides share no variable, and no property speaks of both: the    *)
(* run takes one or the other, instead of every pair of their states.      *)
EXTENDS PushSessions, PushBroadcast

CONSTANTS User, redis, n1, n2

OneUser == [s \in Sessions |-> User]
OneRedis == [n \in Nodes |-> redis]
OwnQueue == [n \in Nodes |-> n]

VARIABLE side

PushInit == Init /\ BroadcastInit /\ side \in {"sessions", "messages"}

PushNext ==
  \/ side = "sessions" /\ Next /\ UNCHANGED <<broadcastVars, side>>
  \/ side = "messages" /\ BroadcastNext /\ UNCHANGED <<vars, side>>

(* What is to happen by fairness needs a step that nothing obliges anyone  *)
(* to take: on the side that stands still it is never enabled.             *)
PushSpec ==
  /\ PushInit
  /\ [][PushNext]_<<vars, broadcastVars, side>>
  /\ Fairness
  /\ BroadcastFairness
=============================================================================
