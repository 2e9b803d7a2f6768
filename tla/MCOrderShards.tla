---------------------------- MODULE MCOrderShards ----------------------------
(* Constants of the TLC run over OrderShards: on the server's clock the    *)
(* second month begins with the third instant, to its east with the        *)
(* second, and to its west it has not begun by then.                       *)
EXTENDS OrderShards, TLC

Clocks == -1 .. 1
Calendar == [o \in Clocks |-> [t \in Instants |-> IF t + o < 3 THEN 1 ELSE 2]]

Between(t, o, u, p) == [from |-> [at |-> t, offset |-> o], to |-> [at |-> u, offset |-> p]]

(* The same three instants from the server's offset, from the west, and    *)
(* from a client that summer time moves to the east in between; and the    *)
(* month of a client in the east.                                          *)
AskedRanges ==
  {Between(1, 0, 3, 0), Between(1, -1, 3, -1), Between(1, 0, 3, 1), Between(2, 1, 3, 1)}

(* Bounds: of a report one thing is there at a time, the client that reads *)
(* or what it left in the cache, and beside it two requests at most have   *)
(* begun; without one, all of them may.                                    *)
Begun == {r \in Requests : pc[r] # "idle"}
AboutReports == {p \in Reports : at[p] # "idle"} \cup {k \in CacheKeys : cache[k] # Nothing}

FewBesideReports ==
  /\ Cardinality(AboutReports) <= 1
  /\ AboutReports = {} \/ Cardinality(Begun) <= 2

ShardSymmetry == Permutations(Requests) \cup Permutations(Numbers)
=============================================================================
