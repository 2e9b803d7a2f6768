--------------------------- MODULE MCEventOutbox ----------------------------
(* Constants of the TLC runs over EventOutbox: the relays of one process   *)
(* share its producer.                                                     *)
EXTENDS EventOutbox

CONSTANTS p1

OneProducer == [r \in Relays |-> p1]
=============================================================================
