---------------------------- MODULE MCCoapBridge ----------------------------
(* CoapBridge with the messages of the runs: any task may be a sync CoAP   *)
(* request, one may be an async one instead, one may be refused.           *)
EXTENDS CoapBridge

CONSTANTS t1, t2, t3

Varied(t) ==
  {[sync |-> TRUE, class |-> "coap"]} \cup
  (IF t = t2 THEN {[sync |-> FALSE, class |-> "large"]} ELSE {}) \cup
  (IF t = t3 THEN [sync : {FALSE}, class : {"foreign", "invalid"}] ELSE {})

=============================================================================
