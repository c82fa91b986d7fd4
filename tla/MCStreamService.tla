-------------------------- MODULE MCStreamService --------------------------
(* StreamService with the matcher of the in-memory client, for which "*"   *)
(* is a wildcard, or with that of an MQTT broker.                          *)
EXTENDS StreamService
=============================================================================
