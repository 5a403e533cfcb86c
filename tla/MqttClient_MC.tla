--------------------------- MODULE MqttClient_MC ---------------------------
(* Values for the constants of MqttClient.  A queue of three has room for   *)
(* the CONNECT, a subscription and its end, and is full with one call more; *)
(* on a clock with one tick an answer is late after the tick, not before.   *)
EXTENDS MqttClient

CONSTANTS t, u
============================================================================
