--------------------------- MODULE MqttStream_MC ---------------------------
(* Messages for TLC: two that fit the buffer together, one that fills it, one *)
(* that is too long, and an acknowledgement that is refused.                 *)
EXTENDS MqttStream

CONSTANTS short, full, long, ack

MCSize == [m \in {short, full, long, ack} |->
              CASE m = short -> 2 [] m = ack -> 2 [] m = full -> 4 [] m = long -> 5]
=============================================================================
