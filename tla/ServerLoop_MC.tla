--------------------------- MODULE ServerLoop_MC ---------------------------
(* Values for the constants of ServerLoop.  Two slots for clients are the   *)
(* fewest in which one slot is closed and reused below another in use; one  *)
(* client more than slots is the fewest that fill the array.                *)
EXTENDS ServerLoop

CONSTANTS c1, c2, c3
============================================================================
