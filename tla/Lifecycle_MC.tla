---------------------------- MODULE Lifecycle_MC ----------------------------
(* Hubs for TLC.                                                            *)
EXTENDS Lifecycle, TLC

CONSTANTS d1, d2, d3, f

MCHubs == {d1, d2, d3, f}
MCDaemons == {d1, d2, d3}
SameDaemons == Permutations(MCDaemons)

\* No step depends on `counted`.
Uncounted == <<pc, kernel, port, db, known, writing, exposed>>
=============================================================================
