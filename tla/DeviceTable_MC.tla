--------------------------- MODULE DeviceTable_MC ---------------------------
(* Instances of the device table small enough for TLC.                      *)
EXTENDS DeviceTable, TLC

CONSTANTS a, b, c, t, u, v, s0, s1

NoAbbrev == {}
OneAbbrev == {<<a, b>>}      \* b is short for a, or another spelling of it

AllDisciplines == Disciplines
NoDisciplines == {}
NotSettled == Disciplines \ {"settled"}
NotWritten == Disciplines \ {"written"}
NotFresh == Disciplines \ {"fresh"}
NotExact == Disciplines \ {"exact"}
NotSpare == Disciplines \ {"spare"}
NotOwn == Disciplines \ {"own"}

TopicSymmetry == Permutations(Topic)
=============================================================================
