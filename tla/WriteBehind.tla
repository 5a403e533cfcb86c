---------------------------- MODULE WriteBehind ----------------------------
(***************************************************************************)
(* What the device table promises, without slots, keys or statements: a     *)
(* list of devices in memory with a copy of it behind, which is brought up  *)
(* to date later.  A name whose entry and copy may differ is pending.  A    *)
(* restart goes back to the copy.                                           *)
(*                                                                         *)
(* DeviceTable implements this when its clients keep its disciplines; the   *)
(* mapping is at the end of that module.                                    *)
(***************************************************************************)
CONSTANTS
    Name,       \* names of devices
    Entry,      \* what is known of a device, a set of records
    Nothing     \* no device of that name

VARIABLES
    listed,     \* listed[n]: the entry in memory
    stored,     \* stored[n]: its copy
    pending     \* names whose copy may be behind

vars == <<listed, stored, pending>>

Init ==
    /\ listed = [n \in Name |-> Nothing]
    /\ stored = [n \in Name |-> Nothing]
    /\ pending = {}

\* What is not pending is in the copy as it is in memory.
InStep == \A n \in Name \ pending : stored[n] = listed[n]

\* One device is added, removed, renamed or changed, in memory only, and the
\* names this puts out of step are pending from then on.
Change ==
    /\ listed' \in [Name -> Entry \cup {Nothing}]
    /\ \E old, new \in Name :
           \A n \in Name \ {old, new} : listed'[n] = listed[n]
    /\ pending' \subseteq Name
    /\ InStep'
    /\ UNCHANGED stored

\* The copy of a name becomes what is in memory.
Store(n) == stored' = [stored EXCEPT ![n] = listed[n]]

\* A part of it does, because parts are written one by one.
StorePart(n) ==
    /\ {stored[n], listed[n]} \subseteq Entry
    /\ \E e \in Entry :
           /\ \A k \in DOMAIN e : e[k] \in {stored[n][k], listed[n][k]}
           /\ stored' = [stored EXCEPT ![n] = e]

\* The copy of a renamed device moves to the new name in one piece: a restart
\* finds it under one of the two names, never under both or neither.
Move(old, new) ==
    /\ old \in pending /\ listed[old] = Nothing
    /\ stored[new] = Nothing
    /\ stored' = [stored EXCEPT ![old] = Nothing, ![new] = stored[old]]

\* A step of the writer.  It copies pending names only, and what is no longer
\* pending after it is in step.
Write ==
    /\ \/ UNCHANGED stored
       \/ \E n \in pending : Store(n) \/ StorePart(n)
       \/ \E old, new \in pending : Move(old, new)
    /\ pending' \subseteq pending
    /\ InStep'
    /\ UNCHANGED listed

\* The program ends and starts again: the list is the copy.
Restart ==
    /\ listed' = stored
    /\ pending' = {}
    /\ UNCHANGED stored

Next == Change \/ Write \/ Restart

Spec == Init /\ [][Next]_vars
=============================================================================
