---------------------------- MODULE DeviceTable ----------------------------
(***************************************************************************)
(* The device table of the hub: the db_data array `memory` with its staging *)
(* array `to_change`, the requests of src/server.c that change it, the MQTT *)
(* callback that changes it, the database thread that writes staged changes *)
(* to SQLite (src/database.c), and a restart that reloads it from SQLite.   *)
(*                                                                         *)
(* Every request and the callback run between sem_wait(mutex) +             *)
(* pthread_mutex_lock(lock) and the matching release, so each is one step.  *)
(* The database thread holds the same lock for one whole pass over the      *)
(* slots, but each SQL statement is committed on its own, so a pass is one  *)
(* step per statement and the process can end between two of them.          *)
(*                                                                         *)
(* Names, topics and states are atomic values; what the code can tell about *)
(* two names is whether one matches the other (strncasecmp with the length  *)
(* of the request's argument), which is the relation Abbrev.                *)
(*                                                                         *)
(* A definition marked "Slip" is a plausible mistake in the definition that *)
(* follows it.  Nothing uses it; put in place of its neighbour it must make *)
(* the property named beside it fail.                                       *)
(***************************************************************************)
EXTENDS Integers, FiniteSets

CONSTANTS
    MaxDev,     \* conf->max_dev_count, the length of memory and to_change
    Name,       \* device names a client may send
    Topic,      \* short MQTT topics a client may send
    State,      \* values of dev_state
    Template,   \* DEV_STATE_TMPL, the state a new device starts with
    Types,      \* device types clients use, a part of 0..DEV_TYPE_MAX
    Abbrev,     \* <<stored, arg>>: arg is not stored, but a prefix of it or
                \* another spelling of it in upper and lower case
    Nil,        \* an empty C string, and the absence of a row
    Mixed,      \* a string overwritten by strncpy without its terminator
    SqlErrors,  \* TRUE when a statement may fail without effect
    Env         \* what clients are assumed to do, see Disciplines

DevTypeMax == 7
DevType == 0..DevTypeMax
Disciplines == {"settled", "written", "fresh", "exact", "spare", "own"}

ASSUME SizeAssumption == MaxDev \in Nat \ {0}
ASSUME NameAssumption ==
    /\ IsFiniteSet(Name)
    /\ Abbrev \subseteq Name \X Name
ASSUME ValueAssumption ==
    /\ Template \in State
    /\ Types \subseteq DevType
    /\ SqlErrors \in BOOLEAN
    /\ Env \subseteq Disciplines

Slots == 1..MaxDev
Cmnds == DevType \cup {Mixed}     \* the list of a type, or a concatenation
Row == [topic : Topic, type : DevType, state : State, cmnds : Cmnds]

ASSUME NilAssumption ==
    /\ Nil \notin Name \cup Topic \cup State \cup DevType \cup Row
    /\ Mixed \notin Name \cup Topic \cup DevType \cup {Nil}

VARIABLES
    dev_name, mqtt_topic, dev_type, dev_state, valid_cmnds,  \* memory[i]
    odev_name, omqtt_topic,   \* memory[i], what the row is believed to hold
    to_change,                \* to_change[i]
    db_len,                   \* database.c's count of devices
    subs,                     \* stat topics the hub is subscribed to
    db,                       \* table device: db[n] is the row of key n
    cur,                      \* slot the database thread is at, 0: it sleeps
    stmt                      \* next statement of a full update, 1..3

memory == <<dev_name, mqtt_topic, dev_type, dev_state, valid_cmnds,
            odev_name, omqtt_topic>>
vars == <<dev_name, mqtt_topic, dev_type, dev_state, valid_cmnds, odev_name,
          omqtt_topic, to_change, db_len, subs, db, cur, stmt>>

----------------------------------------------------------------------------
(* Looking a device up.                                                     *)

Matches(stored, arg) == stored = arg \/ <<stored, arg>> \in Abbrev

\* The scan of every request: the first slot whose name matches the argument.
Found(arg, i) ==
    /\ Matches(dev_name[i], arg)
    /\ \A j \in Slots : j < i => ~Matches(dev_name[j], arg)

\* Slip (TypeOK): takes a slot without looking whether it is free.
FirstFreeUnchecked(i) == \A j \in Slots : j < i => dev_name[j] # Nil

FirstFree(i) ==
    /\ dev_name[i] = Nil
    /\ \A j \in Slots : j < i => dev_name[j] # Nil

\* The scan of add_device stops at the first slot that matches the new name.
NoDuplicate(n) == \A j \in Slots : ~Matches(dev_name[j], n)

Occupied == {i \in Slots : dev_name[i] # Nil}
Unlocked == cur = 0

\* strncpy(dst, src, strlen(src)): the terminator of src is not copied, so a
\* longer string already in dst shows through.
Overwrite(old, new) ==
    IF old \in {Nil, new} THEN {new} ELSE {new, Mixed}

\* The four switch statements on to_change: a second kind of change before the
\* next pass becomes a full update, and 3, 4 and 5 are left alone.
Stage(old, kind) ==
    IF old \in {-1, kind} THEN kind ELSE IF old \in 0..2 THEN 3 ELSE old

\* Slip (StageLegal): forgets the key the full update will need.
LeaveTopic(i) == UNCHANGED omqtt_topic

\* The keys a full update will need are saved when a change joins another.
SaveTopic(i) == \E s \in Overwrite(omqtt_topic[i], mqtt_topic[i]) :
                    omqtt_topic' = [omqtt_topic EXCEPT ![i] = s]

SaveName(i) == \E s \in Overwrite(odev_name[i], dev_name[i]) :
                   odev_name' = [odev_name EXCEPT ![i] = s]

\* database.c's counter, changed while the lock is held.
increment_db_count == db_len' = db_len + 1

\* Slip (CountMatches).
uncounted_delete == db_len' = db_len

decrement_db_count == db_len' = db_len - 1

\* Slip (SubscribedWhileListed): subscribes first, then unsubscribes.
ResubscribedLast(old, new) == (subs \cup {new}) \ {old}

\* Slip (NoOrphanSubscription): never unsubscribes.
ResubscribedOnly(old, new) == subs \cup {new}

\* The subscriptions after the hub moves from topic old to topic new.
Resubscribed(old, new) == (subs \ {old}) \cup {new}

----------------------------------------------------------------------------
(* What clients are assumed to do.  With Env = {} these are all TRUE.       *)

\* Do not change a device in two ways, or change it and delete it, in one cycle.
Settled(i, kind) == "settled" \in Env => to_change[i] \notin {1, 2, 3} \ {kind}
\* Let an addition or removal be written before a device is added, renamed or
\* moved in the same slot.
Written(i) == "written" \in Env => to_change[i] \notin {4, 5}
\* Never take a name whose row is still in the database.
Fresh(n) == "fresh" \in Env => db[n] = Nil
\* Never rename a device to the name of another.
Unused(n) == "fresh" \in Env => \A i \in Slots : dev_name[i] # n
\* Always write a device's name in full and in its own spelling.
Exact(arg, i) == "exact" \in Env => dev_name[i] = arg
\* Leave the last slot of the table unused.
Spare == "spare" \in Env => db_len + 1 < MaxDev
\* Never give device i the topic of another, in memory or in the database.
Own(t, i) == "own" \in Env =>
    /\ \A j \in Slots \ {i} : mqtt_topic[j] # t
    /\ \A n \in Name \ {dev_name[i]} : db[n] # Nil => db[n].topic # t

----------------------------------------------------------------------------
(* Requests of the server thread.                                           *)

\* ADD
add_device(n, t, ty, i) ==
    /\ Unlocked
    /\ NoDuplicate(n)
    /\ FirstFree(i)
    /\ Written(i) /\ Fresh(n) /\ Spare /\ Own(t, i)
    /\ dev_name' = [dev_name EXCEPT ![i] = n]
    /\ mqtt_topic' = [mqtt_topic EXCEPT ![i] = t]
    /\ dev_type' = [dev_type EXCEPT ![i] = ty]
    /\ dev_state' = [dev_state EXCEPT ![i] = Template]
    /\ valid_cmnds' = [valid_cmnds EXCEPT ![i] =
           IF ty = 1 /\ @ # Nil THEN Mixed ELSE ty]  \* powerstrip: strncat
    /\ subs' = subs \cup {t}
    /\ to_change' = [to_change EXCEPT ![i] = 4]
    /\ increment_db_count
    /\ UNCHANGED <<odev_name, omqtt_topic, db, cur, stmt>>

\* DELETE
delete_device(arg, i) ==
    /\ Unlocked
    /\ Found(arg, i)
    /\ Settled(i, 5) /\ Exact(arg, i)
    /\ odev_name' = [odev_name EXCEPT ![i] = dev_name[i]]
    /\ omqtt_topic' = [omqtt_topic EXCEPT ![i] = mqtt_topic[i]]
    /\ dev_name' = [dev_name EXCEPT ![i] = Nil]
    /\ mqtt_topic' = [mqtt_topic EXCEPT ![i] = Nil]
    /\ subs' = subs \ {mqtt_topic[i]}
    /\ to_change' = [to_change EXCEPT ![i] = 5]
    /\ decrement_db_count
    /\ UNCHANGED <<dev_type, dev_state, valid_cmnds, db, cur, stmt>>

\* UPDATE NAME
update_name(arg, n, i) ==
    /\ Unlocked
    /\ Found(arg, i)
    /\ Settled(i, 1) /\ Written(i) /\ Exact(arg, i) /\ Fresh(n) /\ Unused(n)
    /\ odev_name' = [odev_name EXCEPT ![i] = IF @ = Nil THEN arg ELSE @]
    /\ dev_name' = [dev_name EXCEPT ![i] = n]
    /\ to_change' = [to_change EXCEPT ![i] = Stage(@, 1)]
    /\ IF to_change[i] = 0 THEN SaveTopic(i) ELSE UNCHANGED omqtt_topic
    /\ UNCHANGED <<mqtt_topic, dev_type, dev_state, valid_cmnds, db_len, subs,
                   db, cur, stmt>>

\* UPDATE TOPIC
update_topic(arg, t, i) ==
    /\ Unlocked
    /\ Found(arg, i)
    /\ Settled(i, 2) /\ Written(i) /\ Exact(arg, i) /\ Own(t, i)
    /\ omqtt_topic' = [omqtt_topic EXCEPT ![i] =
           IF @ = Nil THEN mqtt_topic[i] ELSE @]
    /\ mqtt_topic' = [mqtt_topic EXCEPT ![i] = t]
    /\ subs' = Resubscribed(mqtt_topic[i], t)
    /\ to_change' = [to_change EXCEPT ![i] = Stage(@, 2)]
    /\ IF to_change[i] = 0 THEN SaveName(i) ELSE UNCHANGED odev_name
    /\ UNCHANGED <<dev_name, dev_type, dev_state, valid_cmnds, db_len, db,
                   cur, stmt>>

\* A changed state joins what is already staged.  Shared by UPDATE STATE and the
\* MQTT callback.
StageState(i) ==
    /\ to_change' = [to_change EXCEPT ![i] = Stage(@, 0)]
    /\ IF to_change[i] = 1 THEN SaveTopic(i) ELSE UNCHANGED omqtt_topic
    /\ IF to_change[i] = 2 THEN SaveName(i) ELSE UNCHANGED odev_name

\* UPDATE STATE: only asks the device for its state, the answer comes later.
update_state(arg, i) ==
    /\ Unlocked
    /\ Found(arg, i)
    /\ StageState(i)
    /\ UNCHANGED <<dev_name, mqtt_topic, dev_type, dev_state, valid_cmnds,
                   db_len, subs, db, cur, stmt>>

\* A message on stat/<t>/RESULT, at any time, even after an unsubscribe.  Only
\* the first slot with that topic takes it; s stands for the merged state.
publish_kl_callback(t, s, i) ==
    /\ Unlocked
    /\ mqtt_topic[i] = t
    /\ \A j \in Slots : j < i => mqtt_topic[j] # t
    /\ dev_state' = [dev_state EXCEPT ![i] = s]
    /\ StageState(i)
    /\ UNCHANGED <<dev_name, mqtt_topic, dev_type, valid_cmnds, db_len, subs,
                   db, cur, stmt>>

----------------------------------------------------------------------------
(* SQL statements: the table after the statement.  The key is dev_name.     *)

HasRow(n, t) == n \in Name /\ db[n] # Nil /\ db[n].topic = t

Inserted(n, r) == IF db[n] = Nil THEN [db EXCEPT ![n] = r] ELSE db
Deleted(n, t) == IF HasRow(n, t) THEN [db EXCEPT ![n] = Nil] ELSE db
StateSet(n, t, s) ==
    IF HasRow(n, t) THEN [db EXCEPT ![n].state = s] ELSE db
TopicSet(old, new, n) ==
    IF HasRow(n, old) THEN [db EXCEPT ![n].topic = new] ELSE db

\* Slip (ImplementsWriteBehind): a new row is inserted, the old one is left.
NameCopied(old, new, t) ==
    IF HasRow(old, t) /\ new # old /\ db[new] = Nil
    THEN [db EXCEPT ![new] = db[old]] ELSE db

NameSet(old, new, t) ==                        \* the new key must be free
    IF HasRow(old, t) /\ new # old /\ db[new] = Nil
    THEN [db EXCEPT ![old] = Nil, ![new] = db[old]] ELSE db

\* The database thread ignores what a statement returns.
Exec(table) == db' \in IF SqlErrors THEN {table, db} ELSE {table}

RowOf(i) == [topic |-> mqtt_topic[i], type |-> dev_type[i],
             state |-> dev_state[i], cmnds |-> valid_cmnds[i]]

----------------------------------------------------------------------------
(* One pass of the database thread.                                         *)

Wake == Unlocked /\ cur' = 1
        /\ UNCHANGED <<memory, to_change, db_len, subs, db, stmt>>

Pending(kind) == cur # 0 /\ to_change[cur] = kind

\* Slip (StagedEventuallyFlushed): i is incremented in the body and by the for.
AdvanceTwice == cur' = (IF cur + 2 > MaxDev THEN 0 ELSE cur + 2)

Advance == cur' = (IF cur = MaxDev THEN 0 ELSE cur + 1)

\* The tail of the loop body, after the last statement of a case.
SlotDone ==
    /\ to_change' = [to_change EXCEPT ![cur] = -1]
    /\ Advance
    /\ stmt' = 1
    /\ UNCHANGED <<dev_name, mqtt_topic, db_len, subs>>

\* Slip (FreeSlotPristine, SyncedRow): memset(odev_name) is missing.
KeepOldName == UNCHANGED odev_name

ForgetOldName == odev_name' = [odev_name EXCEPT ![cur] = Nil]
ForgetOldTopic == omqtt_topic' = [omqtt_topic EXCEPT ![cur] = Nil]

KeepContents == UNCHANGED <<dev_type, dev_state, valid_cmnds>>

\* Slip (CommandsWellFormed): memset(valid_cmnds) is missing.
ForgetTypeAndState ==
    /\ dev_type' = [dev_type EXCEPT ![cur] = -1]
    /\ dev_state' = [dev_state EXCEPT ![cur] = Nil]
    /\ UNCHANGED valid_cmnds

ForgetContents ==
    /\ dev_type' = [dev_type EXCEPT ![cur] = -1]
    /\ dev_state' = [dev_state EXCEPT ![cur] = Nil]
    /\ valid_cmnds' = [valid_cmnds EXCEPT ![cur] = Nil]

OldKey == <<odev_name[cur], omqtt_topic[cur]>>

FlushNothing ==
    /\ Pending(-1)
    /\ Advance
    /\ UNCHANGED <<memory, to_change, db_len, subs, db, stmt>>

FlushState ==
    /\ Pending(0)
    /\ Exec(StateSet(dev_name[cur], mqtt_topic[cur], dev_state[cur]))
    /\ SlotDone /\ KeepContents /\ UNCHANGED <<odev_name, omqtt_topic>>

FlushName ==
    /\ Pending(1)
    /\ Exec(NameSet(odev_name[cur], dev_name[cur], mqtt_topic[cur]))
    /\ SlotDone /\ ForgetOldName /\ KeepContents /\ UNCHANGED omqtt_topic

FlushTopic ==
    /\ Pending(2)
    /\ Exec(TopicSet(omqtt_topic[cur], mqtt_topic[cur], dev_name[cur]))
    /\ SlotDone /\ ForgetOldTopic /\ KeepContents /\ UNCHANGED odev_name

FlushAllName ==
    /\ Pending(3) /\ stmt = 1
    /\ Exec(NameSet(odev_name[cur], dev_name[cur], mqtt_topic[cur]))
    /\ stmt' = 2
    /\ UNCHANGED <<memory, to_change, db_len, subs, cur>>

FlushAllTopic ==
    /\ Pending(3) /\ stmt = 2
    /\ Exec(TopicSet(omqtt_topic[cur], mqtt_topic[cur], dev_name[cur]))
    /\ stmt' = 3
    /\ UNCHANGED <<memory, to_change, db_len, subs, cur>>

FlushAllState ==
    /\ Pending(3) /\ stmt = 3
    /\ Exec(StateSet(dev_name[cur], mqtt_topic[cur], dev_state[cur]))
    /\ SlotDone /\ ForgetOldName /\ ForgetOldTopic /\ KeepContents

\* insert_db_entry returns early when the table is full by db_len's count.
FlushInsert ==
    /\ Pending(4)
    /\ IF db_len < MaxDev
       THEN Exec(Inserted(dev_name[cur], RowOf(cur)))
       ELSE UNCHANGED db
    /\ SlotDone /\ KeepContents /\ UNCHANGED <<odev_name, omqtt_topic>>

FlushDelete ==
    /\ Pending(5)
    /\ Exec(Deleted(OldKey[1], OldKey[2]))
    /\ SlotDone /\ ForgetOldName /\ ForgetOldTopic /\ ForgetContents

Flush == \/ FlushNothing \/ FlushState \/ FlushName \/ FlushTopic
         \/ FlushAllName \/ FlushAllTopic \/ FlushAllState
         \/ FlushInsert \/ FlushDelete

----------------------------------------------------------------------------
(* The process ends, for any reason and at any point, and is started again: *)
(* allocate_buffers clears memory, initialize_db loads at most MaxDev rows  *)
(* (SELECT without ORDER BY), main subscribes to what was loaded.           *)

Keys == {n \in Name : db[n] # Nil}
LoadCount == IF Cardinality(Keys) < MaxDev THEN Cardinality(Keys) ELSE MaxDev
Loads == {f \in [1..LoadCount -> Keys] :
             \A i, j \in 1..LoadCount : f[i] = f[j] => i = j}

Restart(f) ==
    /\ dev_name' = [i \in Slots |-> IF i <= LoadCount THEN f[i] ELSE Nil]
    /\ mqtt_topic' =
         [i \in Slots |-> IF i <= LoadCount THEN db[f[i]].topic ELSE Nil]
    /\ dev_type' =
         [i \in Slots |-> IF i <= LoadCount THEN db[f[i]].type ELSE -1]
    /\ dev_state' =
         [i \in Slots |-> IF i <= LoadCount THEN db[f[i]].state ELSE Nil]
    /\ valid_cmnds' =
         [i \in Slots |-> IF i <= LoadCount THEN db[f[i]].cmnds ELSE Nil]
    /\ odev_name' = [i \in Slots |-> Nil]
    /\ omqtt_topic' = [i \in Slots |-> Nil]
    /\ to_change' = [i \in Slots |-> -1]
    /\ db_len' = LoadCount
    /\ subs' = {db[f[i]].topic : i \in 1..LoadCount}
    /\ cur' = 0
    /\ stmt' = 1
    /\ UNCHANGED db

----------------------------------------------------------------------------
Init ==
    /\ dev_name = [i \in Slots |-> Nil]
    /\ mqtt_topic = [i \in Slots |-> Nil]
    /\ dev_type = [i \in Slots |-> -1]
    /\ dev_state = [i \in Slots |-> Nil]
    /\ valid_cmnds = [i \in Slots |-> Nil]
    /\ odev_name = [i \in Slots |-> Nil]
    /\ omqtt_topic = [i \in Slots |-> Nil]
    /\ to_change = [i \in Slots |-> -1]
    /\ db_len = 0
    /\ subs = {}
    /\ db = [n \in Name |-> Nil]
    /\ cur = 0
    /\ stmt = 1

Request(i) ==
    \/ \E n \in Name, t \in Topic, ty \in Types : add_device(n, t, ty, i)
    \/ \E arg \in Name : delete_device(arg, i)
    \/ \E arg, n \in Name : update_name(arg, n, i)
    \/ \E arg \in Name, t \in Topic : update_topic(arg, t, i)
    \/ \E arg \in Name : update_state(arg, i)

Message(i) == \E t \in Topic, s \in State : publish_kl_callback(t, s, i)

Next ==
    \/ \E i \in Slots : Request(i) \/ Message(i)
    \/ Wake
    \/ Flush
    \/ \E f \in Loads : Restart(f)

Spec == Init /\ [][Next]_vars

\* The database thread sleeps for a bounded time and its lock is always given
\* back, so it keeps passing over the table.
FairSpec == Spec /\ WF_vars(Wake) /\ WF_vars(Flush)

----------------------------------------------------------------------------
(* Properties that need nothing of the clients, of SQLite or of the process *)
(* staying alive.                                                           *)

Name0 == Name \cup {Nil}
Topic0 == Topic \cup {Nil}

\* An occupied slot is complete, a free one has no topic to receive messages.
SlotComplete(i) ==
    IF dev_name[i] = Nil
    THEN mqtt_topic[i] = Nil
    ELSE /\ mqtt_topic[i] \in Topic
         /\ dev_type[i] \in DevType
         /\ dev_state[i] \in State
         /\ valid_cmnds[i] \in Cmnds

\* Every variable holds a value the C program can hold, and the slots are as the
\* database thread relies on when it writes them.
TypeOK ==
    /\ dev_name \in [Slots -> Name0]
    /\ mqtt_topic \in [Slots -> Topic0]
    /\ dev_type \in [Slots -> DevType \cup {-1}]
    /\ dev_state \in [Slots -> State \cup {Nil}]
    /\ valid_cmnds \in [Slots -> Cmnds \cup {Nil}]
    /\ odev_name \in [Slots -> Name0 \cup {Mixed}]
    /\ omqtt_topic \in [Slots -> Topic0 \cup {Mixed}]
    /\ to_change \in [Slots -> -1..5]
    /\ db_len \in 0..MaxDev
    /\ subs \subseteq Topic
    /\ db \in [Name -> Row \cup {Nil}]
    /\ cur \in 0..MaxDev
    /\ stmt \in 1..3
    /\ \A i \in Slots : SlotComplete(i)

\* The count LIST reports and insert_db_entry tests is the number of occupied
\* slots, although three functions of two files change it separately.
CountMatches == db_len = Cardinality(Occupied)

\* A staged change finds the keys its statements need: whatever order renames,
\* retopics and state messages came in, a full update has both old keys, and a
\* slot without a device has nothing staged but its removal.
StageLegal ==
    \A i \in Slots :
        /\ to_change[i] \in {1, 3, 5} => odev_name[i] # Nil
        /\ to_change[i] \in {2, 3, 5} => omqtt_topic[i] # Nil
        /\ IF dev_name[i] = Nil THEN to_change[i] \in {-1, 5}
                               ELSE to_change[i] # 5

\* A free slot with nothing staged is as allocate_buffers made it: add_device
\* relies on this, it clears none of the fields it does not set.
FreeSlotPristine ==
    \A i \in Slots : dev_name[i] = Nil /\ to_change[i] = -1 =>
        /\ mqtt_topic[i] = Nil
        /\ dev_type[i] = -1
        /\ dev_state[i] = Nil
        /\ valid_cmnds[i] = Nil
        /\ odev_name[i] = Nil
        /\ omqtt_topic[i] = Nil

\* The hub is never left subscribed to a topic no device has, through any
\* sequence of adds, deletes, retopics and restarts.
NoOrphanSubscription == subs \subseteq {mqtt_topic[i] : i \in Occupied}

\* A staged change is handed to SQLite in the end, however busy the clients
\* keep the table.
StagedEventuallyFlushed ==
    \A i \in Slots : (to_change[i] # -1) ~> (to_change[i] = -1)

----------------------------------------------------------------------------
(* Properties of a hub whose clients keep every discipline and whose SQL     *)
(* statements succeed.  Each fails when one discipline is dropped.           *)

Key(n) == IF n \in Name THEN db[n] ELSE Nil

\* Once nothing is staged for a listed device, its row holds what memory holds.
SyncedRow ==
    \A i \in Occupied : to_change[i] = -1 => Key(dev_name[i]) = RowOf(i)

\* A listed device accepts the commands of its own type: a list is never
\* appended to what an earlier device left in the slot.
CommandsWellFormed == \A i \in Occupied : valid_cmnds[i] = dev_type[i]

\* The hub is subscribed to the topic of every listed device.
SubscribedWhileListed == \A i \in Occupied : mqtt_topic[i] \in subs

----------------------------------------------------------------------------
(* The table as a list with a copy behind it.                               *)

ListedRow(n) ==
    IF \E i \in Slots : dev_name[i] = n
    THEN RowOf(CHOOSE i \in Slots : dev_name[i] = n)
    ELSE Nil

Staged == {i \in Slots : to_change[i] # -1}

WriteBehindTable == INSTANCE WriteBehind WITH
    Entry <- Row,
    Nothing <- Nil,
    listed <- [n \in Name |-> ListedRow(n)],
    stored <- db,
    pending <- Name \cap UNION {{dev_name[i], odev_name[i]} : i \in Staged}

\* Whatever clients who keep the disciplines send, and wherever the process ends,
\* the slots, the staged kinds of change and the statements amount to a list with
\* a copy behind it: only staged names are out of step, a rename is never found
\* half done, and a restart lists what the rows say.
ImplementsWriteBehind == WriteBehindTable!Spec
============================================================================
