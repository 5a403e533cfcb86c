-------------------------- MODULE DisciplineProofs --------------------------
(* What holds of the device table, for every table size and every set of    *)
(* names, topics and states, when clients keep the disciplines and SQL       *)
(* statements do not fail: memory and database agree, through restarts at    *)
(* any point, and the table implements a list with a copy written behind it. *)
EXTENDS DeviceTableProofs

Disciplined == Env = Disciplines /\ SqlErrors = FALSE

----------------------------------------------------------------------------
(* The inductive invariant.  Each slot has at most one row, and what is      *)
(* staged for the slot says under which key.                                 *)

\* In the full update of the slot at hand the rename has been executed.
Renamed(i) == cur = i /\ stmt # 1

\* The key of the slot's row, Nil when it has none.
RowKey(i) ==
    CASE to_change[i] \in {-1, 0, 2} -> dev_name[i]
      [] to_change[i] = 1 -> odev_name[i]
      [] to_change[i] = 3 -> IF Renamed(i) THEN dev_name[i] ELSE odev_name[i]
      [] to_change[i] = 4 -> Nil
      [] to_change[i] = 5 -> IF HasRow(odev_name[i], omqtt_topic[i])
                             THEN odev_name[i] ELSE Nil

\* Row r is that of slot i but for its state.
SameDevice(i, r, t) ==
    r # Nil /\ r.topic = t /\ r.type = dev_type[i] /\ r.cmnds = valid_cmnds[i]

\* What the fields of a slot say of its row, by what is staged.
AtRest(i) ==
    to_change[i] = -1 /\ dev_name[i] # Nil =>
        /\ db[dev_name[i]] = RowOf(i)
        /\ odev_name[i] = Nil /\ omqtt_topic[i] = Nil

StateStaged(i) ==
    to_change[i] = 0 =>
        /\ SameDevice(i, db[dev_name[i]], mqtt_topic[i])
        /\ odev_name[i] = Nil /\ omqtt_topic[i] = Nil

NameStaged(i) ==
    to_change[i] = 1 =>
        /\ odev_name[i] \in Name /\ odev_name[i] # dev_name[i]
        /\ omqtt_topic[i] = Nil
        /\ db[odev_name[i]] = RowOf(i)
        /\ db[dev_name[i]] = Nil

TopicStaged(i) ==
    to_change[i] = 2 =>
        /\ omqtt_topic[i] \in Topic
        /\ odev_name[i] = Nil
        /\ SameDevice(i, db[dev_name[i]], omqtt_topic[i])
        /\ db[dev_name[i]].state = dev_state[i]

AllStaged(i) ==
    to_change[i] = 3 =>
        /\ odev_name[i] \in Name /\ omqtt_topic[i] \in Topic
        /\ IF Renamed(i)
           THEN SameDevice(i, db[dev_name[i]],
                           IF stmt = 2 THEN omqtt_topic[i] ELSE mqtt_topic[i])
           ELSE /\ SameDevice(i, db[odev_name[i]], omqtt_topic[i])
                /\ \/ odev_name[i] = dev_name[i]
                   \/ omqtt_topic[i] = mqtt_topic[i] /\ db[dev_name[i]] = Nil

NewStaged(i) ==
    to_change[i] = 4 =>
        /\ odev_name[i] = Nil /\ omqtt_topic[i] = Nil
        /\ db[dev_name[i]] = Nil
        /\ db_len < MaxDev

\* The keys of a deletion never meet another device's row.
DeleteStaged(i) ==
    to_change[i] = 5 =>
        /\ odev_name[i] \in Name /\ omqtt_topic[i] \in Topic
        /\ \A j \in Slots : dev_name[j] = odev_name[i] =>
               RowKey(i) = Nil /\ mqtt_topic[j] # omqtt_topic[i]

SlotInv(i) ==
    /\ AtRest(i) /\ StateStaged(i) /\ NameStaged(i) /\ TopicStaged(i)
    /\ AllStaged(i) /\ NewStaged(i) /\ DeleteStaged(i)

\* No row without a slot, and no slot near another's row, name or topic.
RowsOwned == \A n \in Name : db[n] # Nil => \E i \in Slots : RowKey(i) = n

KeysApart ==
    \A i, j \in Slots : i # j /\ RowKey(i) # Nil =>
        RowKey(i) # RowKey(j) /\ RowKey(i) # dev_name[j]

NamesApart ==
    \A i, j \in Slots : i # j /\ dev_name[i] # Nil => dev_name[i] # dev_name[j]

TopicsApart ==
    /\ \A i, j \in Slots :
           i # j /\ mqtt_topic[i] # Nil => mqtt_topic[i] # mqtt_topic[j]
    /\ \A j \in Slots, n \in Name :
           db[n] # Nil /\ n # RowKey(j) => db[n].topic # mqtt_topic[j]
    /\ \A m, n \in Name :
           m # n /\ db[m] # Nil /\ db[n] # Nil => db[m].topic # db[n].topic

\* Between two passes, a device that was added since the last one is in the first
\* slot that was free, so no ADD can take its name before its row is settled.
NewInFront ==
    cur = 0 => \A i \in Slots :
        /\ to_change[i] = 4 \/ (to_change[i] = 5 /\ RowKey(i) = Nil) =>
               \A j \in Slots : j < i => dev_name[j] # Nil \/ to_change[j] = 5
        /\ to_change[i] = 5 /\ RowKey(i) = Nil =>
               /\ db[odev_name[i]] = Nil
               /\ \A n \in Name : db[n] # Nil => db[n].topic # omqtt_topic[i]

\* A pass leaves nothing staged behind it.
PassInv ==
    /\ \A j \in Slots : j < cur => to_change[j] = -1
    /\ stmt # 1 => cur # 0 /\ to_change[cur] = 3

RowsWellFormed == \A n \in Name : db[n] # Nil => db[n].cmnds = db[n].type

DInv == /\ \A i \in Slots : SlotInv(i)
        /\ RowsOwned /\ KeysApart /\ NamesApart /\ TopicsApart
        /\ NewInFront /\ PassInv
        /\ CommandsWellFormed /\ RowsWellFormed
        /\ SubscribedWhileListed

----------------------------------------------------------------------------
(* Rows and keys.                                                           *)

\* The row key by what is staged, one case at a time.
LEMMA RowKeyCases ==
    TypeOK => \A i \in Slots :
        /\ to_change[i] \in {-1, 0, 2} => RowKey(i) = dev_name[i]
        /\ to_change[i] = 1 => RowKey(i) = odev_name[i]
        /\ to_change[i] = 3 =>
               RowKey(i) = IF Renamed(i) THEN dev_name[i] ELSE odev_name[i]
        /\ to_change[i] = 4 => RowKey(i) = Nil
        /\ to_change[i] = 5 =>
               RowKey(i) = IF HasRow(odev_name[i], omqtt_topic[i])
                           THEN odev_name[i] ELSE Nil
        /\ to_change[i] \in {-1, 0, 1, 2, 3, 4, 5}
BY DEF TypeOK, RowKey

\* A key that is not empty has a row.
LEMMA KeyHasRow ==
    ASSUME IInv, DInv, NEW i \in Slots
    PROVE  /\ RowKey(i) \in Name0
           /\ RowKey(i) # Nil => db[RowKey(i)] \in Row
           /\ to_change[i] \in 0..3 => RowKey(i) # Nil
           /\ to_change[i] = -1 /\ dev_name[i] # Nil => RowKey(i) # Nil
<1>1. /\ TypeOK /\ SlotInv(i) /\ StageLegal
  BY DEF IInv, DInv
<1>2. dev_name[i] \in Name0 /\ db \in [Name -> Row \cup {Nil}]
  BY <1>1 DEF TypeOK
<1>3. \A n \in Name : db[n] # Nil => db[n] \in Row
  BY <1>2
<1>4. to_change[i] # -1 /\ to_change[i] # 5 => dev_name[i] \in Name
  BY <1>1, <1>2 DEF StageLegal, Name0
<1>5. RowOf(i) # Nil \/ dev_name[i] = Nil
  <2>1. dev_name[i] # Nil => RowOf(i) \in Row
    BY <1>1 DEF TypeOK, SlotComplete, RowOf, Row
  <2> QED
    BY <2>1, NilAssumption
<1>6. /\ AtRest(i) /\ StateStaged(i) /\ NameStaged(i) /\ TopicStaged(i)
      /\ AllStaged(i)
  BY <1>1 DEF SlotInv
<1>7. to_change[i] \in {-1, 0, 1, 2, 3, 4, 5}
  BY <1>1, RowKeyCases
<1>8. CASE to_change[i] = -1
  <2>1. RowKey(i) = dev_name[i]
    BY <1>1, <1>8, RowKeyCases
  <2> QED
    BY <2>1, <1>2, <1>3, <1>5, <1>6, <1>8 DEF AtRest, Name0
<1>9. CASE to_change[i] = 0
  <2>1. RowKey(i) = dev_name[i]
    BY <1>1, <1>9, RowKeyCases
  <2> QED
    BY <2>1, <1>2, <1>3, <1>4, <1>6, <1>9, NilAssumption
    DEF StateStaged, SameDevice, Name0
<1>10. CASE to_change[i] = 1
  <2>1. RowKey(i) = odev_name[i]
    BY <1>1, <1>10, RowKeyCases
  <2> QED
    BY <2>1, <1>3, <1>4, <1>5, <1>6, <1>10, NilAssumption
    DEF NameStaged, Name0
<1>11. CASE to_change[i] = 2
  <2>1. RowKey(i) = dev_name[i]
    BY <1>1, <1>11, RowKeyCases
  <2> QED
    BY <2>1, <1>2, <1>3, <1>4, <1>6, <1>11, NilAssumption
    DEF TopicStaged, SameDevice, Name0
<1>12. CASE to_change[i] = 3
  <2>1. RowKey(i) = IF Renamed(i) THEN dev_name[i] ELSE odev_name[i]
    BY <1>1, <1>12, RowKeyCases
  <2>2. dev_name[i] \in Name /\ odev_name[i] \in Name
    BY <1>4, <1>6, <1>12 DEF AllStaged
  <2>3. db[RowKey(i)] # Nil
    BY <2>1, <1>6, <1>12 DEF AllStaged, SameDevice
  <2> QED
    BY <2>1, <2>2, <2>3, <1>3, <1>12, NilAssumption DEF Name0
<1>13. CASE to_change[i] = 4
  <2>1. RowKey(i) = Nil
    BY <1>1, <1>13, RowKeyCases
  <2> QED
    BY <2>1, <1>13 DEF Name0
<1>14. CASE to_change[i] = 5
  <2>1. RowKey(i) = IF HasRow(odev_name[i], omqtt_topic[i])
                    THEN odev_name[i] ELSE Nil
    BY <1>1, <1>14, RowKeyCases
  <2> QED
    BY <2>1, <1>3, <1>14 DEF HasRow, Name0
<1> QED
  BY <1>7, <1>8, <1>9, <1>10, <1>11, <1>12, <1>13, <1>14

----------------------------------------------------------------------------
(* Requests and messages: one slot changes, and no row.                     *)

\* Between two passes only slot i changes.
OnlySlot(i) ==
    /\ cur = 0 /\ UNCHANGED <<db, cur, stmt>>
    /\ \A j \in Slots \ {i} :
           /\ dev_name'[j] = dev_name[j] /\ mqtt_topic'[j] = mqtt_topic[j]
           /\ dev_type'[j] = dev_type[j] /\ dev_state'[j] = dev_state[j]
           /\ valid_cmnds'[j] = valid_cmnds[j]
           /\ odev_name'[j] = odev_name[j]
           /\ omqtt_topic'[j] = omqtt_topic[j]
           /\ to_change'[j] = to_change[j]

\* Nothing is half written between two passes.
LEMMA NotRenamed ==
    ASSUME DInv, cur = 0
    PROVE  stmt = 1 /\ \A j \in Slots : ~Renamed(j)
BY DEF DInv, PassInv, Renamed

\* The row of every other slot stays where it was.
LEMMA OtherKeys ==
    ASSUME NEW i \in Slots, OnlySlot(i), NEW j \in Slots \ {i}
    PROVE  RowKey(j)' = RowKey(j)
BY DEF OnlySlot, RowKey, HasRow, Renamed

\* What is staged for another slot is untouched, but for what a deletion says of
\* slot i.
LEMMA OtherSlots ==
    ASSUME DInv, NEW i \in Slots, OnlySlot(i), NEW j \in Slots \ {i},
           db_len' < MaxDev \/ db_len' = db_len
    PROVE  /\ AtRest(j)' /\ StateStaged(j)' /\ NameStaged(j)' /\ TopicStaged(j)'
           /\ AllStaged(j)' /\ NewStaged(j)'
<1> USE DEF OnlySlot
<1>1. /\ AtRest(j) /\ StateStaged(j) /\ NameStaged(j) /\ TopicStaged(j)
      /\ AllStaged(j) /\ NewStaged(j)
  BY DEF DInv, SlotInv
<1>2. AtRest(j)'
  BY <1>1 DEF AtRest, RowOf
<1>3. StateStaged(j)'
  BY <1>1 DEF StateStaged, SameDevice
<1>4. NameStaged(j)'
  BY <1>1 DEF NameStaged, RowOf
<1>5. TopicStaged(j)'
  BY <1>1 DEF TopicStaged, SameDevice
<1>6. AllStaged(j)'
  BY <1>1 DEF AllStaged, SameDevice, Renamed
<1>7. NewStaged(j)'
  BY <1>1 DEF NewStaged
<1> QED
  BY <1>2, <1>3, <1>4, <1>5, <1>6, <1>7

\* The new name and topic of slot i are those of no other slot, row or deletion.
FreeName(i) ==
    \A j \in Slots \ {i} :
        /\ dev_name'[i] # Nil => dev_name'[i] # dev_name[j]
        /\ RowKey(j) # Nil => RowKey(j) # dev_name'[i]
        /\ to_change[j] = 5 /\ dev_name'[i] = odev_name[j] =>
               RowKey(j) = Nil /\ mqtt_topic'[i] # omqtt_topic[j]

FreeTopic(i) ==
    /\ mqtt_topic'[i] # Nil =>
           \A j \in Slots \ {i} : mqtt_topic[j] # mqtt_topic'[i]
    /\ \A n \in Name : db[n] # Nil /\ n # RowKey(i) =>
           db[n].topic # mqtt_topic'[i]

\* Slot i stays in use, and what it stages anew is in front.
InFront(i) ==
    /\ dev_name'[i] # Nil \/ to_change'[i] = 5
    /\ to_change'[i] = 4 \/ (to_change'[i] = 5 /\ RowKey(i) = Nil) =>
           \A j \in Slots : j < i => dev_name[j] # Nil \/ to_change[j] = 5
    /\ to_change'[i] = 5 /\ RowKey(i) = Nil =>
           /\ db[odev_name'[i]] = Nil
           /\ \A n \in Name : db[n] # Nil => db[n].topic # omqtt_topic'[i]

\* The request preserves the invariant when slot i keeps its row and its new name
\* and topic are free.
LEMMA RequestFrame ==
    ASSUME DInv, NEW i \in Slots, OnlySlot(i), RowKey(i)' = RowKey(i),
           FreeName(i), FreeTopic(i), InFront(i), SlotInv(i)',
           db_len' < MaxDev \/ db_len' = db_len,
           dev_name'[i] # Nil => valid_cmnds'[i] = dev_type'[i],
           dev_name'[i] # Nil => mqtt_topic'[i] \in subs',
           \A j \in Slots \ {i} : mqtt_topic[j] \in subs /\ dev_name[j] # Nil =>
               mqtt_topic[j] \in subs'
    PROVE  DInv'
<1>1. \A j \in Slots : RowKey(j)' = RowKey(j)
  BY OtherKeys
<1>2. \A j \in Slots : SlotInv(j)'
  <2> SUFFICES ASSUME NEW j \in Slots \ {i} PROVE SlotInv(j)'
    OBVIOUS
  <2>1. DeleteStaged(j)
    BY DEF DInv, SlotInv
  <2>2. DeleteStaged(j)'
    BY <1>1, <2>1 DEF DeleteStaged, OnlySlot, FreeName
  <2> QED
    BY <2>2, OtherSlots DEF SlotInv
<1>3. RowsOwned'
  BY <1>1 DEF DInv, RowsOwned, OnlySlot
<1>4. KeysApart'
  <2>1. ASSUME NEW j \in Slots, NEW k \in Slots, j # k, RowKey(j) # Nil
        PROVE  RowKey(j) # RowKey(k) /\ RowKey(j) # dev_name'[k]
    BY <2>1 DEF DInv, KeysApart, OnlySlot, FreeName
  <2> QED
    BY <1>1, <2>1 DEF KeysApart
<1>5. NamesApart'
  BY DEF DInv, NamesApart, OnlySlot, FreeName
<1>6. TopicsApart'
  BY <1>1 DEF DInv, TopicsApart, OnlySlot, FreeTopic
<1>7. NewInFront'
  BY <1>1 DEF DInv, NewInFront, OnlySlot, InFront
<1>8. PassInv'
  BY NotRenamed, SizeAssumption DEF PassInv, OnlySlot, Slots
<1>9. RowsWellFormed' /\ CommandsWellFormed' /\ SubscribedWhileListed'
  <2>1. RowsWellFormed'
    BY DEF DInv, RowsWellFormed, OnlySlot
  <2>2. CommandsWellFormed'
    BY DEF DInv, CommandsWellFormed, OnlySlot, Occupied
  <2>3. SubscribedWhileListed'
    BY DEF DInv, SubscribedWhileListed, OnlySlot, Occupied
  <2> QED
    BY <2>1, <2>2, <2>3
<1> QED
  BY <1>2, <1>3, <1>4, <1>5, <1>6, <1>7, <1>8, <1>9 DEF DInv

\* What the disciplines give, one by one.
LEMMA Kept ==
    ASSUME Disciplined, NEW i \in Slots
    PROVE  /\ \A kind : Settled(i, kind) => to_change[i] \notin {1, 2, 3} \ {kind}
           /\ Written(i) => to_change[i] \notin {4, 5}
           /\ \A n : Fresh(n) => db[n] = Nil
           /\ \A n : Unused(n) => \A j \in Slots : dev_name[j] # n
           /\ \A arg : Exact(arg, i) => dev_name[i] = arg
           /\ Spare => db_len + 1 < MaxDev
           /\ \A t : Own(t, i) =>
                 /\ \A j \in Slots \ {i} : mqtt_topic[j] # t
                 /\ \A n \in Name \ {dev_name[i]} :
                        db[n] # Nil => db[n].topic # t
BY DEF Disciplined, Disciplines, Settled, Written, Fresh, Unused, Exact, Spare,
       Own

\* A slot without a device has nothing staged but its removal.
LEMMA UnlistedSlot ==
    ASSUME IInv, NEW j \in Slots
    PROVE  /\ to_change[j] = 5 => dev_name[j] = Nil /\ mqtt_topic[j] = Nil
           /\ dev_name[j] = Nil => to_change[j] \in {-1, 5}
           /\ dev_name[j] # Nil => to_change[j] # 5
           /\ dev_name[j] = Nil => mqtt_topic[j] = Nil
BY DEF IInv, TypeOK, SlotComplete, StageLegal

\* ADD: the name and topic are nobody's, and no removal is waiting for them, since
\* the free slot taken is the first one.
LEMMA AddKeeps ==
    ASSUME IInv, DInv, Disciplined, NEW i \in Slots, NEW n \in Name,
           NEW t \in Topic, NEW ty \in Types, add_device(n, t, ty, i)
    PROVE  DInv'
<1>1. /\ dev_name[i] = Nil /\ to_change[i] = -1 /\ cur = 0
      /\ db[n] = Nil /\ db_len + 1 < MaxDev
      /\ \A j \in Slots \ {i} : mqtt_topic[j] # t
      /\ \A m \in Name : db[m] # Nil => db[m].topic # t
      /\ \A j \in Slots : dev_name[j] # n
      /\ \A j \in Slots : j < i => dev_name[j] # Nil
  <2>1. /\ Written(i) /\ Fresh(n) /\ Spare /\ Own(t, i)
        /\ FirstFree(i) /\ NoDuplicate(n) /\ cur = 0
    BY DEF add_device, Unlocked
  <2>2. /\ dev_name[i] = Nil
        /\ \A j \in Slots : j < i => dev_name[j] # Nil
        /\ \A j \in Slots : dev_name[j] # n
    BY <2>1 DEF FirstFree, NoDuplicate, Matches
  <2>3. /\ to_change[i] = -1 /\ db[n] = Nil /\ db_len + 1 < MaxDev
        /\ \A j \in Slots \ {i} : mqtt_topic[j] # t
        /\ \A m \in Name \ {dev_name[i]} : db[m] # Nil => db[m].topic # t
    BY <2>1, <2>2, Kept, UnlistedSlot
  <2>4. Nil \notin Name
    BY NilAssumption
  <2> QED
    BY <2>1, <2>2, <2>3, <2>4
<1>2. /\ mqtt_topic[i] = Nil /\ valid_cmnds[i] = Nil
      /\ odev_name[i] = Nil /\ omqtt_topic[i] = Nil
  BY <1>1 DEF IInv, FreeSlotPristine
<1>3. /\ dev_name'[i] = n /\ mqtt_topic'[i] = t /\ to_change'[i] = 4
      /\ dev_type'[i] = ty /\ valid_cmnds'[i] = ty
      /\ odev_name'[i] = Nil /\ omqtt_topic'[i] = Nil
      /\ subs' = subs \cup {t} /\ db_len' = db_len + 1
  BY <1>2 DEF IInv, TypeOK, add_device, increment_db_count
<1>4. OnlySlot(i)
  BY <1>1 DEF IInv, TypeOK, add_device, OnlySlot
<1>5. RowKey(i) = Nil /\ RowKey(i)' = Nil
  BY <1>1, <1>3 DEF RowKey
<1>6. FreeName(i)
  <2> SUFFICES ASSUME NEW j \in Slots \ {i}
               PROVE  /\ n # dev_name[j]
                      /\ RowKey(j) # Nil => RowKey(j) # n
                      /\ ~(to_change[j] = 5 /\ n = odev_name[j])
    BY <1>3 DEF FreeName
  <2>1. RowKey(j) # Nil => db[RowKey(j)] # Nil
    BY KeyHasRow, NilAssumption
  <2>2. ASSUME to_change[j] = 5, n = odev_name[j] PROVE FALSE
    <3>1. RowKey(j) = Nil
      BY <1>1, <2>2 DEF RowKey, HasRow
    <3>2. \A k \in Slots : k < j => dev_name[k] # Nil \/ to_change[k] = 5
      BY <1>1, <2>2, <3>1 DEF DInv, NewInFront
    <3>3. dev_name[j] = Nil
      BY <2>2, UnlistedSlot
    <3> QED
      BY <1>1, <3>2, <3>3 DEF Slots
  <2> QED
    BY <1>1, <2>1, <2>2
<1>7. FreeTopic(i)
  BY <1>1, <1>3 DEF FreeTopic
<1>8. InFront(i)
  BY <1>1, <1>3, NilAssumption DEF InFront
<1>9. SlotInv(i)'
  BY <1>1, <1>3, <1>4, SMT
  DEF SlotInv, AtRest, StateStaged, NameStaged, TopicStaged, AllStaged,
      NewStaged, DeleteStaged, OnlySlot
<1> QED
  BY <1>1, <1>3, <1>4, <1>5, <1>6, <1>7, <1>8, <1>9, RequestFrame

\* Of a listed device without a change of topic, the row has its topic.
LEMMA RowTopic ==
    ASSUME IInv, DInv, NEW i \in Slots, dev_name[i] # Nil,
           to_change[i] \in {-1, 0, 1}
    PROVE  RowKey(i) \in Name /\ db[RowKey(i)] # Nil
           /\ db[RowKey(i)].topic = mqtt_topic[i]
<1>1. RowKey(i) \in Name /\ db[RowKey(i)] # Nil
  BY KeyHasRow, NilAssumption DEF Name0
<1>2. RowKey(i) = IF to_change[i] = 1 THEN odev_name[i] ELSE dev_name[i]
  BY DEF RowKey
<1>3. AtRest(i) /\ StateStaged(i) /\ NameStaged(i)
  BY DEF DInv, SlotInv
<1> QED
  BY <1>1, <1>2, <1>3
  DEF AtRest, StateStaged, NameStaged, SameDevice, RowOf

\* DELETE: what is staged finds the row under the name and topic the device had.
LEMMA DeleteKeeps ==
    ASSUME IInv, DInv, Disciplined, NEW i \in Slots, NEW arg \in Name,
           delete_device(arg, i)
    PROVE  DInv'
<1>1. /\ dev_name[i] \in Name /\ mqtt_topic[i] \in Topic
      /\ to_change[i] \in {-1, 0, 4} /\ cur = 0
  BY FoundOccupied, Kept, UnlistedSlot
  DEF delete_device, Unlocked, IInv, TypeOK
<1>2. /\ dev_name'[i] = Nil /\ mqtt_topic'[i] = Nil /\ to_change'[i] = 5
      /\ odev_name'[i] = dev_name[i] /\ omqtt_topic'[i] = mqtt_topic[i]
      /\ subs' = subs \ {mqtt_topic[i]} /\ db_len' = db_len - 1
  BY DEF IInv, TypeOK, delete_device, decrement_db_count
<1>3. OnlySlot(i)
  BY <1>1 DEF IInv, TypeOK, delete_device, OnlySlot
<1>4. /\ to_change[i] \in {-1, 0} =>
             HasRow(dev_name[i], mqtt_topic[i]) /\ RowKey(i) = dev_name[i]
      /\ to_change[i] = 4 => db[dev_name[i]] = Nil /\ RowKey(i) = Nil
  <2>1. to_change[i] \in {-1, 0} => RowKey(i) = dev_name[i]
    BY <1>1 DEF RowKey
  <2>2. to_change[i] \in {-1, 0} =>
            db[dev_name[i]] # Nil /\ db[dev_name[i]].topic = mqtt_topic[i]
    BY <1>1, <2>1, RowTopic, NilAssumption
  <2>3. to_change[i] = 4 => db[dev_name[i]] = Nil /\ RowKey(i) = Nil
    BY <1>1 DEF DInv, SlotInv, NewStaged, RowKey
  <2> QED
    BY <1>1, <2>1, <2>2, <2>3 DEF HasRow
<1>5. RowKey(i)' = RowKey(i)
  <2>1. RowKey(i)' = IF HasRow(dev_name[i], mqtt_topic[i])
                     THEN dev_name[i] ELSE Nil
    BY <1>2, <1>3 DEF RowKey, HasRow, OnlySlot
  <2> QED
    BY <1>1, <1>4, <2>1 DEF HasRow
<1>6. FreeName(i)
  BY <1>2, NilAssumption DEF DInv, SlotInv, DeleteStaged, FreeName
<1>7. FreeTopic(i)
  <2>1. \A n \in Name : db[n] # Nil => db[n].topic \in Topic
    BY DEF IInv, TypeOK, Row
  <2> QED
    BY <1>2, <2>1, NilAssumption DEF FreeTopic
<1>8. InFront(i)
  <2> SUFFICES ASSUME RowKey(i) = Nil
               PROVE  /\ \A j \in Slots : j < i =>
                             dev_name[j] # Nil \/ to_change[j] = 5
                      /\ db[dev_name[i]] = Nil
                      /\ \A n \in Name : db[n] # Nil =>
                             db[n].topic # mqtt_topic[i]
    BY <1>2 DEF InFront
  <2>1. to_change[i] = 4
    BY <1>1, <1>4, NilAssumption
  <2> QED
    BY <1>1, <1>4, <2>1, NilAssumption DEF DInv, NewInFront, TopicsApart
<1>9. SlotInv(i)'
  <2>1. DeleteStaged(i)'
    BY <1>1, <1>2, <1>3, NilAssumption
    DEF DInv, NamesApart, DeleteStaged, OnlySlot
  <2> QED
    BY <1>2, <2>1
    DEF SlotInv, AtRest, StateStaged, NameStaged, TopicStaged, AllStaged,
        NewStaged
<1>10. db_len' < MaxDev
  BY <1>2, SizeAssumption DEF IInv, TypeOK
<1>11. \A j \in Slots \ {i} : mqtt_topic[j] \in subs /\ dev_name[j] # Nil =>
           mqtt_topic[j] \in subs'
  BY <1>1, <1>2, NilAssumption DEF DInv, TopicsApart
<1> QED
  BY <1>2, <1>3, <1>5, <1>6, <1>7, <1>8, <1>9, <1>10, <1>11, RequestFrame

\* UPDATE NAME: the row stays under the old name, the new one has none.
LEMMA RenameKeeps ==
    ASSUME IInv, DInv, Disciplined, NEW i \in Slots, NEW arg \in Name,
           NEW n \in Name, update_name(arg, n, i)
    PROVE  DInv'
<1>1. /\ dev_name[i] \in Name /\ mqtt_topic[i] \in Topic
      /\ to_change[i] \in {-1, 0, 1} /\ cur = 0
      /\ arg = dev_name[i] /\ db[n] = Nil /\ \A j \in Slots : dev_name[j] # n
  BY FoundOccupied, Kept, UnlistedSlot
  DEF update_name, Unlocked, IInv, TypeOK
<1>2. /\ AtRest(i) /\ StateStaged(i) /\ NameStaged(i)
      /\ RowKey(i) \in Name /\ db[RowKey(i)] # Nil
      /\ db[RowKey(i)].topic = mqtt_topic[i]
      /\ RowKey(i) = IF to_change[i] = 1 THEN odev_name[i] ELSE dev_name[i]
  BY <1>1, RowTopic, NilAssumption DEF DInv, SlotInv, RowKey
<1>3. /\ dev_name'[i] = n /\ odev_name'[i] = RowKey(i)
      /\ to_change'[i] = IF to_change[i] = 0 THEN 3 ELSE 1
      /\ omqtt_topic'[i] = IF to_change[i] = 0 THEN mqtt_topic[i] ELSE Nil
      /\ mqtt_topic'[i] = mqtt_topic[i] /\ dev_type'[i] = dev_type[i]
      /\ dev_state'[i] = dev_state[i] /\ valid_cmnds'[i] = valid_cmnds[i]
      /\ UNCHANGED <<subs, db_len>>
  <2>1. /\ dev_name'[i] = n
        /\ odev_name'[i] = IF odev_name[i] = Nil THEN arg ELSE odev_name[i]
        /\ to_change'[i] = Stage(to_change[i], 1)
        /\ mqtt_topic'[i] = mqtt_topic[i] /\ dev_type'[i] = dev_type[i]
        /\ dev_state'[i] = dev_state[i] /\ valid_cmnds'[i] = valid_cmnds[i]
        /\ UNCHANGED <<subs, db_len>>
    BY DEF IInv, TypeOK, update_name
  <2>2. Stage(to_change[i], 1) = IF to_change[i] = 0 THEN 3 ELSE 1
    BY <1>1 DEF Stage
  <2>3. /\ to_change[i] \in {-1, 0} => odev_name[i] = Nil
        /\ omqtt_topic[i] = Nil /\ RowKey(i) # Nil
    BY <1>1, <1>2, NilAssumption DEF AtRest, StateStaged, NameStaged
  <2>4. omqtt_topic'[i] = IF to_change[i] = 0 THEN mqtt_topic[i] ELSE Nil
    BY <2>3 DEF IInv, TypeOK, update_name, SaveTopic, Overwrite
  <2> QED
    BY <1>1, <1>2, <2>1, <2>2, <2>3, <2>4
<1>4. OnlySlot(i)
  BY <1>1 DEF IInv, TypeOK, update_name, OnlySlot, SaveTopic
<1>5. RowKey(i)' = RowKey(i)
  <2>1. ~Renamed(i)'
    BY <1>4, SizeAssumption DEF Renamed, OnlySlot, Slots
  <2>2. to_change'[i] = 1 \/ to_change'[i] = 3
    BY <1>3
  <2>3. RowKey(i)' = odev_name'[i]
    BY <2>1, <2>2 DEF RowKey
  <2> QED
    BY <1>3, <2>3
<1>6. FreeName(i)
  <2> SUFFICES ASSUME NEW j \in Slots \ {i}
               PROVE  /\ RowKey(j) # Nil => RowKey(j) # n
                      /\ to_change[j] = 5 /\ n = odev_name[j] =>
                             RowKey(j) = Nil /\ mqtt_topic[i] # omqtt_topic[j]
    BY <1>1, <1>3 DEF FreeName
  <2>1. RowKey(j) # Nil => RowKey(j) # n
    BY <1>1, KeyHasRow, NilAssumption
  <2>2. ASSUME to_change[j] = 5, n = odev_name[j]
        PROVE  RowKey(j) = Nil /\ mqtt_topic[i] # omqtt_topic[j]
    <3>1. RowKey(j) = Nil
      BY <1>1, <2>2 DEF RowKey, HasRow
    <3> QED
      BY <1>1, <1>2, <2>2, <3>1 DEF DInv, NewInFront
  <2> QED
    BY <2>1, <2>2
<1>7. FreeTopic(i)
  BY <1>3 DEF DInv, TopicsApart, FreeTopic
<1>8. InFront(i)
  BY <1>3, NilAssumption DEF InFront
<1>9. SlotInv(i)'
  <2>1. NameStaged(i)'
    <3>1. to_change[i] # 0 => db[RowKey(i)] = RowOf(i)
      BY <1>1, <1>2, NilAssumption DEF NameStaged, AtRest
    <3>2. RowOf(i)' = RowOf(i)
      BY <1>3 DEF RowOf
    <3> QED
      BY <1>1, <1>2, <1>3, <1>4, <3>1, <3>2 DEF NameStaged, OnlySlot
  <2>2. AllStaged(i)'
    BY <1>1, <1>2, <1>3, <1>4
    DEF AllStaged, StateStaged, SameDevice, OnlySlot, Renamed, Slots
  <2> QED
    BY <1>3, <2>1, <2>2
    DEF SlotInv, AtRest, StateStaged, TopicStaged, NewStaged, DeleteStaged
<1>10. /\ valid_cmnds'[i] = dev_type'[i]
       /\ mqtt_topic'[i] \in subs'
  BY <1>1, <1>3, NilAssumption
  DEF DInv, CommandsWellFormed, SubscribedWhileListed, Occupied
<1> QED
  BY <1>3, <1>4, <1>5, <1>6, <1>7, <1>8, <1>9, <1>10, RequestFrame

\* UPDATE TOPIC: the row stays under the device's name with the old topic, and the
\* new topic is nobody's.
LEMMA RetopicKeeps ==
    ASSUME IInv, DInv, Disciplined, NEW i \in Slots, NEW arg \in Name,
           NEW t \in Topic, update_topic(arg, t, i)
    PROVE  DInv'
<1>1. /\ dev_name[i] \in Name /\ mqtt_topic[i] \in Topic
      /\ to_change[i] \in {-1, 0, 2} /\ cur = 0
      /\ \A j \in Slots \ {i} : mqtt_topic[j] # t
      /\ \A n \in Name \ {dev_name[i]} : db[n] # Nil => db[n].topic # t
  BY FoundOccupied, Kept, UnlistedSlot
  DEF update_topic, Unlocked, IInv, TypeOK
<1>2. /\ AtRest(i) /\ StateStaged(i) /\ TopicStaged(i)
      /\ RowKey(i) = dev_name[i] /\ db[dev_name[i]] # Nil
  BY <1>1, KeyHasRow, NilAssumption DEF DInv, SlotInv, RowKey
<1>3. /\ dev_name'[i] = dev_name[i] /\ mqtt_topic'[i] = t
      /\ to_change'[i] = IF to_change[i] = 0 THEN 3 ELSE 2
      /\ odev_name'[i] = IF to_change[i] = 0 THEN dev_name[i] ELSE Nil
      /\ omqtt_topic'[i] =
             IF to_change[i] = 2 THEN omqtt_topic[i] ELSE mqtt_topic[i]
      /\ dev_type'[i] = dev_type[i] /\ dev_state'[i] = dev_state[i]
      /\ valid_cmnds'[i] = valid_cmnds[i]
      /\ subs' = (subs \ {mqtt_topic[i]}) \cup {t} /\ db_len' = db_len
  <2>1. /\ dev_name'[i] = dev_name[i] /\ mqtt_topic'[i] = t
        /\ omqtt_topic'[i] = IF omqtt_topic[i] = Nil THEN mqtt_topic[i]
                             ELSE omqtt_topic[i]
        /\ to_change'[i] = Stage(to_change[i], 2)
        /\ dev_type'[i] = dev_type[i] /\ dev_state'[i] = dev_state[i]
        /\ valid_cmnds'[i] = valid_cmnds[i]
        /\ subs' = (subs \ {mqtt_topic[i]}) \cup {t} /\ db_len' = db_len
    BY DEF IInv, TypeOK, update_topic, Resubscribed
  <2>2. Stage(to_change[i], 2) = IF to_change[i] = 0 THEN 3 ELSE 2
    BY <1>1 DEF Stage
  <2>3. /\ to_change[i] # 2 => omqtt_topic[i] = Nil
        /\ to_change[i] = 2 => omqtt_topic[i] # Nil
        /\ odev_name[i] = Nil
    BY <1>1, <1>2, NilAssumption DEF AtRest, StateStaged, TopicStaged
  <2>4. odev_name'[i] = IF to_change[i] = 0 THEN dev_name[i] ELSE Nil
    BY <2>3 DEF IInv, TypeOK, update_topic, SaveName, Overwrite
  <2> QED
    BY <1>1, <2>1, <2>2, <2>3, <2>4
<1>4. OnlySlot(i)
  BY <1>1 DEF IInv, TypeOK, update_topic, OnlySlot, SaveName
<1>5. RowKey(i)' = RowKey(i)
  <2>1. ~Renamed(i)'
    BY <1>4, SizeAssumption DEF Renamed, OnlySlot, Slots
  <2>2. to_change'[i] = 2 => RowKey(i)' = dev_name'[i]
    BY DEF RowKey
  <2>3. to_change'[i] = 3 => RowKey(i)' = odev_name'[i]
    BY <2>1 DEF RowKey
  <2> QED
    BY <1>1, <1>2, <1>3, <2>2, <2>3
<1>6. FreeName(i)
  <2> SUFFICES ASSUME NEW j \in Slots \ {i}
               PROVE  /\ dev_name[i] # Nil => dev_name[i] # dev_name[j]
                      /\ RowKey(j) # Nil => RowKey(j) # dev_name[i]
                      /\ ~(to_change[j] = 5 /\ dev_name[i] = odev_name[j])
    BY <1>3 DEF FreeName
  <2>1. ASSUME to_change[j] = 5, dev_name[i] = odev_name[j] PROVE FALSE
    <3>1. RowKey(j) = Nil
      BY <2>1 DEF DInv, SlotInv, DeleteStaged
    <3> QED
      BY <1>1, <1>2, <2>1, <3>1 DEF DInv, NewInFront
  <2> QED
    BY <2>1 DEF DInv, NamesApart, KeysApart
<1>7. FreeTopic(i)
  BY <1>1, <1>2, <1>3 DEF FreeTopic
<1>8. InFront(i)
  BY <1>1, <1>3, NilAssumption DEF InFront
<1>9. SlotInv(i)'
  <2>1. to_change[i] # 2 => SameDevice(i, db[dev_name[i]], mqtt_topic[i])
    BY <1>1, <1>2, NilAssumption DEF AtRest, StateStaged, SameDevice, RowOf
  <2>2. to_change[i] = -1 => db[dev_name[i]].state = dev_state[i]
    BY <1>1, <1>2, NilAssumption DEF AtRest, RowOf
  <2>3. TopicStaged(i)'
    BY <1>1, <1>2, <1>3, <1>4, <2>1, <2>2
    DEF TopicStaged, SameDevice, OnlySlot
  <2>4. AllStaged(i)'
    BY <1>1, <1>2, <1>3, <1>4, <2>1
    DEF AllStaged, SameDevice, OnlySlot, Renamed, Slots
  <2> QED
    BY <1>3, <2>3, <2>4
    DEF SlotInv, AtRest, StateStaged, NameStaged, NewStaged, DeleteStaged
<1>10. /\ valid_cmnds'[i] = dev_type'[i]
       /\ mqtt_topic'[i] \in subs'
  BY <1>1, <1>3, NilAssumption DEF DInv, CommandsWellFormed, Occupied
<1>11. \A j \in Slots \ {i} : mqtt_topic[j] \in subs /\ dev_name[j] # Nil =>
           mqtt_topic[j] \in subs'
  BY <1>1, <1>3, NilAssumption DEF DInv, TopicsApart
<1> QED
  BY <1>3, <1>4, <1>5, <1>6, <1>7, <1>8, <1>9, <1>10, <1>11, RequestFrame

\* A new state, by UPDATE STATE or from the device, joins what is staged: the row
\* stays where it is.
LEMMA StateKeeps ==
    ASSUME IInv, DInv, NEW i \in Slots, dev_name[i] \in Name, StageState(i),
           cur = 0, NEW s, dev_state' = [dev_state EXCEPT ![i] = s],
           UNCHANGED <<dev_name, mqtt_topic, dev_type, valid_cmnds, db_len,
                       subs, db, cur, stmt>>
    PROVE  DInv'
<1>1. /\ dev_name[i] # Nil /\ mqtt_topic[i] \in Topic
      /\ to_change[i] \in {-1, 0, 1, 2, 3, 4}
  BY NilAssumption DEF IInv, TypeOK, SlotComplete, StageLegal
<1>2. to_change'[i] = CASE to_change[i] \in {-1, 0} -> 0
                        [] to_change[i] \in {1, 2, 3} -> 3
                        [] to_change[i] = 4 -> 4
  <2>1. to_change'[i] = Stage(to_change[i], 0)
    BY DEF IInv, TypeOK, StageState
  <2> QED
    BY <1>1, <2>1 DEF Stage
<1>3. /\ AtRest(i) /\ StateStaged(i) /\ NameStaged(i) /\ TopicStaged(i)
      /\ AllStaged(i) /\ NewStaged(i)
  BY DEF DInv, SlotInv
<1>4. /\ odev_name'[i] =
             IF to_change[i] = 2 THEN dev_name[i] ELSE odev_name[i]
      /\ omqtt_topic'[i] =
             IF to_change[i] = 1 THEN mqtt_topic[i] ELSE omqtt_topic[i]
  BY <1>3
  DEF IInv, TypeOK, StageState, SaveName, SaveTopic, Overwrite, NameStaged,
      TopicStaged
<1>5. OnlySlot(i)
  BY DEF IInv, TypeOK, OnlySlot, StageState, SaveName, SaveTopic
<1>6. ~Renamed(i) /\ ~Renamed(i)'
  BY <1>5, SizeAssumption DEF Renamed, OnlySlot, Slots
<1>7. RowKey(i)' = RowKey(i)
  <2>1. CASE to_change[i] \in {-1, 0}
    BY <1>2, <2>1 DEF RowKey
  <2>2. CASE to_change[i] \in {1, 2, 3}
    <3>1. to_change'[i] = 3
      BY <1>2, <2>2
    <3>2. RowKey(i)' = odev_name'[i]
      BY <1>6, <3>1 DEF RowKey
    <3>3. RowKey(i) = IF to_change[i] = 2 THEN dev_name[i] ELSE odev_name[i]
      BY <1>6, <2>2 DEF RowKey
    <3> QED
      BY <1>4, <3>2, <3>3
  <2>3. CASE to_change[i] = 4
    BY <1>2, <2>3 DEF RowKey
  <2> QED
    BY <1>1, <2>1, <2>2, <2>3
<1>8. FreeName(i) /\ FreeTopic(i)
  <2>1. \A j \in Slots \ {i} : to_change[j] = 5 /\ dev_name[i] = odev_name[j] =>
            RowKey(j) = Nil /\ mqtt_topic[i] # omqtt_topic[j]
    BY DEF DInv, SlotInv, DeleteStaged
  <2>2. FreeName(i)
    BY <2>1 DEF DInv, NamesApart, KeysApart, FreeName
  <2> QED
    BY <2>2 DEF DInv, TopicsApart, FreeTopic
<1>9. InFront(i)
  BY <1>1, <1>2 DEF DInv, NewInFront, InFront
<1>10. SlotInv(i)'
  <2>5. /\ db[dev_name[i]] = RowOf(i) /\ RowKey(i) = dev_name[i] =>
               SameDevice(i, db[dev_name[i]], mqtt_topic[i])
        /\ db[odev_name[i]] = RowOf(i) /\ RowKey(i) = odev_name[i] =>
               SameDevice(i, db[odev_name[i]], mqtt_topic[i])
    <3>1. RowOf(i) # Nil
      <4>1. RowOf(i) \in Row
        BY <1>1 DEF IInv, TypeOK, SlotComplete, RowOf, Row
      <4> QED
        BY <4>1, NilAssumption
    <3> QED
      BY <3>1 DEF SameDevice, RowOf
  <2>6. /\ to_change[i] \in {-1, 0, 2} => RowKey(i) = dev_name[i]
        /\ to_change[i] = 1 => RowKey(i) = odev_name[i]
    BY DEF RowKey
  <2>7. UNCHANGED <<db, dev_name, mqtt_topic, dev_type, valid_cmnds, cur, stmt>>
    BY <1>5 DEF OnlySlot
  <2>1. StateStaged(i)'
    <3> SUFFICES ASSUME to_change[i] \in {-1, 0} PROVE StateStaged(i)'
      BY <1>1, <1>2 DEF StateStaged
    <3>1. /\ SameDevice(i, db[dev_name[i]], mqtt_topic[i])
          /\ odev_name[i] = Nil /\ omqtt_topic[i] = Nil
      BY <1>1, <1>3, <2>5, <2>6 DEF StateStaged, AtRest
    <3> QED
      BY <1>4, <2>7, <3>1 DEF StateStaged, SameDevice
  <2>2. AllStaged(i)'
    <3>1. CASE to_change[i] = 1
      <4>1. SameDevice(i, db[odev_name[i]], mqtt_topic[i])
        BY <1>3, <2>5, <2>6, <3>1 DEF NameStaged
      <4> QED
        BY <1>1, <1>3, <1>4, <1>6, <2>7, <3>1, <4>1
        DEF AllStaged, NameStaged, SameDevice
    <3>2. CASE to_change[i] = 2
      BY <1>1, <1>3, <1>4, <1>6, <2>7, <3>2
      DEF AllStaged, TopicStaged, SameDevice
    <3>3. CASE to_change[i] = 3
      BY <1>1, <1>3, <1>4, <1>6, <2>7, <3>3 DEF AllStaged, SameDevice
    <3> QED
      BY <1>1, <1>2, <3>1, <3>2, <3>3 DEF AllStaged
  <2>3. NewStaged(i)'
    BY <1>1, <1>2, <1>3, <1>4 DEF NewStaged
  <2>4. to_change'[i] \in {0, 3, 4}
    BY <1>1, <1>2
  <2> QED
    BY <2>1, <2>2, <2>3, <2>4
    DEF SlotInv, AtRest, NameStaged, TopicStaged, DeleteStaged
<1>11. /\ valid_cmnds'[i] = dev_type'[i]
       /\ mqtt_topic'[i] \in subs'
  BY <1>1 DEF DInv, CommandsWellFormed, SubscribedWhileListed, Occupied
<1> QED
  BY <1>5, <1>7, <1>8, <1>9, <1>10, <1>11, RequestFrame

\* Every request and message between two passes preserves the invariant.
LEMMA RequestKeeps ==
    ASSUME IInv, DInv, Disciplined, NEW i \in Slots, Request(i) \/ Message(i)
    PROVE  DInv'
<1>1. ASSUME NEW arg \in Name, update_state(arg, i) PROVE DInv'
  <2>1. dev_state' = [dev_state EXCEPT ![i] = dev_state[i]]
    BY <1>1 DEF IInv, TypeOK, update_state
  <2>2. dev_name[i] \in Name
    BY <1>1, FoundOccupied DEF update_state
  <2> QED
    BY <1>1, <2>1, <2>2, StateKeeps DEF update_state, Unlocked
<1>2. ASSUME NEW t \in Topic, NEW s \in State, publish_kl_callback(t, s, i)
      PROVE  DInv'
  <2>1. dev_name[i] \in Name
    BY <1>2, NilAssumption
    DEF IInv, TypeOK, SlotComplete, publish_kl_callback, Name0
  <2> QED
    BY <1>2, <2>1, StateKeeps DEF publish_kl_callback, Unlocked
<1> QED
  BY <1>1, <1>2, AddKeeps, DeleteKeeps, RenameKeeps, RetopicKeeps
  DEF Request, Message

----------------------------------------------------------------------------
(* The pass of the database thread: it works on one slot at a time.          *)

\* The thread moves and writes nothing.
LEMMA MoveKeeps ==
    ASSUME IInv, DInv, UNCHANGED <<memory, to_change, db_len, subs, db, stmt>>,
           stmt = 1, PassInv', cur' = 0 => \A j \in Slots : to_change[j] = -1
    PROVE  DInv'
<1> USE DEF memory
<1>1. \A j \in Slots : ~Renamed(j) /\ ~Renamed(j)'
  BY DEF Renamed
<1>2. \A j \in Slots : RowKey(j)' = RowKey(j)
  BY <1>1 DEF RowKey, HasRow
<1>3. \A j \in Slots : SlotInv(j)'
  <2> SUFFICES ASSUME NEW j \in Slots PROVE SlotInv(j)'
    OBVIOUS
  <2>1. SlotInv(j)
    BY DEF DInv
  <2>2. DeleteStaged(j)'
    BY <1>2, <2>1 DEF SlotInv, DeleteStaged
  <2>3. AllStaged(j)'
    BY <1>1, <2>1 DEF SlotInv, AllStaged, SameDevice
  <2> QED
    BY <2>1, <2>2, <2>3
    DEF SlotInv, AtRest, StateStaged, NameStaged, TopicStaged, NewStaged,
        SameDevice, RowOf
<1>4. RowsOwned' /\ KeysApart' /\ NamesApart' /\ TopicsApart'
  BY <1>2 DEF DInv, RowsOwned, KeysApart, NamesApart, TopicsApart
<1>5. NewInFront'
  BY DEF NewInFront
<1>6. RowsWellFormed' /\ CommandsWellFormed' /\ SubscribedWhileListed'
  BY DEF DInv, RowsWellFormed, CommandsWellFormed, SubscribedWhileListed,
         Occupied
<1> QED
  BY <1>3, <1>4, <1>5, <1>6 DEF DInv

\* A pass starts before the first slot, and between two passes.
LEMMA WakeKeeps == IInv /\ DInv /\ Wake => DInv'
<1> SUFFICES ASSUME IInv, DInv, Wake PROVE DInv'
  OBVIOUS
<1>1. cur = 0 /\ cur' = 1 /\ stmt = 1
  BY NotRenamed DEF Wake, Unlocked
<1>2. PassInv'
  BY <1>1 DEF Wake, PassInv, Slots
<1> QED
  BY <1>1, <1>2, MoveKeeps DEF Wake

\* When the thread leaves a slot with nothing staged, all slots up to there have
\* nothing staged, and all slots when it was the last.
LEMMA PassMoves ==
    ASSUME IInv, DInv, cur \in Slots, Advance, stmt' = 1,
           to_change' = [to_change EXCEPT ![cur] = -1]
    PROVE  /\ PassInv'
           /\ cur' = 0 => \A j \in Slots : to_change'[j] = -1
<1>1. to_change \in [Slots -> -1..5] /\ cur \in 1..MaxDev
  BY DEF IInv, TypeOK, Slots
<1>2. \A j \in Slots : j <= cur => to_change'[j] = -1
  BY <1>1 DEF DInv, PassInv, Slots
<1> QED
  BY <1>1, <1>2, SizeAssumption DEF PassInv, Advance, Slots

\* A slot with nothing staged is passed over.
LEMMA NothingKeeps == IInv /\ DInv /\ FlushNothing => DInv'
<1> SUFFICES ASSUME IInv, DInv, FlushNothing PROVE DInv'
  OBVIOUS
<1>1. cur \in Slots /\ to_change[cur] = -1 /\ Advance
      /\ UNCHANGED <<memory, to_change, db_len, subs, db, stmt>>
  BY DEF FlushNothing, Pending, IInv, TypeOK, Slots
<1>2. stmt = 1
  BY <1>1 DEF DInv, PassInv
<1>3. to_change' = [to_change EXCEPT ![cur] = -1]
  BY <1>1 DEF IInv, TypeOK
<1>4. PassInv' /\ (cur' = 0 => \A j \in Slots : to_change'[j] = -1)
  BY <1>1, <1>2, <1>3, PassMoves
<1> QED
  BY <1>1, <1>2, <1>4, MoveKeeps

\* A statement for slot c leaves row r under the name of the device, when there is
\* one, and takes away the row the slot had under another key.
RowSettles(c, r) ==
    /\ \A n \in Name :
           db'[n] = IF n = dev_name[c] THEN r
                    ELSE IF n = RowKey(c) THEN Nil ELSE db[n]
    /\ dev_name[c] # Nil =>
           /\ r # Nil /\ r.cmnds = r.type
           /\ \/ r.topic = mqtt_topic[c]
              \/ RowKey(c) = dev_name[c] /\ r.topic = db[dev_name[c]].topic

\* What a statement for slot c changes in memory.
OnlyStaged(c) ==
    /\ UNCHANGED <<dev_name, mqtt_topic, db_len, subs>>
    /\ \A j \in Slots \ {c} :
           /\ dev_type'[j] = dev_type[j] /\ dev_state'[j] = dev_state[j]
           /\ valid_cmnds'[j] = valid_cmnds[j]
           /\ odev_name'[j] = odev_name[j]
           /\ omqtt_topic'[j] = omqtt_topic[j]
           /\ to_change'[j] = to_change[j]

\* The thread stays at slot c in the middle of a full update, or is done with it.
Moves(c) ==
    /\ cur = c
    /\ \/ cur' = c /\ stmt' \in {2, 3} /\ to_change'[c] = 3
       \/ stmt' = 1 /\ cur' # c

\* Another slot's row is not touched by a statement for slot c, and neither is the
\* place its own name has in the table.
LEMMA OtherRows ==
    ASSUME DInv, NEW c \in Slots, NEW r, RowSettles(c, r), NEW j \in Slots \ {c}
    PROVE  /\ RowKey(j) \in Name => db'[RowKey(j)] = db[RowKey(j)]
           /\ dev_name[j] \in Name => db'[dev_name[j]] = db[dev_name[j]]
<1>1. Nil \notin Name
  BY NilAssumption
<1>2. RowKey(j) \in Name => RowKey(j) # RowKey(c) /\ RowKey(j) # dev_name[c]
  BY <1>1 DEF DInv, KeysApart
<1>3. dev_name[j] \in Name =>
          dev_name[j] # RowKey(c) /\ dev_name[j] # dev_name[c]
  BY <1>1 DEF DInv, KeysApart, NamesApart
<1>4. \A n \in Name : n # dev_name[c] /\ n # RowKey(c) => db'[n] = db[n]
  BY DEF RowSettles
<1> QED
  BY <1>2, <1>3, <1>4

\* So every other slot keeps its row.
LEMMA OtherKeysFlush ==
    ASSUME IInv, DInv, NEW c \in Slots, NEW r, RowSettles(c, r), OnlyStaged(c),
           Moves(c), NEW j \in Slots \ {c}
    PROVE  RowKey(j)' = RowKey(j) /\ ~Renamed(j) /\ ~Renamed(j)'
<1>1. ~Renamed(j) /\ ~Renamed(j)'
  BY DEF Moves, Renamed
<1>2. CASE to_change[j] # 5
  <2>1. /\ to_change'[j] = to_change[j] /\ dev_name'[j] = dev_name[j]
        /\ odev_name'[j] = odev_name[j]
    BY DEF OnlyStaged
  <2>2. to_change[j] \in {-1, 0, 2} \/ to_change[j] \in {1, 3, 4}
    BY <1>2 DEF IInv, TypeOK
  <2>3. CASE to_change[j] \in {-1, 0, 2}
    BY <2>1, <2>3, <1>1 DEF RowKey
  <2>4. CASE to_change[j] \in {1, 3, 4}
    BY <2>1, <2>4, <1>1 DEF RowKey
  <2> QED
    BY <1>1, <2>2, <2>3, <2>4
<1>3. CASE to_change[j] = 5
  <2>1. /\ odev_name[j] \in Name /\ odev_name[j] # Nil
        /\ odev_name[j] = dev_name[c] =>
               RowKey(j) = Nil /\ mqtt_topic[c] # omqtt_topic[j]
    BY <1>3, NilAssumption DEF DInv, SlotInv, DeleteStaged
  <2>2. RowKey(j) = IF HasRow(odev_name[j], omqtt_topic[j])
                    THEN odev_name[j] ELSE Nil
    BY <1>3 DEF RowKey
  <2>3. RowKey(j)' = IF HasRow(odev_name[j], omqtt_topic[j])'
                     THEN odev_name[j] ELSE Nil
    BY <1>3 DEF RowKey, OnlyStaged
  <2>4. HasRow(odev_name[j], omqtt_topic[j])' <=>
            db'[odev_name[j]] # Nil
            /\ db'[odev_name[j]].topic = omqtt_topic[j]
    BY <2>1 DEF HasRow, OnlyStaged
  <2>5. HasRow(odev_name[j], omqtt_topic[j]) <=>
            db[odev_name[j]] # Nil
            /\ db[odev_name[j]].topic = omqtt_topic[j]
    BY <2>1 DEF HasRow
  <2>6. RowKey(j) # Nil => RowKey(j) # RowKey(c)
    BY DEF DInv, KeysApart
  <2>7. HasRow(odev_name[j], omqtt_topic[j])'
            <=> HasRow(odev_name[j], omqtt_topic[j])
    <3>1. CASE odev_name[j] = dev_name[c]
      <4>1. ~HasRow(odev_name[j], omqtt_topic[j])
        BY <2>1, <2>2, <3>1
      <4>2. /\ db'[odev_name[j]] = r
            /\ r # Nil
            /\ \/ r.topic = mqtt_topic[c]
               \/ /\ RowKey(c) = dev_name[c]
                  /\ r.topic = db[dev_name[c]].topic
        BY <2>1, <3>1 DEF RowSettles
      <4>3. RowKey(c) = dev_name[c] => db[dev_name[c]] # Nil
        BY <2>1, <3>1, KeyHasRow, NilAssumption
      <4> QED
        BY <2>1, <2>4, <2>5, <3>1, <4>1, <4>2, <4>3
    <3>2. CASE odev_name[j] # dev_name[c]
      <4>1. CASE odev_name[j] = RowKey(c)
        <5>1. db'[odev_name[j]] = Nil
          BY <2>1, <3>2, <4>1 DEF RowSettles
        <5> QED
          BY <2>1, <2>2, <2>4, <2>6, <4>1, <5>1
      <4>2. CASE odev_name[j] # RowKey(c)
        BY <2>1, <2>4, <2>5, <3>2, <4>2 DEF RowSettles
      <4> QED
        BY <4>1, <4>2
    <3> QED
      BY <3>1, <3>2
  <2> QED
    BY <1>1, <2>2, <2>3, <2>7
<1> QED
  BY <1>1, <1>2, <1>3

\* What is staged for another slot still finds its row.
LEMMA OtherSlotsFlush ==
    ASSUME IInv, DInv, NEW c \in Slots, NEW r, RowSettles(c, r), OnlyStaged(c),
           Moves(c), NEW j \in Slots \ {c}, \A k \in Slots \ {c} :
               RowKey(k)' = RowKey(k)
    PROVE  SlotInv(j)'
<1>1. SlotInv(j) /\ ~Renamed(j) /\ ~Renamed(j)' /\ RowKey(j)' = RowKey(j)
  BY OtherKeysFlush DEF DInv
<1>2. /\ dev_name[j] \in Name0 /\ mqtt_topic'[j] = mqtt_topic[j]
      /\ dev_name' = dev_name /\ db_len' = db_len
      /\ dev_type'[j] = dev_type[j] /\ dev_state'[j] = dev_state[j]
      /\ valid_cmnds'[j] = valid_cmnds[j]
      /\ odev_name'[j] = odev_name[j] /\ omqtt_topic'[j] = omqtt_topic[j]
      /\ to_change'[j] = to_change[j]
      /\ RowOf(j)' = RowOf(j)
  BY DEF OnlyStaged, IInv, TypeOK, RowOf
<1>3. to_change[j] # -1 /\ to_change[j] # 5 => dev_name[j] \in Name
  BY <1>2 DEF IInv, StageLegal, Name0
<1>4. dev_name[j] \in Name => db'[dev_name[j]] = db[dev_name[j]]
  BY OtherRows
<1>5. to_change[j] \in {1, 3} => db'[odev_name[j]] = db[odev_name[j]]
  <2>1. to_change[j] \in {1, 3} => RowKey(j) = odev_name[j]
    BY <1>1 DEF RowKey
  <2>2. to_change[j] \in {1, 3} => odev_name[j] \in Name
    BY <1>1 DEF SlotInv, NameStaged, AllStaged
  <2> QED
    BY <2>1, <2>2, OtherRows
<1>6. AtRest(j)'
  BY <1>1, <1>2, <1>4 DEF SlotInv, AtRest, Name0
<1>7. StateStaged(j)' /\ TopicStaged(j)'
  BY <1>1, <1>2, <1>3, <1>4 DEF SlotInv, StateStaged, TopicStaged, SameDevice
<1>8. NameStaged(j)'
  BY <1>1, <1>2, <1>3, <1>4, <1>5 DEF SlotInv, NameStaged
<1>9. AllStaged(j)'
  BY <1>1, <1>2, <1>3, <1>4, <1>5 DEF SlotInv, AllStaged, SameDevice
<1>10. NewStaged(j)'
  BY <1>1, <1>2, <1>3, <1>4 DEF SlotInv, NewStaged
<1>11. DeleteStaged(j)'
  BY <1>1, <1>2 DEF SlotInv, DeleteStaged, OnlyStaged
<1> QED
  BY <1>6, <1>7, <1>8, <1>9, <1>10, <1>11 DEF SlotInv

\* A statement preserves the invariant when the row of its slot settles under the
\* name of the device and the slot itself is in order.
LEMMA FlushFrame ==
    ASSUME IInv, DInv, NEW c \in Slots, NEW r, RowSettles(c, r), OnlyStaged(c),
           Moves(c), RowKey(c)' = dev_name[c], SlotInv(c)',
           UNCHANGED <<dev_type, valid_cmnds>> \/ dev_name[c] = Nil,
           PassInv', cur' = 0 => \A j \in Slots : to_change'[j] = -1
    PROVE  DInv'
<1>1. \A j \in Slots \ {c} : RowKey(j)' = RowKey(j)
  BY OtherKeysFlush
<1>2. \A j \in Slots : SlotInv(j)'
  BY <1>1, OtherSlotsFlush
<1>3. /\ Nil \notin Name /\ dev_name[c] \in Name0 /\ RowKey(c) \in Name0
      /\ dev_name' = dev_name /\ mqtt_topic' = mqtt_topic /\ subs' = subs
  BY NilAssumption, KeyHasRow DEF IInv, TypeOK, OnlyStaged
<1>4. /\ RowsOwned /\ KeysApart /\ NamesApart /\ TopicsApart
  BY DEF DInv
<1>5. RowsOwned'
  <2> SUFFICES ASSUME NEW n \in Name, db'[n] # Nil
               PROVE  \E j \in Slots : RowKey(j)' = n
    BY DEF RowsOwned
  <2>1. CASE n = dev_name[c]
    BY <2>1
  <2>2. CASE n # dev_name[c]
    <3>1. n # RowKey(c) /\ db[n] # Nil
      BY <2>2 DEF RowSettles
    <3>2. PICK j \in Slots : RowKey(j) = n
      BY <1>4, <3>1 DEF RowsOwned
    <3> QED
      BY <1>1, <3>1, <3>2
  <2> QED
    BY <2>1, <2>2
<1>6. KeysApart'
  <2> SUFFICES ASSUME NEW i \in Slots, NEW j \in Slots, i # j, RowKey(i)' # Nil
               PROVE  RowKey(i)' # RowKey(j)' /\ RowKey(i)' # dev_name[j]
    BY <1>3 DEF KeysApart
  <2>1. CASE i = c
    BY <1>1, <1>4, <2>1 DEF KeysApart, NamesApart
  <2>2. CASE i # c /\ j = c
    BY <1>1, <1>4, <2>2 DEF KeysApart
  <2>3. CASE i # c /\ j # c
    BY <1>1, <1>4, <2>3 DEF KeysApart
  <2> QED
    BY <2>1, <2>2, <2>3
<1>7. NamesApart'
  BY <1>3, <1>4 DEF NamesApart
<1>8. TopicsApart'
  <2>1. \A n \in Name : db'[n] # Nil /\ n # dev_name[c] =>
            db'[n] = db[n] /\ n # RowKey(c)
    BY DEF RowSettles
  <2>2. dev_name[c] \in Name =>
            /\ \/ db'[dev_name[c]].topic = mqtt_topic[c]
               \/ /\ RowKey(c) = dev_name[c] /\ db[dev_name[c]] # Nil
                  /\ db'[dev_name[c]].topic = db[dev_name[c]].topic
    BY <1>3, KeyHasRow, NilAssumption DEF RowSettles
  <2>3. dev_name[c] \in Name => mqtt_topic[c] # Nil
    BY <1>3, NilAssumption DEF IInv, TypeOK, SlotComplete
  <2>4. ASSUME NEW j \in Slots, NEW n \in Name, db'[n] # Nil, n # RowKey(j)'
        PROVE  db'[n].topic # mqtt_topic[j]
    <3>1. CASE n = dev_name[c]
      <4>1. j # c
        BY <2>4, <3>1
      <4>2. n # RowKey(j)
        BY <1>1, <2>4, <4>1
      <4> QED
        BY <1>4, <2>2, <2>3, <3>1, <4>1, <4>2 DEF TopicsApart
    <3>2. CASE n # dev_name[c]
      <4>1. db'[n] = db[n] /\ n # RowKey(c) /\ n # RowKey(j)
        BY <1>1, <2>1, <2>4, <3>2
      <4> QED
        BY <1>4, <2>4, <4>1 DEF TopicsApart
    <3> QED
      BY <3>1, <3>2
  <2>5. ASSUME NEW n \in Name, db'[n] # Nil, n # dev_name[c],
               dev_name[c] \in Name
        PROVE  db'[n].topic # db'[dev_name[c]].topic
    <3>1. db'[n] = db[n] /\ n # RowKey(c) /\ db[n] # Nil
      BY <2>1, <2>5
    <3>2. db[n].topic # mqtt_topic[c]
      BY <1>4, <3>1 DEF TopicsApart
    <3>3. db[dev_name[c]] # Nil => db[n].topic # db[dev_name[c]].topic
      BY <1>4, <2>5, <3>1 DEF TopicsApart
    <3> QED
      BY <2>2, <2>5, <3>1, <3>2, <3>3
  <2>6. ASSUME NEW m \in Name, NEW n \in Name, m # n, db'[m] # Nil, db'[n] # Nil
        PROVE  db'[m].topic # db'[n].topic
    <3>1. CASE m = dev_name[c] \/ n = dev_name[c]
      BY <2>5, <2>6, <3>1
    <3>2. CASE m # dev_name[c] /\ n # dev_name[c]
      BY <1>4, <2>1, <2>6, <3>2 DEF TopicsApart
    <3> QED
      BY <3>1, <3>2
  <2> QED
    BY <1>3, <1>4, <2>4, <2>6 DEF TopicsApart
<1>9. NewInFront'
  BY DEF NewInFront
<1>10. RowsWellFormed'
  BY <1>3 DEF DInv, RowsWellFormed, RowSettles
<1>11. CommandsWellFormed' /\ SubscribedWhileListed'
  BY DEF DInv, CommandsWellFormed, SubscribedWhileListed, Occupied, OnlyStaged
<1> QED
  BY <1>2, <1>5, <1>6, <1>7, <1>8, <1>9, <1>10, <1>11 DEF DInv

----------------------------------------------------------------------------
(* The statements, one by one.                                              *)

\* A row with the fields of a device is the row of that device.
LEMMA RowEqual ==
    ASSUME NEW i \in Slots, NEW r \in Row, r.topic = mqtt_topic[i],
           r.type = dev_type[i], r.state = dev_state[i],
           r.cmnds = valid_cmnds[i]
    PROVE  r = RowOf(i)
BY DEF Row, RowOf

\* A statement that does not fail has its effect.
LEMMA ExecDone ==
    ASSUME Disciplined, NEW table, Exec(table)
    PROVE  db' = table
BY DEF Disciplined, Exec

\* The slot the thread is at, when something but a removal is staged there.
LEMMA AtListedSlot ==
    ASSUME IInv, DInv, NEW kind \in 0..4, Pending(kind)
    PROVE  /\ cur \in Slots /\ to_change[cur] = kind
           /\ dev_name[cur] \in Name /\ dev_name[cur] # Nil
           /\ mqtt_topic[cur] \in Topic /\ dev_state[cur] \in State
           /\ RowOf(cur) \in Row /\ RowOf(cur) # Nil
           /\ valid_cmnds[cur] = dev_type[cur]
           /\ SlotInv(cur)
           /\ \A n \in Name : db[n] # Nil => db[n] \in Row
<1>1. AtListed
  BY AtSlot
<1>2. RowOf(cur) \in Row
  BY <1>1 DEF AtListed, RowOf, Row
<1>3. valid_cmnds[cur] = dev_type[cur]
  BY <1>1, NilAssumption DEF AtListed, DInv, CommandsWellFormed, Occupied
<1> QED
  BY <1>1, <1>2, <1>3, NilAssumption DEF AtListed, Pending, DInv, IInv, TypeOK

\* When the last statement leaves the row as the device is, the slot is at rest.
LEMMA DoneKeeps ==
    ASSUME IInv, DInv, NEW c \in Slots, cur = c, SlotDone, KeepContents,
           dev_name[c] \in Name, RowOf(c) # Nil, valid_cmnds[c] = dev_type[c],
           odev_name'[c] = Nil, omqtt_topic'[c] = Nil,
           ForgetOldName \/ UNCHANGED odev_name,
           ForgetOldTopic \/ UNCHANGED omqtt_topic,
           RowSettles(c, RowOf(c))
    PROVE  DInv'
<1>1. /\ to_change' = [to_change EXCEPT ![cur] = -1] /\ Advance /\ stmt' = 1
      /\ UNCHANGED <<dev_name, mqtt_topic, db_len, subs>>
      /\ UNCHANGED <<dev_type, dev_state, valid_cmnds>>
  BY DEF SlotDone, KeepContents
<1>2. to_change'[c] = -1
  BY <1>1 DEF IInv, TypeOK
<1>3. OnlyStaged(c)
  BY <1>1 DEF IInv, TypeOK, OnlyStaged, ForgetOldName, ForgetOldTopic
<1>4. Moves(c)
  BY <1>1, SizeAssumption DEF Moves, Advance, Slots
<1>5. RowKey(c)' = dev_name[c]
  BY <1>1, <1>2 DEF RowKey
<1>6. SlotInv(c)'
  <2>1. db'[dev_name[c]] = RowOf(c) /\ RowOf(c)' = RowOf(c)
    BY <1>1 DEF RowSettles, RowOf
  <2>2. AtRest(c)'
    BY <1>1, <2>1 DEF AtRest
  <2> QED
    BY <1>2, <2>2
    DEF SlotInv, StateStaged, NameStaged, TopicStaged, AllStaged, NewStaged,
        DeleteStaged
<1>7. PassInv' /\ (cur' = 0 => \A j \in Slots : to_change'[j] = -1)
  BY <1>1, PassMoves
<1> QED
  BY <1>1, <1>3, <1>4, <1>5, <1>6, <1>7, FlushFrame

\* Case 0: the state joins the row.
LEMMA StateFlushEffect ==
    ASSUME IInv, DInv, Disciplined, NEW c \in Slots, c = cur, FlushState
    PROVE  /\ dev_name[c] \in Name /\ RowOf(c) # Nil /\ to_change[c] = 0
           /\ valid_cmnds[c] = dev_type[c]
           /\ odev_name[c] = Nil /\ omqtt_topic[c] = Nil
           /\ RowKey(c) = dev_name[c]
           /\ db' = [db EXCEPT ![dev_name[c]] = RowOf(c)]
<1>1. /\ dev_name[c] \in Name /\ RowOf(c) # Nil /\ to_change[c] = 0
      /\ mqtt_topic[c] \in Topic /\ dev_state[c] \in State
      /\ valid_cmnds[c] = dev_type[c] /\ SlotInv(c)
      /\ \A n \in Name : db[n] # Nil => db[n] \in Row
  BY AtListedSlot DEF FlushState
<1>2. /\ SameDevice(c, db[dev_name[c]], mqtt_topic[c])
      /\ odev_name[c] = Nil /\ omqtt_topic[c] = Nil
  BY <1>1 DEF SlotInv, StateStaged
<1>3. db' = StateSet(dev_name[c], mqtt_topic[c], dev_state[c])
  BY ExecDone DEF FlushState
<1>4. db' = [db EXCEPT ![dev_name[c]] = RowOf(c)]
  <2> DEFINE s == [db[dev_name[c]] EXCEPT !.state = dev_state[c]]
  <2>1. db[dev_name[c]] \in Row
    BY <1>1, <1>2 DEF SameDevice
  <2>2. /\ s \in Row /\ s.topic = mqtt_topic[c] /\ s.type = dev_type[c]
        /\ s.state = dev_state[c] /\ s.cmnds = valid_cmnds[c]
    BY <1>1, <1>2, <2>1 DEF SameDevice, Row
  <2>3. s = RowOf(c)
    BY <2>2, RowEqual
  <2>4. db' = [db EXCEPT ![dev_name[c]] = s]
    BY <1>1, <1>2, <1>3 DEF StateSet, HasRow, SameDevice
  <2> QED
    BY <2>3, <2>4
<1>5. RowKey(c) = dev_name[c]
  BY <1>1 DEF RowKey
<1> QED
  BY <1>1, <1>2, <1>4, <1>5

\* The slot is then at rest.
LEMMA StateFlushKeeps == IInv /\ DInv /\ Disciplined /\ FlushState => DInv'
<1> SUFFICES ASSUME IInv, DInv, Disciplined, FlushState PROVE DInv'
  OBVIOUS
<1>0. PICK c \in Slots : c = cur
  BY AtListedSlot DEF FlushState
<1>1. /\ dev_name[c] \in Name /\ RowOf(c) # Nil /\ to_change[c] = 0
      /\ valid_cmnds[c] = dev_type[c]
      /\ odev_name[c] = Nil /\ omqtt_topic[c] = Nil
      /\ RowKey(c) = dev_name[c]
      /\ db' = [db EXCEPT ![dev_name[c]] = RowOf(c)]
  BY <1>0, StateFlushEffect
<1>2. RowSettles(c, RowOf(c))
  BY <1>1, NilAssumption DEF RowSettles, RowOf, IInv, TypeOK
<1> QED
  BY <1>0, <1>1, <1>2, DoneKeeps DEF FlushState

\* Case 1: the row moves to the new name.
LEMMA NameFlushEffect ==
    ASSUME IInv, DInv, Disciplined, NEW c \in Slots, c = cur, FlushName
    PROVE  /\ dev_name[c] \in Name /\ RowOf(c) # Nil /\ to_change[c] = 1
           /\ valid_cmnds[c] = dev_type[c]
           /\ odev_name[c] \in Name /\ odev_name[c] # dev_name[c]
           /\ omqtt_topic[c] = Nil /\ db[dev_name[c]] = Nil
           /\ db[odev_name[c]] = RowOf(c) /\ RowKey(c) = odev_name[c]
           /\ db' = [db EXCEPT ![odev_name[c]] = Nil,
                               ![dev_name[c]] = RowOf(c)]
<1>1. /\ dev_name[c] \in Name /\ RowOf(c) # Nil /\ to_change[c] = 1
      /\ valid_cmnds[c] = dev_type[c] /\ SlotInv(c)
  BY AtListedSlot DEF FlushName
<1>2. /\ odev_name[c] \in Name /\ odev_name[c] # dev_name[c]
      /\ omqtt_topic[c] = Nil /\ db[odev_name[c]] = RowOf(c)
      /\ db[dev_name[c]] = Nil
  BY <1>1 DEF SlotInv, NameStaged
<1>3. db' = NameSet(odev_name[c], dev_name[c], mqtt_topic[c])
  BY ExecDone DEF FlushName
<1>4. db' = [db EXCEPT ![odev_name[c]] = Nil, ![dev_name[c]] = RowOf(c)]
  <2>1. RowOf(c).topic = mqtt_topic[c]
    BY DEF RowOf
  <2>2. HasRow(odev_name[c], mqtt_topic[c])
    BY <1>1, <1>2, <2>1 DEF HasRow
  <2> QED
    BY <1>2, <1>3, <2>2 DEF NameSet
<1>5. RowKey(c) = odev_name[c]
  BY <1>1 DEF RowKey
<1> QED
  BY <1>1, <1>2, <1>4, <1>5

\* The slot is then at rest.
LEMMA NameFlushKeeps == IInv /\ DInv /\ Disciplined /\ FlushName => DInv'
<1> SUFFICES ASSUME IInv, DInv, Disciplined, FlushName PROVE DInv'
  OBVIOUS
<1>0. PICK c \in Slots : c = cur
  BY AtListedSlot DEF FlushName
<1>1. /\ dev_name[c] \in Name /\ RowOf(c) # Nil /\ to_change[c] = 1
      /\ valid_cmnds[c] = dev_type[c]
      /\ odev_name[c] \in Name /\ odev_name[c] # dev_name[c]
      /\ omqtt_topic[c] = Nil /\ db[dev_name[c]] = Nil
      /\ db[odev_name[c]] = RowOf(c) /\ RowKey(c) = odev_name[c]
      /\ db' = [db EXCEPT ![odev_name[c]] = Nil,
                               ![dev_name[c]] = RowOf(c)]
  BY <1>0, NameFlushEffect
<1>2. RowSettles(c, RowOf(c))
  BY <1>1, NilAssumption DEF RowSettles, RowOf, IInv, TypeOK
<1>3. odev_name'[c] = Nil
  BY <1>0 DEF FlushName, ForgetOldName, IInv, TypeOK
<1> QED
  BY <1>0, <1>1, <1>2, <1>3, DoneKeeps DEF FlushName

\* Case 2: the new topic joins the row.
LEMMA TopicFlushEffect ==
    ASSUME IInv, DInv, Disciplined, NEW c \in Slots, c = cur, FlushTopic
    PROVE  /\ dev_name[c] \in Name /\ RowOf(c) # Nil /\ to_change[c] = 2
           /\ valid_cmnds[c] = dev_type[c]
           /\ odev_name[c] = Nil
           /\ RowKey(c) = dev_name[c]
           /\ db' = [db EXCEPT ![dev_name[c]] = RowOf(c)]
<1>1. /\ dev_name[c] \in Name /\ RowOf(c) # Nil /\ to_change[c] = 2
      /\ mqtt_topic[c] \in Topic
      /\ valid_cmnds[c] = dev_type[c] /\ SlotInv(c)
      /\ \A n \in Name : db[n] # Nil => db[n] \in Row
  BY AtListedSlot DEF FlushTopic
<1>2. /\ SameDevice(c, db[dev_name[c]], omqtt_topic[c])
      /\ odev_name[c] = Nil /\ db[dev_name[c]].state = dev_state[c]
  BY <1>1 DEF SlotInv, TopicStaged
<1>3. db' = TopicSet(omqtt_topic[c], mqtt_topic[c], dev_name[c])
  BY ExecDone DEF FlushTopic
<1>4. db' = [db EXCEPT ![dev_name[c]] = RowOf(c)]
  <2> DEFINE s == [db[dev_name[c]] EXCEPT !.topic = mqtt_topic[c]]
  <2>1. db[dev_name[c]] \in Row
    BY <1>1, <1>2 DEF SameDevice
  <2>2. /\ s \in Row /\ s.topic = mqtt_topic[c] /\ s.type = dev_type[c]
        /\ s.state = dev_state[c] /\ s.cmnds = valid_cmnds[c]
    BY <1>1, <1>2, <2>1 DEF SameDevice, Row
  <2>3. s = RowOf(c)
    BY <2>2, RowEqual
  <2>4. db' = [db EXCEPT ![dev_name[c]] = s]
    BY <1>1, <1>2, <1>3 DEF TopicSet, HasRow, SameDevice
  <2> QED
    BY <2>3, <2>4
<1>5. RowKey(c) = dev_name[c]
  BY <1>1 DEF RowKey
<1> QED
  BY <1>1, <1>2, <1>4, <1>5

\* The slot is then at rest.
LEMMA TopicFlushKeeps == IInv /\ DInv /\ Disciplined /\ FlushTopic => DInv'
<1> SUFFICES ASSUME IInv, DInv, Disciplined, FlushTopic PROVE DInv'
  OBVIOUS
<1>0. PICK c \in Slots : c = cur
  BY AtListedSlot DEF FlushTopic
<1>1. /\ dev_name[c] \in Name /\ RowOf(c) # Nil /\ to_change[c] = 2
      /\ valid_cmnds[c] = dev_type[c]
      /\ odev_name[c] = Nil
      /\ RowKey(c) = dev_name[c]
      /\ db' = [db EXCEPT ![dev_name[c]] = RowOf(c)]
  BY <1>0, TopicFlushEffect
<1>2. RowSettles(c, RowOf(c))
  BY <1>1, NilAssumption DEF RowSettles, RowOf, IInv, TypeOK
<1>3. omqtt_topic'[c] = Nil
  BY <1>0 DEF FlushTopic, ForgetOldTopic, IInv, TypeOK
<1> QED
  BY <1>0, <1>1, <1>2, <1>3, DoneKeeps DEF FlushTopic

\* In the middle of a full update the row is under the name of the device, and
\* only its topic and its state are still old.
LEMMA MidKeeps ==
    ASSUME IInv, DInv, NEW c \in Slots, cur = c, to_change[c] = 3,
           dev_name[c] \in Name, stmt' \in {2, 3},
           UNCHANGED <<memory, to_change, db_len, subs, cur>>,
           NEW r, RowSettles(c, r),
           SameDevice(c, r, IF stmt' = 2 THEN omqtt_topic[c] ELSE mqtt_topic[c])
    PROVE  DInv'
<1>1. /\ UNCHANGED <<dev_name, mqtt_topic, dev_type, dev_state, valid_cmnds,
                     odev_name, omqtt_topic, to_change, db_len, subs>>
      /\ cur' = c
  BY DEF memory
<1>2. OnlyStaged(c) /\ Moves(c)
  BY <1>1 DEF OnlyStaged, Moves
<1>3. Renamed(c)'
  BY <1>1 DEF Renamed
<1>4. RowKey(c)' = dev_name[c]
  BY <1>1, <1>3 DEF RowKey
<1>5. SlotInv(c)'
  <2>1. db'[dev_name[c]] = r
    BY DEF RowSettles
  <2>2. odev_name[c] \in Name /\ omqtt_topic[c] \in Topic
    BY DEF DInv, SlotInv, AllStaged
  <2>3. AllStaged(c)'
    BY <1>1, <1>3, <2>1, <2>2 DEF AllStaged, SameDevice
  <2> QED
    BY <1>1, <2>3
    DEF SlotInv, AtRest, StateStaged, NameStaged, TopicStaged, NewStaged,
        DeleteStaged
<1>6. PassInv' /\ cur' # 0
  BY <1>1, SizeAssumption DEF DInv, PassInv, Slots
<1> QED
  BY <1>1, <1>2, <1>4, <1>5, <1>6, FlushFrame

\* Case 3, first statement: the row moves to the new name, or is there already.
LEMMA AllNameEffect ==
    ASSUME IInv, DInv, Disciplined, NEW c \in Slots, c = cur, FlushAllName
    PROVE  /\ dev_name[c] \in Name /\ to_change[c] = 3 /\ stmt' = 2
           /\ valid_cmnds[c] = dev_type[c]
           /\ odev_name[c] \in Name /\ RowKey(c) = odev_name[c]
           /\ SameDevice(c, db[odev_name[c]], omqtt_topic[c])
           /\ \/ odev_name[c] = dev_name[c] /\ db' = db
              \/ /\ odev_name[c] # dev_name[c] /\ db[dev_name[c]] = Nil
                 /\ omqtt_topic[c] = mqtt_topic[c]
                 /\ db' = [db EXCEPT ![odev_name[c]] = Nil,
                                     ![dev_name[c]] = db[odev_name[c]]]
<1>1. /\ dev_name[c] \in Name /\ to_change[c] = 3 /\ stmt = 1 /\ stmt' = 2
      /\ valid_cmnds[c] = dev_type[c] /\ SlotInv(c)
  BY AtListedSlot DEF FlushAllName
<1>2. /\ odev_name[c] \in Name
      /\ SameDevice(c, db[odev_name[c]], omqtt_topic[c])
      /\ \/ odev_name[c] = dev_name[c]
         \/ omqtt_topic[c] = mqtt_topic[c] /\ db[dev_name[c]] = Nil
  BY <1>1 DEF SlotInv, AllStaged, Renamed
<1>3. db' = NameSet(odev_name[c], dev_name[c], mqtt_topic[c])
  BY ExecDone DEF FlushAllName
<1>4. RowKey(c) = odev_name[c]
  BY <1>1 DEF RowKey, Renamed
<1>5. CASE odev_name[c] = dev_name[c]
  BY <1>1, <1>2, <1>3, <1>4, <1>5 DEF NameSet
<1>6. CASE odev_name[c] # dev_name[c]
  BY <1>1, <1>2, <1>3, <1>4, <1>6 DEF NameSet, HasRow, SameDevice
<1> QED
  BY <1>5, <1>6

\* What is left of the full update is its topic and its state.
LEMMA AllNameKeeps == IInv /\ DInv /\ Disciplined /\ FlushAllName => DInv'
<1> SUFFICES ASSUME IInv, DInv, Disciplined, FlushAllName PROVE DInv'
  OBVIOUS
<1>0. PICK c \in Slots : c = cur
  BY AtListedSlot DEF FlushAllName
<1>1. /\ dev_name[c] \in Name /\ to_change[c] = 3 /\ stmt' = 2
      /\ valid_cmnds[c] = dev_type[c]
      /\ odev_name[c] \in Name /\ RowKey(c) = odev_name[c]
      /\ SameDevice(c, db[odev_name[c]], omqtt_topic[c])
  BY <1>0, AllNameEffect
<1>2. db \in [Name -> Row \cup {Nil}]
  BY DEF IInv, TypeOK
<1>3. RowSettles(c, db[odev_name[c]])
  <2>1. CASE odev_name[c] = dev_name[c] /\ db' = db
    BY <1>1, <2>1 DEF RowSettles, SameDevice
  <2>2. CASE /\ odev_name[c] # dev_name[c]
             /\ omqtt_topic[c] = mqtt_topic[c]
             /\ db' = [db EXCEPT ![odev_name[c]] = Nil,
                                 ![dev_name[c]] = db[odev_name[c]]]
    BY <1>1, <1>2, <2>2 DEF RowSettles, SameDevice
  <2> QED
    BY <1>0, <2>1, <2>2, AllNameEffect
<1> QED
  BY <1>0, <1>1, <1>3, MidKeeps DEF FlushAllName

\* Case 3, second statement: the new topic joins the row.
LEMMA AllTopicEffect ==
    ASSUME IInv, DInv, Disciplined, NEW c \in Slots, c = cur, FlushAllTopic
    PROVE  /\ dev_name[c] \in Name /\ to_change[c] = 3 /\ stmt' = 3
           /\ valid_cmnds[c] = dev_type[c]
           /\ RowKey(c) = dev_name[c] /\ db[dev_name[c]] \in Row
           /\ \E r \in Row :
                  /\ r # Nil /\ r.topic = mqtt_topic[c]
                  /\ r.type = dev_type[c] /\ r.cmnds = valid_cmnds[c]
                  /\ r.state = db[dev_name[c]].state
                  /\ db' = [db EXCEPT ![dev_name[c]] = r]
<1>1. /\ dev_name[c] \in Name /\ to_change[c] = 3 /\ stmt = 2 /\ stmt' = 3
      /\ mqtt_topic[c] \in Topic
      /\ valid_cmnds[c] = dev_type[c] /\ SlotInv(c)
      /\ \A n \in Name : db[n] # Nil => db[n] \in Row
  BY AtListedSlot DEF FlushAllTopic
<1>2. Renamed(c) /\ SameDevice(c, db[dev_name[c]], omqtt_topic[c])
  BY <1>1 DEF SlotInv, AllStaged, Renamed
<1>3. db' = TopicSet(omqtt_topic[c], mqtt_topic[c], dev_name[c])
  BY ExecDone DEF FlushAllTopic
<1>4. RowKey(c) = dev_name[c] /\ db[dev_name[c]] \in Row
  BY <1>1, <1>2 DEF RowKey, SameDevice
<1> DEFINE r == [db[dev_name[c]] EXCEPT !.topic = mqtt_topic[c]]
<1>5. db' = [db EXCEPT ![dev_name[c]] = r]
  BY <1>1, <1>2, <1>3 DEF TopicSet, HasRow, SameDevice
<1>6. /\ r \in Row /\ r.topic = mqtt_topic[c] /\ r.type = dev_type[c]
      /\ r.cmnds = valid_cmnds[c] /\ r.state = db[dev_name[c]].state
  BY <1>1, <1>2, <1>4 DEF Row, SameDevice
<1>7. r # Nil
  BY <1>6, NilAssumption
<1> HIDE DEF r
<1> QED
  BY <1>1, <1>4, <1>5, <1>6, <1>7

\* What is left of the full update is its state.
LEMMA AllTopicKeeps == IInv /\ DInv /\ Disciplined /\ FlushAllTopic => DInv'
<1> SUFFICES ASSUME IInv, DInv, Disciplined, FlushAllTopic PROVE DInv'
  OBVIOUS
<1>0. PICK c \in Slots : c = cur
  BY AtListedSlot DEF FlushAllTopic
<1>1. /\ dev_name[c] \in Name /\ to_change[c] = 3 /\ stmt' = 3
      /\ valid_cmnds[c] = dev_type[c] /\ RowKey(c) = dev_name[c]
  BY <1>0, AllTopicEffect
<1>2. PICK r \in Row :
          /\ r # Nil /\ r.topic = mqtt_topic[c]
          /\ r.type = dev_type[c] /\ r.cmnds = valid_cmnds[c]
          /\ db' = [db EXCEPT ![dev_name[c]] = r]
  BY <1>0, AllTopicEffect
<1>3. RowSettles(c, r)
  BY <1>1, <1>2 DEF RowSettles, IInv, TypeOK
<1>4. SameDevice(c, r, mqtt_topic[c])
  BY <1>2 DEF SameDevice
<1> QED
  BY <1>0, <1>1, <1>3, <1>4, MidKeeps DEF FlushAllTopic

\* Case 3, last statement: the state joins the row.
LEMMA AllStateEffect ==
    ASSUME IInv, DInv, Disciplined, NEW c \in Slots, c = cur, FlushAllState
    PROVE  /\ dev_name[c] \in Name /\ RowOf(c) # Nil /\ to_change[c] = 3
           /\ valid_cmnds[c] = dev_type[c]
           /\ RowKey(c) = dev_name[c]
           /\ db' = [db EXCEPT ![dev_name[c]] = RowOf(c)]
<1>1. /\ dev_name[c] \in Name /\ RowOf(c) # Nil /\ to_change[c] = 3 /\ stmt = 3
      /\ mqtt_topic[c] \in Topic /\ dev_state[c] \in State
      /\ valid_cmnds[c] = dev_type[c] /\ SlotInv(c)
      /\ \A n \in Name : db[n] # Nil => db[n] \in Row
  BY AtListedSlot DEF FlushAllState
<1>2. Renamed(c) /\ SameDevice(c, db[dev_name[c]], mqtt_topic[c])
  BY <1>1 DEF SlotInv, AllStaged, Renamed
<1>3. db' = StateSet(dev_name[c], mqtt_topic[c], dev_state[c])
  BY ExecDone DEF FlushAllState
<1>4. db' = [db EXCEPT ![dev_name[c]] = RowOf(c)]
  <2> DEFINE s == [db[dev_name[c]] EXCEPT !.state = dev_state[c]]
  <2>1. db[dev_name[c]] \in Row
    BY <1>1, <1>2 DEF SameDevice
  <2>2. /\ s \in Row /\ s.topic = mqtt_topic[c] /\ s.type = dev_type[c]
        /\ s.state = dev_state[c] /\ s.cmnds = valid_cmnds[c]
    BY <1>1, <1>2, <2>1 DEF SameDevice, Row
  <2>3. s = RowOf(c)
    BY <2>2, RowEqual
  <2>4. db' = [db EXCEPT ![dev_name[c]] = s]
    BY <1>1, <1>2, <1>3 DEF StateSet, HasRow, SameDevice
  <2> QED
    BY <2>3, <2>4
<1>5. RowKey(c) = dev_name[c]
  BY <1>1, <1>2 DEF RowKey
<1> QED
  BY <1>1, <1>4, <1>5

\* The slot is then at rest.
LEMMA AllStateKeeps == IInv /\ DInv /\ Disciplined /\ FlushAllState => DInv'
<1> SUFFICES ASSUME IInv, DInv, Disciplined, FlushAllState PROVE DInv'
  OBVIOUS
<1>0. PICK c \in Slots : c = cur
  BY AtListedSlot DEF FlushAllState
<1>1. /\ dev_name[c] \in Name /\ RowOf(c) # Nil /\ to_change[c] = 3
      /\ valid_cmnds[c] = dev_type[c]
      /\ RowKey(c) = dev_name[c]
      /\ db' = [db EXCEPT ![dev_name[c]] = RowOf(c)]
  BY <1>0, AllStateEffect
<1>2. RowSettles(c, RowOf(c))
  BY <1>1, NilAssumption DEF RowSettles, RowOf, IInv, TypeOK
<1>3. odev_name'[c] = Nil /\ omqtt_topic'[c] = Nil
  BY <1>0 DEF FlushAllState, ForgetOldName, ForgetOldTopic, IInv, TypeOK
<1> QED
  BY <1>0, <1>1, <1>2, <1>3, DoneKeeps DEF FlushAllState

\* Case 4: the table is not full, so the row is inserted under the new name.
LEMMA InsertEffect ==
    ASSUME IInv, DInv, Disciplined, NEW c \in Slots, c = cur, FlushInsert
    PROVE  /\ dev_name[c] \in Name /\ RowOf(c) # Nil /\ to_change[c] = 4
           /\ valid_cmnds[c] = dev_type[c]
           /\ odev_name[c] = Nil /\ omqtt_topic[c] = Nil
           /\ RowKey(c) = Nil
           /\ db' = [db EXCEPT ![dev_name[c]] = RowOf(c)]
<1>1. /\ dev_name[c] \in Name /\ RowOf(c) # Nil /\ to_change[c] = 4
      /\ valid_cmnds[c] = dev_type[c] /\ SlotInv(c)
  BY AtListedSlot DEF FlushInsert
<1>2. /\ odev_name[c] = Nil /\ omqtt_topic[c] = Nil
      /\ db[dev_name[c]] = Nil /\ db_len < MaxDev
  BY <1>1 DEF SlotInv, NewStaged
<1>3. db' = [db EXCEPT ![dev_name[c]] = RowOf(c)]
  BY <1>2, ExecDone DEF FlushInsert, Inserted
<1>4. RowKey(c) = Nil
  BY <1>1 DEF RowKey
<1> QED
  BY <1>1, <1>2, <1>3, <1>4

\* The slot is then at rest.
LEMMA InsertKeeps == IInv /\ DInv /\ Disciplined /\ FlushInsert => DInv'
<1> SUFFICES ASSUME IInv, DInv, Disciplined, FlushInsert PROVE DInv'
  OBVIOUS
<1>0. PICK c \in Slots : c = cur
  BY AtListedSlot DEF FlushInsert
<1>1. /\ dev_name[c] \in Name /\ RowOf(c) # Nil /\ to_change[c] = 4
      /\ valid_cmnds[c] = dev_type[c]
      /\ odev_name[c] = Nil /\ omqtt_topic[c] = Nil
      /\ RowKey(c) = Nil
      /\ db' = [db EXCEPT ![dev_name[c]] = RowOf(c)]
  BY <1>0, InsertEffect
<1>2. RowSettles(c, RowOf(c))
  BY <1>1, NilAssumption DEF RowSettles, RowOf, IInv, TypeOK
<1> QED
  BY <1>0, <1>1, <1>2, DoneKeeps DEF FlushInsert

\* Case 5: the row goes, when there is one, and the slot is free.
LEMMA RemoveEffect ==
    ASSUME IInv, DInv, Disciplined, NEW c \in Slots, c = cur, FlushDelete
    PROVE  /\ to_change[c] = 5 /\ dev_name[c] = Nil
           /\ RowKey(c) # Nil => RowKey(c) = odev_name[c]
           /\ \A n \in Name : db'[n] = IF n = RowKey(c) THEN Nil ELSE db[n]
<1>1. to_change[c] = 5 /\ dev_name[c] = Nil
  BY UnlistedSlot DEF FlushDelete, Pending
<1>2. db' = Deleted(odev_name[c], omqtt_topic[c])
  BY ExecDone DEF FlushDelete, OldKey
<1>3. RowKey(c) = IF HasRow(odev_name[c], omqtt_topic[c])
                  THEN odev_name[c] ELSE Nil
  BY <1>1 DEF RowKey
<1>4. \A n \in Name : n # Nil
  BY NilAssumption
<1>5. \A n \in Name : db'[n] = IF n = RowKey(c) THEN Nil ELSE db[n]
  BY <1>2, <1>3, <1>4 DEF Deleted, HasRow, IInv, TypeOK
<1> QED
  BY <1>1, <1>3, <1>5

\* The free slot has no row and nothing staged.
LEMMA RemoveKeeps == IInv /\ DInv /\ Disciplined /\ FlushDelete => DInv'
<1> SUFFICES ASSUME IInv, DInv, Disciplined, FlushDelete PROVE DInv'
  OBVIOUS
<1>0. PICK c \in Slots : c = cur
  BY DEF FlushDelete, Pending, IInv, TypeOK, Slots
<1>1. to_change[c] = 5 /\ dev_name[c] = Nil
  BY <1>0, RemoveEffect
<1>2. /\ to_change' = [to_change EXCEPT ![cur] = -1] /\ Advance /\ stmt' = 1
      /\ UNCHANGED <<dev_name, mqtt_topic, db_len, subs>>
  BY DEF FlushDelete, SlotDone
<1>3. to_change'[c] = -1 /\ dev_name'[c] = Nil
  BY <1>0, <1>1, <1>2 DEF IInv, TypeOK
<1>4. OnlyStaged(c)
  BY <1>0, <1>2
  DEF IInv, TypeOK, OnlyStaged, FlushDelete, ForgetOldName, ForgetOldTopic,
      ForgetContents
<1>5. Moves(c)
  BY <1>0, <1>2, SizeAssumption DEF Moves, Advance, Slots
<1>6. RowKey(c)' = dev_name[c]
  BY <1>1, <1>3 DEF RowKey
<1>7. RowSettles(c, Nil)
  BY <1>0, <1>1, RemoveEffect, NilAssumption DEF RowSettles
<1>8. SlotInv(c)'
  BY <1>3
  DEF SlotInv, AtRest, StateStaged, NameStaged, TopicStaged, AllStaged,
      NewStaged, DeleteStaged
<1>9. PassInv' /\ (cur' = 0 => \A j \in Slots : to_change'[j] = -1)
  BY <1>0, <1>2, PassMoves
<1> QED
  BY <1>1, <1>4, <1>5, <1>6, <1>7, <1>8, <1>9, FlushFrame

\* Every step of a pass preserves the invariant.
LEMMA FlushKeeps == IInv /\ DInv /\ Disciplined /\ Flush => DInv'
BY NothingKeeps, StateFlushKeeps, NameFlushKeeps, TopicFlushKeeps,
   AllNameKeeps, AllTopicKeeps, AllStateKeeps, InsertKeeps, RemoveKeeps
   DEF Flush

----------------------------------------------------------------------------
(* Restarts.                                                                *)

\* Every row belongs to a slot, so all rows fit in memory and each is loaded.
LEMMA AllLoaded ==
    ASSUME DInv, NEW f \in Loads
    PROVE  \A n \in Keys : \E i \in 1..LoadCount : f[i] = n
<1>1. IsFiniteSet(Slots) /\ Cardinality(Slots) = MaxDev
  BY OccupiedFinite
<1>2. \A n \in Keys : \E i \in Slots : RowKey(i) = n
  BY DEF DInv, RowsOwned, Keys
<1> DEFINE slot == [n \in Keys |-> CHOOSE i \in Slots : RowKey(i) = n]
<1>3. \A n \in Keys : slot[n] \in Slots /\ RowKey(slot[n]) = n
  BY <1>2
<1>4. slot \in Injection(Keys, Slots)
  <2>1. slot \in [Keys -> Slots]
    BY <1>3
  <2>2. \A m, n \in Keys : slot[m] = slot[n] => m = n
    BY <1>3
  <2> HIDE DEF slot
  <2> QED
    BY <2>1, <2>2 DEF Injection, IsInjective
<1>5. IsFiniteSet(Keys) /\ Cardinality(Keys) <= MaxDev
  BY <1>1, <1>4, FS_Injection
<1>6. LoadCount = Cardinality(Keys) /\ LoadCount \in Nat
  BY <1>5, FS_CardinalityType, SizeAssumption DEF LoadCount
<1>7. f \in Injection(1..LoadCount, Keys)
  BY DEF Loads, Injection, IsInjective
<1>8. Cardinality(1..LoadCount) = Cardinality(Keys)
  BY <1>6, FS_Interval
<1>9. f \in Surjection(1..LoadCount, Keys)
  BY <1>5, <1>7, <1>8, FS_Injection
<1> QED
  BY <1>9 DEF Surjection

\* After a restart the list is what the rows say, and nothing is staged.
LEMMA RestartKeeps ==
    ASSUME IInv, DInv, NEW f \in Loads, Restart(f)
    PROVE  DInv'
<1>1. /\ LoadCount \in 0..MaxDev /\ 1..LoadCount \subseteq Slots
      /\ \A n \in Keys : \E i \in 1..LoadCount : f[i] = n
      /\ \A i, j \in 1..LoadCount : f[i] = f[j] => i = j
      /\ \A i \in 1..LoadCount : f[i] \in Name /\ db[f[i]] # Nil
  BY LoadCountRange, AllLoaded DEF Loads, Keys
<1>2. \A n \in Name : db[n] # Nil => db[n] \in Row
  BY DEF IInv, TypeOK
<1>3. Nil \notin Name /\ Nil \notin Topic
  BY NilAssumption
<1>4. \A i \in Slots :
         /\ to_change'[i] = -1 /\ odev_name'[i] = Nil /\ omqtt_topic'[i] = Nil
         /\ \/ /\ i \in 1..LoadCount
               /\ dev_name'[i] = f[i]
               /\ mqtt_topic'[i] = db[f[i]].topic
               /\ dev_type'[i] = db[f[i]].type
               /\ dev_state'[i] = db[f[i]].state
               /\ valid_cmnds'[i] = db[f[i]].cmnds
            \/ /\ i \notin 1..LoadCount
               /\ dev_name'[i] = Nil /\ mqtt_topic'[i] = Nil
  BY <1>1 DEF Restart, Slots
<1>5. cur' = 0 /\ stmt' = 1 /\ db' = db
  BY DEF Restart
<1>6. \A i \in Slots : RowKey(i)' = dev_name'[i]
  BY <1>4 DEF RowKey
<1>7. \A i \in Slots : SlotInv(i)'
  <2> SUFFICES ASSUME NEW i \in Slots, i \in 1..LoadCount
               PROVE  db[f[i]] = RowOf(i)'
    BY <1>4, <1>5
    DEF SlotInv, AtRest, StateStaged, NameStaged, TopicStaged, AllStaged,
        NewStaged, DeleteStaged
  <2>1. db[f[i]] \in Row
    BY <1>1, <1>2
  <2> QED
    BY <1>4, <2>1 DEF RowOf, Row
<1>8. RowsOwned'
  BY <1>1, <1>4, <1>5, <1>6 DEF RowsOwned, Keys
<1>9. NamesApart'
  BY <1>1, <1>4 DEF NamesApart
<1>10. KeysApart'
  BY <1>6, <1>9 DEF NamesApart, KeysApart
<1>11. TopicsApart'
  <2>1. \A m, n \in Name :
           m # n /\ db[m] # Nil /\ db[n] # Nil => db[m].topic # db[n].topic
    BY DEF DInv, TopicsApart
  <2>2. \A n \in Name : db[n] # Nil => db[n].topic # Nil
    BY <1>2, <1>3 DEF Row
  <2>3. \A i \in Slots : mqtt_topic'[i] = IF dev_name'[i] = Nil THEN Nil
                                         ELSE db[dev_name'[i]].topic
    BY <1>1, <1>3, <1>4
  <2>4. \A i \in Slots : dev_name'[i] # Nil =>
            dev_name'[i] \in Name /\ db[dev_name'[i]] # Nil
    BY <1>1, <1>4
  <2> QED
    BY <1>5, <1>6, <1>9, <2>1, <2>2, <2>3, <2>4 DEF TopicsApart, NamesApart
<1>12. NewInFront' /\ PassInv'
  BY <1>4, <1>5, SizeAssumption DEF NewInFront, PassInv, Slots
<1>13. RowsWellFormed'
  BY <1>5 DEF DInv, RowsWellFormed
<1>14. CommandsWellFormed'
  BY <1>1, <1>4 DEF DInv, RowsWellFormed, CommandsWellFormed, Occupied
<1>15. SubscribedWhileListed'
  <2>1. subs' = {db[f[i]].topic : i \in 1..LoadCount}
    BY DEF Restart
  <2> QED
    BY <1>4, <2>1 DEF SubscribedWhileListed, Occupied
<1> QED
  BY <1>7, <1>8, <1>9, <1>10, <1>11, <1>12, <1>13, <1>14, <1>15 DEF DInv

----------------------------------------------------------------------------
(* The invariant and what follows from it.                                  *)

\* An empty table and an empty database satisfy the invariant.
LEMMA DisciplinedInit == Init => DInv
<1> SUFFICES ASSUME Init PROVE DInv
  OBVIOUS
<1>1. /\ \A i \in Slots :
             /\ dev_name[i] = Nil /\ mqtt_topic[i] = Nil /\ to_change[i] = -1
      /\ \A n \in Name : db[n] = Nil
      /\ cur = 0 /\ stmt = 1
  BY DEF Init
<1>2. \A i \in Slots : RowKey(i) = Nil
  BY <1>1 DEF RowKey
<1>3. \A i \in Slots : SlotInv(i)
  BY <1>1
  DEF SlotInv, AtRest, StateStaged, NameStaged, TopicStaged, AllStaged,
      NewStaged, DeleteStaged
<1>4. RowsOwned /\ KeysApart /\ NamesApart /\ TopicsApart
  BY <1>1, <1>2 DEF RowsOwned, KeysApart, NamesApart, TopicsApart
<1>5. NewInFront /\ PassInv
  BY <1>1, SizeAssumption DEF NewInFront, PassInv, Slots
<1>6. RowsWellFormed /\ CommandsWellFormed /\ SubscribedWhileListed
  BY <1>1
  DEF RowsWellFormed, CommandsWellFormed, SubscribedWhileListed, Occupied
<1> QED
  BY <1>3, <1>4, <1>5, <1>6 DEF DInv

\* Every step preserves it.
LEMMA DisciplinedNext ==
    IInv /\ DInv /\ Disciplined /\ [Next]_vars => DInv'
<1> SUFFICES ASSUME IInv, DInv, Disciplined, [Next]_vars PROVE DInv'
  OBVIOUS
<1>1. ASSUME NEW i \in Slots, Request(i) \/ Message(i) PROVE DInv'
  BY <1>1, RequestKeeps
<1>2. CASE Wake
  BY <1>2, WakeKeeps
<1>3. CASE Flush
  BY <1>3, FlushKeeps
<1>4. ASSUME NEW f \in Loads, Restart(f) PROVE DInv'
  BY <1>4, RestartKeeps
<1>5. CASE UNCHANGED vars
  <2>1. UNCHANGED <<dev_name, mqtt_topic, dev_type, dev_state, valid_cmnds,
                    odev_name, omqtt_topic, to_change, db_len, subs, db, cur,
                    stmt>>
    BY <1>5 DEF vars
  <2>2. \A j \in Slots : RowKey(j)' = RowKey(j)
    BY <2>1 DEF RowKey, HasRow, Renamed
  <2>3. \A j \in Slots : SlotInv(j)'
    BY <2>1, <2>2
    DEF DInv, SlotInv, AtRest, StateStaged, NameStaged, TopicStaged,
        AllStaged, NewStaged, DeleteStaged, Renamed, RowOf, SameDevice
  <2>4. RowsOwned' /\ KeysApart' /\ NamesApart' /\ TopicsApart'
    BY <2>1, <2>2 DEF DInv, RowsOwned, KeysApart, NamesApart, TopicsApart
  <2>5. NewInFront' /\ PassInv'
    BY <2>1, <2>2 DEF DInv, NewInFront, PassInv
  <2>6. RowsWellFormed' /\ CommandsWellFormed' /\ SubscribedWhileListed'
    BY <2>1 DEF DInv, RowsWellFormed, CommandsWellFormed,
                SubscribedWhileListed, Occupied
  <2> QED
    BY <2>3, <2>4, <2>5, <2>6 DEF DInv
<1> QED
  BY <1>1, <1>2, <1>3, <1>4, <1>5 DEF Next

(* The inductive invariant of a hub whose clients keep the disciplines.      *)
THEOREM DisciplinedInvariance ==
    ASSUME Disciplined PROVE Spec => [](IInv /\ DInv)
<1>1. Init => IInv /\ DInv
  BY InitEstablishes, DisciplinedInit
<1>2. (IInv /\ DInv) /\ [Next]_vars => (IInv /\ DInv)'
  BY NextPreserves, DisciplinedNext
<1> QED
  BY <1>1, <1>2, PTL DEF Spec

(* When nothing is staged for a listed device, its row holds what memory     *)
(* holds, whatever clients who keep the disciplines did before and wherever  *)
(* the process was restarted.                                                *)
THEOREM RowsSynced == ASSUME Disciplined PROVE Spec => []SyncedRow
<1>1. IInv /\ DInv => SyncedRow
  BY NilAssumption
  DEF IInv, TypeOK, DInv, SlotInv, AtRest, SyncedRow, Occupied, Key, Name0
<1> QED
  BY <1>1, DisciplinedInvariance, PTL

(* The hub hears every listed device.                                        *)
THEOREM ListedSubscribed ==
    ASSUME Disciplined PROVE Spec => []SubscribedWhileListed
<1>1. DInv => SubscribedWhileListed
  BY DEF DInv
<1> QED
  BY <1>1, DisciplinedInvariance, PTL

----------------------------------------------------------------------------
(* Commands: of the disciplines only "written" is needed, and statements may *)
(* fail.                                                                     *)

\* A listed device has the commands of its type, and so has every row.
CommandsInv == CommandsWellFormed /\ RowsWellFormed

\* A row that is written has the commands of its type.
LEMMA RowsStayWellFormed ==
    ASSUME IInv, CommandsInv, Flush
    PROVE  RowsWellFormed'
<1>1. /\ db \in [Name -> Row \cup {Nil}]
      /\ \A n \in Name : db[n] # Nil => db[n] \in Row /\ db[n].cmnds = db[n].type
      /\ \A n, t : HasRow(n, t) => n \in Name /\ db[n] # Nil
  BY DEF IInv, TypeOK, CommandsInv, RowsWellFormed, HasRow
<1>2. ASSUME NEW table, Exec(table),
             \A n \in Name : table[n] # Nil => table[n].cmnds = table[n].type
      PROVE  RowsWellFormed'
  BY <1>1, <1>2 DEF Exec, RowsWellFormed
<1>3. ASSUME NEW n, NEW t, NEW s, Exec(StateSet(n, t, s))
      PROVE  RowsWellFormed'
  <2>1. CASE HasRow(n, t)
    <3> DEFINE r == [db[n] EXCEPT !.state = s]
    <3>1. r.cmnds = r.type
      BY <1>1, <2>1 DEF Row
    <3>2. StateSet(n, t, s) = [db EXCEPT ![n] = r]
      BY <2>1 DEF StateSet
    <3> HIDE DEF r
    <3> QED
      BY <1>1, <1>2, <1>3, <2>1, <3>1, <3>2
  <2>2. CASE ~HasRow(n, t)
    BY <1>1, <1>2, <1>3, <2>2 DEF StateSet
  <2> QED
    BY <2>1, <2>2
<1>4. ASSUME NEW old, NEW new, NEW n, Exec(TopicSet(old, new, n))
      PROVE  RowsWellFormed'
  <2>1. CASE HasRow(n, old)
    <3> DEFINE r == [db[n] EXCEPT !.topic = new]
    <3>1. r.cmnds = r.type
      BY <1>1, <2>1 DEF Row
    <3>2. TopicSet(old, new, n) = [db EXCEPT ![n] = r]
      BY <2>1 DEF TopicSet
    <3> HIDE DEF r
    <3> QED
      BY <1>1, <1>2, <1>4, <2>1, <3>1, <3>2
  <2>2. CASE ~HasRow(n, old)
    BY <1>1, <1>2, <1>4, <2>2 DEF TopicSet
  <2> QED
    BY <2>1, <2>2
<1>5. ASSUME NEW old, NEW new, NEW t, Exec(NameSet(old, new, t))
      PROVE  RowsWellFormed'
  <2>1. \A n \in Name : NameSet(old, new, t)[n] # Nil =>
            NameSet(old, new, t)[n].cmnds = NameSet(old, new, t)[n].type
    BY <1>1 DEF NameSet
  <2> QED
    BY <1>2, <1>5, <2>1
<1>6. ASSUME NEW n, NEW t, Exec(Deleted(n, t)) PROVE RowsWellFormed'
  <2>1. \A m \in Name : Deleted(n, t)[m] # Nil =>
            Deleted(n, t)[m].cmnds = Deleted(n, t)[m].type
    BY <1>1 DEF Deleted
  <2> QED
    BY <1>2, <1>6, <2>1
<1>7. CASE FlushInsert
  <2>1. AtListed
    BY <1>7, AtSlot DEF FlushInsert
  <2>2. RowOf(cur).cmnds = RowOf(cur).type
    BY <2>1, NilAssumption
    DEF RowOf, AtListed, CommandsInv, CommandsWellFormed, Occupied
  <2>3. \A n \in Name : Inserted(dev_name[cur], RowOf(cur))[n] # Nil =>
            Inserted(dev_name[cur], RowOf(cur))[n].cmnds
                = Inserted(dev_name[cur], RowOf(cur))[n].type
    BY <1>1, <2>2 DEF Inserted
  <2>4. Exec(Inserted(dev_name[cur], RowOf(cur))) \/ UNCHANGED db
    BY <1>7 DEF FlushInsert
  <2> QED
    BY <1>1, <1>2, <2>3, <2>4 DEF RowsWellFormed
<1>8. CASE FlushNothing
  BY <1>1, <1>8 DEF FlushNothing, RowsWellFormed
<1> QED
  BY <1>3, <1>4, <1>5, <1>6, <1>7, <1>8
  DEF Flush, FlushState, FlushName, FlushTopic, FlushAllName, FlushAllTopic,
      FlushAllState, FlushDelete

\* What the commands of the listed devices need of a step.
LEMMA CommandsNext ==
    ASSUME "written" \in Env, IInv, CommandsInv, [Next]_vars
    PROVE  CommandsInv'
<1> USE DEF CommandsInv
<1>1. \A i \in Slots : dev_name[i] # Nil => valid_cmnds[i] = dev_type[i]
  BY DEF CommandsWellFormed, Occupied
<1>2. ASSUME NEW i \in Slots, NEW n \in Name, NEW t \in Topic, NEW ty \in Types,
             add_device(n, t, ty, i)
      PROVE  CommandsInv'
  <2>1. to_change[i] = -1 /\ dev_name[i] = Nil
    BY <1>2, UnlistedSlot DEF add_device, Written, FirstFree
  <2>2. valid_cmnds[i] = Nil
    BY <2>1 DEF IInv, FreeSlotPristine
  <2>3. /\ valid_cmnds'[i] = ty /\ dev_type'[i] = ty /\ db' = db
        /\ \A j \in Slots \ {i} :
               /\ dev_name'[j] = dev_name[j] /\ dev_type'[j] = dev_type[j]
               /\ valid_cmnds'[j] = valid_cmnds[j]
    BY <1>2, <2>2 DEF add_device, IInv, TypeOK
  <2> QED
    BY <1>1, <2>3 DEF CommandsWellFormed, RowsWellFormed, Occupied
<1>3. ASSUME NEW i \in Slots, Request(i) \/ Message(i),
             UNCHANGED <<db, dev_type, valid_cmnds>>,
             \A j \in Slots : dev_name'[j] # Nil => dev_name[j] # Nil
      PROVE  CommandsInv'
  BY <1>1, <1>3 DEF CommandsWellFormed, RowsWellFormed, Occupied
<1>4. ASSUME NEW i \in Slots, Request(i) \/ Message(i)
      PROVE  CommandsInv'
  <2>1. ASSUME NEW arg \in Name, delete_device(arg, i) PROVE CommandsInv'
    <3>1. \A j \in Slots : dev_name'[j] # Nil => dev_name[j] # Nil
      BY <2>1 DEF delete_device, IInv, TypeOK
    <3> QED
      BY <1>3, <1>4, <2>1, <3>1 DEF delete_device
  <2>2. ASSUME NEW arg \in Name, NEW n \in Name, update_name(arg, n, i)
        PROVE  CommandsInv'
    <3>1. dev_name[i] # Nil
      BY <2>2, FoundOccupied, NilAssumption DEF update_name
    <3>2. \A j \in Slots : dev_name'[j] # Nil => dev_name[j] # Nil
      BY <2>2, <3>1 DEF update_name, IInv, TypeOK
    <3> QED
      BY <1>3, <1>4, <2>2, <3>2 DEF update_name
  <2>3. ASSUME NEW arg \in Name, NEW t \in Topic, update_topic(arg, t, i)
        PROVE  CommandsInv'
    BY <1>3, <1>4, <2>3 DEF update_topic
  <2>4. ASSUME NEW arg \in Name, update_state(arg, i) PROVE CommandsInv'
    BY <1>3, <1>4, <2>4 DEF update_state
  <2>5. ASSUME NEW t \in Topic, NEW s \in State, publish_kl_callback(t, s, i)
        PROVE  CommandsInv'
    BY <1>3, <1>4, <2>5 DEF publish_kl_callback
  <2> QED
    BY <1>2, <1>4, <2>1, <2>2, <2>3, <2>4, <2>5 DEF Request, Message
<1>5. CASE Flush
  <2>1. RowsWellFormed'
    BY <1>5, RowsStayWellFormed
  <2>2. ASSUME UNCHANGED <<dev_name, dev_type, valid_cmnds>>
        PROVE  CommandsWellFormed'
    BY <1>1, <2>2 DEF CommandsWellFormed, Occupied
  <2>3. CASE FlushDelete
    <3>1. dev_name[cur] = Nil
      BY <2>3 DEF FlushDelete, Pending, IInv, TypeOK, StageLegal, Slots
    <3>2. \A j \in Slots : dev_name[j] # Nil =>
              dev_type'[j] = dev_type[j] /\ valid_cmnds'[j] = valid_cmnds[j]
      BY <2>3, <3>1 DEF FlushDelete, ForgetContents, IInv, TypeOK
    <3> QED
      BY <1>1, <2>1, <2>3, <3>2
      DEF FlushDelete, SlotDone, CommandsWellFormed, Occupied
  <2> QED
    BY <1>5, <2>1, <2>2, <2>3
    DEF Flush, FlushNothing, FlushState, FlushName, FlushTopic, FlushAllName,
        FlushAllTopic, FlushAllState, FlushInsert, SlotDone, KeepContents,
        memory
<1>6. ASSUME NEW f \in Loads, Restart(f) PROVE CommandsInv'
  <2>1. \A i \in Slots : dev_name'[i] # Nil =>
            /\ i \in 1..LoadCount
            /\ dev_type'[i] = db[f[i]].type /\ valid_cmnds'[i] = db[f[i]].cmnds
    BY <1>6, LoadCountRange DEF Restart, Slots
  <2>2. \A i \in 1..LoadCount : f[i] \in Name /\ db[f[i]] # Nil
    BY DEF Loads, Keys
  <2>3. db' = db
    BY <1>6 DEF Restart
  <2> QED
    BY <2>1, <2>2, <2>3 DEF CommandsWellFormed, RowsWellFormed, Occupied
<1>7. CASE Wake \/ UNCHANGED vars
  BY <1>1, <1>7
  DEF Wake, vars, memory, CommandsWellFormed, RowsWellFormed, Occupied
<1> QED
  BY <1>4, <1>5, <1>6, <1>7 DEF Next

(* A listed device accepts the commands of its type and no others, as long   *)
(* as a removal is written before its slot is used again, even when SQL      *)
(* statements fail: no list is appended to what a deleted device left.       *)
THEOREM CommandsCorrect ==
    ASSUME "written" \in Env PROVE Spec => []CommandsWellFormed
<1>1. Init => CommandsInv
  BY DEF Init, CommandsInv, CommandsWellFormed, RowsWellFormed, Occupied
<1>2. IInv /\ CommandsInv /\ [Next]_vars => CommandsInv'
  BY CommandsNext
<1>3. CommandsInv => CommandsWellFormed
  BY DEF CommandsInv
<1> QED
  BY <1>1, <1>2, <1>3, Invariance, PTL DEF Spec

----------------------------------------------------------------------------
(* The table implements a list with a copy written behind it.                *)

PendingNames == Name \cap UNION {{dev_name[i], odev_name[i]} : i \in Staged}

\* The names of a slot with something staged are pending.
LEMMA PendingOf ==
    \A n : n \in PendingNames <=>
        n \in Name /\ \E i \in Slots :
            to_change[i] # -1 /\ (n = dev_name[i] \/ n = odev_name[i])
<1>1. \A n : n \in UNION {{dev_name[i], odev_name[i]} : i \in Staged} <=>
          \E i \in Staged : n \in {dev_name[i], odev_name[i]}
  OBVIOUS
<1> QED
  BY <1>1 DEF PendingNames, Staged

\* What the list says of a name: the entry of its only slot, or nothing.
LEMMA ListedOf ==
    ASSUME IInv, DInv
    PROVE  /\ \A i \in Slots : dev_name[i] # Nil =>
                  ListedRow(dev_name[i]) = RowOf(i) /\ RowOf(i) \in Row
           /\ \A n \in Name : (\A i \in Slots : dev_name[i] # n) =>
                  ListedRow(n) = Nil
           /\ \A n \in Name : ListedRow(n) \in Row \cup {Nil}
<1>1. \A i \in Slots : dev_name[i] # Nil => RowOf(i) \in Row
  BY DEF IInv, TypeOK, SlotComplete, RowOf, Row
<1>2. ASSUME NEW i \in Slots, dev_name[i] # Nil
      PROVE  ListedRow(dev_name[i]) = RowOf(i)
  <2> DEFINE j == CHOOSE k \in Slots : dev_name[k] = dev_name[i]
  <2>1. j \in Slots /\ dev_name[j] = dev_name[i]
    OBVIOUS
  <2>2. j = i
    BY <1>2, <2>1 DEF DInv, NamesApart
  <2>3. ListedRow(dev_name[i]) = RowOf(j)
    BY DEF ListedRow
  <2> QED
    BY <2>2, <2>3
<1>3. \A n \in Name : (\A i \in Slots : dev_name[i] # n) => ListedRow(n) = Nil
  BY DEF ListedRow
<1>4. \A n \in Name : ListedRow(n) \in Row \cup {Nil}
  BY <1>1, <1>2, <1>3, NilAssumption
<1> QED
  BY <1>1, <1>2, <1>3, <1>4

\* What is not pending is in the database as it is in the list.
LEMMA CopyInStep ==
    ASSUME IInv, DInv
    PROVE  \A n \in Name \ PendingNames : db[n] = ListedRow(n)
<1> SUFFICES ASSUME NEW n \in Name, n \notin PendingNames
             PROVE  db[n] = ListedRow(n)
  OBVIOUS
<1>1. \A i \in Slots : to_change[i] # -1 =>
          n # dev_name[i] /\ n # odev_name[i]
  BY PendingOf
<1>2. Nil \notin Name
  BY NilAssumption
<1>3. CASE \E i \in Slots : dev_name[i] = n
  <2>1. PICK i \in Slots : dev_name[i] = n
    BY <1>3
  <2>2. to_change[i] = -1
    BY <1>1, <2>1
  <2>3. db[n] = RowOf(i)
    BY <1>2, <2>1, <2>2 DEF DInv, SlotInv, AtRest
  <2> QED
    BY <1>2, <2>1, <2>3, ListedOf
<1>4. CASE \A i \in Slots : dev_name[i] # n
  <2>1. ListedRow(n) = Nil
    BY <1>4, ListedOf
  <2>2. ASSUME db[n] # Nil PROVE FALSE
    <3>1. PICK i \in Slots : RowKey(i) = n
      BY <2>2 DEF DInv, RowsOwned
    <3>2. to_change[i] # -1
      BY <1>4, <3>1 DEF RowKey
    <3>3. dev_name[i] # n /\ odev_name[i] # n
      BY <1>1, <3>2
    <3>4. to_change[i] \in {-1, 0, 2} \/ to_change[i] \in {1, 3, 4, 5}
      BY DEF IInv, TypeOK
    <3> QED
      BY <1>2, <3>1, <3>3, <3>4 DEF RowKey
  <2> QED
    BY <2>1, <2>2
<1> QED
  BY <1>3, <1>4

ListFacts ==
    /\ \A i \in Slots : dev_name[i] # Nil =>
           ListedRow(dev_name[i]) = RowOf(i) /\ RowOf(i) \in Row
    /\ \A n \in Name : (\A i \in Slots : dev_name[i] # n) => ListedRow(n) = Nil
    /\ \A n \in Name : ListedRow(n) \in Row \cup {Nil}
    /\ \A n \in Name \ PendingNames : db[n] = ListedRow(n)
    /\ \A n : n \in PendingNames <=>
           n \in Name /\ \E i \in Slots :
               to_change[i] # -1 /\ (n = dev_name[i] \/ n = odev_name[i])

\* The facts above hold before a step and after it.
LEMMA ListFactsHold ==
    /\ IInv /\ DInv => ListFacts
    /\ (IInv /\ DInv)' => ListFacts'
<1>1. IInv /\ DInv => ListFacts
  BY ListedOf, CopyInStep, PendingOf DEF ListFacts
<1>2. (IInv /\ DInv)' => ListFacts'
  BY <1>1, PTL
<1> QED
  BY <1>1, <1>2

\* An entry of the list depends only on the slot that has its name.
LEMMA ListedKeeps ==
    ASSUME ListFacts, ListFacts', NEW n \in Name,
           \A j \in Slots : (dev_name'[j] = n) <=> (dev_name[j] = n),
           \A j \in Slots : dev_name[j] = n => RowOf(j)' = RowOf(j)
    PROVE  ListedRow(n)' = ListedRow(n)
<1>1. n # Nil
  BY NilAssumption
<1>2. CASE \E j \in Slots : dev_name[j] = n
  BY <1>1, <1>2 DEF ListFacts
<1>3. CASE ~ \E j \in Slots : dev_name[j] = n
  BY <1>3 DEF ListFacts
<1> QED
  BY <1>2, <1>3

\* A request or a message is a change of the list.
LEMMA RequestChanges ==
    ASSUME IInv, DInv, (IInv /\ DInv)', NEW i \in Slots, OnlySlot(i),
           NEW m \in Name
    PROVE  WriteBehindTable!Change
<1>1. ListFacts /\ ListFacts'
  BY ListFactsHold
<1>2. dev_name[i] \in Name0 /\ dev_name'[i] \in Name0
  BY DEF IInv, TypeOK
<1>3. \A n \in Name \ {dev_name[i], dev_name'[i]} : ListedRow(n)' = ListedRow(n)
  <2> SUFFICES ASSUME NEW n \in Name, n # dev_name[i], n # dev_name'[i]
               PROVE  ListedRow(n)' = ListedRow(n)
    OBVIOUS
  <2>1. \A j \in Slots : (dev_name'[j] = n) <=> (dev_name[j] = n)
    BY DEF OnlySlot
  <2>2. \A j \in Slots : dev_name[j] = n => RowOf(j)' = RowOf(j)
    BY DEF OnlySlot, RowOf
  <2> QED
    BY <1>1, <2>1, <2>2, ListedKeeps
<1>4. \E old, new \in Name : \A n \in Name \ {old, new} :
          ListedRow(n)' = ListedRow(n)
  <2> DEFINE old == IF dev_name[i] \in Name THEN dev_name[i] ELSE m
  <2> DEFINE new == IF dev_name'[i] \in Name THEN dev_name'[i] ELSE m
  <2>1. \A n \in Name \ {old, new} : ListedRow(n)' = ListedRow(n)
    BY <1>3
  <2>2. old \in Name /\ new \in Name
    OBVIOUS
  <2> HIDE DEF old, new
  <2> QED
    BY <2>1, <2>2
<1>5. db' = db
  BY DEF OnlySlot
<1> QED
  BY <1>1, <1>4, <1>5
  DEF WriteBehindTable!Change, WriteBehindTable!InStep, ListFacts,
      PendingNames

\* Requests and messages touch one slot.
LEMMA RequestOnlySlot ==
    ASSUME IInv, NEW i \in Slots, Request(i) \/ Message(i)
    PROVE  OnlySlot(i) /\ \E m \in Name : TRUE
<1> USE DEF IInv, TypeOK, OnlySlot, Unlocked
<1>1. ASSUME NEW n \in Name, NEW t \in Topic, NEW ty \in Types,
             add_device(n, t, ty, i)
      PROVE  OnlySlot(i)
  BY <1>1 DEF add_device
<1>2. ASSUME NEW arg \in Name, delete_device(arg, i) PROVE OnlySlot(i)
  BY <1>2 DEF delete_device
<1>3. ASSUME NEW arg \in Name, NEW n \in Name, update_name(arg, n, i)
      PROVE  OnlySlot(i)
  BY <1>3 DEF update_name, SaveTopic
<1>4. ASSUME NEW arg \in Name, NEW t \in Topic, update_topic(arg, t, i)
      PROVE  OnlySlot(i)
  BY <1>4 DEF update_topic, SaveName
<1>5. ASSUME NEW arg \in Name, update_state(arg, i) PROVE OnlySlot(i)
  BY <1>5 DEF update_state, StageState, SaveName, SaveTopic
<1>6. ASSUME NEW t \in Topic, NEW s \in State, publish_kl_callback(t, s, i)
      PROVE  OnlySlot(i) /\ dev_name[i] \in Name
  <2>1. dev_name[i] \in Name
    BY <1>6, NilAssumption DEF SlotComplete, publish_kl_callback, Name0
  <2> QED
    BY <1>6, <2>1 DEF publish_kl_callback, StageState, SaveName, SaveTopic
<1> QED
  BY <1>1, <1>2, <1>3, <1>4, <1>5, <1>6 DEF Request, Message

\* A step of a pass leaves the list alone.
LEMMA FlushListed ==
    ASSUME IInv, DInv, (IInv /\ DInv)', Flush
    PROVE  \A n \in Name : ListedRow(n)' = ListedRow(n)
<1>1. ListFacts /\ ListFacts'
  BY ListFactsHold
<1>2. /\ dev_name' = dev_name /\ mqtt_topic' = mqtt_topic
      /\ \A j \in Slots : dev_name[j] # Nil =>
             /\ dev_type'[j] = dev_type[j] /\ dev_state'[j] = dev_state[j]
             /\ valid_cmnds'[j] = valid_cmnds[j]
  <2>1. CASE FlushDelete
    <3>1. cur \in Slots /\ dev_name[cur] = Nil
      BY <2>1, UnlistedSlot
      DEF FlushDelete, Pending, IInv, TypeOK, StageLegal, Slots
    <3> QED
      BY <2>1, <3>1 DEF FlushDelete, SlotDone, ForgetContents, IInv, TypeOK
  <2>2. CASE ~FlushDelete
    BY <2>2
    DEF Flush, FlushNothing, FlushState, FlushName, FlushTopic, FlushAllName,
        FlushAllTopic, FlushAllState, FlushInsert, SlotDone, KeepContents,
        memory
  <2> QED
    BY <2>1, <2>2
<1>3. ASSUME NEW n \in Name PROVE ListedRow(n)' = ListedRow(n)
  <2>1. n # Nil
    BY NilAssumption
  <2>2. \A j \in Slots : dev_name[j] = n => RowOf(j)' = RowOf(j)
    BY <1>2, <2>1 DEF RowOf
  <2> QED
    BY <1>1, <1>2, <2>2, ListedKeeps
<1> QED
  BY <1>3

\* A step of a pass makes no name pending.
LEMMA FlushPending ==
    ASSUME IInv, DInv, (IInv /\ DInv)', Flush
    PROVE  PendingNames' \subseteq PendingNames
<1>1. ListFacts /\ ListFacts'
  BY ListFactsHold
<1>2. cur \in Slots
  BY DEF Flush, FlushNothing, FlushState, FlushName, FlushTopic,
         FlushAllName, FlushAllTopic, FlushAllState, FlushInsert, FlushDelete,
         Pending, IInv, TypeOK, Slots
<1>3. /\ dev_name' = dev_name
      /\ \A j \in Slots : to_change'[j] \in {-1, to_change[j]}
      /\ \A j \in Slots : odev_name'[j] \in {Nil, odev_name[j]}
  <2>1. CASE SlotDone /\ (ForgetOldName \/ UNCHANGED odev_name)
    BY <1>2, <2>1 DEF SlotDone, ForgetOldName, IInv, TypeOK
  <2>2. CASE UNCHANGED <<dev_name, odev_name, to_change>>
    BY <2>2
  <2> QED
    BY <2>1, <2>2
    DEF Flush, FlushNothing, FlushState, FlushName, FlushTopic, FlushAllName,
        FlushAllTopic, FlushAllState, FlushInsert, FlushDelete, memory
<1> QED
  BY <1>1, <1>3, NilAssumption DEF ListFacts

\* Every statement writes a pending name, or moves the row of one in one piece.
LEMMA FlushWrites ==
    ASSUME IInv, DInv, Disciplined, Flush
    PROVE  \/ UNCHANGED db
           \/ \E n \in PendingNames :
                  WriteBehindTable!Store(n) \/ WriteBehindTable!StorePart(n)
           \/ \E old, new \in PendingNames : WriteBehindTable!Move(old, new)
<1>1. ListFacts
  BY ListFactsHold
<1>2. \A i \in Slots, n \in Name :
          to_change[i] # -1 /\ (n = dev_name[i] \/ n = odev_name[i]) =>
              n \in PendingNames
  BY <1>1 DEF ListFacts
<1>3. ASSUME NEW c \in Slots, to_change[c] # -1, dev_name[c] \in Name,
             db' = [db EXCEPT ![dev_name[c]] = RowOf(c)]
      PROVE  \E n \in PendingNames : WriteBehindTable!Store(n)
  <2>1. ListedRow(dev_name[c]) = RowOf(c)
    BY <1>1, <1>3, NilAssumption DEF ListFacts
  <2> QED
    BY <1>2, <1>3, <2>1 DEF WriteBehindTable!Store
<1>4. ASSUME NEW c \in Slots, to_change[c] # -1, dev_name[c] \in Name,
             odev_name[c] \in Name, RowKey(c) = odev_name[c],
             odev_name[c] # dev_name[c], db[dev_name[c]] = Nil,
             db' = [db EXCEPT ![odev_name[c]] = Nil,
                             ![dev_name[c]] = db[odev_name[c]]]
      PROVE  \E old, new \in PendingNames : WriteBehindTable!Move(old, new)
  <2>1. \A j \in Slots : dev_name[j] # odev_name[c]
    BY <1>4, NilAssumption DEF DInv, KeysApart
  <2>2. ListedRow(odev_name[c]) = Nil
    BY <1>1, <1>4, <2>1 DEF ListFacts
  <2>3. odev_name[c] \in PendingNames /\ dev_name[c] \in PendingNames
    BY <1>2, <1>4
  <2>4. WriteBehindTable!Move(odev_name[c], dev_name[c])
    BY <1>4, <2>2, <2>3 DEF WriteBehindTable!Move, PendingNames
  <2> QED
    BY <2>3, <2>4
<1>5. ASSUME NEW kind \in 0..4, Pending(kind) PROVE cur \in Slots
  BY <1>5, AtListedSlot
<1>6. CASE FlushNothing
  BY <1>6 DEF FlushNothing
<1>7. CASE FlushState
  BY <1>3, <1>5, <1>7, StateFlushEffect DEF FlushState
<1>8. CASE FlushName
  BY <1>4, <1>5, <1>8, NameFlushEffect DEF FlushName
<1>9. CASE FlushTopic
  BY <1>3, <1>5, <1>9, TopicFlushEffect DEF FlushTopic
<1>10. CASE FlushAllName
  BY <1>4, <1>5, <1>10, AllNameEffect DEF FlushAllName
<1>11. CASE FlushAllTopic
  <2>1. PICK c \in Slots : c = cur
    BY <1>5, <1>11 DEF FlushAllTopic
  <2>2. /\ dev_name[c] \in Name /\ to_change[c] = 3
        /\ valid_cmnds[c] = dev_type[c]
        /\ RowKey(c) = dev_name[c] /\ db[dev_name[c]] \in Row
    BY <1>11, <2>1, AllTopicEffect
  <2>3. PICK r \in Row :
            /\ r.topic = mqtt_topic[c] /\ r.type = dev_type[c]
            /\ r.cmnds = valid_cmnds[c] /\ r.state = db[dev_name[c]].state
            /\ db' = [db EXCEPT ![dev_name[c]] = r]
    BY <1>11, <2>1, AllTopicEffect
  <2>4. ListedRow(dev_name[c]) = RowOf(c) /\ RowOf(c) \in Row
    BY <1>1, <2>2, NilAssumption DEF ListFacts
  <2>5. \A k \in DOMAIN r : r[k] \in {db[dev_name[c]][k], RowOf(c)[k]}
    <3>1. DOMAIN r = {"topic", "type", "state", "cmnds"}
      BY DEF Row
    <3> QED
      BY <2>3, <3>1 DEF RowOf
  <2>6. WriteBehindTable!StorePart(dev_name[c])
    BY <2>2, <2>3, <2>4, <2>5 DEF WriteBehindTable!StorePart
  <2>7. dev_name[c] \in PendingNames
    BY <1>2, <2>2
  <2> QED
    BY <2>6, <2>7
<1>12. CASE FlushAllState
  BY <1>3, <1>5, <1>12, AllStateEffect DEF FlushAllState
<1>13. CASE FlushInsert
  BY <1>3, <1>5, <1>13, InsertEffect DEF FlushInsert
<1>14. CASE FlushDelete
  <2>1. PICK c \in Slots : c = cur
    BY <1>14 DEF FlushDelete, Pending, IInv, TypeOK, Slots
  <2>2. /\ to_change[c] = 5 /\ dev_name[c] = Nil
        /\ RowKey(c) # Nil => RowKey(c) = odev_name[c]
        /\ \A n \in Name : db'[n] = IF n = RowKey(c) THEN Nil ELSE db[n]
    BY <1>14, <2>1, RemoveEffect
  <2>3. /\ db \in [Name -> Row \cup {Nil}]
        /\ db' \in [Name -> Row \cup {Nil}]
    <3>1. IInv'
      BY FlushPreserves
    <3> QED
      BY <3>1 DEF IInv, TypeOK
  <2>4. CASE RowKey(c) = Nil
    BY <2>2, <2>3, <2>4, NilAssumption
  <2>5. CASE RowKey(c) # Nil
    <3>1. odev_name[c] \in Name
      BY <2>2, <2>5, KeyHasRow DEF Name0
    <3>2. \A j \in Slots : dev_name[j] # odev_name[c]
      BY <2>2, <2>5, <3>1, NilAssumption DEF DInv, KeysApart
    <3>3. ListedRow(odev_name[c]) = Nil
      BY <1>1, <3>1, <3>2 DEF ListFacts
    <3>4. db' = [db EXCEPT ![odev_name[c]] = Nil]
      BY <2>2, <2>3, <2>5, <3>1
    <3>5. WriteBehindTable!Store(odev_name[c])
      BY <3>1, <3>3, <3>4 DEF WriteBehindTable!Store
    <3> QED
      BY <1>2, <2>2, <3>1, <3>5
  <2> QED
    BY <2>4, <2>5
<1> QED
  BY <1>6, <1>7, <1>8, <1>9, <1>10, <1>11, <1>12, <1>13, <1>14 DEF Flush

\* Every step of the table is a step of the list, or leaves it alone.
LEMMA StepImplements ==
    ASSUME IInv, DInv, Disciplined, (IInv /\ DInv)', [Next]_vars
    PROVE  [WriteBehindTable!Next]_(WriteBehindTable!vars)
<1>1. ListFacts /\ ListFacts'
  BY ListFactsHold
<1>2. /\ db \in [Name -> Row \cup {Nil}] /\ db' \in [Name -> Row \cup {Nil}]
  BY DEF IInv, TypeOK
<1>3. ASSUME NEW i \in Slots, Request(i) \/ Message(i)
      PROVE  WriteBehindTable!Change
  <2>1. PICK m \in Name : OnlySlot(i)
    BY <1>3, RequestOnlySlot
  <2> QED
    BY <2>1, RequestChanges
<1>4. CASE Wake \/ UNCHANGED vars
  <2>1. UNCHANGED <<dev_name, mqtt_topic, dev_type, dev_state, valid_cmnds,
                    odev_name, to_change, db>>
    BY <1>4 DEF Wake, vars, memory
  <2>2. \A n \in Name : ListedRow(n)' = ListedRow(n)
    BY <1>1, <2>1, ListedKeeps DEF RowOf
  <2>3. PendingNames' = PendingNames
    BY <2>1 DEF PendingNames, Staged
  <2> QED
    BY <2>1, <2>2, <2>3 DEF WriteBehindTable!vars, PendingNames
<1>5. CASE Flush
  <2>1. \A n \in Name : ListedRow(n)' = ListedRow(n)
    BY <1>5, FlushListed
  <2>2. PendingNames' \subseteq PendingNames
    BY <1>5, FlushPending
  <2>3. WriteBehindTable!InStep'
    BY <1>1 DEF ListFacts, WriteBehindTable!InStep, PendingNames
  <2>4. WriteBehindTable!Write
    BY <1>5, <2>1, <2>2, <2>3, FlushWrites
    DEF WriteBehindTable!Write, PendingNames
  <2> QED
    BY <2>4 DEF WriteBehindTable!Next
<1>6. ASSUME NEW f \in Loads, Restart(f) PROVE WriteBehindTable!Restart
  <2>1. \A i \in Slots : to_change'[i] = -1
    BY <1>6 DEF Restart
  <2>2. PendingNames' = {}
    BY <2>1 DEF PendingNames, Staged
  <2>3. db' = db
    BY <1>6 DEF Restart
  <2>4. \A n \in Name : ListedRow(n)' = db[n]
    BY <1>1, <2>2, <2>3 DEF ListFacts
  <2> QED
    BY <1>2, <2>2, <2>3, <2>4 DEF WriteBehindTable!Restart, PendingNames
<1> QED
  BY <1>3, <1>4, <1>5, <1>6 DEF Next, WriteBehindTable!Next

\* An empty table is an empty list.
LEMMA InitImplements == IInv /\ DInv /\ Init => WriteBehindTable!Init
<1> SUFFICES ASSUME IInv, DInv, Init PROVE WriteBehindTable!Init
  OBVIOUS
<1>1. ListFacts
  BY ListFactsHold
<1>2. /\ \A i \in Slots : dev_name[i] = Nil /\ to_change[i] = -1
      /\ db = [n \in Name |-> Nil]
  BY DEF Init
<1>3. \A n \in Name : ListedRow(n) = Nil
  BY <1>1, <1>2, NilAssumption DEF ListFacts
<1>4. PendingNames = {}
  BY <1>2 DEF PendingNames, Staged
<1> QED
  BY <1>2, <1>3, <1>4 DEF WriteBehindTable!Init, PendingNames

(* Slots, staged kinds of change and statements amount to a list with a copy *)
(* behind it: only staged names are out of step, no rename is found half     *)
(* done after a crash, and a restart lists exactly what the rows say.        *)
THEOREM TableImplementsList ==
    ASSUME Disciplined PROVE Spec => ImplementsWriteBehind
<1>1. Init => WriteBehindTable!Init
  BY InitEstablishes, DisciplinedInit, InitImplements
<1>2. (IInv /\ DInv) /\ (IInv /\ DInv)' /\ [Next]_vars
          => [WriteBehindTable!Next]_(WriteBehindTable!vars)
  BY StepImplements
<1> QED
  BY <1>1, <1>2, DisciplinedInvariance, PTL
  DEF Spec, ImplementsWriteBehind, WriteBehindTable!Spec
=============================================================================
