------------------------- MODULE DeviceTableProofs -------------------------
(* What holds of the device table for every table size, every set of names, *)
(* topics and states, every behaviour of the clients (any Env), failing SQL  *)
(* statements and restarts at any point.                                     *)
EXTENDS DeviceTable, FiniteSetTheorems, TLAPS

\* The five invariants of the run table_any, which are inductive together: add_device
\* keeps a slot complete only because a free slot is pristine, the count is right
\* only because a slot without a name is never found, and a flush writes complete
\* rows only because what is staged is legal.
IInv == /\ TypeOK
        /\ CountMatches
        /\ StageLegal
        /\ FreeSlotPristine
        /\ NoOrphanSubscription

----------------------------------------------------------------------------
(* Counting the occupied slots.                                             *)

\* The table has MaxDev slots, so the occupied ones can be counted.
LEMMA OccupiedFinite ==
    /\ IsFiniteSet(Slots) /\ Cardinality(Slots) = MaxDev
    /\ IsFiniteSet(Occupied)
    /\ Cardinality(Occupied) \in 0..MaxDev
<1>1. IsFiniteSet(Slots) /\ Cardinality(Slots) = MaxDev
  BY FS_Interval, SizeAssumption DEF Slots
<1>2. IsFiniteSet(Occupied) /\ Cardinality(Occupied) <= Cardinality(Slots)
  BY <1>1, FS_Subset DEF Occupied
<1>3. Cardinality(Occupied) \in Nat
  BY <1>2, FS_CardinalityType
<1> QED
  BY <1>1, <1>2, <1>3, SizeAssumption

\* A name written to a free slot (add_device) raises the number of occupied
\* slots by one.
LEMMA FillSlot ==
    ASSUME NEW i \in Slots, dev_name[i] = Nil, NEW n \in Name,
           dev_name \in [Slots -> Name0],
           dev_name' = [dev_name EXCEPT ![i] = n]
    PROVE  Cardinality(Occupied') = Cardinality(Occupied) + 1
<1>1. Occupied' = Occupied \cup {i} /\ i \notin Occupied
  BY NilAssumption DEF Occupied
<1> QED
  BY <1>1, OccupiedFinite, FS_AddElement

\* A name cleared from an occupied slot (delete_device) lowers the number of
\* occupied slots by one.
LEMMA ClearSlot ==
    ASSUME NEW i \in Slots, dev_name[i] # Nil,
           dev_name \in [Slots -> Name0],
           dev_name' = [dev_name EXCEPT ![i] = Nil]
    PROVE  Cardinality(Occupied') = Cardinality(Occupied) - 1
<1>1. Occupied' = Occupied \ {i} /\ i \in Occupied
  BY DEF Occupied
<1> QED
  BY <1>1, OccupiedFinite, FS_RemoveElement

\* A step that fills and clears no slot leaves the occupied slots as they are.
LEMMA KeepSlots ==
    ASSUME \A i \in Slots : (dev_name'[i] = Nil) <=> (dev_name[i] = Nil)
    PROVE  Occupied' = Occupied
BY DEF Occupied

\* After any step too, at most MaxDev slots are occupied.
LEMMA OccupiedFiniteNext ==
    Cardinality(Occupied') \in 0..MaxDev
<1>1. IsFiniteSet(Slots) /\ Cardinality(Slots) = MaxDev
  BY OccupiedFinite
<1>2. Occupied' \subseteq Slots
  BY DEF Occupied
<1>3. IsFiniteSet(Occupied') /\ Cardinality(Occupied') <= MaxDev
  BY <1>1, <1>2, FS_Subset
<1> QED
  BY <1>3, FS_CardinalityType, SizeAssumption

----------------------------------------------------------------------------
\* The table as allocate_buffers leaves it, with an empty database, satisfies the
\* invariant.
LEMMA InitEstablishes == Init => IInv
<1> SUFFICES ASSUME Init PROVE IInv
  OBVIOUS
<1>1. TypeOK
  BY SizeAssumption, NilAssumption, SMT
  DEF Init, TypeOK, SlotComplete, Slots, Name0, Topic0, Row
<1>2. CountMatches
  <2>1. Occupied = {}
    BY DEF Init, Occupied, Slots
  <2> QED
    BY <2>1, FS_EmptySet DEF Init, CountMatches
<1>3. StageLegal /\ FreeSlotPristine /\ NoOrphanSubscription
  BY DEF Init, StageLegal, FreeSlotPristine, NoOrphanSubscription, Slots
<1> QED
  BY <1>1, <1>2, <1>3 DEF IInv

----------------------------------------------------------------------------
(* Requests.                                                                *)

\* ADD: the slot it takes was clean (FreeSlotPristine), so it becomes complete, is
\* staged for insertion, is counted once and its topic is subscribed.
LEMMA AddPreserves ==
    ASSUME IInv, NEW i \in Slots, NEW n \in Name, NEW t \in Topic,
           NEW ty \in Types, add_device(n, t, ty, i)
    PROVE  IInv'
<1>1. CountMatches'
  BY FillSlot, OccupiedFinite
  DEF IInv, TypeOK, CountMatches, add_device, FirstFree, increment_db_count
<1>2. TypeOK'
  BY <1>1, OccupiedFiniteNext, NilAssumption, ValueAssumption
  DEF IInv, TypeOK, SlotComplete, CountMatches, add_device, Cmnds, DevType,
      DevTypeMax, Name0, Topic0, Slots
<1>3. StageLegal' /\ FreeSlotPristine'
  BY NilAssumption
  DEF IInv, TypeOK, StageLegal, FreeSlotPristine, add_device, Name0, Topic0
<1>4. NoOrphanSubscription'
  BY NilAssumption
  DEF IInv, TypeOK, NoOrphanSubscription, Occupied, add_device, FirstFree
<1> QED
  BY <1>1, <1>2, <1>3, <1>4 DEF IInv

\* DELETE: the slot keeps both old keys, is staged for removal, is counted once
\* and its topic is unsubscribed.
LEMMA DeletePreserves ==
    ASSUME IInv, NEW i \in Slots, NEW arg \in Name, delete_device(arg, i)
    PROVE  IInv'
<1>1. dev_name[i] # Nil
  BY NilAssumption, NameAssumption DEF delete_device, Found, Matches
<1>2. CountMatches'
  BY <1>1, ClearSlot, OccupiedFinite
  DEF IInv, TypeOK, CountMatches, delete_device, decrement_db_count
<1>3. TypeOK'
  BY <1>2, OccupiedFiniteNext, NilAssumption
  DEF IInv, TypeOK, SlotComplete, CountMatches, delete_device, Name0, Topic0
<1>4. StageLegal' /\ FreeSlotPristine'
  BY <1>1, NilAssumption
  DEF IInv, TypeOK, SlotComplete, StageLegal, FreeSlotPristine, delete_device
<1>5. NoOrphanSubscription'
  BY DEF IInv, TypeOK, NoOrphanSubscription, Occupied, delete_device
<1> QED
  BY <1>2, <1>3, <1>4, <1>5 DEF IInv

(* What the switch statements on to_change may produce, and what they save.  *)
LEMMA StageRange ==
    ASSUME NEW old \in -1..4, NEW kind \in 0..2
    PROVE  /\ Stage(old, kind) \in -1..4 /\ Stage(old, kind) # -1
           /\ Stage(old, kind) = 4 <=> old = 4
           /\ Stage(old, kind) = 3 <=> old = 3 \/ (old \in 0..2 /\ old # kind)
           /\ Stage(old, kind) \in 0..2 => Stage(old, kind) = kind
BY DEF Stage

\* Saving the old topic of an occupied slot leaves a key that is not empty, and
\* no other slot changes.
LEMMA SavedTopic ==
    ASSUME TypeOK, NEW i \in Slots, mqtt_topic[i] \in Topic, SaveTopic(i)
    PROVE  /\ omqtt_topic' \in [Slots -> Topic0 \cup {Mixed}]
           /\ omqtt_topic'[i] # Nil
           /\ \A j \in Slots \ {i} : omqtt_topic'[j] = omqtt_topic[j]
BY NilAssumption DEF TypeOK, SaveTopic, Overwrite, Topic0

\* The same of the old name.
LEMMA SavedName ==
    ASSUME TypeOK, NEW i \in Slots, dev_name[i] \in Name, SaveName(i)
    PROVE  /\ odev_name' \in [Slots -> Name0 \cup {Mixed}]
           /\ odev_name'[i] # Nil
           /\ \A j \in Slots \ {i} : odev_name'[j] = odev_name[j]
BY NilAssumption DEF TypeOK, SaveName, Overwrite, Name0

(* A device that a request finds is in an occupied slot, without a removal   *)
(* staged.                                                                   *)
LEMMA FoundOccupied ==
    ASSUME IInv, NEW i \in Slots, NEW arg \in Name, Found(arg, i)
    PROVE  /\ dev_name[i] \in Name /\ mqtt_topic[i] \in Topic
           /\ to_change[i] \in -1..4
<1>1. dev_name[i] # Nil
  BY NilAssumption, NameAssumption DEF Found, Matches
<1> QED
  BY <1>1, NilAssumption DEF IInv, TypeOK, SlotComplete, StageLegal, Name0

\* UPDATE NAME: whatever was staged before, the full update it may become finds
\* both old keys.
LEMMA RenamePreserves ==
    ASSUME IInv, NEW i \in Slots, NEW arg \in Name, NEW n \in Name,
           update_name(arg, n, i)
    PROVE  IInv'
<1>1. /\ dev_name[i] \in Name /\ mqtt_topic[i] \in Topic
      /\ to_change[i] \in -1..4
  BY FoundOccupied DEF update_name
<1>2. /\ Stage(to_change[i], 1) \in -1..4 /\ Stage(to_change[i], 1) # -1
      /\ Stage(to_change[i], 1) \in {2, 3}
           => Stage(to_change[i], 1) = 3 /\ to_change[i] \in {0, 2, 3}
  BY <1>1, StageRange
<1>3. /\ omqtt_topic' \in [Slots -> Topic0 \cup {Mixed}]
      /\ \A j \in Slots \ {i} : omqtt_topic'[j] = omqtt_topic[j]
      /\ to_change[i] = 0 => omqtt_topic'[i] # Nil
      /\ to_change[i] # 0 => omqtt_topic'[i] = omqtt_topic[i]
  BY <1>1, SavedTopic DEF IInv, TypeOK, update_name
<1>4. Occupied' = Occupied
  BY <1>1, KeepSlots, NilAssumption DEF IInv, TypeOK, update_name
<1>5. TypeOK'
  <2>1. \A j \in Slots : SlotComplete(j)'
    BY <1>1, NilAssumption DEF IInv, TypeOK, SlotComplete, update_name
  <2>2. odev_name' \in [Slots -> Name0 \cup {Mixed}]
    BY DEF IInv, TypeOK, update_name, Name0
  <2>3. /\ dev_name' \in [Slots -> Name0]
        /\ to_change' \in [Slots -> -1..5]
    BY <1>2 DEF IInv, TypeOK, update_name, Name0
  <2> QED
    BY <1>3, <2>1, <2>2, <2>3 DEF IInv, TypeOK, update_name
<1>6. CountMatches' /\ NoOrphanSubscription'
  BY <1>4 DEF IInv, CountMatches, NoOrphanSubscription, update_name
<1>7. StageLegal' /\ FreeSlotPristine'
  BY <1>1, <1>2, <1>3, NilAssumption
  DEF IInv, TypeOK, StageLegal, FreeSlotPristine, update_name, Name0
<1> QED
  BY <1>5, <1>6, <1>7 DEF IInv

\* UPDATE TOPIC: the same, and the subscription moves with the topic.
LEMMA RetopicPreserves ==
    ASSUME IInv, NEW i \in Slots, NEW arg \in Name, NEW t \in Topic,
           update_topic(arg, t, i)
    PROVE  IInv'
<1>1. /\ dev_name[i] \in Name /\ mqtt_topic[i] \in Topic
      /\ to_change[i] \in -1..4
  BY FoundOccupied DEF update_topic
<1>2. /\ Stage(to_change[i], 2) \in -1..4 /\ Stage(to_change[i], 2) # -1
      /\ Stage(to_change[i], 2) \in {1, 3}
           => Stage(to_change[i], 2) = 3 /\ to_change[i] \in {0, 1, 3}
  BY <1>1, StageRange
<1>3. /\ odev_name' \in [Slots -> Name0 \cup {Mixed}]
      /\ \A j \in Slots \ {i} : odev_name'[j] = odev_name[j]
      /\ to_change[i] = 0 => odev_name'[i] # Nil
      /\ to_change[i] # 0 => odev_name'[i] = odev_name[i]
  BY <1>1, SavedName DEF IInv, TypeOK, update_topic
<1>5. TypeOK'
  <2>1. \A j \in Slots : SlotComplete(j)'
    BY <1>1, NilAssumption DEF IInv, TypeOK, SlotComplete, update_topic
  <2>2. /\ omqtt_topic' \in [Slots -> Topic0 \cup {Mixed}]
        /\ mqtt_topic' \in [Slots -> Topic0]
        /\ subs' \subseteq Topic
    BY <1>1 DEF IInv, TypeOK, update_topic, Topic0, Resubscribed
  <2>3. to_change' \in [Slots -> -1..5]
    BY <1>2 DEF IInv, TypeOK, update_topic
  <2> QED
    BY <1>3, <2>1, <2>2, <2>3 DEF IInv, TypeOK, update_topic
<1>6. CountMatches'
  BY DEF IInv, CountMatches, update_topic, Occupied
<1>7. StageLegal' /\ FreeSlotPristine'
  BY <1>1, <1>2, <1>3, NilAssumption
  DEF IInv, TypeOK, StageLegal, FreeSlotPristine, update_topic, Topic0
<1>8. NoOrphanSubscription'
  BY <1>1, NilAssumption
  DEF IInv, TypeOK, NoOrphanSubscription, Occupied, update_topic, Resubscribed
<1> QED
  BY <1>5, <1>6, <1>7, <1>8 DEF IInv

(* A state joins what is staged for an occupied slot: UPDATE STATE and the   *)
(* MQTT callback.                                                            *)
LEMMA StageStatePreserves ==
    ASSUME IInv, NEW i \in Slots, dev_name[i] \in Name, StageState(i),
           NEW s \in State,
           \/ dev_state' = dev_state
           \/ dev_state' = [dev_state EXCEPT ![i] = s],
           UNCHANGED <<dev_name, mqtt_topic, dev_type, valid_cmnds, db_len,
                       subs, db, cur, stmt>>
    PROVE  IInv'
<1>1. mqtt_topic[i] \in Topic /\ to_change[i] \in -1..4 /\ dev_name[i] # Nil
  BY NilAssumption DEF IInv, TypeOK, SlotComplete, StageLegal
<1>2. /\ Stage(to_change[i], 0) \in -1..4 /\ Stage(to_change[i], 0) # -1
      /\ Stage(to_change[i], 0) \in 1..3
           => Stage(to_change[i], 0) = 3 /\ to_change[i] \in 1..3
  BY <1>1, StageRange
<1>3. /\ omqtt_topic' \in [Slots -> Topic0 \cup {Mixed}]
      /\ \A j \in Slots \ {i} : omqtt_topic'[j] = omqtt_topic[j]
      /\ to_change[i] = 1 => omqtt_topic'[i] # Nil
      /\ to_change[i] # 1 => omqtt_topic'[i] = omqtt_topic[i]
  BY <1>1, SavedTopic DEF IInv, TypeOK, StageState
<1>4. /\ odev_name' \in [Slots -> Name0 \cup {Mixed}]
      /\ \A j \in Slots \ {i} : odev_name'[j] = odev_name[j]
      /\ to_change[i] = 2 => odev_name'[i] # Nil
      /\ to_change[i] # 2 => odev_name'[i] = odev_name[i]
  BY <1>1, SavedName DEF IInv, TypeOK, StageState
<1>5. TypeOK'
  <2>1. \A j \in Slots : SlotComplete(j)'
    BY NilAssumption DEF IInv, TypeOK, SlotComplete
  <2>2. dev_state' \in [Slots -> State \cup {Nil}]
    BY DEF IInv, TypeOK
  <2>3. to_change' \in [Slots -> -1..5]
    BY <1>2 DEF IInv, TypeOK, StageState
  <2> QED
    BY <1>3, <1>4, <2>1, <2>2, <2>3 DEF IInv, TypeOK
<1>6. CountMatches' /\ NoOrphanSubscription'
  BY DEF IInv, CountMatches, NoOrphanSubscription, Occupied
<1>7. StageLegal' /\ FreeSlotPristine'
  BY <1>1, <1>2, <1>3, <1>4
  DEF IInv, TypeOK, StageLegal, FreeSlotPristine, StageState
<1> QED
  BY <1>5, <1>6, <1>7 DEF IInv

\* UPDATE STATE only stages a change of state.
LEMMA UpdateStatePreserves ==
    ASSUME IInv, NEW i \in Slots, NEW arg \in Name, update_state(arg, i)
    PROVE  IInv'
<1>1. dev_name[i] \in Name
  BY FoundOccupied DEF update_state
<1>2. /\ StageState(i)
      /\ dev_state' = dev_state
      /\ UNCHANGED <<dev_name, mqtt_topic, dev_type, valid_cmnds, db_len,
                     subs, db, cur, stmt>>
  BY DEF update_state
<1>3. Template \in State
  BY ValueAssumption
<1> QED
  BY <1>1, <1>2, <1>3, StageStatePreserves

\* A message on a RESULT topic reaches only an occupied slot, since a free one has
\* no topic, and stages its new state.
LEMMA MessagePreserves ==
    ASSUME IInv, NEW i \in Slots, Message(i)
    PROVE  IInv'
<1>1. PICK t \in Topic, s \in State : publish_kl_callback(t, s, i)
  BY DEF Message
<1>2. dev_name[i] \in Name
  BY <1>1, NilAssumption
  DEF IInv, TypeOK, SlotComplete, publish_kl_callback, Name0
<1> QED
  BY <1>1, <1>2, StageStatePreserves DEF publish_kl_callback

\* Every request of the server thread preserves the invariant.
LEMMA RequestPreserves ==
    ASSUME IInv, NEW i \in Slots, Request(i)
    PROVE  IInv'
BY AddPreserves, DeletePreserves, RenamePreserves, RetopicPreserves,
   UpdateStatePreserves DEF Request

----------------------------------------------------------------------------
(* The database thread.                                                     *)

(* The statements keep the table a table.                                    *)
LEMMA TableTypes ==
    ASSUME TypeOK
    PROVE  /\ \A n \in Name, r \in Row : Inserted(n, r) \in [Name -> Row \cup {Nil}]
           /\ \A n, t : Deleted(n, t) \in [Name -> Row \cup {Nil}]
           /\ \A n, t : \A s \in State :
                  StateSet(n, t, s) \in [Name -> Row \cup {Nil}]
           /\ \A old, n : \A new \in Topic :
                  TopicSet(old, new, n) \in [Name -> Row \cup {Nil}]
           /\ \A old, t : \A new \in Name :
                  NameSet(old, new, t) \in [Name -> Row \cup {Nil}]
<1>1. db \in [Name -> Row \cup {Nil}]
  BY DEF TypeOK
<1>2. \A n, t : HasRow(n, t) => n \in Name /\ db[n] \in Row
  BY <1>1 DEF HasRow
<1>3. \A n \in Name, r \in Row : Inserted(n, r) \in [Name -> Row \cup {Nil}]
  BY <1>1 DEF Inserted
<1>4. \A n, t : Deleted(n, t) \in [Name -> Row \cup {Nil}]
  BY <1>1 DEF Deleted
<1>6. \A n, t : \A s \in State :
         StateSet(n, t, s) \in [Name -> Row \cup {Nil}]
  <2> SUFFICES ASSUME NEW n, NEW t, NEW s \in State
               PROVE  StateSet(n, t, s) \in [Name -> Row \cup {Nil}]
    OBVIOUS
  <2>1. CASE HasRow(n, t)
    <3> DEFINE r == [db[n] EXCEPT !.state = s]
    <3>1. n \in Name /\ db[n] \in Row
      BY <1>2, <2>1
    <3>3. r \in Row
      BY <3>1 DEF Row
    <3>2. StateSet(n, t, s) = [db EXCEPT ![n] = r]
      BY <2>1 DEF StateSet
    <3> QED
      BY <1>1, <3>1, <3>2, <3>3
  <2> QED
    BY <1>1, <2>1 DEF StateSet
<1>7. \A old, n : \A new \in Topic :
         TopicSet(old, new, n) \in [Name -> Row \cup {Nil}]
  <2> SUFFICES ASSUME NEW old, NEW n, NEW new \in Topic
               PROVE  TopicSet(old, new, n) \in [Name -> Row \cup {Nil}]
    OBVIOUS
  <2>1. CASE HasRow(n, old)
    <3> DEFINE r == [db[n] EXCEPT !.topic = new]
    <3>1. n \in Name /\ db[n] \in Row
      BY <1>2, <2>1
    <3>3. r \in Row
      BY <3>1 DEF Row
    <3>2. TopicSet(old, new, n) = [db EXCEPT ![n] = r]
      BY <2>1 DEF TopicSet
    <3> QED
      BY <1>1, <3>1, <3>2, <3>3
  <2> QED
    BY <1>1, <2>1 DEF TopicSet
<1>8. \A old, t : \A new \in Name :
         NameSet(old, new, t) \in [Name -> Row \cup {Nil}]
  BY <1>1, <1>2 DEF NameSet
<1> QED
  BY <1>3, <1>4, <1>6, <1>7, <1>8

\* A statement that may fail still leaves a table.
LEMMA ExecType ==
    ASSUME TypeOK, NEW table \in [Name -> Row \cup {Nil}], Exec(table)
    PROVE  db' \in [Name -> Row \cup {Nil}]
BY DEF TypeOK, Exec

(* Where the thread is while it works, and what the slot there holds.        *)
AtListed ==
    /\ cur \in Slots
    /\ dev_name[cur] \in Name /\ mqtt_topic[cur] \in Topic
    /\ dev_type[cur] \in DevType /\ dev_state[cur] \in State
    /\ valid_cmnds[cur] \in Cmnds

\* When the database thread finds 0 to 4 staged, the slot is that of a complete,
\* listed device.
LEMMA AtSlot ==
    ASSUME IInv, NEW kind \in 0..4, Pending(kind)
    PROVE  AtListed
<1>1. cur \in Slots
  BY SizeAssumption DEF IInv, TypeOK, Pending, Slots
<1> QED
  BY <1>1, NilAssumption
  DEF AtListed, IInv, TypeOK, SlotComplete, StageLegal, Pending, Name0

\* The database thread never leaves the table.
LEMMA AdvanceType ==
    ASSUME TypeOK, cur # 0, Advance
    PROVE  cur' \in 0..MaxDev
BY SizeAssumption DEF TypeOK, Advance

(* A finished slot of a listed device.                                       *)
LEMMA DonePreserves ==
    ASSUME IInv, cur \in Slots, dev_name[cur] # Nil, SlotDone, KeepContents,
           db' \in [Name -> Row \cup {Nil}],
           ForgetOldName \/ UNCHANGED odev_name,
           ForgetOldTopic \/ UNCHANGED omqtt_topic
    PROVE  IInv'
<1>1. cur' \in 0..MaxDev
  BY AdvanceType DEF IInv, SlotDone, Slots
<1>2. TypeOK'
  BY <1>1 DEF IInv, TypeOK, SlotComplete, SlotDone, KeepContents,
              ForgetOldName, ForgetOldTopic, Name0, Topic0
<1>3. CountMatches' /\ NoOrphanSubscription'
  BY DEF IInv, CountMatches, NoOrphanSubscription, Occupied, SlotDone
<1>4. StageLegal' /\ FreeSlotPristine'
  BY DEF IInv, TypeOK, StageLegal, FreeSlotPristine, SlotDone, KeepContents,
         ForgetOldName, ForgetOldTopic
<1> QED
  BY <1>2, <1>3, <1>4 DEF IInv

(* A statement in the middle of a full update.                               *)
LEMMA StatementPreserves ==
    ASSUME IInv, db' \in [Name -> Row \cup {Nil}], stmt' \in 1..3,
           cur' \in 0..MaxDev, UNCHANGED <<memory, to_change, db_len, subs>>
    PROVE  IInv'
BY DEF IInv, TypeOK, SlotComplete, CountMatches, StageLegal, FreeSlotPristine,
       NoOrphanSubscription, Occupied, memory

\* The start of a pass changes nothing but the position.
LEMMA WakePreserves == IInv /\ Wake => IInv'
BY StatementPreserves, SizeAssumption DEF IInv, TypeOK, Wake

\* A slot with nothing staged is passed over.
LEMMA FlushNothingPreserves == IInv /\ FlushNothing => IInv'
BY StatementPreserves, AdvanceType DEF IInv, TypeOK, FlushNothing, Pending

\* Case 0 of db_updater.
LEMMA FlushStatePreserves == IInv /\ FlushState => IInv'
<1> SUFFICES ASSUME IInv, FlushState PROVE IInv'
  OBVIOUS
<1>1. AtListed
  BY AtSlot DEF FlushState
<1>2. db' \in [Name -> Row \cup {Nil}]
  BY <1>1, TableTypes, ExecType DEF IInv, FlushState, AtListed
<1> QED
  BY <1>1, <1>2, DonePreserves, NilAssumption DEF FlushState, AtListed

\* Case 1 of db_updater.
LEMMA FlushNamePreserves == IInv /\ FlushName => IInv'
<1> SUFFICES ASSUME IInv, FlushName PROVE IInv'
  OBVIOUS
<1>1. AtListed
  BY AtSlot DEF FlushName
<1>2. db' \in [Name -> Row \cup {Nil}]
  BY <1>1, TableTypes, ExecType DEF IInv, FlushName, AtListed
<1> QED
  BY <1>1, <1>2, DonePreserves, NilAssumption DEF FlushName, AtListed

\* Case 2 of db_updater.
LEMMA FlushTopicPreserves == IInv /\ FlushTopic => IInv'
<1> SUFFICES ASSUME IInv, FlushTopic PROVE IInv'
  OBVIOUS
<1>1. AtListed
  BY AtSlot DEF FlushTopic
<1>2. db' \in [Name -> Row \cup {Nil}]
  BY <1>1, TableTypes, ExecType DEF IInv, FlushTopic, AtListed
<1> QED
  BY <1>1, <1>2, DonePreserves, NilAssumption DEF FlushTopic, AtListed

\* The three statements of case 3 of db_updater.
LEMMA FlushAllPreserves ==
    IInv /\ (FlushAllName \/ FlushAllTopic \/ FlushAllState) => IInv'
<1>1. ASSUME IInv, FlushAllName PROVE IInv'
  <2>1. AtListed
    BY <1>1, AtSlot DEF FlushAllName
  <2>2. db' \in [Name -> Row \cup {Nil}]
    BY <1>1, <2>1, TableTypes, ExecType DEF IInv, FlushAllName, AtListed
  <2> QED
    BY <1>1, <2>2, StatementPreserves DEF FlushAllName, IInv, TypeOK
<1>2. ASSUME IInv, FlushAllTopic PROVE IInv'
  <2>1. AtListed
    BY <1>2, AtSlot DEF FlushAllTopic
  <2>2. db' \in [Name -> Row \cup {Nil}]
    BY <1>2, <2>1, TableTypes, ExecType DEF IInv, FlushAllTopic, AtListed
  <2> QED
    BY <1>2, <2>2, StatementPreserves DEF FlushAllTopic, IInv, TypeOK
<1>3. ASSUME IInv, FlushAllState PROVE IInv'
  <2>1. AtListed
    BY <1>3, AtSlot DEF FlushAllState
  <2>2. db' \in [Name -> Row \cup {Nil}]
    BY <1>3, <2>1, TableTypes, ExecType DEF IInv, FlushAllState, AtListed
  <2> QED
    BY <1>3, <2>1, <2>2, DonePreserves, NilAssumption
    DEF FlushAllState, AtListed
<1> QED
  BY <1>1, <1>2, <1>3

\* Case 4 of db_updater: the row it writes is complete, also when
\* insert_db_entry refuses it.
LEMMA FlushInsertPreserves == IInv /\ FlushInsert => IInv'
<1> SUFFICES ASSUME IInv, FlushInsert PROVE IInv'
  OBVIOUS
<1>1. AtListed
  BY AtSlot DEF FlushInsert
<1>2. RowOf(cur) \in Row
  BY <1>1 DEF RowOf, Row, AtListed
<1>3. db' \in [Name -> Row \cup {Nil}]
  BY <1>1, <1>2, TableTypes, ExecType DEF IInv, TypeOK, FlushInsert, AtListed
<1> QED
  BY <1>1, <1>3, DonePreserves, NilAssumption DEF FlushInsert, AtListed

\* Case 5 of db_updater: it leaves the slot as allocate_buffers made it.
LEMMA FlushDeletePreserves == IInv /\ FlushDelete => IInv'
<1> SUFFICES ASSUME IInv, FlushDelete PROVE IInv'
  OBVIOUS
<1>1. cur \in Slots /\ to_change[cur] = 5 /\ dev_name[cur] = Nil
  BY SizeAssumption
  DEF IInv, TypeOK, StageLegal, FlushDelete, Pending, Slots
<1>2. db' \in [Name -> Row \cup {Nil}]
  BY TableTypes, ExecType DEF IInv, FlushDelete
<1>3. cur' \in 0..MaxDev
  BY <1>1, AdvanceType DEF IInv, FlushDelete, SlotDone, Slots
<1>4. TypeOK'
  <2>1. \A j \in Slots : SlotComplete(j)'
    BY <1>1 DEF IInv, TypeOK, SlotComplete, FlushDelete, SlotDone,
                ForgetContents
  <2>2. /\ dev_type' \in [Slots -> DevType \cup {-1}]
        /\ dev_state' \in [Slots -> State \cup {Nil}]
        /\ valid_cmnds' \in [Slots -> Cmnds \cup {Nil}]
    BY DEF IInv, TypeOK, FlushDelete, ForgetContents
  <2>3. /\ odev_name' \in [Slots -> Name0 \cup {Mixed}]
        /\ omqtt_topic' \in [Slots -> Topic0 \cup {Mixed}]
    BY DEF IInv, TypeOK, FlushDelete, ForgetOldName, ForgetOldTopic, Name0,
           Topic0
  <2>4. to_change' \in [Slots -> -1..5]
    <3>1. to_change' = [to_change EXCEPT ![cur] = -1]
      BY DEF FlushDelete, SlotDone
    <3>2. to_change \in [Slots -> -1..5]
      BY DEF IInv, TypeOK
    <3>3. -1 \in -1..5
      OBVIOUS
    <3> HIDE DEF IInv
    <3> QED
      BY <1>1, <3>1, <3>2, <3>3
  <2>5. /\ dev_name' \in [Slots -> Name0]
        /\ mqtt_topic' \in [Slots -> Topic0]
        /\ db_len' \in 0..MaxDev
        /\ subs' \subseteq Topic
        /\ stmt' \in 1..3
    BY DEF IInv, TypeOK, FlushDelete, SlotDone
  <2> QED
    BY <1>2, <1>3, <2>1, <2>2, <2>3, <2>4, <2>5 DEF TypeOK
<1>5. CountMatches' /\ NoOrphanSubscription'
  BY DEF IInv, CountMatches, NoOrphanSubscription, Occupied, FlushDelete,
         SlotDone
<1>6. StageLegal' /\ FreeSlotPristine'
  BY <1>1
  DEF IInv, TypeOK, SlotComplete, StageLegal, FreeSlotPristine, FlushDelete,
      SlotDone, ForgetContents, ForgetOldName, ForgetOldTopic
<1> QED
  BY <1>4, <1>5, <1>6 DEF IInv

\* Every step of a pass preserves the invariant.
LEMMA FlushPreserves == IInv /\ Flush => IInv'
BY FlushNothingPreserves, FlushStatePreserves, FlushNamePreserves,
   FlushTopicPreserves, FlushAllPreserves, FlushInsertPreserves,
   FlushDeletePreserves DEF Flush

----------------------------------------------------------------------------
(* A restart loads at most MaxDev rows into the first slots.                 *)

\* initialize_db loads no more devices than the table has slots.
LEMMA LoadCountRange ==
    /\ LoadCount \in 0..MaxDev
    /\ 1..LoadCount \subseteq Slots
<1>1. IsFiniteSet(Keys)
  BY NameAssumption, FS_Subset DEF Keys
<1>2. Cardinality(Keys) \in Nat
  BY <1>1, FS_CardinalityType
<1> QED
  BY <1>2, SizeAssumption DEF LoadCount, Slots

\* A restart at any point re-establishes the invariant from the rows alone.
LEMMA RestartPreserves ==
    ASSUME IInv, NEW f \in Loads, Restart(f)
    PROVE  IInv'
<1>1. /\ LoadCount \in 0..MaxDev
      /\ 1..LoadCount \subseteq Slots
  BY LoadCountRange
<1>2. \A i \in 1..LoadCount :
         f[i] \in Name /\ f[i] # Nil /\ db[f[i]] \in Row
  BY NilAssumption DEF Loads, Keys, IInv, TypeOK
<1>3. \A i \in 1..LoadCount :
         /\ db[f[i]].topic \in Topic /\ db[f[i]].type \in DevType
         /\ db[f[i]].state \in State /\ db[f[i]].cmnds \in Cmnds
  BY <1>2 DEF Row
<1>4. \A i \in Slots :
         IF i <= LoadCount
         THEN i \in 1..LoadCount /\ dev_name'[i] = f[i]
              /\ mqtt_topic'[i] = db[f[i]].topic
         ELSE dev_name'[i] = Nil /\ mqtt_topic'[i] = Nil
  BY <1>1 DEF Restart, Slots
<1>5. Occupied' = 1..LoadCount
  BY <1>1, <1>2, <1>4 DEF Occupied, Slots
<1>6. CountMatches'
  BY <1>1, <1>5, FS_Interval DEF CountMatches, Restart
<1>7. TypeOK'
  <2>1. \A i \in Slots : SlotComplete(i)'
    BY <1>1, <1>2, <1>3, <1>4 DEF SlotComplete, Restart
  <2>2. /\ dev_name' \in [Slots -> Name0]
        /\ mqtt_topic' \in [Slots -> Topic0]
    BY <1>2, <1>3, <1>4 DEF Restart, Name0, Topic0
  <2>3. /\ dev_type' \in [Slots -> DevType \cup {-1}]
        /\ dev_state' \in [Slots -> State \cup {Nil}]
        /\ valid_cmnds' \in [Slots -> Cmnds \cup {Nil}]
    BY <1>3, <1>4 DEF Restart
  <2>4. subs' \subseteq Topic
    BY <1>3 DEF Restart
  <2>5. /\ odev_name' \in [Slots -> Name0 \cup {Mixed}]
        /\ omqtt_topic' \in [Slots -> Topic0 \cup {Mixed}]
        /\ to_change' \in [Slots -> -1..5]
        /\ db_len' \in 0..MaxDev /\ cur' \in 0..MaxDev /\ stmt' \in 1..3
        /\ db' \in [Name -> Row \cup {Nil}]
    BY <1>1, SizeAssumption DEF Restart, Name0, Topic0, IInv, TypeOK
  <2> QED
    BY <2>1, <2>2, <2>3, <2>4, <2>5 DEF TypeOK
<1>8. StageLegal' /\ FreeSlotPristine'
  BY <1>2, <1>4 DEF StageLegal, FreeSlotPristine, Restart
<1>9. NoOrphanSubscription'
  <2> SUFFICES ASSUME NEW x \in subs'
               PROVE  \E i \in Occupied' : x = mqtt_topic'[i]
    BY DEF NoOrphanSubscription
  <2>1. PICK i \in 1..LoadCount : x = db[f[i]].topic
    BY DEF Restart
  <2> QED
    BY <1>1, <1>4, <1>5, <2>1
<1> QED
  BY <1>6, <1>7, <1>8, <1>9 DEF IInv

----------------------------------------------------------------------------
\* The invariant speaks only of the state of the table.
LEMMA StutterPreserves == IInv /\ UNCHANGED vars => IInv'
BY DEF IInv, TypeOK, SlotComplete, CountMatches, StageLegal, FreeSlotPristine,
       NoOrphanSubscription, Occupied, vars

\* The invariant is inductive.
LEMMA NextPreserves == IInv /\ [Next]_vars => IInv'
<1> SUFFICES ASSUME IInv, [Next]_vars PROVE IInv'
  OBVIOUS
<1>1. ASSUME NEW i \in Slots, Request(i) \/ Message(i) PROVE IInv'
  BY <1>1, RequestPreserves, MessagePreserves
<1>2. CASE Wake
  BY <1>2, WakePreserves
<1>3. CASE Flush
  BY <1>3, FlushPreserves
<1>4. ASSUME NEW f \in Loads, Restart(f) PROVE IInv'
  BY <1>4, RestartPreserves
<1>5. CASE UNCHANGED vars
  BY <1>5, StutterPreserves
<1> QED
  BY <1>1, <1>2, <1>3, <1>4, <1>5 DEF Next

(* The inductive invariant: the five properties of table_any together, each  *)
(* of which needs the others.                                                *)
THEOREM Invariance == Spec => []IInv
BY InitEstablishes, NextPreserves, PTL DEF Spec

(* Every variable keeps its type and every listed device is complete.        *)
THEOREM TypeCorrect == Spec => []TypeOK
<1>1. IInv => TypeOK
  BY DEF IInv
<1> QED
  BY <1>1, Invariance, PTL

(* The device count LIST reports is the number of listed devices.            *)
THEOREM CountCorrect == Spec => []CountMatches
<1>1. IInv => CountMatches
  BY DEF IInv
<1> QED
  BY <1>1, Invariance, PTL

(* Whatever is staged has the old keys its SQL statements need.              *)
THEOREM StagingLegal == Spec => []StageLegal
<1>1. IInv => StageLegal
  BY DEF IInv
<1> QED
  BY <1>1, Invariance, PTL

(* A slot handed to add_device with nothing staged is as good as new.        *)
THEOREM FreeSlotsClean == Spec => []FreeSlotPristine
<1>1. IInv => FreeSlotPristine
  BY DEF IInv
<1> QED
  BY <1>1, Invariance, PTL

(* The hub is subscribed only to topics of listed devices.                   *)
THEOREM NoOrphan == Spec => []NoOrphanSubscription
<1>1. IInv => NoOrphanSubscription
  BY DEF IInv
<1> QED
  BY <1>1, Invariance, PTL

----------------------------------------------------------------------------
(* The steps under StagedEventuallyFlushed, whatever clients do and whether  *)
(* or not statements succeed.                                                *)

\* Statements that may still follow in this pass, three to a slot.
PassLeft == IF cur = 0 THEN 0 ELSE 3 * (MaxDev - cur) + (4 - stmt)

\* What a step of the pass does to the place it is at.
LEMMA FlushMoves ==
    ASSUME IInv, Flush
    PROVE  /\ cur \in Slots
           /\ \/ Advance /\ stmt' \in {1, stmt} /\ to_change'[cur] = -1
              \/ cur' = cur /\ stmt' = stmt + 1 /\ to_change' = to_change
           /\ \A i \in Slots \ {cur} : to_change'[i] = to_change[i]
<1>1. cur \in 0..MaxDev /\ stmt \in 1..3 /\ to_change \in [Slots -> -1..5]
  BY DEF IInv, TypeOK
<1>2. cur \in Slots
  BY <1>1, SizeAssumption
  DEF Flush, FlushNothing, FlushState, FlushName, FlushTopic, FlushAllName,
      FlushAllTopic, FlushAllState, FlushInsert, FlushDelete, Pending, Slots
<1>3. CASE FlushNothing
  BY <1>1, <1>2, <1>3 DEF FlushNothing, Pending
<1>4. CASE FlushAllName \/ FlushAllTopic
  BY <1>1, <1>2, <1>4 DEF FlushAllName, FlushAllTopic
<1>5. CASE SlotDone
  BY <1>1, <1>2, <1>5 DEF SlotDone
<1> QED
  BY <1>2, <1>3, <1>4, <1>5
  DEF Flush, FlushState, FlushName, FlushTopic, FlushAllState, FlushInsert,
      FlushDelete

\* No request and no message comes in between two statements of a pass.
LEMMA OnlyFlushDuringPass ==
    ASSUME IInv, [Next]_vars, ~UNCHANGED vars, cur # 0
    PROVE  Flush \/ \E f \in Loads : Restart(f)
<1>1. ASSUME NEW i \in Slots, Request(i) \/ Message(i) PROVE FALSE
  BY <1>1
  DEF Request, Message, add_device, delete_device, update_name, update_topic,
      update_state, publish_kl_callback, Unlocked
<1>2. ~Wake
  BY DEF Wake, Unlocked
<1> QED
  BY <1>1, <1>2 DEF Next

\* Every step taken during a pass of db_updater brings its end closer
\* (database.c:701-813): clients who keep staging do not prolong it, nor does a
\* statement that fails.
THEOREM PassEnds == Spec => [][cur # 0 => PassLeft' < PassLeft]_vars
<1>1. IInv /\ [Next]_vars => [cur # 0 => PassLeft' < PassLeft]_vars
  <2> SUFFICES ASSUME IInv, [Next]_vars, ~UNCHANGED vars, cur # 0
               PROVE  PassLeft' < PassLeft
    OBVIOUS
  <2>1. cur \in 1..MaxDev /\ stmt \in 1..3 /\ stmt' \in 1..3 /\ MaxDev \in Nat
    <3>1. IInv'
      BY NextPreserves
    <3> QED
      BY <3>1, SizeAssumption DEF IInv, TypeOK
  <2>2. CASE Flush
    BY <2>1, <2>2, FlushMoves DEF Advance, PassLeft
  <2>3. ASSUME NEW f \in Loads, Restart(f) PROVE PassLeft' < PassLeft
    BY <2>1, <2>3 DEF Restart, PassLeft
  <2> QED
    BY <2>2, <2>3, OnlyFlushDuringPass
<1> QED
  BY <1>1, Invariance, PTL DEF Spec

\* What is staged for a slot stays staged, or is joined by another change, until the
\* pass comes to the slot, and the pass does not leave it before it is written
\* (to_change[i] = -1 after the statements, database.c:701-813); a restart forgets
\* it.
THEOREM StagedUntilPassed ==
    Spec => [][/\ \A i \in Slots :
                      to_change[i] # -1 /\ to_change'[i] = -1 =>
                          cur = i \/ \E f \in Loads : Restart(f)
               /\ cur \notin {0, cur'} => to_change'[cur] = -1]_vars
<1>1. IInv /\ [Next]_vars =>
      [/\ \A i \in Slots :
              to_change[i] # -1 /\ to_change'[i] = -1 =>
                  cur = i \/ \E f \in Loads : Restart(f)
       /\ cur \notin {0, cur'} => to_change'[cur] = -1]_vars
  <2> SUFFICES ASSUME IInv, [Next]_vars, ~UNCHANGED vars
               PROVE  /\ \A i \in Slots :
                             to_change[i] # -1 /\ to_change'[i] = -1 =>
                                 cur = i \/ \E f \in Loads : Restart(f)
                      /\ cur \notin {0, cur'} => to_change'[cur] = -1
    OBVIOUS
  <2>1. CASE cur # 0 /\ Flush
    BY <2>1, FlushMoves
  <2>2. ASSUME NEW f \in Loads, Restart(f), cur # 0
        PROVE  to_change'[cur] = -1
    BY <2>2 DEF Restart, IInv, TypeOK, Slots
  <2>3. CASE cur = 0
    <3>1. ASSUME NEW i \in Slots, Request(i) \/ Message(i), NEW j \in Slots,
                 to_change[j] # -1
          PROVE  to_change'[j] # -1
      <4>1. to_change \in [Slots -> -1..5]
        BY DEF IInv, TypeOK
      <4>2. \E kind \in {4, 5, Stage(to_change[i], 0), Stage(to_change[i], 1),
                         Stage(to_change[i], 2)} :
                to_change' = [to_change EXCEPT ![i] = kind]
        BY <3>1
        DEF Request, Message, add_device, delete_device, update_name,
            update_topic, update_state, publish_kl_callback, StageState
      <4>3. /\ Stage(to_change[i], 0) # -1 /\ Stage(to_change[i], 1) # -1
            /\ Stage(to_change[i], 2) # -1
        BY <4>1 DEF Stage
      <4> QED
        BY <3>1, <4>1, <4>2, <4>3
    <3>2. ~Flush
      BY <2>3
      DEF Flush, FlushNothing, FlushState, FlushName, FlushTopic, FlushAllName,
          FlushAllTopic, FlushAllState, FlushInsert, FlushDelete, Pending
    <3>3. CASE Wake
      BY <2>3, <3>3 DEF Wake
    <3> QED
      BY <2>3, <3>1, <3>2, <3>3 DEF Next
  <2> QED
    BY <2>1, <2>2, <2>3, OnlyFlushDuringPass
<1> QED
  BY <1>1, Invariance, PTL DEF Spec
=============================================================================
