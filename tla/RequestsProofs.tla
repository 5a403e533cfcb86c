---------------------------- MODULE RequestsProofs ----------------------------
(* What holds of the requests for every table size, whatever lines clients   *)
(* send, whatever messages arrive and whenever the MQTT client fails.        *)
EXTENDS Requests, SequenceTheorems, WellFoundedInduction, TLAPS

----------------------------------------------------------------------------
(* Choosing the lowest slot.                                                *)

LEMMA LowestNumber ==
    ASSUME NEW T \in SUBSET Nat, T # {}
    PROVE  \E x \in T : \A y \in T : x <= y
<1> DEFINE R == OpToRel(<, Nat)
<1>1. \A x, y \in Nat : x < y => <<x, y>> \in R
  BY DEF OpToRel
<1>2. IsWellFoundedOn(R, Nat)
  BY NatLessThanWellFounded
<1> HIDE DEF R
<1>3. PICK x \in T : \A y \in T : ~ (<<y, x>> \in R)
  BY <1>2, WFMin
<1>4. \A y \in T : ~ (y < x)
  BY <1>1, <1>3
<1> QED
  BY <1>3, <1>4

LEMMA LowestSlot ==
    ASSUME NEW T \in SUBSET Slots, T # {}
    PROVE  (CHOOSE i \in T : \A j \in T : i <= j) \in T
<1>1. T \in SUBSET Nat
  BY DEF Slots
<1>2. \E i \in T : \A j \in T : i <= j
  BY <1>1, LowestNumber
<1> QED
  BY <1>2

LEMMA ReachedSlot ==
    ASSUME NEW arg, Named(arg) # {}
    PROVE  Reached(arg) \in Occupied
<1>1. Named(arg) \in SUBSET Slots /\ Named(arg) \subseteq Occupied
  BY DEF Named, Occupied
<1>2. Reached(arg) \in Named(arg)
  <2> HIDE DEF Named
  <2> QED
    BY <1>1, LowestSlot DEF Reached
<1> QED
  BY <1>1, <1>2

LEMMA FreeSlot ==
    ASSUME Occupied # Slots
    PROVE  FirstFree \in Slots /\ memory[FirstFree] = Free
<1> DEFINE T == Slots \ Occupied
<1>1. T \in SUBSET Slots /\ T # {}
  BY DEF Occupied
<1> HIDE DEF T
<1>2. (CHOOSE i \in T : \A j \in T : i <= j) \in T
  BY <1>1, LowestSlot
<1>3. FirstFree \in Slots \ Occupied
  BY <1>2 DEF FirstFree, T
<1> QED
  BY <1>3 DEF Occupied

----------------------------------------------------------------------------
(* Words.                                                                   *)

LEMMA KeptLength ==
    ASSUME NEW l \in Lines
    PROVE  /\ l \in Seq(Word) /\ Len(l) \in Nat
           /\ Len(Kept(l)) \in Nat /\ Len(Kept(l)) <= Len(l)
<1> DEFINE n == IF Len(l) < ArgLen THEN Len(l) ELSE ArgLen
<1>1. l \in Seq(Word) /\ Len(l) \in Nat /\ ArgLen \in Nat
  BY RequestAssumption
<1>2. n \in 0..Len(l)
  BY <1>1
<1>3. Kept(l) = SubSeq(l, 1, n)
  BY DEF Kept
<1>4. \A i \in 1..n : l[i] \in Word
  BY <1>1, <1>2
<1> HIDE DEF n
<1>5. Len(SubSeq(l, 1, n)) = IF 1 <= n THEN n - 1 + 1 ELSE 0
  BY <1>1, <1>2, <1>4, SubSeqProperties
<1> QED
  BY <1>1, <1>2, <1>3, <1>5

\* A word that is kept is a word of the line.
LEMMA KeptWord ==
    ASSUME NEW l \in Lines, NEW k \in Nat \ {0}, Len(Kept(l)) >= k
    PROVE  Arg(l, k) # Empty
<1>1. k \in 1..Len(l) /\ l \in Seq(Word) /\ k <= Len(Kept(l))
  BY KeptLength
<1>2. Arg(l, k) = l[k] /\ l[k] \in Word
  BY <1>1 DEF Arg
<1> QED
  BY <1>2, RequestAssumption

LEMMA AddWord ==
    ASSUME NEW l \in Lines, Accepted(l, "ADD")
    PROVE  Arg(l, 2) # Empty /\ Arg(l, 3) # Empty
<1>1. Len(Kept(l)) >= AddWords(l) /\ AddWords(l) \in {5, 6}
  BY DEF Accepted, Enough, WordsNeeded, AddWords
<1>2. Len(Kept(l)) \in Nat
  BY KeptLength
<1>3. Len(Kept(l)) >= 2 /\ Len(Kept(l)) >= 3
  BY <1>1, <1>2
<1> QED
  BY <1>3, KeptWord

LEMMA UpdateWord ==
    ASSUME NEW l \in Lines, Accepted(l, "UPDATE")
    PROVE  NewValue(l) # Empty
<1>1. Len(Kept(l)) >= 4
  BY DEF Accepted, Enough, WordsNeeded
<1> QED
  BY <1>1, KeptWord DEF NewValue

----------------------------------------------------------------------------
(* The table: a slot is free or has a whole device.                          *)

Device(d) ==
    /\ DOMAIN d = {"name", "topic", "type", "state", "cmnds"}
    /\ d.name # Empty
    /\ d.topic # Empty
    /\ d.type \in Types
    /\ List(d.state) /\ Len(d.state) > 0
    /\ List(d.cmnds)

Table ==
    /\ DOMAIN memory = Slots
    /\ \A i \in Slots : memory[i] = Free \/ Device(memory[i])

Told == failed \in BOOLEAN /\ line \in Lines \cup {<<>>} /\ answer \in Codes

\* Inductive, unlike TypeOK: a message is merged into a state of some length.
IInv == Table /\ Told

LEMMA OccupiedSlot ==
    ASSUME Table, NEW i \in Occupied
    PROVE  i \in Slots /\ memory[i] # Free /\ Device(memory[i])
BY DEF Table, Occupied

LEMMA SlotChanged ==
    ASSUME Table, NEW i \in Slots, NEW d, d = Free \/ Device(d),
           memory' = [memory EXCEPT ![i] = d]
    PROVE  /\ Table'
           /\ memory'[i] = d /\ \A j \in Slots : j # i => memory'[j] = memory[j]
<1>1. /\ DOMAIN memory' = Slots /\ memory'[i] = d
      /\ \A j \in Slots : j # i => memory'[j] = memory[j]
  BY DEF Table
<1>2. \A j \in Slots : memory'[j] = Free \/ Device(memory'[j])
  <2> SUFFICES ASSUME NEW j \in Slots
               PROVE  memory'[j] = Free \/ Device(memory'[j])
    OBVIOUS
  <2>1. CASE j = i
    BY <1>1, <2>1
  <2>2. CASE j # i
    <3>1. memory'[j] = memory[j] /\ (memory[j] = Free \/ Device(memory[j]))
      BY <1>1, <2>2 DEF Table
    <3> QED
      BY <3>1
  <2> QED
    BY <2>1, <2>2
<1> QED
  BY <1>1, <1>2 DEF Table

\* Only the state of a device, its name or its topic ever changes.
LEMMA DeviceRenamed ==
    ASSUME NEW d, Device(d), NEW w, w # Empty
    PROVE  Device([d EXCEPT !.name = w]) /\ Device([d EXCEPT !.topic = w])
BY DEF Device

LEMMA DeviceUpdated ==
    ASSUME NEW d, Device(d), NEW s, List(s), Len(s) > 0
    PROVE  Device([d EXCEPT !.state = s])
BY DEF Device

----------------------------------------------------------------------------
(* States and commands are lists, and a merged state is as long as it was.    *)

LEMMA FunctionLength ==
    ASSUME NEW n \in Nat, NEW f, f = [i \in 1..n |-> f[i]]
    PROVE  Len(f) = n /\ List(f)
<1> DEFINE S == {f[i] : i \in 1..n}
<1>1. f \in [1..n -> S]
  OBVIOUS
<1> HIDE DEF S
<1>2. f \in Seq(S)
  BY <1>1, IsASeq
<1>3. Len(f) \in Nat /\ DOMAIN f = 1..Len(f)
  BY <1>2, LenProperties
<1>4. 1..Len(f) = 1..n
  BY <1>1, <1>3
<1> QED
  BY <1>3, <1>4 DEF List

LEMMA UpdatedList ==
    ASSUME NEW s, List(s), Len(s) > 0, NEW m \in Messages
    PROVE  List(Updated(s, m)) /\ Len(Updated(s, m)) > 0
<1> DEFINE f == Merge(s, Usable(m))
<1>1. List(m) /\ Len(m) > 0
  BY RequestAssumption
<1>2. f = [i \in 1..Len(s) |-> f[i]]
  BY DEF Merge
<1>3. Len(s) \in Nat
  BY DEF List
<1> HIDE DEF f
<1>4. Len(f) = Len(s) /\ List(f)
  BY <1>2, <1>3, FunctionLength
<1> QED
  BY <1>1, <1>4 DEF Updated, replace_jsmn_property, f

LEMMA CommandsList ==
    ASSUME NEW ty \in Types, NEW list
    PROVE  List(Commands(ty, list))
<1>1. CASE ty = 1
  <2> DEFINE n == IF atoi(list) < 0 THEN 0 ELSE 1 + atoi(list)
             f == [k \in 1..n |-> Outlets[k]]
  <2>1. atoi(list) \in Int
    BY RequestAssumption DEF atoi
  <2>2. n \in Nat /\ 1..n = 1..1 + atoi(list)
    BY <2>1
  <2> HIDE DEF n
  <2>3. f = [k \in 1..n |-> f[k]] /\ Commands(ty, list) = f
    BY <1>1, <2>2 DEF Commands
  <2> HIDE DEF f
  <2> QED
    BY <2>2, <2>3, FunctionLength
<1>2. CASE ty = 7
  <2>1. Commands(ty, list) = IF list \in DOMAIN CommandList THEN CommandList[list]
                                                            ELSE <<list>>
    BY <1>2 DEF Commands
  <2> DEFINE f == <<list>>
  <2>2. f = [k \in 1..1 |-> f[k]]
    OBVIOUS
  <2> HIDE DEF f
  <2>3. List(f)
    BY <2>2, FunctionLength
  <2> QED
    BY <2>1, <2>3, RequestAssumption DEF f
<1>3. CASE ty \in Types \ {1, 7}
  BY <1>3, RequestAssumption DEF Commands
<1> QED
  BY <1>1, <1>2, <1>3

----------------------------------------------------------------------------
(* What the requests do.                                                     *)

\* Queue, of n calls, queues them all or the client has failed.
LEMMA QueueEffect ==
    ASSUME NEW S, NEW calls \in Seq(S), NEW n \in Nat, Len(calls) = n,
           Queue(calls)
    PROVE  failed' \in BOOLEAN /\ (Len(sent') = n \/ failed')
<1>1. PICK k \in 0..Len(calls) :
          /\ sent' = SubSeq(calls, 1, k)
          /\ failed' \in BOOLEAN
          /\ failed \/ k < Len(calls) => failed'
  BY DEF Queue
<1>2. \A i \in 1..k : calls[i] \in S
  BY <1>1
<1>3. Len(SubSeq(calls, 1, k)) = IF 1 <= k THEN k - 1 + 1 ELSE 0
  BY <1>1, <1>2, SubSeqProperties
<1>4. Len(sent') = k
  BY <1>1, <1>3
<1> QED
  BY <1>1, <1>4

\* The step of QueuedOrTold.
Queued == Len(sent') = Calls(answer') \/ (failed' /\ answer' # 205)

\* What every answer but 202 goes with.
Effect(l) ==
    /\ line' = l /\ answer' \in Codes \ {202} /\ failed' \in BOOLEAN
    /\ Table'
    /\ Queued

LEMMA SayEffect ==
    ASSUME IInv, NEW l,
           NEW code \in {207, 400, 402, 403, 404, 405, 406, 409}, Say(l, code)
    PROVE  Effect(l)
<1>1. /\ line' = l /\ answer' = code /\ sent' = <<>> /\ memory' = memory
      /\ failed' = failed
  BY DEF Say, Answer
<1>2. Len(sent') = 0 /\ Calls(answer') = 0
  BY <1>1, EmptySeq DEF Calls
<1>3. Table' /\ failed' \in BOOLEAN
  BY <1>1 DEF IInv, Told, Table
<1> QED
  BY <1>1, <1>2, <1>3 DEF Effect, Queued, Codes

\* A handler that queues one call, with the answer that says so.
LEMMA OneCall ==
    ASSUME IInv, NEW l, NEW call, Queue(<<call>>), line' = l,
           answer' \in {200, 201, 203, 210} \/ (answer' = 205 /\ ~failed')
               \/ (answer' = 500 /\ failed'),
           Table'
    PROVE  Effect(l)
<1> DEFINE calls == <<call>>
<1>1. calls \in Seq({call}) /\ Len(calls) = 1 /\ 1 \in Nat /\ Queue(calls)
  OBVIOUS
<1> HIDE DEF calls
<1>2. failed' \in BOOLEAN /\ (Len(sent') = 1 \/ failed')
  BY <1>1, QueueEffect
<1>3. answer' \in {200, 201, 203, 205, 210} => Calls(answer') = 1
  BY DEF Calls
<1>4. answer' \in Codes \ {202}
  BY DEF Codes
<1>5. CASE answer' \in {200, 201, 203, 210}
  <2>1. answer' # 205 /\ Calls(answer') = 1
    BY <1>3, <1>5
  <2>2. Queued
    BY <1>2, <2>1, Zenon DEF Queued
  <2> QED
    BY <1>2, <1>4, <2>2 DEF Effect
<1>6. CASE answer' = 205 /\ ~failed'
  BY <1>2, <1>3, <1>4, <1>6, ZenonT(60) DEF Effect, Queued
<1>7. CASE answer' = 500 /\ failed'
  BY <1>2, <1>4, <1>7 DEF Effect, Queued
<1> QED
  BY <1>5, <1>6, <1>7

\* LIST and STATUS.
LEMMA ShowEffect ==
    ASSUME IInv, NEW l, line' = l, answer' \in {204, 206, 208}, sent' = <<>>,
           failed' = failed, Table'
    PROVE  Effect(l)
<1>1. Len(sent') = 0 /\ Calls(answer') = 0
  BY EmptySeq DEF Calls
<1> QED
  BY <1>1 DEF Effect, Queued, Codes, IInv, Told

LEMMA SameTable ==
    ASSUME IInv, memory' = memory
    PROVE  Table'
BY DEF IInv, Table

\* The requests that leave the table alone.
LEMMA LookupEffect ==
    ASSUME IInv, NEW l,
           \/ Refuse(l) \/ Quit(l) \/ Transmit(l) \/ NoSuchDevice(l)
           \/ toggle_dev_power(l) \/ change_dev_state(l)
           \/ dump_devices(l) \/ get_dev_state(l)
    PROVE  Effect(l)
<1>1. CASE Refuse(l)
  <2>1. Say(l, 400) \/ Say(l, 409) \/ Say(l, 406)
    BY <1>1 DEF Refuse
  <2> QED
    BY <2>1, SayEffect
<1>2. CASE Quit(l)
  <2>1. Say(l, 207)
    BY <1>2 DEF Quit
  <2> QED
    BY <2>1, SayEffect
<1>3. CASE NoSuchDevice(l)
  <2>1. Say(l, 404) \/ Say(l, 402)
    BY <1>3 DEF NoSuchDevice
  <2> QED
    BY <2>1, SayEffect
<1>4. CASE Transmit(l)
  <2> DEFINE call == Publish(Arg(l, 2), Empty, Arg(l, 3))
  <2>1. /\ Queue(<<call>>) /\ line' = l /\ memory' = memory
        /\ (answer' = 205 /\ ~failed') \/ (answer' = 500 /\ failed')
    BY <1>4 DEF Transmit, Answer, FailedAfter
  <2> HIDE DEF call
  <2> QED
    BY <2>1, SameTable, OneCall
<1>5. CASE toggle_dev_power(l)
  <2>1. PICK call : Queue(<<call>>)
    BY <1>5 DEF toggle_dev_power
  <2>2. line' = l /\ memory' = memory /\ answer' = 200
    BY <1>5 DEF toggle_dev_power, Answer
  <2> QED
    BY <2>1, <2>2, SameTable, OneCall
<1>6. CASE change_dev_state(l)
  <2> DEFINE call == Publish(memory[Reached(Arg(l, 2))].topic, Arg(l, 3), Arg(l, 4))
  <2>1. \/ Say(l, 405)
        \/ /\ Queue(<<call>>) /\ line' = l /\ memory' = memory
           /\ answer' = 201
    BY <1>6 DEF change_dev_state, Answer
  <2> HIDE DEF call
  <2> QED
    BY <2>1, SayEffect, SameTable, OneCall
<1>7. CASE dump_devices(l)
  <2>1. /\ line' = l /\ answer' = 204 /\ sent' = <<>> /\ failed' = failed
        /\ memory' = memory
    BY <1>7 DEF dump_devices, Answer
  <2> QED
    BY <2>1, SameTable, ShowEffect
<1>8. CASE get_dev_state(l)
  <2>1. /\ line' = l /\ answer' = 206 /\ sent' = <<>> /\ failed' = failed
        /\ memory' = memory
    BY <1>8 DEF get_dev_state, Answer
  <2> QED
    BY <2>1, SameTable, ShowEffect
<1> QED
  BY <1>1, <1>2, <1>3, <1>4, <1>5, <1>6, <1>7, <1>8

LEMMA DeleteEffect ==
    ASSUME IInv, NEW l, delete_device(l)
    PROVE  Effect(l)
<1> DEFINE i == Reached(Arg(l, 2))
           call == Unsubscribe(memory[i].topic)
<1>1. /\ Named(Arg(l, 2)) # {} /\ Queue(<<call>>) /\ line' = l /\ answer' = 203
      /\ memory' = [memory EXCEPT ![i] = Free]
  BY DEF delete_device, Answer
<1>2. i \in Slots
  BY <1>1, ReachedSlot, OccupiedSlot DEF IInv
<1> HIDE DEF i, call
<1>3. Table'
  BY <1>1, <1>2, SlotChanged DEF IInv
<1> QED
  BY <1>1, <1>3, OneCall

\* The device that was added has the lowest slot that was free.
Added(l) ==
    /\ Accepted(l, "ADD") /\ CanAdd(Arg(l, 2), TypeNumber(l))
    /\ memory' = [memory EXCEPT ![FirstFree] = NewDevice(l)]

LEMMA AddEffect ==
    ASSUME IInv, NEW l \in Lines, add_device(l)
    PROVE  \/ Effect(l)
           \/ /\ Added(l)
              /\ line' = l /\ answer' = 202 /\ failed' \in BOOLEAN
              /\ Table' /\ Queued
<1>1. CASE CanAdd(Arg(l, 2), TypeNumber(l))
  <2> DEFINE s == Subscribe(Arg(l, 3))
             p == Publish(Arg(l, 3), "/STATE", Empty)
             calls == <<s, p>>
  <2>1. /\ Accepted(l, "ADD") /\ memory' = [memory EXCEPT ![FirstFree] = NewDevice(l)]
        /\ Queue(calls) /\ line' = l /\ answer' = 202
    BY <1>1 DEF add_device, Answer
  <2>2. Device(NewDevice(l))
    <3>1. Arg(l, 2) # Empty /\ Arg(l, 3) # Empty
      BY <2>1, AddWord
    <3>2. TypeNumber(l) \in Types
      BY <1>1 DEF CanAdd
    <3>3. List(Template) /\ Len(Template) > 0
      BY RequestAssumption
    <3> DEFINE cmnds == Commands(TypeNumber(l), Arg(l, 5))
    <3>4. List(cmnds)
      BY <3>2, CommandsList
    <3> HIDE DEF cmnds
    <3> QED
      BY <3>1, <3>2, <3>3, <3>4 DEF NewDevice, Device, cmnds
  <2>3. FirstFree \in Slots
    BY <1>1, FreeSlot DEF CanAdd
  <2>4. Table'
    BY <2>1, <2>2, <2>3, SlotChanged DEF IInv
  <2>5. calls \in Seq({s, p}) /\ Len(calls) = 2 /\ 2 \in Nat
    OBVIOUS
  <2> HIDE DEF calls
  <2>6. failed' \in BOOLEAN /\ (Len(sent') = 2 \/ failed')
    BY <2>1, <2>5, QueueEffect
  <2>7. Calls(answer') = 2 /\ answer' # 205
    BY <2>1 DEF Calls
  <2>8. Queued
    BY <2>6, <2>7, Zenon DEF Queued
  <2> QED
    BY <1>1, <2>1, <2>4, <2>6, <2>8 DEF Added
<1>2. CASE ~CanAdd(Arg(l, 2), TypeNumber(l))
  <2>1. Say(l, 403)
    BY <1>2 DEF add_device
  <2> QED
    BY <2>1, SayEffect
<1> QED
  BY <1>1, <1>2

LEMMA UpdateEffect ==
    ASSUME IInv, NEW l \in Lines, update_device(l)
    PROVE  Effect(l)
<1> DEFINE i == Reached(Arg(l, 3))
           d == memory[i]
           v == NewValue(l)
<1>1. \/ Say(l, 405) \/ Say(l, 404)
      \/ /\ Named(Arg(l, 3)) # {} /\ Accepted(l, "UPDATE")
         /\ update_name(l) \/ update_topic(l) \/ update_state(l)
  BY DEF update_device
<1>2. CASE Say(l, 405) \/ Say(l, 404)
  BY <1>2, SayEffect
<1>3. ASSUME Named(Arg(l, 3)) # {}, Accepted(l, "UPDATE")
      PROVE  i \in Slots /\ Device(d) /\ v # Empty
  BY <1>3, ReachedSlot, OccupiedSlot, UpdateWord DEF IInv
<1>4. ASSUME Named(Arg(l, 3)) # {}, Accepted(l, "UPDATE"), update_name(l)
      PROVE  Effect(l)
  <2>1. /\ memory' = [memory EXCEPT ![i] = [d EXCEPT !.name = v]]
        /\ sent' = <<>> /\ line' = l /\ answer' = 208 /\ failed' = failed
    BY <1>4 DEF update_name, Answer
  <2> HIDE DEF i, d, v
  <2>2. Device([d EXCEPT !.name = v]) /\ i \in Slots
    BY <1>3, <1>4, DeviceRenamed
  <2>3. Table'
    BY <2>1, <2>2, SlotChanged DEF IInv
  <2> QED
    BY <2>1, <2>3, ShowEffect
<1>5. ASSUME Named(Arg(l, 3)) # {}, Accepted(l, "UPDATE"), update_topic(l)
      PROVE  Effect(l)
  <2> DEFINE a == Publish(memory[i].topic, "/TOPIC", v)
             b == Unsubscribe(memory[i].topic)
             c == Subscribe(v)
             calls == <<a, b, c>>
  <2>1. /\ memory' = [memory EXCEPT ![i] = [d EXCEPT !.topic = v]]
        /\ Queue(calls) /\ line' = l /\ answer' = 209
    BY <1>5 DEF update_topic, Answer
  <2>2. calls \in Seq({a, b, c}) /\ Len(calls) = 3 /\ 3 \in Nat
    OBVIOUS
  <2> HIDE DEF i, d, v, calls
  <2>3. Device([d EXCEPT !.topic = v]) /\ i \in Slots
    BY <1>3, <1>5, DeviceRenamed
  <2>4. Table'
    BY <2>1, <2>3, SlotChanged DEF IInv
  <2>5. failed' \in BOOLEAN /\ (Len(sent') = 3 \/ failed')
    BY <2>1, <2>2, QueueEffect
  <2>6. Calls(answer') = 3 /\ answer' # 205
    BY <2>1 DEF Calls
  <2>7. Queued
    BY <2>5, <2>6, Zenon DEF Queued
  <2> QED
    BY <2>1, <2>4, <2>5, <2>7 DEF Effect, Codes
<1>6. ASSUME update_state(l)
      PROVE  Effect(l)
  <2> DEFINE call == Publish(memory[i].topic, "/STATE", Empty)
  <2>1. Queue(<<call>>) /\ line' = l /\ memory' = memory /\ answer' = 210
    BY <1>6 DEF update_state, Answer
  <2> HIDE DEF call
  <2> QED
    BY <2>1, SameTable, OneCall
<1> QED
  BY <1>1, <1>2, <1>4, <1>5, <1>6

\* The MQTT callback and the failure of the client answer no one.
LEMMA SilentEffect ==
    ASSUME IInv, (\E i \in Slots, m \in Messages : publish_kl_callback(i, m))
                        \/ ClientFails
    PROVE  IInv' /\ Queued /\ answer' = 0
<1>1. /\ line' = <<>> /\ answer' = 0 /\ sent' = <<>>
      /\ failed' = failed \/ failed' = TRUE
  BY DEF publish_kl_callback, ClientFails, NoRequest
<1>2. Len(sent') = 0 /\ Calls(answer') = 0
  BY <1>1, EmptySeq DEF Calls
<1>3. Told'
  BY <1>1, ZenonT(60) DEF IInv, Told, Codes
<1>4. CASE ClientFails
  BY <1>1, <1>2, <1>3, <1>4, SameTable DEF ClientFails, IInv, Queued
<1>5. ASSUME NEW i \in Slots, NEW m \in Messages, publish_kl_callback(i, m)
      PROVE  Table'
  <2> DEFINE d == memory[i]
             s == Updated(d.state, m)
  <2>1. i \in Occupied /\ memory' = [memory EXCEPT ![i] = [d EXCEPT !.state = s]]
    BY <1>5 DEF publish_kl_callback
  <2>2. Device(d)
    BY <2>1, OccupiedSlot DEF IInv
  <2>3. List(s) /\ Len(s) > 0
    BY <2>2, UpdatedList DEF Device
  <2> HIDE DEF d, s
  <2>4. Device([d EXCEPT !.state = s])
    BY <2>2, <2>3, DeviceUpdated
  <2> QED
    BY <2>1, <2>4, SlotChanged DEF IInv
<1> QED
  BY <1>1, <1>2, <1>3, <1>4, <1>5 DEF IInv, Queued

\* A request: the line it answers, what it left and what it told.
LEMMA RequestEffect ==
    ASSUME IInv, NEW l \in Lines, parse_server_request(l)
    PROVE  /\ IInv' /\ Queued /\ line' = l
           /\ answer' = 202 => Added(l)
<1>1. Effect(l) \/ (/\ Added(l) /\ line' = l /\ answer' = 202
                   /\ failed' \in BOOLEAN /\ Table' /\ Queued)
  BY LookupEffect, DeleteEffect, AddEffect, UpdateEffect DEF parse_server_request
<1> QED
  BY <1>1 DEF Effect, IInv, Told, Codes

----------------------------------------------------------------------------
(* The theorems.                                                            *)

LEMMA InitInv == Init => IInv
BY ZenonT(60) DEF Init, IInv, Table, Told, Codes

LEMMA NextInv == IInv /\ [Next]_vars => IInv'
<1> SUFFICES ASSUME IInv, [Next]_vars PROVE IInv'
  OBVIOUS
<1>1. CASE UNCHANGED vars
  BY <1>1 DEF vars, IInv, Table, Told
<1>2. CASE Next
  BY <1>2, RequestEffect, SilentEffect DEF Next
<1> QED
  BY <1>1, <1>2

LEMMA Invariance == Spec => []IInv
<1>1. Init => IInv
  BY InitInv
<1>2. IInv /\ [Next]_vars => IInv'
  BY NextInv
<1> QED
  BY <1>1, <1>2, PTL DEF Spec

\* Whatever clients send, a slot is free or has a whole device, and every line gets
\* one of the answers of parse_server_request (TypeOK; server.c:307-731).
THEOREM TypeCorrect == Spec => []TypeOK
<1>1. IInv => TypeOK
  BY DEF IInv, Table, Told, TypeOK, Occupied, Device
<1> QED
  BY <1>1, Invariance, PTL

\* What an answer 2xx says was done is queued for the broker, or the client has
\* failed (QueuedOrTold): no handler forgets a call, whatever fails in between.
THEOREM AnswersAreTrue == Spec => QueuedOrTold
<1>1. IInv /\ [Next]_vars =>
        [Len(sent') = Calls(answer') \/ (failed' /\ answer' # 205)]_vars
  <2> SUFFICES ASSUME IInv, [Next]_vars, ~(UNCHANGED vars)
               PROVE  Queued
    BY DEF Queued
  <2> QED
    BY RequestEffect, SilentEffect DEF Next
<1> QED
  BY <1>1, Invariance, PTL DEF Spec, QueuedOrTold

\* The first device that matches an added one's name is the added one.
LEMMA AddedReached ==
    ASSUME IInv, NEW l \in Lines, Added(l), line' = l
    PROVE  /\ memory'[Target'] = NewDevice(l)
           /\ memory'[Target'] # memory[Target']
<1> DEFINE n == Arg(l, 2)
           F == FirstFree
           d == NewDevice(l)
<1>1. /\ Named(n) = {} /\ Occupied # Slots /\ TypeNumber(l) \in Types
      /\ Accepted(l, "ADD") /\ memory' = [memory EXCEPT ![F] = d]
  BY DEF Added, CanAdd
<1>2. F \in Slots /\ memory[F] = Free /\ F \in Nat
  BY <1>1, FreeSlot DEF Slots
<1>3. d # Free /\ d.name = n
  BY <1>1, AddAssumption DEF NewDevice
<1> HIDE DEF F, d, n
<1>4. memory'[F] = d /\ \A j \in Slots : j # F => memory'[j] = memory[j]
  BY <1>1, <1>2 DEF IInv, Table
<1>5. Named(n)' = {F}
  <2>1. Named(n)' = {i \in Slots : memory'[i] # Free /\ Matches(memory'[i].name, n)}
    BY DEF Named, Occupied
  <2>2. \A i \in Slots : memory[i] # Free => ~Matches(memory[i].name, n)
    BY <1>1 DEF Named, Occupied
  <2>3. Matches(d.name, n)
    BY <1>3 DEF Matches
  <2> QED
    BY <1>2, <1>3, <1>4, <2>1, <2>2, <2>3
<1>6. Target' = F
  <2>1. Target' = CHOOSE i \in Named(n)' : \A j \in Named(n)' : i <= j
    BY DEF Target, Reached, n, Arg, Kept
  <2>2. F <= F
    BY <1>2
  <2> QED
    BY <1>5, <2>1, <2>2
<1> QED
  BY <1>2, <1>3, <1>4, <1>6 DEF d

\* After ADD was answered 202, the device its name reaches is the new one
\* (AddedIsReached), whatever was added, renamed and deleted before: FirstFree and
\* the search of the other handlers agree.
THEOREM AddedIsFound == Spec => AddedIsReached
<1>1. IInv /\ [Next]_vars =>
        [answer' = 202 => memory'[Target'] # memory[Target']]_vars
  <2> SUFFICES ASSUME IInv, [Next]_vars, ~(UNCHANGED vars), answer' = 202
               PROVE  memory'[Target'] # memory[Target']
    OBVIOUS
  <2>1. PICK l \in Lines : parse_server_request(l)
    BY SilentEffect DEF Next
  <2>2. Added(l) /\ line' = l
    BY <2>1, RequestEffect
  <2> QED
    BY <2>2, AddedReached
<1> QED
  BY <1>1, Invariance, PTL DEF Spec, AddedIsReached
----------------------------------------------------------------------------
(* Where the words come from that a request writes or sends.                 *)

\* The words in front of the version.
Before(l) == {l[k] : k \in 1..Len(Kept(l)) - 1}

Given(l) == Before(l) \cup OwnWords

\* The words between the commas of those.
Itemised(l) == UNION {Listed(w) : w \in Before(l)}

Sayable(l) ==
    Words(memory) \cup Given(l) \cup {convert_to_upper(w) : w \in Given(l)}
                  \cup Itemised(l)

Drawn(l) == Words(memory') \cup SentWords' \subseteq Sayable(l)

LEMMA ArgBefore ==
    ASSUME NEW l \in Lines, NEW k \in Nat \ {0}, k < Len(Kept(l))
    PROVE  Arg(l, k) \in Before(l)
<1>1. Len(Kept(l)) \in Nat
  BY KeptLength
<1>2. k \in 1..Len(Kept(l)) - 1 /\ Arg(l, k) = l[k]
  BY <1>1 DEF Arg
<1> QED
  BY <1>2 DEF Before

LEMMA SaidIsSayable ==
    ASSUME NEW l
    PROVE  /\ \A w \in Given(l) : w \in Sayable(l)
           /\ \A w \in Given(l) : convert_to_upper(w) \in Sayable(l)
           /\ \A w \in Before(l) : w \in Given(l)
           /\ \A w \in OwnWords : w \in Given(l)
           /\ Words(memory) \subseteq Sayable(l)
           /\ Itemised(l) \subseteq Sayable(l)
<1> HIDE DEF OwnWords
<1> QED
  BY DEF Sayable, Given

LEMMA TopicKnown ==
    ASSUME Table, NEW i \in Occupied
    PROVE  memory[i].topic \in Words(memory)
<1>1. i \in {j \in Slots : memory[j] # Free}
  BY DEF Occupied
<1>2. memory[i].topic \in DeviceWords(memory[i])
  BY DEF DeviceWords
<1> QED
  BY <1>1, <1>2 DEF Words

\* A call made of such words, and a queue of such calls.
Said(call, l) == \A j \in DOMAIN call : call[j] \in Sayable(l)

LEMMA PublishSaid ==
    ASSUME NEW l, NEW t \in Sayable(l), NEW cmd \in Given(l),
           NEW payload \in Sayable(l)
    PROVE  Said(Publish(t, cmd, payload), l)
<1> DEFINE c == convert_to_upper(cmd)
<1>1. c \in Sayable(l) /\ "publish" \in Sayable(l)
  BY SaidIsSayable DEF OwnWords
<1> HIDE DEF c
<1>2. \A j \in DOMAIN <<"publish", t, c, payload>> :
          <<"publish", t, c, payload>>[j] \in {"publish", t, c, payload}
  OBVIOUS
<1> QED
  BY <1>1, <1>2 DEF Said, Publish, c

LEMMA SubscribeSaid ==
    ASSUME NEW l, NEW t \in Sayable(l)
    PROVE  Said(Subscribe(t), l) /\ Said(Unsubscribe(t), l)
<1>1. "subscribe" \in Sayable(l) /\ "unsubscribe" \in Sayable(l)
  BY SaidIsSayable DEF OwnWords
<1>2. /\ \A j \in DOMAIN <<"subscribe", t>> :
             <<"subscribe", t>>[j] \in {"subscribe", t}
      /\ \A j \in DOMAIN <<"unsubscribe", t>> :
             <<"unsubscribe", t>>[j] \in {"unsubscribe", t}
  OBVIOUS
<1> QED
  BY <1>1, <1>2 DEF Said, Subscribe, Unsubscribe

LEMMA QueueSaid ==
    ASSUME NEW l, NEW S, NEW calls \in Seq(S), \A c \in S : Said(c, l),
           Queue(calls)
    PROVE  SentWords' \subseteq Sayable(l)
<1>1. PICK n \in 0..Len(calls) : sent' = SubSeq(calls, 1, n)
  BY DEF Queue
<1>2. \A i \in 1..n : calls[i] \in S
  BY <1>1
<1>3. sent' \in Seq(S)
  BY <1>1, <1>2, SubSeqProperties
<1>4. \A k \in DOMAIN sent' : Said(sent'[k], l)
  BY <1>3
<1> QED
  BY <1>4 DEF SentWords, Said, Range

LEMMA NothingSent ==
    ASSUME NEW l, sent' = <<>>
    PROVE  SentWords' \subseteq Sayable(l)
BY DEF SentWords

LEMMA WordsChanged ==
    ASSUME Table, NEW i \in Slots, NEW d, NEW T, Words(memory) \subseteq T,
           d # Free => DeviceWords(d) \subseteq T,
           memory' = [memory EXCEPT ![i] = d]
    PROVE  Words(memory') \subseteq T
<1>1. /\ memory'[i] = d
      /\ \A j \in Slots : j # i => memory'[j] = memory[j]
  BY DEF Table
<1>2. ASSUME NEW j \in Slots, memory'[j] # Free
      PROVE  DeviceWords(memory'[j]) \subseteq T
  <2>1. CASE j = i
    BY <1>1, <1>2, <2>1
  <2>2. CASE j # i
    <3>1. memory'[j] = memory[j] /\ memory[j] # Free
      BY <1>1, <1>2, <2>2
    <3>2. DeviceWords(memory[j]) \subseteq Words(memory)
      BY <3>1 DEF Words
    <3> QED
      BY <3>1, <3>2
  <2> QED
    BY <2>1, <2>2
<1> QED
  BY <1>2 DEF Words

LEMMA SayDrawn ==
    ASSUME NEW l, NEW code, Say(l, code)
    PROVE  Drawn(l)
<1>1. sent' = <<>> /\ memory' = memory
  BY DEF Say
<1> QED
  BY <1>1, NothingSent, SaidIsSayable DEF Drawn

\* A handler that queues one call and leaves the table alone.
LEMMA OneCallDrawn ==
    ASSUME NEW l, NEW call, Said(call, l), Queue(<<call>>), memory' = memory
    PROVE  Drawn(l)
<1> DEFINE calls == <<call>>
<1>1. calls \in Seq({call}) /\ Queue(calls)
  OBVIOUS
<1> HIDE DEF calls
<1>2. SentWords' \subseteq Sayable(l)
  BY <1>1, QueueSaid
<1> QED
  BY <1>2, SaidIsSayable DEF Drawn

LEMMA LookupDrawn ==
    ASSUME IInv, NEW l \in Lines,
           \/ Refuse(l) \/ Quit(l) \/ Transmit(l) \/ NoSuchDevice(l)
           \/ toggle_dev_power(l) \/ change_dev_state(l)
           \/ dump_devices(l) \/ get_dev_state(l)
    PROVE  Drawn(l)
<1>1. CASE Refuse(l)
  BY <1>1, SayDrawn DEF Refuse
<1>2. CASE Quit(l)
  BY <1>2, SayDrawn DEF Quit
<1>3. CASE NoSuchDevice(l)
  BY <1>3, SayDrawn DEF NoSuchDevice
<1>4. CASE Transmit(l)
  <2>1. Len(Kept(l)) >= 4 /\ Len(Kept(l)) \in Nat
    BY <1>4, KeptLength DEF Transmit, Accepted, Enough, WordsNeeded
  <2>2. Arg(l, 2) \in Before(l) /\ Arg(l, 3) \in Before(l)
    BY <2>1, ArgBefore
  <2>3. Arg(l, 2) \in Sayable(l) /\ Arg(l, 3) \in Sayable(l) /\ Empty \in Given(l)
    BY <2>2, SaidIsSayable DEF OwnWords
  <2> DEFINE call == Publish(Arg(l, 2), Empty, Arg(l, 3))
  <2>4. Said(call, l) /\ Queue(<<call>>) /\ memory' = memory
    BY <1>4, <2>3, PublishSaid DEF Transmit
  <2> HIDE DEF call
  <2> QED
    BY <2>4, OneCallDrawn
<1>5. CASE toggle_dev_power(l)
  <2> DEFINE i == Reached(Arg(l, 2))
             t == memory[i].topic
             cmd == IF memory[i].type = 1 THEN Outlets[1] ELSE OwnCommands[0][1]
             call == Publish(t, cmd, "TOGGLE")
  <2>1. Queue(<<call>>) /\ memory' = memory /\ Named(Arg(l, 2)) # {}
    BY <1>5 DEF toggle_dev_power
  <2>2. i \in Occupied
    BY <2>1, ReachedSlot
  <2>3. t \in Sayable(l)
    BY <2>2, TopicKnown, SaidIsSayable DEF IInv
  <2>4. cmd \in OwnWords /\ "TOGGLE" \in OwnWords
    <3>1. Outlets[1] \in Range(Outlets) /\ OwnCommands[0][1] \in Range(OwnCommands[0])
      BY RequestAssumption DEF Range, List, Types
    <3>2. Range(Outlets) \subseteq OwnWords /\ Range(OwnCommands[0]) \subseteq OwnWords
      BY DEF OwnWords, Types
    <3> QED
      BY <3>1, <3>2 DEF OwnWords
  <2>5. cmd \in Given(l) /\ "TOGGLE" \in Sayable(l)
    BY <2>4, SaidIsSayable
  <2> HIDE DEF t, cmd, i
  <2>6. Said(call, l)
    BY <2>3, <2>5, PublishSaid
  <2> HIDE DEF call
  <2> QED
    BY <2>1, <2>6, OneCallDrawn
<1>6. CASE change_dev_state(l)
  <2> DEFINE i == Reached(Arg(l, 2))
             t == memory[i].topic
             call == Publish(t, Arg(l, 3), Arg(l, 4))
  <2>1. /\ Accepted(l, "SET") /\ Named(Arg(l, 2)) # {}
        /\ Say(l, 405) \/ (Queue(<<call>>) /\ memory' = memory)
    BY <1>6 DEF change_dev_state
  <2>2. Len(Kept(l)) >= 5 /\ Len(Kept(l)) \in Nat
    BY <2>1, KeptLength DEF Accepted, Enough, WordsNeeded
  <2>3. Arg(l, 3) \in Before(l) /\ Arg(l, 4) \in Before(l)
    BY <2>2, ArgBefore
  <2>4. i \in Occupied
    BY <2>1, ReachedSlot
  <2>5. t \in Sayable(l) /\ Arg(l, 3) \in Given(l) /\ Arg(l, 4) \in Sayable(l)
    BY <2>3, <2>4, TopicKnown, SaidIsSayable DEF IInv
  <2> HIDE DEF t, i
  <2>6. Said(call, l)
    BY <2>5, PublishSaid
  <2> HIDE DEF call
  <2> QED
    BY <2>1, <2>6, OneCallDrawn, SayDrawn
<1>7. CASE dump_devices(l)
  <2>1. sent' = <<>> /\ memory' = memory
    BY <1>7 DEF dump_devices
  <2> QED
    BY <2>1, NothingSent, SaidIsSayable DEF Drawn
<1>8. CASE get_dev_state(l)
  <2>1. sent' = <<>> /\ memory' = memory
    BY <1>8 DEF get_dev_state
  <2> QED
    BY <2>1, NothingSent, SaidIsSayable DEF Drawn
<1> QED
  BY <1>1, <1>2, <1>3, <1>4, <1>5, <1>6, <1>7, <1>8

LEMMA DeleteDrawn ==
    ASSUME IInv, NEW l \in Lines, delete_device(l)
    PROVE  Drawn(l)
<1> DEFINE i == Reached(Arg(l, 2))
           call == Unsubscribe(memory[i].topic)
           calls == <<call>>
<1>1. /\ Named(Arg(l, 2)) # {} /\ Queue(calls)
      /\ memory' = [memory EXCEPT ![i] = Free]
  BY DEF delete_device
<1>2. i \in Occupied /\ i \in Slots
  BY <1>1, ReachedSlot, OccupiedSlot DEF IInv
<1>3. memory[i].topic \in Sayable(l)
  BY <1>2, TopicKnown, SaidIsSayable DEF IInv
<1>4. Said(call, l)
  BY <1>3, SubscribeSaid
<1>5. calls \in Seq({call})
  OBVIOUS
<1> HIDE DEF i, call, calls
<1>6. SentWords' \subseteq Sayable(l)
  BY <1>1, <1>4, <1>5, QueueSaid
<1>7. Words(memory') \subseteq Sayable(l)
  BY <1>1, <1>2, SaidIsSayable, WordsChanged DEF IInv
<1> QED
  BY <1>6, <1>7 DEF Drawn

\* The commands of a new device: those of its type, outlets, or the list of words
\* in front of the version.
LEMMA CommandsSayable ==
    ASSUME NEW l \in Lines, Accepted(l, "ADD"), TypeNumber(l) \in Types
    PROVE  Range(Commands(TypeNumber(l), Arg(l, 5))) \subseteq Sayable(l)
<1> DEFINE ty == TypeNumber(l)
           list == Arg(l, 5)
<1>1. CASE ty = 1
  <2>1. 1..1 + atoi(list) \subseteq DOMAIN Outlets
    BY <1>1, AddAssumption
  <2>2. Commands(ty, list) = [k \in 1..1 + atoi(list) |-> Outlets[k]]
    BY <1>1 DEF Commands
  <2>3. Range(Commands(ty, list)) \subseteq Range(Outlets)
    BY <2>1, <2>2 DEF Range
  <2>4. Range(Outlets) \subseteq OwnWords
    BY DEF OwnWords
  <2> QED
    BY <2>3, <2>4, SaidIsSayable
<1>2. CASE ty = 7
  <2>1. Len(Kept(l)) >= 6 /\ Len(Kept(l)) \in Nat
    BY <1>2, KeptLength DEF Accepted, Enough, WordsNeeded, AddWords
  <2>2. list \in Before(l)
    BY <2>1, ArgBefore
  <2>3. Commands(ty, list) = IF list \in DOMAIN CommandList THEN CommandList[list]
                                                            ELSE <<list>>
    BY <1>2 DEF Commands
  <2>4. CASE list \in DOMAIN CommandList
    <3>1. Range(Commands(ty, list)) = Listed(list)
      BY <2>3, <2>4 DEF Listed
    <3> QED
      BY <2>2, <3>1, SaidIsSayable DEF Itemised
  <2>5. CASE list \notin DOMAIN CommandList
    <3>1. Range(Commands(ty, list)) = {list}
      BY <2>3, <2>5 DEF Range
    <3> QED
      BY <2>2, <3>1, SaidIsSayable
  <2> QED
    BY <2>4, <2>5
<1>3. CASE ty \in Types \ {1, 7}
  <2>1. Commands(ty, list) = OwnCommands[ty]
    BY <1>3 DEF Commands
  <2>2. Range(OwnCommands[ty]) \subseteq OwnWords
    BY <1>3 DEF OwnWords
  <2> QED
    BY <2>1, <2>2, SaidIsSayable
<1> QED
  BY <1>1, <1>2, <1>3

LEMMA AddDrawn ==
    ASSUME IInv, NEW l \in Lines, add_device(l)
    PROVE  Drawn(l)
<1>1. CASE CanAdd(Arg(l, 2), TypeNumber(l))
  <2> DEFINE t == Arg(l, 3)
             s == Subscribe(t)
             p == Publish(t, "/STATE", Empty)
             calls == <<s, p>>
             d == NewDevice(l)
  <2>1. /\ Accepted(l, "ADD") /\ Queue(calls)
        /\ memory' = [memory EXCEPT ![FirstFree] = d]
    BY <1>1 DEF add_device
  <2>2. Len(Kept(l)) >= AddWords(l) /\ AddWords(l) \in {5, 6}
    BY <2>1 DEF Accepted, Enough, WordsNeeded, AddWords
  <2>3. 2 < Len(Kept(l)) /\ 3 < Len(Kept(l))
    BY <2>2, KeptLength
  <2>4. Arg(l, 2) \in Sayable(l) /\ t \in Sayable(l)
    BY <2>3, ArgBefore, SaidIsSayable
  <2>5. "/STATE" \in Given(l) /\ Empty \in Sayable(l)
    BY SaidIsSayable DEF OwnWords
  <2>6. DeviceWords(d) \subseteq Sayable(l)
    <3>1. Range(d.cmnds) \subseteq Sayable(l)
      BY <1>1, <2>1, CommandsSayable DEF CanAdd, NewDevice
    <3>2. d.name = Arg(l, 2) /\ d.topic = t
      BY DEF NewDevice
    <3> HIDE DEF t, d
    <3> QED
      BY <2>4, <3>1, <3>2 DEF DeviceWords
  <2> HIDE DEF t, d
  <2>7. Said(s, l) /\ Said(p, l)
    BY <2>4, <2>5, SubscribeSaid, PublishSaid
  <2>8. calls \in Seq({s, p}) /\ \A c \in {s, p} : Said(c, l)
    BY <2>7
  <2> HIDE DEF s, p, calls
  <2>9. SentWords' \subseteq Sayable(l)
    BY <2>1, <2>8, QueueSaid
  <2>10. FirstFree \in Slots
    BY <1>1, FreeSlot DEF CanAdd
  <2>11. Words(memory') \subseteq Sayable(l)
    BY <2>1, <2>6, <2>10, SaidIsSayable, WordsChanged DEF IInv
  <2> QED
    BY <2>9, <2>11 DEF Drawn
<1>2. CASE ~CanAdd(Arg(l, 2), TypeNumber(l))
  <2>1. Say(l, 403)
    BY <1>2 DEF add_device
  <2> QED
    BY <2>1, SayDrawn
<1> QED
  BY <1>1, <1>2

\* What the broker says is no line: names, topics and commands stay.
LEMMA SilentWords ==
    ASSUME IInv, (\E i \in Slots, m \in Messages : publish_kl_callback(i, m))
                        \/ ClientFails
    PROVE  Words(memory') \subseteq Words(memory) /\ SentWords' = {}
<1>1. sent' = <<>>
  BY DEF publish_kl_callback, ClientFails, NoRequest
<1>2. SentWords' = {}
  BY <1>1 DEF SentWords
<1>3. ASSUME NEW i \in Slots, NEW m \in Messages, publish_kl_callback(i, m)
      PROVE  Words(memory') \subseteq Words(memory)
  <2> DEFINE d == memory[i]
             s == Updated(d.state, m)
             e == [d EXCEPT !.state = s]
  <2>1. i \in Occupied /\ memory' = [memory EXCEPT ![i] = e]
    BY <1>3 DEF publish_kl_callback
  <2>2. DOMAIN d = {"name", "topic", "type", "state", "cmnds"}
    BY <2>1, OccupiedSlot DEF IInv, Device
  <2> HIDE DEF s
  <2>3. DeviceWords(e) = DeviceWords(d)
    BY <2>2 DEF DeviceWords
  <2>4. DeviceWords(d) \subseteq Words(memory)
    BY <2>1 DEF Words, Occupied
  <2> HIDE DEF d, e
  <2> QED
    BY <2>1, <2>3, <2>4, WordsChanged DEF IInv
<1>4. CASE ClientFails
  BY <1>2, <1>4 DEF ClientFails
<1> QED
  BY <1>2, <1>3, <1>4

\* The steps of VersionIsNoArgument: words, and the number of a type.
Typed ==
    ~Is(line', "UPDATE") =>
        \A w \in VersionWords :
            w \in Words(memory') \cup SentWords' =>
                \/ w \in Words(memory)
                \/ \E k \in 1..Len(Kept(line')) - 1 :
                       w \in {line'[k], convert_to_upper(line'[k])}
                                \cup Listed(line'[k])

Counted == answer' = 202 => LastRead(memory'[Target'].type) < Len(Kept(line'))

LEMMA DrawnTyped ==
    ASSUME NEW l \in Lines, Drawn(l), line' = l
    PROVE  Typed
<1> SUFFICES ASSUME NEW w \in VersionWords, w \in Words(memory') \cup SentWords',
                    w \notin Words(memory)
             PROVE  \E k \in 1..Len(Kept(l)) - 1 :
                        w \in {l[k], convert_to_upper(l[k])} \cup Listed(l[k])
  BY DEF Typed
<1>1. w \in Sayable(l)
  BY DEF Drawn
<1>2. CASE w \in Itemised(l)
  BY <1>2 DEF Itemised, Before
<1>3. CASE w \notin Itemised(l)
  <2>1. PICK v \in Given(l) : w = v \/ w = convert_to_upper(v)
    BY <1>1, <1>3 DEF Sayable
  <2>2. v \notin OwnWords
    BY <2>1, OwnWordAssumption
  <2>3. PICK k \in 1..Len(Kept(l)) - 1 : v = l[k]
    BY <2>1, <2>2 DEF Given, Before
  <2> QED
    BY <2>1, <2>3
<1> QED
  BY <1>2, <1>3

\* ADD has as many words in front of the version as its type reads.
LEMMA AddedCounted ==
    ASSUME IInv, NEW l \in Lines, Added(l), line' = l
    PROVE  LastRead(memory'[Target'].type) < Len(Kept(line'))
<1>1. memory'[Target'].type = TypeNumber(l)
  <2>1. memory'[Target'] = NewDevice(l)
    BY AddedReached
  <2> QED
    BY <2>1 DEF NewDevice
<1>2. Len(Kept(l)) >= AddWords(l) /\ Len(Kept(l)) \in Nat
  BY KeptLength DEF Added, Accepted, Enough, WordsNeeded
<1>3. LastRead(TypeNumber(l)) = AddWords(l) - 1 /\ AddWords(l) \in Nat
  BY DEF LastRead, AddWords
<1> QED
  BY <1>1, <1>2, <1>3

\* The version at the end of a line is never taken for a name, a topic, a command,
\* a list of commands or a value, nor read as a number by ADD (VersionIsNoArgument;
\* TRANSMIT_ARG to STATUS_ARG, server.h:147-156), but by UPDATE: what is written or
\* sent was typed in front of it, was in the table before, or is the hub's own.
THEOREM VersionIsNotTaken == Spec => VersionIsNoArgument
<1>1. IInv /\ [Next]_vars => [Typed /\ Counted]_vars
  <2> SUFFICES ASSUME IInv, [Next]_vars, ~(UNCHANGED vars)
               PROVE  Typed /\ Counted
    OBVIOUS
  <2>1. CASE (\E i \in Slots, m \in Messages : publish_kl_callback(i, m))
                 \/ ClientFails
    BY <2>1, SilentWords, SilentEffect DEF Typed, Counted
  <2>2. ASSUME NEW l \in Lines, parse_server_request(l)
        PROVE  Typed /\ Counted
    <3>1. line' = l /\ (answer' = 202 => Added(l))
      BY <2>2, RequestEffect
    <3>2. Counted
      BY <3>1, AddedCounted DEF Counted
    <3>3. CASE update_device(l)
      BY <3>1, <3>2, <3>3 DEF update_device, Accepted, Typed
    <3>4. CASE ~update_device(l)
      <4>1. Drawn(l)
        BY <2>2, <3>4, LookupDrawn, DeleteDrawn, AddDrawn DEF parse_server_request
      <4> QED
        BY <3>1, <3>2, <4>1, DrawnTyped
    <3> QED
      BY <3>3, <3>4
  <2> QED
    BY <2>1, <2>2 DEF Next
<1>2. Typed /\ Counted <=>
        /\ ~Is(line', "UPDATE") =>
             \A w \in VersionWords :
                 w \in Words(memory') \cup SentWords' =>
                     \/ w \in Words(memory)
                     \/ \E k \in 1..Len(Kept(line')) - 1 :
                            w \in {line'[k], convert_to_upper(line'[k])}
                                     \cup Listed(line'[k])
        /\ answer' = 202 =>
             LastRead(memory'[Target'].type) < Len(Kept(line'))
  BY Zenon DEF Typed, Counted
<1>3. IInv /\ [Next]_vars =>
       [/\ ~Is(line', "UPDATE") =>
             \A w \in VersionWords :
                 w \in Words(memory') \cup SentWords' =>
                     \/ w \in Words(memory)
                     \/ \E k \in 1..Len(Kept(line')) - 1 :
                            w \in {line'[k], convert_to_upper(line'[k])}
                                     \cup Listed(line'[k])
        /\ answer' = 202 =>
             LastRead(memory'[Target'].type) < Len(Kept(line'))]_vars
  BY <1>1, <1>2, Zenon
<1> QED
  BY <1>3, Invariance, PTL DEF Spec, VersionIsNoArgument
----------------------------------------------------------------------------
(* Induction over a state's pairs, as what a set of numbers contains.        *)

LEMMA Reaches ==
    ASSUME NEW n \in Nat, NEW S, 1 \in S,
           \A k \in 1..n : k \in S => k + 1 \in S
    PROVE  1..n + 1 \subseteq S
<1> DEFINE T == {k \in 1..n + 1 : k \notin S}
<1> SUFFICES ASSUME T # {} PROVE FALSE
  OBVIOUS
<1>1. T \in SUBSET Nat
  OBVIOUS
<1>2. \E x \in T : \A y \in T : x <= y
  <2> HIDE DEF T
  <2> QED
    BY <1>1, LowestNumber
<1>3. PICK x \in T : \A y \in T : x <= y
  BY <1>2
<1>4. x - 1 \in 1..n /\ x - 1 \notin T
  BY <1>3
<1> QED
  BY <1>3, <1>4

----------------------------------------------------------------------------
(* The walk of replace_jsmn_property through the state.                      *)

LEMMA SameWord ==
    /\ \A v : Same(v, v)
    /\ \A v, w : Same(v, w) => Same(w, v)
    /\ \A u, v, w : Same(u, v) /\ Same(v, w) => Same(u, w)
<1>1. \A v : Same(v, v)
  BY DEF Same
<1>2. ASSUME NEW v, NEW w, Same(v, w)
      PROVE  Same(w, v)
  <2>1. CASE <<v, w>> \in Respelled
    BY <2>1, RespelledAssumption
  <2> QED
    BY <1>2, <2>1, <1>1 DEF Same
<1>3. ASSUME NEW u, NEW v, NEW w, Same(u, v), Same(v, w)
      PROVE  Same(u, w)
  <2>1. CASE <<u, v>> \in Respelled /\ <<v, w>> \in Respelled
    <3>1. <<u, v>>[2] = <<v, w>>[1] => Same(<<u, v>>[1], <<v, w>>[2])
      BY <2>1, RespelledAssumption
    <3> QED
      BY <3>1
  <2> QED
    BY <1>3, <2>1 DEF Same
<1> QED
  BY <1>1, <1>2, <1>3

\* One step of Sought.
Step(s, m, j, i) ==
    IF i = 1 THEN 1
    ELSE IF j[i - 1] <= Len(m) /\ Same(s[i - 1][1], m[j[i - 1]][1])
         THEN j[i - 1] + 1
         ELSE j[i - 1]

\* There is a function that takes these steps, so Sought is one.
LEMMA SoughtSteps ==
    ASSUME NEW s, Len(s) \in Nat, NEW m
    PROVE  Sought(s, m) = [i \in 1..Len(s) + 1 |-> Step(s, m, Sought(s, m), i)]
<1> DEFINE n == Len(s)
           Walk(g, k) == g = [i \in 1..k |-> Step(s, m, g, i)]
           S == {k \in 1..n + 1 : \E g : Walk(g, k)}
<1>1. 1 \in S
  <2> DEFINE g == [i \in 1..1 |-> 1]
  <2>1. Walk(g, 1)
    BY DEF Step
  <2> QED
    BY <2>1
<1>2. ASSUME NEW k \in 1..n, k \in S
      PROVE  k + 1 \in S
  <2>1. PICK g : Walk(g, k)
    BY <1>2
  <2> DEFINE h == [i \in 1..k + 1 |->
                      IF i = k + 1 THEN Step(s, m, g, i) ELSE g[i]]
  <2>2. \A i \in 1..k : h[i] = g[i] /\ g[i] = Step(s, m, g, i)
    BY <2>1
  <2>3. ASSUME NEW i \in 1..k + 1
        PROVE  h[i] = Step(s, m, h, i)
    <3>1. h[i] = Step(s, m, g, i)
      <4>1. CASE i = k + 1
        BY <4>1
      <4>2. CASE i # k + 1
        <5>1. i \in 1..k
          BY <4>2
        <5> QED
          BY <2>2, <5>1
      <4> QED
        BY <4>1, <4>2
    <3>2. CASE i = 1
      BY <3>1, <3>2 DEF Step
    <3>3. CASE i # 1
      <4>1. h[i - 1] = g[i - 1]
        BY <2>2, <3>3
      <4> HIDE DEF h
      <4>2. Step(s, m, h, i) = Step(s, m, g, i)
        BY <4>1, Zenon DEF Step
      <4> QED
        BY <3>1, <4>2
    <3> QED
      BY <3>2, <3>3
  <2>4. h = [i \in 1..k + 1 |-> Step(s, m, h, i)]
    <3>1. h = [i \in 1..k + 1 |-> h[i]]
      OBVIOUS
    <3> HIDE DEF h
    <3> QED
      BY <2>3, <3>1
  <2> HIDE DEF h
  <2> QED
    BY <2>4
<1>3. n + 1 \in S
  <2> HIDE DEF S
  <2>1. 1..n + 1 \subseteq S
    BY <1>1, <1>2, Reaches
  <2> QED
    BY <2>1
<1>4. PICK g : Walk(g, n + 1)
  BY <1>3
<1> QED
  BY <1>4, Zenon DEF Sought, Step

\* Where the message is looked at, from pair to pair of the state.
LEMMA SoughtValues ==
    ASSUME NEW s, Len(s) \in Nat, NEW m, Len(m) \in Nat
    PROVE  /\ Sought(s, m)[1] = 1
           /\ \A i \in 1..Len(s) + 1 : Sought(s, m)[i] \in 1..Len(m) + 1
           /\ \A i \in 1..Len(s) :
                  Sought(s, m)[i + 1] = IF Met(s, m, i) THEN Sought(s, m)[i] + 1
                                                        ELSE Sought(s, m)[i]
<1> DEFINE J == Sought(s, m)
           S == {k \in 1..Len(s) + 1 : J[k] \in 1..Len(m) + 1}
<1>1. \A i \in 1..Len(s) + 1 : J[i] = Step(s, m, J, i)
  <2> HIDE DEF J
  <2>1. J = [i \in 1..Len(s) + 1 |-> Step(s, m, J, i)]
    BY SoughtSteps DEF J
  <2> QED
    BY <2>1
<1>2. J[1] = 1
  <2>1. J[1] = Step(s, m, J, 1)
    BY <1>1
  <2> HIDE DEF J
  <2> QED
    BY <2>1 DEF Step
<1>3. ASSUME NEW i \in 1..Len(s)
      PROVE  J[i + 1] = IF Met(s, m, i) THEN J[i] + 1 ELSE J[i]
  <2>1. J[i + 1] = Step(s, m, J, i + 1) /\ i + 1 # 1 /\ (i + 1) - 1 = i
    BY <1>1
  <2> QED
    BY <2>1 DEF Step, Met
<1>4. 1 \in S
  BY <1>2
<1>5. ASSUME NEW k \in 1..Len(s), k \in S
      PROVE  k + 1 \in S
  BY <1>3, <1>5 DEF Met
<1>6. 1..Len(s) + 1 \subseteq S
  <2> HIDE DEF S
  <2> QED
    BY <1>4, <1>5, Reaches
<1> QED
  BY <1>2, <1>3, <1>6

\* A message that names the state's properties in their order has been looked at
\* up to the pairs that lie below the one the walk has come to.
LEMMA SoughtInOrder ==
    ASSUME NEW s, Len(s) \in Nat, DOMAIN s = 1..Len(s), NoneTwice(s),
           NEW m, Len(m) \in Nat,
           NEW at \in [1..Len(m) -> 1..Len(s)],
           \A i, j \in 1..Len(m) : i < j => at[i] < at[j],
           \A j \in 1..Len(m) : Same(s[at[j]][1], m[j][1])
    PROVE  \A i \in 1..Len(s) + 1, j \in 1..Len(m) :
               (j < Sought(s, m)[i]) <=> (at[j] < i)
<1> DEFINE J == Sought(s, m)
           Below(i) == \A j \in 1..Len(m) : (j < J[i]) <=> (at[j] < i)
           S == {i \in 1..Len(s) + 1 : Below(i)}
<1>1. /\ J[1] = 1
      /\ \A i \in 1..Len(s) + 1 : J[i] \in 1..Len(m) + 1
      /\ \A i \in 1..Len(s) : J[i + 1] = IF Met(s, m, i) THEN J[i] + 1 ELSE J[i]
  BY SoughtValues
<1>2. \A i \in 1..Len(s) : Met(s, m, i) <=>
          J[i] <= Len(m) /\ Same(s[i][1], m[J[i]][1])
  BY DEF Met
<1> HIDE DEF J
<1>3. 1 \in S
  <2>1. \A j \in 1..Len(m) : at[j] \in Nat /\ at[j] >= 1
    OBVIOUS
  <2> QED
    BY <1>1, <2>1
<1>4. ASSUME NEW i \in 1..Len(s), Below(i)
      PROVE  Below(i + 1)
  <2>1. J[i] \in 1..Len(m) + 1 /\ i \in Nat
    BY <1>1
  <2>2. \A j \in 1..Len(m) : at[j] \in 1..Len(s)
    OBVIOUS
  <2>3. CASE Met(s, m, i)
    <3> DEFINE k == J[i]
    <3>1. k \in 1..Len(m) /\ Same(s[i][1], m[k][1]) /\ J[i + 1] = k + 1
      BY <1>1, <1>2, <2>1, <2>3
    <3>2. at[k] = i
      <4>1. Same(s[at[k]][1], m[k][1])
        BY <3>1
      <4>2. Same(s[at[k]][1], s[i][1])
        BY <3>1, <4>1, SameWord
      <4> QED
        BY <2>2, <3>1, <4>2 DEF NoneTwice
    <3> HIDE DEF k
    <3>3. ASSUME NEW j \in 1..Len(m)
          PROVE  (j < k + 1) <=> (at[j] < i + 1)
      <4>1. CASE j < k
        <5>1. at[j] < at[k]
          BY <3>1, <4>1
        <5> QED
          BY <2>2, <3>1, <3>2, <4>1, <5>1
      <4>2. CASE j = k
        BY <3>1, <3>2, <4>2
      <4>3. CASE k < j
        <5>1. at[k] < at[j]
          BY <3>1, <4>3
        <5> QED
          BY <2>2, <3>1, <3>2, <4>3, <5>1
      <4> QED
        BY <3>1, <4>1, <4>2, <4>3
    <3> QED
      BY <3>1, <3>3
  <2>4. CASE ~Met(s, m, i)
    <3>1. J[i + 1] = J[i]
      BY <1>1, <2>4
    <3>2. ASSUME NEW j \in 1..Len(m)
          PROVE  at[j] # i
      <4> SUFFICES ASSUME at[j] = i PROVE FALSE
        OBVIOUS
      <4>1. J[i] <= j
        BY <1>4, <2>1
      <4>2. J[i] \in 1..Len(m) /\ at[J[i]] >= i
        <5>1. J[i] \in 1..Len(m)
          BY <2>1, <4>1
        <5>2. ~(at[J[i]] < i)
          BY <1>4, <5>1
        <5> QED
          BY <2>2, <5>1, <5>2
      <4>3. J[i] = j
        <5>1. J[i] < j => at[J[i]] < at[j]
          BY <4>2
        <5> QED
          BY <2>1, <2>2, <4>1, <4>2, <5>1
      <4>4. Same(s[i][1], m[j][1])
        OBVIOUS
      <4> QED
        BY <1>2, <2>4, <4>2, <4>3, <4>4
    <3>3. ASSUME NEW j \in 1..Len(m)
          PROVE  (j < J[i]) <=> (at[j] < i + 1)
      <4>1. at[j] # i /\ at[j] \in Nat /\ ((j < J[i]) <=> (at[j] < i))
        BY <1>4, <2>2, <3>2
      <4> QED
        BY <2>1, <4>1
    <3> QED
      BY <3>1, <3>3
  <2> QED
    BY <2>3, <2>4
<1>5. 1..Len(s) + 1 \subseteq S
  <2>1. ASSUME NEW k \in 1..Len(s), k \in S
        PROVE  k + 1 \in S
    <3>1. Below(k + 1)
      <4> HIDE DEF Below
      <4> QED
        BY <1>4, <2>1
    <3> QED
      BY <3>1
  <2> HIDE DEF S
  <2> QED
    BY <1>3, <2>1, Reaches
<1> QED
  BY <1>5 DEF J

\* Such a message meets every pair it names, at the message's pair of that name.
LEMMA NamedIsMet ==
    ASSUME NEW s, List(s), NoneTwice(s), NEW m, List(m), InOrder(s, m),
           NEW i \in 1..Len(s), NEW j \in 1..Len(m), Same(s[i][1], m[j][1])
    PROVE  Met(s, m, i) /\ Sought(s, m)[i] = j
<1>1. PICK at \in [1..Len(m) -> 1..Len(s)] :
          /\ \A h, k \in 1..Len(m) : h < k => at[h] < at[k]
          /\ \A k \in 1..Len(m) : Same(s[at[k]][1], m[k][1])
  BY DEF InOrder
<1> DEFINE J == Sought(s, m)[i]
<1>2. /\ Len(s) \in Nat /\ DOMAIN s = 1..Len(s) /\ Len(m) \in Nat
      /\ i \in 1..Len(s) + 1
  BY DEF List
<1>3. J \in 1..Len(m) + 1
  BY <1>2, SoughtValues
<1>4. \A k \in 1..Len(m) : (k < J) <=> (at[k] < i)
  BY <1>1, <1>2, SoughtInOrder
<1> HIDE DEF J
<1>5. at[j] = i
  <2>1. Same(s[at[j]][1], m[j][1]) /\ at[j] \in 1..Len(s)
    BY <1>1
  <2>2. Same(s[at[j]][1], s[i][1])
    BY <2>1, SameWord
  <2> QED
    BY <1>2, <2>1, <2>2 DEF NoneTwice
<1>6. J = j
  <2>1. J <= j /\ J \in 1..Len(m)
    BY <1>2, <1>3, <1>4, <1>5
  <2>2. at[J] >= i
    BY <1>1, <1>4, <2>1
  <2>3. J < j => at[J] < at[j]
    BY <1>1, <2>1
  <2> QED
    BY <1>1, <1>2, <1>5, <2>1, <2>2, <2>3
<1> QED
  BY <1>2, <1>6 DEF Met, J

LEMMA MergeOverrides ==
    ASSUME NEW s, List(s), NoneTwice(s), NEW m, List(m), InOrder(s, m)
    PROVE  Merge(s, m) = Override(s, m)
<1> DEFINE Here(i, j) == Same(s[i][1], m[j][1])
           c(i) == CHOOSE j \in 1..Len(m) : Here(i, j)
           J(i) == Sought(s, m)[i]
<1>1. ASSUME NEW i \in 1..Len(s)
      PROVE  (IF Met(s, m, i) /\ ~Same(s[i][2], m[J(i)][2])
              THEN <<s[i][1], m[J(i)][2]>>
              ELSE s[i])
           = (IF \E j \in 1..Len(m) : Here(i, j) /\ ~Same(s[i][2], m[j][2])
              THEN <<s[i][1], m[c(i)][2]>>
              ELSE s[i])
  <2>1. \A j \in 1..Len(m) : Here(i, j) => Met(s, m, i) /\ J(i) = j
    BY NamedIsMet
  <2>2. Met(s, m, i) => J(i) \in 1..Len(m) /\ Here(i, J(i))
    <3>1. J(i) \in 1..Len(m) + 1 /\ Len(m) \in Nat
      BY SoughtValues DEF List
    <3> QED
      BY <3>1 DEF Met
  <2>3. CASE Met(s, m, i)
    <3>1. c(i) \in 1..Len(m) /\ Here(i, c(i))
      BY <2>2, <2>3
    <3>2. c(i) = J(i)
      BY <2>1, <3>1
    <3> HIDE DEF c, J, Here
    <3> QED
      BY <2>1, <2>2, <2>3, <3>2
  <2>4. CASE ~Met(s, m, i)
    BY <2>1, <2>4
  <2> QED
    BY <2>3, <2>4
<1> QED
  BY <1>1 DEF Merge, Override

\* A message that names none of its properties twice sets those it sets as
\* Override does, in whatever order they are.
LEMMA MergeSets ==
    ASSUME NEW s, List(s), NEW m, List(m), Len(m) > 0, NoneTwice(m),
           NEW k \in 1..Len(s)
    PROVE  Merge(s, Usable(m))[k] \in {s[k], Override(s, m)[k]}
<1> DEFINE u == Usable(m)
           j == Sought(s, u)[k]
<1>1. /\ Len(s) \in Nat /\ Len(m) \in Nat /\ DOMAIN m = 1..Len(m)
  BY DEF List
<1>2. /\ Len(u) \in 1..Len(m)
      /\ \A i \in 1..Len(u) : u[i] = m[i]
  <2>1. CASE Parsed(m)
    BY <1>1, <2>1 DEF Usable
  <2>2. CASE ~Parsed(m)
    <3>1. u = SubSeq(m, 1, 1)
      BY <2>2 DEF Usable
    <3>2. \A i \in 1..1 : m[i] \in {m[1]}
      OBVIOUS
    <3>3. Len(u) = 1 /\ u[1] = m[1]
      BY <3>1, <3>2, SubSeqProperties
    <3> QED
      BY <1>1, <3>3
  <2> QED
    BY <2>1, <2>2
<1>3. j \in 1..Len(u) + 1
  <2>1. Len(u) \in Nat
    BY <1>1, <1>2
  <2> HIDE DEF u
  <2> QED
    BY <1>1, <2>1, SoughtValues
<1>4. Merge(s, u)[k] = IF Met(s, u, k) /\ ~Same(s[k][2], u[j][2])
                       THEN <<s[k][1], u[j][2]>>
                       ELSE s[k]
  BY DEF Merge
<1>5. Met(s, u, k) <=> j <= Len(u) /\ Same(s[k][1], u[j][1])
  BY DEF Met
<1> HIDE DEF u, j
<1>6. CASE Met(s, u, k) /\ ~Same(s[k][2], u[j][2])
  <2> DEFINE c == CHOOSE i \in 1..Len(m) : Same(s[k][1], m[i][1])
  <2>1. j \in 1..Len(m) /\ u[j] = m[j] /\ Same(s[k][1], m[j][1])
    BY <1>1, <1>2, <1>3, <1>5, <1>6
  <2>2. c \in 1..Len(m) /\ Same(s[k][1], m[c][1])
    BY <2>1
  <2>3. c = j
    <3>1. Same(m[c][1], m[j][1])
      BY <2>1, <2>2, SameWord
    <3> QED
      BY <1>1, <2>1, <2>2, <3>1 DEF NoneTwice
  <2>4. Override(s, m)[k] =
            IF \E i \in 1..Len(m) : Same(s[k][1], m[i][1]) /\ ~Same(s[k][2], m[i][2])
            THEN <<s[k][1], m[c][2]>> ELSE s[k]
    BY DEF Override
  <2> HIDE DEF c
  <2> QED
    BY <1>4, <1>6, <2>1, <2>3, <2>4 DEF u
<1>7. CASE ~(Met(s, u, k) /\ ~Same(s[k][2], u[j][2]))
  BY <1>4, <1>7 DEF u
<1> QED
  BY <1>6, <1>7 DEF u

\* The step of MessageMerged.
LEMMA CallbackMerges ==
    ASSUME IInv, NEW i \in Slots, NEW m \in Messages, Len(m) < FullLen,
           NoneTwice(m), publish_kl_callback(i, m)
    PROVE  LET s == memory[i].state
           IN  /\ /\ Parsed(s) /\ Parsed(m)
                  /\ NoneTwice(s) /\ InOrder(s, m)
                  => memory'[i].state = Override(s, m)
               /\ \A k \in DOMAIN s :
                      memory'[i].state[k] \in {s[k], Override(s, m)[k]}
<1> DEFINE s == memory[i].state
           r == Updated(s, m)
<1>1. /\ i \in Occupied
      /\ memory' = [memory EXCEPT ![i] = [memory[i] EXCEPT !.state = r]]
  BY DEF publish_kl_callback
<1>2. Device(memory[i]) /\ DOMAIN memory = Slots
  BY <1>1, OccupiedSlot DEF IInv, Table
<1>3. List(s) /\ DOMAIN s = 1..Len(s) /\ List(m) /\ Len(m) > 0
  BY <1>2, RequestAssumption DEF Device, List
<1>4. r = IF Parsed(s) THEN Merge(s, Usable(m)) ELSE s
  BY DEF Updated, replace_jsmn_property
<1>5. memory'[i].state = r
  <2> HIDE DEF r
  <2> QED
    BY <1>1, <1>2 DEF Device
<1> HIDE DEF r
<1>6. ASSUME Parsed(s), Parsed(m), NoneTwice(s), InOrder(s, m)
      PROVE  r = Override(s, m)
  BY <1>3, <1>4, <1>6, MergeOverrides DEF Usable
<1>7. ASSUME NEW k \in DOMAIN s
      PROVE  r[k] \in {s[k], Override(s, m)[k]}
  BY <1>3, <1>4, MergeSets
<1> QED
  BY <1>5, <1>6, <1>7

\* A message that names properties of the state in their order overrides them, and
\* any other one sets no property to anything but what it says (MessageMerged;
\* replace_jsmn_property of statejson.c:98-182, called at server.c:1867-1884).
THEOREM MessagesMerge == Spec => MessageMerged
<1>1. IInv /\ [Next]_vars =>
      [answer' = 0 =>
        \A i \in Slots, m \in Messages :
           /\ Len(m) < FullLen
           /\ NoneTwice(m)
           /\ publish_kl_callback(i, m)
           => LET s == memory[i].state
              IN  /\ /\ Parsed(s) /\ Parsed(m)
                     /\ NoneTwice(s) /\ InOrder(s, m)
                     => memory'[i].state = Override(s, m)
                  /\ \A k \in DOMAIN s :
                         memory'[i].state[k] \in {s[k], Override(s, m)[k]}]_vars
  BY CallbackMerges
<1> QED
  BY <1>1, Invariance, PTL DEF Spec, MessageMerged

----------------------------------------------------------------------------
(* What STATUS shows.                                                       *)

\* The value after the first token that is the property looked for.
LEMMA FoundIsShown ==
    ASSUME NEW s, List(s), Parsed(s), NEW w, NEW dst,
           \A j \in DOMAIN s : ~Same(s[j][2], w),
           \E j \in DOMAIN s : Same(s[j][1], w)
    PROVE  /\ find_jsmn_str(dst, w, s) = TokenAt(s, First(Hits(s, w)) + 1)
           /\ \E j \in DOMAIN s :
                  Same(s[j][1], w) /\ s[j][2] = TokenAt(s, First(Hits(s, w)) + 1)
<1> DEFINE H == Hits(s, w)
           h == First(H)
<1>1. Len(s) \in Nat /\ DOMAIN s = 1..Len(s)
  BY DEF List
<1>2. H \in SUBSET Nat /\ H \subseteq 1..2 * Len(s)
  BY <1>1 DEF Hits
<1>3. H # {}
  <2>1. PICK j \in 1..Len(s) : Same(s[j][1], w)
    BY <1>1
  <2> DEFINE k == 2 * j - 1
  <2>2. /\ k \in 1..2 * Len(s) /\ k % 2 = 1 /\ ~(k > 2 * Len(s))
        /\ (k + 1) \div 2 = j
    BY <1>1
  <2> HIDE DEF k
  <2>3. TokenAt(s, k) = s[j][1]
    BY <2>2 DEF TokenAt
  <2> QED
    BY <2>1, <2>2, <2>3 DEF Hits
<1>4. h \in H
  <2>1. \E x \in H : \A y \in H : x <= y
    <3> HIDE DEF H
    <3> QED
      BY <1>2, <1>3, LowestNumber
  <2> QED
    BY <2>1 DEF First
<1>5. find_jsmn_str(dst, w, s) = TokenAt(s, h + 1)
  BY <1>3 DEF find_jsmn_str
<1>6. h \in 1..2 * Len(s) /\ Same(TokenAt(s, h), w)
  <2> HIDE DEF h
  <2> QED
    BY <1>4 DEF Hits
<1> HIDE DEF h, H
<1>7. CASE h % 2 = 1
  <2> DEFINE j == (h + 1) \div 2
  <2>1. /\ j \in 1..Len(s) /\ (h + 1) % 2 = 0 /\ ~(h > 2 * Len(s))
        /\ ~(h + 1 > 2 * Len(s))
    BY <1>1, <1>6, <1>7
  <2>2. TokenAt(s, h) = s[j][1] /\ TokenAt(s, h + 1) = s[j][2]
    BY <1>7, <2>1 DEF TokenAt
  <2> HIDE DEF j
  <2> QED
    BY <1>1, <1>5, <1>6, <2>1, <2>2 DEF h, H
<1>8. CASE h % 2 # 1
  <2> DEFINE j == h \div 2
  <2>1. j \in 1..Len(s) /\ ~(h > 2 * Len(s))
    BY <1>1, <1>6, <1>8
  <2>2. TokenAt(s, h) = s[j][2]
    BY <1>8, <2>1 DEF TokenAt
  <2> HIDE DEF j
  <2> QED
    BY <1>1, <1>6, <2>1, <2>2
<1> QED
  BY <1>7, <1>8

\* Every command finds its value, so what the buffer held before does not matter.
LEMMA StatusEveryLine ==
    ASSUME NEW d, Device(d), Parsed(d.state),
           \A k \in DOMAIN d.cmnds, j \in DOMAIN d.state :
               ~Same(d.state[j][2], d.cmnds[k]),
           \A k \in DOMAIN d.cmnds : \E j \in DOMAIN d.state :
               Same(d.state[j][1], d.cmnds[k])
    PROVE  /\ DOMAIN StatusLines(d) = DOMAIN d.cmnds
           /\ \A k \in DOMAIN d.cmnds :
                  /\ StatusLines(d)[k][1] = d.cmnds[k]
                  /\ Shows(d, d.cmnds[k], StatusLines(d)[k][2])
<1> DEFINE n == Len(d.cmnds)
           value(k) == TokenAt(d.state, First(Hits(d.state, d.cmnds[k])) + 1)
           Line(elem, k) == IF k = 0 THEN Empty
                            ELSE find_jsmn_str(elem[k - 1], d.cmnds[k], d.state)
           Lookups(elem) == elem = [k \in 0..n |-> Line(elem, k)]
           elem == CHOOSE e : Lookups(e)
           first == [k \in 0..n |-> IF k = 0 THEN Empty ELSE value(k)]
<1>1. n \in Nat /\ DOMAIN d.cmnds = 1..n
  BY DEF Device, List
<1>2. ASSUME NEW k \in 1..n, NEW dst
      PROVE  /\ find_jsmn_str(dst, d.cmnds[k], d.state) = value(k)
             /\ Shows(d, d.cmnds[k], value(k))
  <2> DEFINE s == d.state
             w == d.cmnds[k]
  <2>1. /\ List(s) /\ Parsed(s)
        /\ \A j \in DOMAIN s : ~Same(s[j][2], w)
        /\ \E j \in DOMAIN s : Same(s[j][1], w)
    BY <1>1 DEF Device
  <2> HIDE DEF s, w
  <2>2. /\ find_jsmn_str(dst, w, s) = TokenAt(s, First(Hits(s, w)) + 1)
        /\ \E j \in DOMAIN s :
               Same(s[j][1], w) /\ s[j][2] = TokenAt(s, First(Hits(s, w)) + 1)
    BY <2>1, FoundIsShown
  <2> QED
    BY <2>2 DEF s, w, Shows
<1> HIDE DEF value
<1>3. Lookups(first)
  <2>1. ASSUME NEW k \in 0..n
        PROVE  first[k] = Line(first, k)
    <3>1. CASE k = 0
      BY <3>1
    <3>2. CASE k # 0
      <4>1. k \in 1..n /\ first[k] = value(k)
        BY <1>1, <3>2
      <4>2. find_jsmn_str(first[k - 1], d.cmnds[k], d.state) = value(k)
        BY <1>2, <4>1
      <4> HIDE DEF first
      <4> QED
        BY <3>2, <4>1, <4>2
    <3> QED
      BY <3>1, <3>2
  <2>2. first = [k \in 0..n |-> first[k]]
    OBVIOUS
  <2> HIDE DEF first, Line
  <2> QED
    BY <2>1, <2>2
<1>4. Lookups(elem)
  <2> HIDE DEF Lookups
  <2> QED
    BY <1>3
<1>5. StatusLines(d) = [k \in 1..n |-> <<d.cmnds[k], elem[k]>>]
  BY DEF StatusLines
<1> HIDE DEF elem
<1>6. \A k \in 1..n : elem[k] = value(k)
  <2>1. \A k \in 1..n : k \in 0..n /\ k # 0
    BY <1>1
  <2>2. \A k \in 1..n :
            elem[k] = find_jsmn_str(elem[k - 1], d.cmnds[k], d.state)
    BY <1>4, <2>1
  <2> QED
    BY <1>2, <2>2
<1> HIDE DEF n
<1>7. DOMAIN StatusLines(d) = 1..n
  BY <1>5
<1>8. \A k \in 1..n : StatusLines(d)[k] = <<d.cmnds[k], value(k)>>
  BY <1>5, <1>6
<1> HIDE DEF value
<1> QED
  BY <1>1, <1>2, <1>7, <1>8

\* Only STATUS is answered 206.
LEMMA OnlyStatus ==
    ASSUME NEW l, parse_server_request(l), answer' = 206
    PROVE  get_dev_state(l)
<1>1. ASSUME NEW code, Say(l, code)
      PROVE  code = 206
  BY <1>1 DEF Say, Answer
<1>2. ~(Refuse(l) \/ Quit(l) \/ NoSuchDevice(l))
  BY <1>1 DEF Refuse, Quit, NoSuchDevice
<1>3. ~Transmit(l) /\ ~toggle_dev_power(l)
  BY DEF Transmit, toggle_dev_power, Answer
<1>4. ~change_dev_state(l) /\ ~add_device(l)
  BY <1>1 DEF change_dev_state, add_device, Answer
<1>5. ~delete_device(l) /\ ~dump_devices(l)
  BY DEF delete_device, dump_devices, Answer
<1>6. ~update_device(l)
  BY <1>1 DEF update_device, update_name, update_topic, update_state, Answer
<1> QED
  BY <1>2, <1>3, <1>4, <1>5, <1>6 DEF parse_server_request

\* STATUS shows, for every command, the value of its property (StatusShowsOwn;
\* server.c:1403-1423, statejson.c:58-84), although one buffer takes them all,
\* whatever messages were merged into the state before.
THEOREM StatusIsOwn == Spec => StatusShowsOwn
<1> DEFINE d == memory[Reached(Arg(line', 2))]
           Own == /\ DOMAIN shown' = DOMAIN d.cmnds
                  /\ \A k \in DOMAIN d.cmnds :
                         /\ shown'[k][1] = d.cmnds[k]
                         /\ Shows(d, d.cmnds[k], shown'[k][2])
           Plain == /\ Parsed(d.state)
                    /\ \A k \in DOMAIN d.cmnds, j \in DOMAIN d.state :
                           ~Same(d.state[j][2], d.cmnds[k])
                    /\ \A k \in DOMAIN d.cmnds : \E j \in DOMAIN d.state :
                           Same(d.state[j][1], d.cmnds[k])
<1>1. IInv /\ [Next]_vars => [answer' = 206 => (Plain => Own)]_vars
  <2> SUFFICES ASSUME IInv, [Next]_vars, ~(UNCHANGED vars), answer' = 206, Plain
               PROVE  Own
    OBVIOUS
  <2>1. PICK l \in Lines : parse_server_request(l)
    BY SilentEffect DEF Next
  <2>2. get_dev_state(l) /\ line' = l
    BY <2>1, OnlyStatus DEF get_dev_state, Answer
  <2>3. /\ Named(Arg(l, 2)) # {}
        /\ shown' = StatusLines(memory[Reached(Arg(l, 2))])
    BY <2>2 DEF get_dev_state
  <2>4. Device(d) /\ shown' = StatusLines(d)
    BY <2>2, <2>3, ReachedSlot, OccupiedSlot DEF IInv
  <2> HIDE DEF d
  <2> QED
    BY <2>4, StatusEveryLine
<1> QED
  BY <1>1, Invariance, PTL DEF Spec, StatusShowsOwn

----------------------------------------------------------------------------
(* Where no condition on states is needed: the devices' messages and the     *)
(* template are plain, so every state is.                                    *)

Plain(s) == Parsed(s) /\ NoneTwice(s)

PlainMessages == \A m \in Messages \cup {Template} : Plain(m)

PlainInv == \A i \in Occupied : Plain(memory[i].state)

\* A merge changes values only.
LEMMA MergedPlain ==
    ASSUME NEW s, List(s), Plain(s), NEW m
    PROVE  Plain(Merge(s, m))
<1> DEFINE f == Merge(s, m)
<1>1. f = [i \in 1..Len(s) |-> f[i]] /\ Len(s) \in Nat /\ DOMAIN s = 1..Len(s)
  BY DEF Merge, List
<1>2. \A i \in 1..Len(s) : f[i][1] = s[i][1]
  BY DEF Merge
<1> HIDE DEF f
<1>3. Len(f) = Len(s) /\ DOMAIN f = 1..Len(s)
  BY <1>1, FunctionLength
<1> QED
  BY <1>1, <1>2, <1>3 DEF Plain, Parsed, NoneTwice, f

LEMMA PlainChanged ==
    ASSUME Table, PlainInv, NEW i \in Slots, NEW d,
           d # Free => Plain(d.state),
           memory' = [memory EXCEPT ![i] = d]
    PROVE  PlainInv'
<1>1. memory'[i] = d /\ \A j \in Slots : j # i => memory'[j] = memory[j]
  BY DEF Table
<1> SUFFICES ASSUME NEW j \in Slots, memory'[j] # Free
             PROVE  Plain(memory'[j].state)
  BY DEF PlainInv, Occupied
<1>2. CASE j = i
  BY <1>1, <1>2
<1>3. CASE j # i
  BY <1>1, <1>3 DEF PlainInv, Occupied
<1> QED
  BY <1>2, <1>3

\* ADD starts with the template, the callback takes or merges a message, and the
\* other handlers leave states alone.
LEMMA PlainPreserved ==
    ASSUME PlainMessages, IInv, PlainInv, [Next]_vars PROVE PlainInv'
<1>1. CASE memory' = memory
  BY <1>1 DEF PlainInv, Occupied
<1>2. ASSUME NEW l \in Lines, add_device(l) PROVE PlainInv'
  <2>1. CASE CanAdd(Arg(l, 2), TypeNumber(l))
    <3> DEFINE d == NewDevice(l)
    <3>1. memory' = [memory EXCEPT ![FirstFree] = d] /\ FirstFree \in Slots
      BY <1>2, <2>1, FreeSlot DEF add_device, CanAdd
    <3>2. Plain(d.state)
      BY DEF NewDevice, PlainMessages
    <3> HIDE DEF d
    <3> QED
      BY <3>1, <3>2, PlainChanged DEF IInv
  <2> QED
    BY <1>1, <1>2, <2>1 DEF add_device, Say
<1>3. ASSUME NEW l \in Lines, delete_device(l) PROVE PlainInv'
  <2>1. /\ memory' = [memory EXCEPT ![Reached(Arg(l, 2))] = Free]
        /\ Reached(Arg(l, 2)) \in Slots
    BY <1>3, ReachedSlot, OccupiedSlot DEF delete_device, IInv
  <2> QED
    BY <2>1, PlainChanged DEF IInv
<1>4. ASSUME NEW l \in Lines, update_device(l) PROVE PlainInv'
  <2> DEFINE i == Reached(Arg(l, 3))
             d == memory[i]
             v == NewValue(l)
  <2>1. CASE update_name(l) \/ update_topic(l)
    <3>1. /\ \/ memory' = [memory EXCEPT ![i] = [d EXCEPT !.name = v]]
             \/ memory' = [memory EXCEPT ![i] = [d EXCEPT !.topic = v]]
      BY <2>1 DEF update_name, update_topic
    <3>2. Named(Arg(l, 3)) # {} \/ memory' = memory
      BY <1>4 DEF update_device, Say
    <3>3. CASE Named(Arg(l, 3)) # {}
      <4>1. i \in Slots /\ Device(d) /\ Plain(d.state)
        BY <3>3, ReachedSlot, OccupiedSlot DEF IInv, PlainInv
      <4> HIDE DEF i, d, v
      <4>2. /\ Plain([d EXCEPT !.name = v].state)
            /\ Plain([d EXCEPT !.topic = v].state)
        BY <4>1 DEF Device
      <4> QED
        BY <3>1, <4>1, <4>2, PlainChanged DEF IInv
    <3> QED
      BY <1>1, <3>2, <3>3
  <2>2. CASE ~(update_name(l) \/ update_topic(l))
    BY <1>1, <1>4, <2>2 DEF update_device, update_state, Say
  <2> QED
    BY <2>1, <2>2
<1>5. ASSUME NEW l,
             \/ Refuse(l) \/ Quit(l) \/ Transmit(l) \/ NoSuchDevice(l)
             \/ toggle_dev_power(l) \/ change_dev_state(l)
             \/ dump_devices(l) \/ get_dev_state(l)
      PROVE  memory' = memory
  BY <1>5 DEF Refuse, Quit, Transmit, NoSuchDevice, toggle_dev_power,
              change_dev_state, dump_devices, get_dev_state, Say
<1>6. ASSUME NEW i \in Slots, NEW m \in Messages, publish_kl_callback(i, m)
      PROVE  PlainInv'
  <2> DEFINE d == memory[i]
             s == Updated(d.state, m)
             e == [d EXCEPT !.state = s]
  <2>1. i \in Occupied /\ memory' = [memory EXCEPT ![i] = e]
    BY <1>6 DEF publish_kl_callback
  <2>2. Device(d) /\ Plain(d.state)
    BY <2>1, OccupiedSlot DEF IInv, PlainInv
  <2>3. Plain(s)
    <3>1. Plain(m)
      BY DEF PlainMessages
    <3>2. List(d.state)
      BY <2>2 DEF Device
    <3>3. Plain(Merge(d.state, Usable(m)))
      BY <2>2, <3>2, MergedPlain
    <3> QED
      BY <2>2, <3>1, <3>3 DEF Updated, replace_jsmn_property
  <2> HIDE DEF s
  <2>4. Plain(e.state)
    BY <2>2, <2>3 DEF Device
  <2> HIDE DEF d, e
  <2> QED
    BY <2>1, <2>4, PlainChanged DEF IInv
<1>7. CASE ClientFails \/ UNCHANGED vars
  BY <1>1, <1>7 DEF ClientFails, vars
<1> QED
  BY <1>1, <1>2, <1>3, <1>4, <1>5, <1>6, <1>7 DEF Next, parse_server_request

\* If devices send no property twice and no more of them than there are tokens for
\* (Tasmota's messages), neither does any state get there: every message that
\* names a state's properties in their order overrides them, without a condition
\* on the state (the comment of replace_jsmn_property, statejson.c:86-97).
THEOREM PlainMerge ==
    PlainMessages =>
        (Spec => [][\A i \in Slots, m \in Messages :
                        /\ publish_kl_callback(i, m)
                        /\ Len(m) < FullLen
                        /\ InOrder(memory[i].state, m)
                        => memory'[i].state = Override(memory[i].state, m)]_vars)
<1> SUFFICES ASSUME PlainMessages
             PROVE  Spec => [][\A i \in Slots, m \in Messages :
                        /\ publish_kl_callback(i, m)
                        /\ Len(m) < FullLen
                        /\ InOrder(memory[i].state, m)
                        => memory'[i].state = Override(memory[i].state, m)]_vars
  OBVIOUS
<1>1. Init => PlainInv
  BY DEF Init, PlainInv, Occupied
<1>2. IInv /\ PlainInv /\ [Next]_vars => PlainInv'
  BY PlainPreserved
<1>3. IInv /\ PlainInv /\ [Next]_vars =>
      [\A i \in Slots, m \in Messages :
          /\ publish_kl_callback(i, m)
          /\ Len(m) < FullLen
          /\ InOrder(memory[i].state, m)
          => memory'[i].state = Override(memory[i].state, m)]_vars
  <2> SUFFICES ASSUME IInv, PlainInv, NEW i \in Slots, NEW m \in Messages,
                      publish_kl_callback(i, m), Len(m) < FullLen,
                      InOrder(memory[i].state, m)
               PROVE  memory'[i].state = Override(memory[i].state, m)
    OBVIOUS
  <2>1. Plain(memory[i].state) /\ Plain(m)
    BY DEF PlainInv, PlainMessages, publish_kl_callback
  <2> QED
    BY <2>1, CallbackMerges DEF Plain
<1> QED
  BY <1>1, <1>2, <1>3, Invariance, PTL DEF Spec
=============================================================================
