-------------------------- MODULE MqttClientProofs --------------------------
(* What holds of the MQTT client's queue for every number of devices, every  *)
(* size of the send buffer and every timeout, whatever the broker does.      *)
EXTENDS MqttClient, SequenceTheorems, FiniteSetTheorems,
        WellFoundedInduction, TLAPS

----------------------------------------------------------------------------
(* Numbers.                                                                 *)

LEMMA LeastNatural ==
    ASSUME NEW T \in SUBSET Nat, T # {}
    PROVE  \E x \in T : \A y \in T : x <= y
<1> DEFINE R == OpToRel(<, Nat)
<1>1. \A x, y \in Nat : x < y => <<x, y>> \in R
  BY DEF OpToRel
<1>2. IsWellFoundedOn(R, Nat)
  BY NatLessThanWellFounded
<1> HIDE DEF R
<1>3. PICK x \in T : \A y \in T : ~ (<<y, x>> \in R)
  BY <1>2, WFMin
<1>4. \A y \in T : ~ (y < x)
  BY <1>1, <1>3
<1> QED
  BY <1>3, <1>4

LEMMA GreatestNatural ==
    ASSUME NEW n \in Nat, NEW T \in SUBSET (0..n), T # {}
    PROVE  \E x \in T : \A y \in T : y <= x
<1> DEFINE U == {n - x : x \in T}
<1>1. U \in SUBSET Nat /\ U # {}
  <2>1. \A x \in T : n - x \in Nat
    OBVIOUS
  <2>2. PICK x \in T : TRUE
    OBVIOUS
  <2>3. n - x \in U
    OBVIOUS
  <2> QED
    BY <2>1, <2>3
<1>2. PICK z \in U : \A y \in U : z <= y
  BY <1>1, LeastNatural
<1>3. PICK x \in T : z = n - x
  BY <1>2
<1>4. \A y \in T : n - x <= n - y
  BY <1>2, <1>3
<1> QED
  BY <1>4

LEMMA SameDifference ==
    ASSUME NEW x \in Int, NEW y \in Int, NEW n \in Nat, x - n = y - n
    PROVE  x = y
OBVIOUS

\* The packet ids that follow one another are all different, until they begin
\* again.
LEMMA AfterType ==
    ASSUME NEW pid \in 1..MaxPid, NEW d \in 1..MaxPid
    PROVE  After(pid, d) =
               IF pid + d <= MaxPid THEN pid + d ELSE pid + d - MaxPid
<1>1. /\ MaxPid \in Nat /\ MaxPid >= 1 /\ pid + d - 1 \in Nat
      /\ pid \in Nat /\ d \in Nat
  BY PidAssumption, CapacityAssumption
<1>2. CASE pid + d <= MaxPid
  <2>1. (pid + d - 1) % MaxPid = pid + d - 1
    BY <1>1, <1>2
  <2> QED
    BY <1>1, <1>2, <2>1 DEF After
<1>3. CASE ~(pid + d <= MaxPid)
  <2>1. (pid + d - 1) % MaxPid = pid + d - 1 - MaxPid
    BY <1>1, <1>3
  <2> QED
    BY <1>1, <1>3, <2>1 DEF After
<1> QED
  BY <1>2, <1>3

LEMMA AfterDiffers ==
    ASSUME NEW pid \in 1..MaxPid, NEW d \in 1..MaxPid, NEW e \in 1..MaxPid,
           After(pid, d) = After(pid, e)
    PROVE  d = e
<1>1. MaxPid \in Nat
  BY PidAssumption
<1>2. ASSUME NEW m \in Nat, NEW p \in 1..m, NEW x \in 1..m, NEW y \in 1..m,
             (IF p + x <= m THEN p + x ELSE p + x - m) =
             (IF p + y <= m THEN p + y ELSE p + y - m)
      PROVE  x = y
  BY <1>2
<1>3. /\ After(pid, d) = IF pid + d <= MaxPid THEN pid + d ELSE pid + d - MaxPid
      /\ After(pid, e) = IF pid + e <= MaxPid THEN pid + e ELSE pid + e - MaxPid
  BY AfterType
<1>4. (IF pid + d <= MaxPid THEN pid + d ELSE pid + d - MaxPid) =
      (IF pid + e <= MaxPid THEN pid + e ELSE pid + e - MaxPid)
  BY <1>3, Zenon
<1> QED
  BY <1>1, <1>2, <1>4

----------------------------------------------------------------------------
(* Types.                                                                   *)

Entry == [type : Type, pid : 0..MaxPid, topic : Topic \cup {None},
          state : {"UNSENT", "AWAITING_ACK", "COMPLETE"},
          time_sent : 0..MaxTime]

Packet == [type : Type, pid : 0..MaxPid, topic : Topic \cup {None}]

Ack == [type : Type \ {"PUBLISH"}, pid : 0..MaxPid, refused : BOOLEAN]

\* What asks for a subscription or for its end.
Ops == {"SUBSCRIBE", "UNSUBSCRIBE"}

\* What gets a packet id of its own.
PidTypes == Ops \cup {"PUBLISH"}

TypeInv ==
    /\ TypeOK
    /\ mq \in Seq(Entry) /\ wire \in Seq(Packet) /\ inbox \in Seq(Ack)
    /\ \A k \in 1..Len(mq) : mq[k].type \in Ops => mq[k].topic \in Topic
    /\ \A k \in 1..Len(wire) : wire[k].type \in Ops => wire[k].topic \in Topic

----------------------------------------------------------------------------
(* Sequences.                                                               *)

\* r is q without its first n elements.
Dropped(q, n, r) ==
    /\ Len(r) = Len(q) - n
    /\ \A k \in 1..Len(q) - n : r[k] = q[k + n]

LEMMA DropElements ==
    ASSUME NEW S, NEW q \in Seq(S), NEW n \in 0..Len(q)
    PROVE  /\ SubSeq(q, n + 1, Len(q)) \in Seq(S)
           /\ Dropped(q, n, SubSeq(q, n + 1, Len(q)))
<1> DEFINE r == SubSeq(q, n + 1, Len(q))
<1>1. Len(q) \in Nat /\ n \in Nat /\ n <= Len(q)
  OBVIOUS
<1>2. \A i \in n + 1..Len(q) : q[i] \in S
  BY <1>1
<1>3. /\ r \in Seq(S)
      /\ Len(r) = IF n + 1 <= Len(q) THEN Len(q) - (n + 1) + 1 ELSE 0
      /\ \A i \in 1..Len(q) - (n + 1) + 1 : r[i] = q[(n + 1) + i - 1]
  BY <1>1, <1>2, SubSeqProperties
<1>4. /\ Len(q) - (n + 1) + 1 = Len(q) - n
      /\ (IF n + 1 <= Len(q) THEN Len(q) - (n + 1) + 1 ELSE 0) = Len(q) - n
      /\ \A i \in 1..Len(q) - n : (n + 1) + i - 1 = i + n
  BY <1>1
<1> HIDE DEF r
<1>5. r \in Seq(S) /\ Dropped(q, n, r)
  BY <1>3, <1>4, Zenon DEF Dropped
<1> QED
  BY <1>5 DEF r

LEMMA TailElements ==
    ASSUME NEW S, NEW q \in Seq(S), q # <<>>
    PROVE  /\ Tail(q) \in Seq(S) /\ Dropped(q, 1, Tail(q))
           /\ Head(q) = q[1] /\ Head(q) \in S /\ Len(q) \in Nat \ {0}
<1>1. /\ Tail(q) \in Seq(S) /\ Len(Tail(q)) = Len(q) - 1
      /\ \A i \in 1..Len(Tail(q)) : Tail(q)[i] = q[i + 1]
      /\ Head(q) \in S
  BY HeadTailProperties
<1>2. Len(q) \in Nat \ {0} /\ Head(q) = q[1]
  BY EmptySeq
<1> QED
  BY <1>1, <1>2 DEF Dropped

----------------------------------------------------------------------------
(* The queue.                                                               *)

\* mqtt_mq_clean takes completed messages from the head, and nothing else.
LEMMA CleanDrops ==
    ASSUME NEW q \in Seq(Entry)
    PROVE  \E n \in 0..Len(q) :
               /\ \A k \in 1..n : Complete(q[k])
               /\ Clean(q) \in Seq(Entry)
               /\ Dropped(q, n, Clean(q))
<1> DEFINE done == {n \in 0..Len(q) : \A k \in 1..n : Complete(q[k])}
           most == CHOOSE n \in done : \A k \in done : k <= n
<1>1. Len(q) \in Nat /\ 0 \in done /\ done \in SUBSET (0..Len(q))
  OBVIOUS
<1>2. \E n \in done : \A k \in done : k <= n
  <2> HIDE DEF done
  <2> QED
    BY <1>1, GreatestNatural
<1>3. most \in done
  <2> HIDE DEF done
  <2> QED
    BY <1>2
<1>4. most \in 0..Len(q) /\ \A k \in 1..most : Complete(q[k])
  <2> HIDE DEF most
  <2> QED
    BY <1>3
<1>5. Clean(q) = SubSeq(q, most + 1, Len(q))
  BY DEF Clean
<1> HIDE DEF most
<1> QED
  BY <1>4, <1>5, DropElements

\* __mqtt_next_pid finds an id that no message of the queue has: there are more ids
\* than the queue has room for messages.
LEMMA NextPidIsFree ==
    ASSUME NEW q \in Seq(Entry), Len(q) <= Capacity, NEW pid \in 1..MaxPid
    PROVE  /\ NextPid(q, pid) \in 1..MaxPid
           /\ \A k \in 1..Len(q) : q[k].pid # NextPid(q, pid)
<1> DEFINE free == {d \in 1..MaxPid :
                       \A k \in DOMAIN q : q[k].pid # After(pid, d)}
           D == CHOOSE d \in free : \A e \in free : d <= e
<1>1. /\ Len(q) \in Nat /\ DOMAIN q = 1..Len(q)
      /\ MaxPid \in Nat /\ Capacity \in Nat /\ MaxPid > Len(q)
  BY PidAssumption, CapacityAssumption
<1>2. free # {}
  <2> SUFFICES ASSUME \A d \in 1..MaxPid :
                          \E k \in 1..Len(q) : q[k].pid = After(pid, d)
               PROVE  FALSE
    BY <1>1
  <2> DEFINE f == [d \in 1..MaxPid |->
                      CHOOSE k \in 1..Len(q) : q[k].pid = After(pid, d)]
  <2>1. ASSUME NEW d \in 1..MaxPid
        PROVE  f[d] \in 1..Len(q) /\ q[f[d]].pid = After(pid, d)
    <3> DEFINE g == CHOOSE k \in 1..Len(q) : q[k].pid = After(pid, d)
    <3>1. \E k \in 1..Len(q) : q[k].pid = After(pid, d)
      OBVIOUS
    <3>2. g \in 1..Len(q) /\ q[g].pid = After(pid, d)
      BY <3>1, Zenon
    <3>3. f[d] = g
      OBVIOUS
    <3> QED
      BY <3>2, <3>3, Zenon
  <2>2. f \in [1..MaxPid -> 1..Len(q)]
    BY <2>1
  <2> HIDE DEF f
  <2>3. /\ IsFiniteSet(1..MaxPid) /\ Cardinality(1..MaxPid) = MaxPid
        /\ IsFiniteSet(1..Len(q)) /\ Cardinality(1..Len(q)) = Len(q)
    <3>1. \A n \in Nat : IsFiniteSet(1..n) /\ Cardinality(1..n) = n
      <4> SUFFICES ASSUME NEW n \in Nat
                   PROVE  IsFiniteSet(1..n) /\ Cardinality(1..n) = n
        OBVIOUS
      <4>1. /\ IsFiniteSet(1..n)
            /\ Cardinality(1..n) = IF 1 > n THEN 0 ELSE n - 1 + 1
        BY FS_Interval
      <4> QED
        BY <4>1
    <3> QED
      BY <1>1, <3>1
  <2>4. PICK d, e \in 1..MaxPid : d # e /\ f[d] = f[e]
    BY <1>1, <2>2, <2>3, FS_PigeonHole, ZenonT(40)
  <2>5. After(pid, d) = After(pid, e)
    BY <2>1, <2>4
  <2> QED
    BY <2>4, <2>5, AfterDiffers
<1>3. \E d \in free : \A e \in free : d <= e
  <2>1. free \in SUBSET Nat
    BY <1>1
  <2> HIDE DEF free
  <2> QED
    BY <1>2, <2>1, LeastNatural
<1>4. D \in free
  <2> HIDE DEF free
  <2> QED
    BY <1>3
<1>5. D \in 1..MaxPid /\ \A k \in 1..Len(q) : q[k].pid # After(pid, D)
  <2> HIDE DEF D
  <2> QED
    BY <1>1, <1>4
<1>6. NextPid(q, pid) = After(pid, D)
  BY DEF NextPid
<1> HIDE DEF D
<1>7. After(pid, D) \in 1..MaxPid
  <2>1. /\ After(pid, D) = IF pid + D <= MaxPid THEN pid + D ELSE pid + D - MaxPid
        /\ D \in 1..MaxPid /\ pid \in 1..MaxPid
    BY <1>5, AfterType
  <2> QED
    BY <1>1, <2>1
<1> QED
  BY <1>5, <1>6, <1>7

----------------------------------------------------------------------------
(* What the broker has still to acknowledge, or has acknowledged while the    *)
(* hub has not read it, are messages of the queue, each a different one, that  *)
(* wait for an acknowledgement.                                             *)

Match(o, m) ==
    /\ m.type = o.type /\ m.state = "AWAITING_ACK"
    /\ o.type \in PidTypes => m.pid = o.pid

\* f says which message of queue q waits for what is at place p of o.
Claims(o, q, f) ==
    /\ f \in [Nat -> Int]
    /\ \A p \in 1..Len(o) :
           o[p].type # "PUBLISH" => f[p] \in 1..Len(q) /\ Match(o[p], q[f[p]])
    /\ \A p, r \in 1..Len(o) :
           o[p].type # "PUBLISH" /\ o[r].type # "PUBLISH" /\ f[p] = f[r] => p = r

Owed(o, q) == \E f : Claims(o, q, f)

\* A message with no acknowledgement to come may go.
LEMMA OwedDrop ==
    ASSUME NEW o, NEW q, NEW r, Len(o) \in Nat, Len(q) \in Nat,
           NEW n \in 0..Len(q), \A k \in 1..n : Complete(q[k]),
           Dropped(q, n, r), Owed(o, q)
    PROVE  Owed(o, r)
<1>1. PICK f : Claims(o, q, f)
  BY DEF Owed
<1> DEFINE g == [p \in Nat |-> f[p] - n]
<1>2. /\ f \in [Nat -> Int] /\ g \in [Nat -> Int]
      /\ \A p \in 1..Len(o) : p \in Nat /\ f[p] \in Int /\ g[p] = f[p] - n
  BY <1>1 DEF Claims
<1> HIDE DEF g
<1>3. ASSUME NEW p \in 1..Len(o), o[p].type # "PUBLISH"
      PROVE  g[p] \in 1..Len(r) /\ Match(o[p], r[g[p]])
  <2>1. f[p] \in 1..Len(q) /\ Match(o[p], q[f[p]])
    BY <1>1, <1>3 DEF Claims
  <2>2. ~(f[p] \in 1..n)
    <3>1. f[p] \in 1..n => Complete(q[f[p]])
      OBVIOUS
    <3> QED
      BY <2>1, <3>1 DEF Match, Complete
  <2>3. g[p] \in 1..Len(q) - n /\ g[p] + n = f[p]
    <3>1. n \in Nat /\ f[p] \in Int /\ g[p] = f[p] - n
      BY <1>2
    <3>2. f[p] >= 1 /\ f[p] <= Len(q) /\ f[p] > n
      BY <2>1, <2>2, <3>1
    <3> QED
      BY <3>1, <3>2
  <2>4. r[g[p]] = q[f[p]] /\ g[p] \in 1..Len(r)
    <3>1. Len(r) = Len(q) - n /\ \A k \in 1..Len(q) - n : r[k] = q[k + n]
      BY DEF Dropped
    <3> QED
      BY <2>3, <3>1
  <2> QED
    BY <2>1, <2>4
<1>4. ASSUME NEW p \in 1..Len(o), NEW s \in 1..Len(o),
             o[p].type # "PUBLISH", o[s].type # "PUBLISH", g[p] = g[s]
      PROVE  p = s
  <2>1. /\ n \in Nat /\ f[p] \in Int /\ f[s] \in Int
        /\ g[p] = f[p] - n /\ g[s] = f[s] - n
    BY <1>2
  <2>2. f[p] - n = f[s] - n
    BY <1>4, <2>1
  <2>3. f[p] = f[s]
    BY <2>1, <2>2, SameDifference
  <2> QED
    BY <1>1, <1>4, <2>3 DEF Claims
<1>5. Claims(o, r, g)
  BY <1>2, <1>3, <1>4 DEF Claims
<1> QED
  BY <1>5 DEF Owed

\* A message may join the queue.
LEMMA OwedExtend ==
    ASSUME NEW o, NEW q, NEW r, Len(q) \in Nat, Len(r) \in Nat,
           Len(q) <= Len(r), \A k \in 1..Len(q) : r[k] = q[k], Owed(o, q)
    PROVE  Owed(o, r)
<1>1. PICK f : Claims(o, q, f)
  BY DEF Owed
<1>2. \A k \in 1..Len(q) : k \in 1..Len(r)
  OBVIOUS
<1>3. Claims(o, r, f)
  BY <1>1, <1>2 DEF Claims
<1> QED
  BY <1>3 DEF Owed

\* An unsent message is sent: x goes out for it, and unless it is a PUBLISH it
\* waits from now on.
LEMMA OwedSend ==
    ASSUME NEW o, NEW q, NEW u, NEW r, NEW a \in 1..Len(q),
           Len(o) \in Nat, Len(q) \in Nat, Owed(o, q),
           q[a].state = "UNSENT",
           Len(r) = Len(q), \A k \in 1..Len(q) : k # a => r[k] = q[k],
           Len(u) = Len(o) + 1, \A p \in 1..Len(o) : u[p] = o[p],
           u[Len(o) + 1].type # "PUBLISH" => Match(u[Len(o) + 1], r[a])
    PROVE  Owed(u, r)
<1>1. PICK f : Claims(o, q, f)
  BY DEF Owed
<1> DEFINE l == Len(o) + 1
           g == [f EXCEPT ![l] = a]
<1>2. /\ l \in Nat /\ a \in Int /\ f \in [Nat -> Int] /\ g \in [Nat -> Int]
      /\ g[l] = a
      /\ \A p \in 1..Len(o) : p \in Nat /\ p # l /\ g[p] = f[p]
      /\ \A p \in 1..Len(u) : p \in 1..Len(o) \/ p = l
  BY <1>1 DEF Claims
<1> HIDE DEF g, l
<1>3. u[l].type # "PUBLISH" => Match(u[l], r[a])
  BY DEF l
<1>4. ASSUME NEW p \in 1..Len(o), u[p].type # "PUBLISH"
      PROVE  g[p] \in 1..Len(q) /\ g[p] # a /\ Match(u[p], r[g[p]])
  <2>1. f[p] \in 1..Len(q) /\ Match(o[p], q[f[p]])
    BY <1>1, <1>4 DEF Claims
  <2>2. f[p] # a
    BY <2>1 DEF Match
  <2> QED
    BY <1>2, <2>1, <2>2
<1>5. ASSUME NEW p \in 1..Len(u), u[p].type # "PUBLISH"
      PROVE  g[p] \in 1..Len(r) /\ Match(u[p], r[g[p]])
  BY <1>2, <1>3, <1>4, <1>5
<1>6. ASSUME NEW p \in 1..Len(u), NEW s \in 1..Len(u),
             u[p].type # "PUBLISH", u[s].type # "PUBLISH", g[p] = g[s]
      PROVE  p = s
  <2>1. CASE p = l \/ s = l
    BY <1>2, <1>4, <1>6, <2>1
  <2>2. CASE p \in 1..Len(o) /\ s \in 1..Len(o)
    BY <1>1, <1>2, <1>6, <2>2, ZenonT(40) DEF Claims
  <2> QED
    BY <1>2, <2>1, <2>2
<1>7. Claims(u, r, g)
  BY <1>2, <1>5, <1>6 DEF Claims
<1> QED
  BY <1>7 DEF Owed

\* What is at place p of u was at place h[p] of o.
LEMMA OwedRearranged ==
    ASSUME NEW o, NEW q, NEW u, NEW h \in [Nat -> Nat], Owed(o, q),
           Len(u) \in Nat,
           \A p \in 1..Len(u) : u[p].type # "PUBLISH" =>
               /\ h[p] \in 1..Len(o)
               /\ u[p].type = o[h[p]].type /\ u[p].pid = o[h[p]].pid,
           \A p, s \in 1..Len(u) : h[p] = h[s] => p = s
    PROVE  Owed(u, q)
<1>1. PICK f : Claims(o, q, f)
  BY DEF Owed
<1> DEFINE g == [p \in Nat |-> f[h[p]]]
<1>2. /\ f \in [Nat -> Int] /\ g \in [Nat -> Int]
      /\ \A p \in 1..Len(u) : p \in Nat /\ g[p] = f[h[p]]
  <2>1. f \in [Nat -> Int]
    BY <1>1 DEF Claims
  <2>2. \A p \in Nat : h[p] \in Nat /\ f[h[p]] \in Int
    BY <2>1
  <2>3. g \in [Nat -> Int]
    BY <2>2
  <2>4. \A p \in 1..Len(u) : p \in Nat
    OBVIOUS
  <2> QED
    BY <2>1, <2>3, <2>4
<1> HIDE DEF g
<1>3. ASSUME NEW p \in 1..Len(u), u[p].type # "PUBLISH"
      PROVE  g[p] \in 1..Len(q) /\ Match(u[p], q[g[p]])
  <2>1. /\ h[p] \in 1..Len(o) /\ o[h[p]].type # "PUBLISH"
        /\ u[p].type = o[h[p]].type /\ u[p].pid = o[h[p]].pid
    BY <1>3
  <2>2. f[h[p]] \in 1..Len(q) /\ Match(o[h[p]], q[f[h[p]]])
    BY <1>1, <2>1 DEF Claims
  <2> QED
    BY <1>2, <2>1, <2>2 DEF Match
<1>4. ASSUME NEW p \in 1..Len(u), NEW s \in 1..Len(u),
             u[p].type # "PUBLISH", u[s].type # "PUBLISH", g[p] = g[s]
      PROVE  p = s
  <2>1. /\ h[p] \in 1..Len(o) /\ o[h[p]].type # "PUBLISH"
        /\ h[s] \in 1..Len(o) /\ o[h[s]].type # "PUBLISH"
    BY <1>4
  <2>2. f[h[p]] = f[h[s]]
    BY <1>2, <1>4
  <2>3. h[p] = h[s]
    BY <1>1, <2>1, <2>2 DEF Claims
  <2> QED
    BY <2>3
<1>5. Claims(u, q, g)
  BY <1>2, <1>3, <1>4 DEF Claims
<1> QED
  BY <1>5 DEF Owed

\* The first acknowledgement completes message j.  Where that is not the one it
\* belongs to, the two are alike and change places.
LEMMA OwedTake ==
    ASSUME NEW o, NEW q, NEW u, NEW r, NEW j \in 1..Len(q),
           Len(o) \in Nat \ {0}, Len(q) \in Nat, Owed(o, q),
           o[1].type # "PUBLISH",
           q[j].type = o[1].type, o[1].type \in PidTypes => q[j].pid = o[1].pid,
           Len(r) = Len(q), \A k \in 1..Len(q) : k # j => r[k] = q[k],
           Dropped(o, 1, u)
    PROVE  Owed(u, r)
<1>1. PICK f : Claims(o, q, f)
  BY DEF Owed
<1> DEFINE g == [p \in Nat |-> IF f[p + 1] = j THEN f[1] ELSE f[p + 1]]
<1>2. /\ f \in [Nat -> Int] /\ g \in [Nat -> Int]
      /\ \A p \in 1..Len(u) : /\ p \in Nat /\ p + 1 \in 1..Len(o) /\ p + 1 # 1
                              /\ u[p] = o[p + 1]
                              /\ g[p] = IF f[p + 1] = j THEN f[1] ELSE f[p + 1]
      /\ 1 \in 1..Len(o)
  <2>1. f \in [Nat -> Int] /\ g \in [Nat -> Int]
    BY <1>1 DEF Claims
  <2>2. /\ 1 \in 1..Len(o)
        /\ \A p \in 1..Len(u) : p \in Nat /\ p + 1 \in 1..Len(o) /\ p + 1 # 1
                                /\ p \in 1..Len(o) - 1
    BY DEF Dropped
  <2>3. \A p \in 1..Len(u) : u[p] = o[p + 1]
    BY <2>2 DEF Dropped
  <2> QED
    BY <2>1, <2>2, <2>3
<1> HIDE DEF g
<1>3. f[1] \in 1..Len(q) /\ Match(o[1], q[f[1]])
  BY <1>1, <1>2 DEF Claims
<1>4. ASSUME NEW p \in 1..Len(u), u[p].type # "PUBLISH"
      PROVE  /\ g[p] \in 1..Len(r) /\ Match(u[p], r[g[p]])
             /\ f[p + 1] # f[1]
  <2>1. /\ f[p + 1] \in 1..Len(q) /\ Match(u[p], q[f[p + 1]])
        /\ f[p + 1] # f[1]
    BY <1>1, <1>2, <1>4, ZenonT(40) DEF Claims
  <2>2. CASE f[p + 1] = j
    <3>1. f[1] # j /\ g[p] = f[1] /\ r[g[p]] = q[f[1]]
      BY <1>2, <1>3, <2>1, <2>2
    <3>2. Match(u[p], q[f[1]])
      BY <1>3, <2>1, <2>2 DEF Match
    <3> QED
      BY <1>3, <2>1, <3>1, <3>2
  <2>3. CASE f[p + 1] # j
    BY <1>2, <2>1, <2>3
  <2> QED
    BY <2>2, <2>3
<1>5. ASSUME NEW p \in 1..Len(u), NEW s \in 1..Len(u),
             u[p].type # "PUBLISH", u[s].type # "PUBLISH", g[p] = g[s]
      PROVE  p = s
  <2>1. f[p + 1] # f[1] /\ f[s + 1] # f[1]
    BY <1>4, <1>5
  <2>2. f[p + 1] = f[s + 1]
    BY <1>2, <1>5, <2>1
  <2>3. /\ p + 1 \in 1..Len(o) /\ s + 1 \in 1..Len(o)
        /\ o[p + 1].type # "PUBLISH" /\ o[s + 1].type # "PUBLISH"
    BY <1>2, <1>5
  <2>4. p + 1 = s + 1
    BY <1>1, <2>2, <2>3 DEF Claims
  <2> QED
    BY <1>2, <2>4
<1>6. Claims(u, r, g)
  BY <1>2, <1>4, <1>5 DEF Claims
<1> QED
  BY <1>6 DEF Owed

----------------------------------------------------------------------------
(* No two messages of the queue that got a packet id have the same.         *)

Distinct(q) ==
    \A j, k \in 1..Len(q) :
        q[j].type \in PidTypes /\ q[k].type \in PidTypes /\ q[j].pid = q[k].pid
            => j = k

LEMMA DistinctDrop ==
    ASSUME NEW q, NEW r, Len(q) \in Nat, NEW n \in 0..Len(q),
           Dropped(q, n, r), Distinct(q)
    PROVE  Distinct(r)
<1>1. \A k \in 1..Len(r) : k + n \in 1..Len(q) /\ r[k] = q[k + n] /\ k \in Nat
  BY DEF Dropped
<1>2. ASSUME NEW j \in 1..Len(r), NEW k \in 1..Len(r),
             r[j].type \in PidTypes, r[k].type \in PidTypes, r[j].pid = r[k].pid
      PROVE  j = k
  <2>1. j + n = k + n
    BY <1>1, <1>2 DEF Distinct
  <2> QED
    BY <1>1, <2>1
<1> QED
  BY <1>2 DEF Distinct

LEMMA DistinctExtend ==
    ASSUME NEW q, NEW r, Len(q) \in Nat, Len(r) = Len(q) + 1,
           \A k \in 1..Len(q) : r[k] = q[k],
           r[Len(q) + 1].type \in PidTypes =>
               \A k \in 1..Len(q) : q[k].pid # r[Len(q) + 1].pid,
           Distinct(q)
    PROVE  Distinct(r)
<1>1. \A k \in 1..Len(r) : k \in 1..Len(q) \/ k = Len(q) + 1
  OBVIOUS
<1> QED
  BY <1>1 DEF Distinct

\* What happens to a message does not change its packet id.
LEMMA DistinctSame ==
    ASSUME NEW q, NEW r, Len(r) = Len(q),
           \A k \in 1..Len(q) : r[k].type = q[k].type /\ r[k].pid = q[k].pid,
           Distinct(q)
    PROVE  Distinct(r)
BY DEF Distinct

----------------------------------------------------------------------------
(* What the hub has said last of a topic t is what it wants: in queue q, if a  *)
(* message there is unsent, else in w on the way to the broker, else in the   *)
(* broker's subscriptions b, unless a refusal is on its way back.            *)

Says(x, t) == x.type \in Ops /\ x.topic = t

Unsent(m, t) == Says(m, t) /\ m.state = "UNSENT"

LastUnsent(q, k, t) ==
    Unsent(q[k], t) /\ \A j \in 1..Len(q) : j > k => ~Unsent(q[j], t)

LastSaid(w, k, t) ==
    Says(w[k], t) /\ \A j \in 1..Len(w) : j > k => ~Says(w[j], t)

WireWord(w, b, g, refused, t) ==
    /\ \A k \in 1..Len(w) :
           LastSaid(w, k, t) => (w[k].type = "SUBSCRIBE" <=> t \in g)
    /\ (\A k \in 1..Len(w) : ~Says(w[k], t)) /\ ~refused => (t \in b <=> t \in g)

Word(q, w, b, g, refused, t) ==
    /\ \A k \in 1..Len(q) :
           LastUnsent(q, k, t) => (q[k].type = "SUBSCRIBE" <=> t \in g)
    /\ (\A k \in 1..Len(q) : ~Unsent(q[k], t)) => WireWord(w, b, g, refused, t)

LEMMA WordDrop ==
    ASSUME NEW q, NEW r, NEW w, NEW b, NEW g, NEW refused, NEW t,
           Len(q) \in Nat, NEW n \in 0..Len(q),
           \A k \in 1..n : Complete(q[k]), Dropped(q, n, r),
           Word(q, w, b, g, refused, t)
    PROVE  Word(r, w, b, g, refused, t)
<1>1. \A k \in 1..Len(r) : k + n \in 1..Len(q) /\ r[k] = q[k + n] /\ k \in Nat
  BY DEF Dropped
<1>2. \A k \in 1..Len(q) : Unsent(q[k], t) =>
          k - n \in 1..Len(r) /\ r[k - n] = q[k] /\ k \in Nat
  <2> SUFFICES ASSUME NEW k \in 1..Len(q), Unsent(q[k], t)
               PROVE  k - n \in 1..Len(r) /\ r[k - n] = q[k] /\ k \in Nat
    OBVIOUS
  <2>1. ~(k \in 1..n)
    <3>1. k \in 1..n => Complete(q[k])
      OBVIOUS
    <3> QED
      BY <3>1 DEF Complete, Unsent
  <2>2. k - n \in 1..Len(q) - n /\ (k - n) + n = k
    BY <2>1
  <2> QED
    BY <2>2 DEF Dropped
<1>3. ASSUME NEW k \in 1..Len(r), LastUnsent(r, k, t)
      PROVE  r[k].type = "SUBSCRIBE" <=> t \in g
  <2>1. Unsent(r[k], t) /\ \A j \in 1..Len(r) : j > k => ~Unsent(r[j], t)
    BY <1>3 DEF LastUnsent
  <2>2. ASSUME NEW j \in 1..Len(q), j > k + n
        PROVE  ~Unsent(q[j], t)
    <3> SUFFICES ASSUME Unsent(q[j], t) PROVE FALSE
      OBVIOUS
    <3>1. j - n \in 1..Len(r) /\ r[j - n] = q[j] /\ j \in Nat
      BY <1>2
    <3>2. j - n > k
      BY <1>1, <2>2, <3>1
    <3> QED
      BY <2>1, <3>1, <3>2
  <2>3. k + n \in 1..Len(q) /\ q[k + n] = r[k]
    BY <1>1
  <2>4. LastUnsent(q, k + n, t)
    BY <2>1, <2>2, <2>3 DEF LastUnsent
  <2> QED
    BY <2>3, <2>4 DEF Word
<1>4. ASSUME \A k \in 1..Len(r) : ~Unsent(r[k], t)
      PROVE  WireWord(w, b, g, refused, t)
  <2>1. \A k \in 1..Len(q) : ~Unsent(q[k], t)
    BY <1>2, <1>4
  <2> QED
    BY <2>1 DEF Word
<1> QED
  BY <1>3, <1>4 DEF Word

\* A message is queued; it is about t or about something else.
LEMMA WordExtend ==
    ASSUME NEW q, NEW r, NEW w, NEW b, NEW g, NEW h, NEW refused, NEW t,
           Len(q) \in Nat, Len(r) = Len(q) + 1,
           \A k \in 1..Len(q) : r[k] = q[k],
           IF Says(r[Len(q) + 1], t)
           THEN /\ r[Len(q) + 1].state = "UNSENT"
                /\ r[Len(q) + 1].type = "SUBSCRIBE" <=> t \in h
           ELSE (t \in h <=> t \in g) /\ Word(q, w, b, g, refused, t)
    PROVE  Word(r, w, b, h, refused, t)
<1> DEFINE l == Len(q) + 1
<1>1. /\ l \in 1..Len(r) /\ \A k \in 1..Len(q) : k \in 1..Len(r) /\ k < l
      /\ \A k \in 1..Len(r) : k \in 1..Len(q) \/ k = l
  OBVIOUS
<1>2. CASE Says(r[l], t)
  <2>1. Unsent(r[l], t)
    BY <1>2 DEF Unsent
  <2>2. \A k \in 1..Len(r) : LastUnsent(r, k, t) => k = l
    BY <1>1, <2>1 DEF LastUnsent
  <2> QED
    BY <1>1, <1>2, <2>1, <2>2 DEF Word
<1>3. CASE ~Says(r[l], t)
  <2>1. ~Unsent(r[l], t) /\ (t \in h <=> t \in g) /\ Word(q, w, b, g, refused, t)
    BY <1>3 DEF Unsent
  <2> HIDE DEF l
  <2>2. ASSUME NEW k \in 1..Len(r), LastUnsent(r, k, t)
        PROVE  r[k].type = "SUBSCRIBE" <=> t \in h
    <3>1. k \in 1..Len(q)
      BY <1>1, <2>1, <2>2 DEF LastUnsent
    <3>2. LastUnsent(q, k, t)
      BY <1>1, <2>2, <3>1 DEF LastUnsent
    <3> QED
      BY <2>1, <3>1, <3>2 DEF Word
  <2>3. ASSUME \A k \in 1..Len(r) : ~Unsent(r[k], t)
        PROVE  WireWord(w, b, h, refused, t)
    <3>1. \A k \in 1..Len(q) : ~Unsent(q[k], t)
      BY <1>1, <2>3
    <3> QED
      BY <2>1, <3>1 DEF Word, WireWord
  <2> QED
    BY <2>2, <2>3 DEF Word
<1> QED
  BY <1>2, <1>3

\* The first unsent message goes on its way.
LEMMA WordSend ==
    ASSUME NEW q, NEW r, NEW w, NEW v, NEW b, NEW g, NEW refused, NEW t,
           Len(q) \in Nat, Len(w) \in Nat, NEW a \in 1..Len(q),
           q[a].state = "UNSENT",
           \A k \in 1..Len(q) : k < a => q[k].state # "UNSENT",
           Len(r) = Len(q), \A k \in 1..Len(q) : k # a => r[k] = q[k],
           r[a].state # "UNSENT",
           Len(v) = Len(w) + 1, \A k \in 1..Len(w) : v[k] = w[k],
           v[Len(w) + 1].type = q[a].type, v[Len(w) + 1].topic = q[a].topic,
           Word(q, w, b, g, refused, t)
    PROVE  Word(r, v, b, g, refused, t)
<1> DEFINE l == Len(w) + 1
<1>1. /\ l \in 1..Len(v) /\ \A k \in 1..Len(w) : k \in 1..Len(v) /\ k < l
      /\ \A k \in 1..Len(v) : k \in 1..Len(w) \/ k = l
      /\ (Says(v[l], t) <=> Unsent(q[a], t))
      /\ v[l].type = q[a].type
  BY DEF Says, Unsent
<1> HIDE DEF l
<1>2. \A k \in 1..Len(q) : Unsent(r[k], t) <=> Unsent(q[k], t) /\ k # a
  BY DEF Unsent
<1>3. ASSUME NEW k \in 1..Len(r), LastUnsent(r, k, t)
      PROVE  r[k].type = "SUBSCRIBE" <=> t \in g
  <2>1. k # a /\ Unsent(q[k], t) /\ r[k] = q[k]
    BY <1>2, <1>3 DEF LastUnsent
  <2>2. a < k
    BY <2>1 DEF Unsent
  <2>3. LastUnsent(q, k, t)
    BY <1>2, <1>3, <2>1, <2>2 DEF LastUnsent
  <2> QED
    BY <2>1, <2>3 DEF Word
<1>4. ASSUME \A k \in 1..Len(r) : ~Unsent(r[k], t)
      PROVE  WireWord(v, b, g, refused, t)
  <2>1. CASE Unsent(q[a], t)
    <3>1. LastUnsent(q, a, t)
      BY <1>2, <1>4, <2>1 DEF LastUnsent
    <3>2. q[a].type = "SUBSCRIBE" <=> t \in g
      BY <3>1 DEF Word
    <3>3. \A k \in 1..Len(v) : LastSaid(v, k, t) => k = l
      BY <1>1, <2>1 DEF LastSaid
    <3> QED
      BY <1>1, <2>1, <3>2, <3>3 DEF WireWord
  <2>2. CASE ~Unsent(q[a], t)
    <3>1. WireWord(w, b, g, refused, t)
      BY <1>2, <1>4, <2>2 DEF Word
    <3>2. ASSUME NEW k \in 1..Len(v), LastSaid(v, k, t)
          PROVE  v[k].type = "SUBSCRIBE" <=> t \in g
      <4>1. k \in 1..Len(w)
        BY <1>1, <2>2, <3>2 DEF LastSaid
      <4>2. LastSaid(w, k, t)
        BY <1>1, <3>2, <4>1 DEF LastSaid
      <4> QED
        BY <3>1, <4>1, <4>2 DEF WireWord
    <3>3. (\A k \in 1..Len(v) : ~Says(v[k], t)) =>
              \A k \in 1..Len(w) : ~Says(w[k], t)
      BY <1>1
    <3> QED
      BY <3>1, <3>2, <3>3 DEF WireWord
  <2> QED
    BY <2>1, <2>2
<1> QED
  BY <1>3, <1>4 DEF Word

\* The broker takes the first message from the wire and does what it says, or
\* refuses it.
LEMMA WordRead ==
    ASSUME NEW q, NEW w, NEW v, NEW b, NEW c, NEW g, NEW old, NEW new, NEW t,
           Len(w) \in Nat \ {0}, Dropped(w, 1, v),
           IF Says(w[1], t)
           THEN new \/ (w[1].type = "SUBSCRIBE" <=> t \in c)
           ELSE t \in c <=> t \in b,
           ~new => ~old,
           Word(q, w, b, g, old, t)
    PROVE  Word(q, v, c, g, new, t)
<1>1. /\ 1 \in 1..Len(w)
      /\ \A k \in 1..Len(v) : k + 1 \in 1..Len(w) /\ v[k] = w[k + 1] /\ k \in Nat
      /\ \A k \in 1..Len(w) : k > 1 =>
             k - 1 \in 1..Len(v) /\ v[k - 1] = w[k] /\ k \in Nat
  <2>1. /\ 1 \in 1..Len(w)
        /\ \A k \in 1..Len(v) : k + 1 \in 1..Len(w) /\ k \in 1..Len(w) - 1
                                /\ k \in Nat
        /\ \A k \in 1..Len(w) : k > 1 =>
               k - 1 \in 1..Len(v) /\ k - 1 \in 1..Len(w) - 1
               /\ (k - 1) + 1 = k /\ k \in Nat
    BY DEF Dropped
  <2>2. \A k \in 1..Len(w) - 1 : v[k] = w[k + 1]
    BY DEF Dropped
  <2>3. \A k \in 1..Len(v) : v[k] = w[k + 1]
    BY <2>1, <2>2
  <2>4. \A k \in 1..Len(w) : k > 1 => v[k - 1] = w[k]
    BY <2>1, <2>2
  <2> QED
    BY <2>1, <2>3, <2>4
<1>2. SUFFICES ASSUME WireWord(w, b, g, old, t)
               PROVE  WireWord(v, c, g, new, t)
  BY DEF Word
<1>3. ASSUME NEW k \in 1..Len(v), LastSaid(v, k, t)
      PROVE  v[k].type = "SUBSCRIBE" <=> t \in g
  <2>1. ASSUME NEW j \in 1..Len(w), j > k + 1
        PROVE  ~Says(w[j], t)
    <3>1. j - 1 \in 1..Len(v) /\ v[j - 1] = w[j] /\ j - 1 > k
      BY <1>1, <2>1
    <3> QED
      BY <1>3, <3>1 DEF LastSaid
  <2>2. k + 1 \in 1..Len(w) /\ v[k] = w[k + 1]
    BY <1>1
  <2>3. LastSaid(w, k + 1, t)
    BY <1>3, <2>1, <2>2 DEF LastSaid
  <2> QED
    BY <1>2, <2>2, <2>3 DEF WireWord
<1>4. ASSUME \A k \in 1..Len(v) : ~Says(v[k], t), ~new
      PROVE  t \in c <=> t \in g
  <2>1. \A k \in 1..Len(w) : k > 1 => ~Says(w[k], t)
    BY <1>1, <1>4
  <2>2. CASE Says(w[1], t)
    <3>1. LastSaid(w, 1, t)
      BY <2>1, <2>2 DEF LastSaid
    <3>2. w[1].type = "SUBSCRIBE" <=> t \in g
      BY <1>1, <1>2, <3>1 DEF WireWord
    <3> QED
      BY <1>4, <2>2, <3>2
  <2>3. CASE ~Says(w[1], t)
    <3>1. \A k \in 1..Len(w) : ~Says(w[k], t)
      <4> SUFFICES ASSUME NEW k \in 1..Len(w) PROVE ~Says(w[k], t)
        OBVIOUS
      <4>1. k = 1 \/ k > 1
        OBVIOUS
      <4> QED
        BY <2>1, <2>3, <4>1
    <3> QED
      BY <1>2, <1>4, <2>3, <3>1 DEF WireWord
  <2> QED
    BY <2>2, <2>3
<1> QED
  BY <1>3, <1>4 DEF WireWord

\* A message that is not an unsent one about t is marked.
LEMMA WordSame ==
    ASSUME NEW q, NEW r, NEW w, NEW b, NEW g, NEW refused, NEW t,
           Len(r) = Len(q),
           \A k \in 1..Len(q) : /\ Unsent(r[k], t) <=> Unsent(q[k], t)
                                /\ r[k].type = q[k].type,
           Word(q, w, b, g, refused, t)
    PROVE  Word(r, w, b, g, refused, t)
<1>1. \A k \in 1..Len(q) : LastUnsent(r, k, t) <=> LastUnsent(q, k, t)
  BY DEF LastUnsent
<1> QED
  BY <1>1 DEF Word

----------------------------------------------------------------------------
(* The inductive invariant.                                                 *)

Pending == inbox \o wire

\* __mqtt_send has left nothing unsent behind the place it looks at.
InOrder ==
    sync = "send" =>
        \A k \in 1..Len(mq) : k < at => mq[k].state # "UNSENT"

Refusal ==
    \E k \in 1..Len(inbox) : inbox[k].type = "SUBSCRIBE" /\ inbox[k].refused

\* As long as nothing was sent twice.
Acked == ~timed_out => Owed(Pending, mq) /\ error # "ACK_OF_UNKNOWN"

Worded ==
    (error = "OK" /\ ~timed_out /\ ~reset) =>
        \A t \in Topic : Word(mq, wire, broker_subs, wanted, Refusal, t)

IInv == TypeInv /\ Distinct(mq) /\ InOrder /\ Acked /\ Worded

LEMMA ClientTypes ==
    ASSUME TypeInv
    PROVE  /\ mq \in Seq(Entry) /\ Len(mq) \in Nat /\ DOMAIN mq = 1..Len(mq)
           /\ \A k \in 1..Len(mq) : mq[k] \in Entry
           /\ wire \in Seq(Packet) /\ Len(wire) \in Nat
           /\ inbox \in Seq(Ack) /\ Len(inbox) \in Nat
           /\ \A k \in 1..Len(wire) : wire[k] \in Packet
           /\ \A k \in 1..Len(inbox) : inbox[k] \in Ack
           /\ Len(Pending) = Len(inbox) + Len(wire) /\ Len(Pending) \in Nat
           /\ \A k \in 1..Len(inbox) : Pending[k] = inbox[k]
           /\ \A k \in 1..Len(wire) : Pending[Len(inbox) + k] = wire[k]
<1>1. mq \in Seq(Entry) /\ wire \in Seq(Packet) /\ inbox \in Seq(Ack)
  BY DEF TypeInv
<1>2. /\ Len(mq) \in Nat /\ DOMAIN mq = 1..Len(mq)
      /\ Len(wire) \in Nat /\ Len(inbox) \in Nat
      /\ \A k \in 1..Len(mq) : mq[k] \in Entry
      /\ \A k \in 1..Len(wire) : wire[k] \in Packet
      /\ \A k \in 1..Len(inbox) : inbox[k] \in Ack
  BY <1>1
<1>3. /\ Len(Pending) = Len(inbox) + Len(wire)
      /\ \A i \in 1..Len(inbox) + Len(wire) :
             Pending[i] = IF i <= Len(inbox) THEN inbox[i]
                          ELSE wire[i - Len(inbox)]
  <2> DEFINE F == Ack \cup Packet
  <2>1. inbox \in Seq(F) /\ wire \in Seq(F)
    BY <1>1
  <2> HIDE DEF F
  <2> QED
    BY <2>1, ConcatProperties DEF Pending
<1>4. \A k \in 1..Len(inbox) : Pending[k] = inbox[k]
  <2>1. \A k \in 1..Len(inbox) : k \in 1..Len(inbox) + Len(wire) /\ k <= Len(inbox)
    BY <1>2
  <2> QED
    BY <1>3, <2>1
<1>5. \A k \in 1..Len(wire) : Pending[Len(inbox) + k] = wire[k]
  <2>1. \A k \in 1..Len(wire) :
            /\ Len(inbox) + k \in 1..Len(inbox) + Len(wire)
            /\ ~(Len(inbox) + k <= Len(inbox))
            /\ (Len(inbox) + k) - Len(inbox) = k
    BY <1>2
  <2> QED
    BY <1>3, <2>1
<1>6. Len(Pending) \in Nat
  BY <1>2, <1>3
<1> QED
  BY <1>1, <1>2, <1>3, <1>4, <1>5, <1>6

\* The same of the next state.
LEMMA TypesAfter ==
    ASSUME TypeInv'
    PROVE  /\ Len(Pending') = Len(inbox') + Len(wire') /\ Len(Pending') \in Nat
           /\ \A k \in 1..Len(inbox') : Pending'[k] = inbox'[k]
           /\ \A k \in 1..Len(wire') : Pending'[Len(inbox') + k] = wire'[k]
<1>1. wire' \in Seq(Packet) /\ inbox' \in Seq(Ack)
  BY DEF TypeInv
<1> DEFINE F == Ack \cup Packet
<1>2. inbox' \in Seq(F) /\ wire' \in Seq(F) /\ Pending' = inbox' \o wire'
  BY <1>1 DEF Pending
<1> HIDE DEF F
<1>3. /\ Len(Pending') = Len(inbox') + Len(wire')
      /\ \A i \in 1..Len(inbox') + Len(wire') :
             Pending'[i] = IF i <= Len(inbox') THEN inbox'[i]
                           ELSE wire'[i - Len(inbox')]
      /\ Len(inbox') \in Nat /\ Len(wire') \in Nat
  BY <1>2, ConcatProperties
<1>4. \A k \in 1..Len(inbox') : Pending'[k] = inbox'[k]
  <2>1. \A k \in 1..Len(inbox') :
            k \in 1..Len(inbox') + Len(wire') /\ k <= Len(inbox')
    BY <1>3
  <2> QED
    BY <1>3, <2>1
<1>5. \A k \in 1..Len(wire') : Pending'[Len(inbox') + k] = wire'[k]
  <2>1. \A k \in 1..Len(wire') :
            /\ Len(inbox') + k \in 1..Len(inbox') + Len(wire')
            /\ ~(Len(inbox') + k <= Len(inbox'))
            /\ (Len(inbox') + k) - Len(inbox') = k
    BY <1>3
  <2> QED
    BY <1>3, <2>1
<1> QED
  BY <1>3, <1>4, <1>5

LEMMA InitInv == Init => IInv
<1> SUFFICES ASSUME Init PROVE IInv
  OBVIOUS
<1>1. PICK pid \in Leftover : mq = <<Message("CONNECT", pid, None)>>
  BY DEF Init
<1> DEFINE m == Message("CONNECT", pid, None)
<1>2. m \in Entry /\ m.type = "CONNECT" /\ m.state = "UNSENT"
  <2>1. pid \in 0..MaxPid /\ 0 \in 0..MaxTime
    BY PidAssumption, TimeAssumption
  <2> QED
    BY <2>1 DEF Message, Entry, Type
<1> HIDE DEF m
<1>3. mq \in Seq(Entry) /\ Len(mq) = 1 /\ mq[1] = m
  <2>1. mq = <<m>>
    BY <1>1 DEF m
  <2> QED
    BY <1>2, <2>1
<1>4. /\ wire = <<>> /\ inbox = <<>> /\ wire \in Seq(Packet)
      /\ inbox \in Seq(Ack) /\ Len(wire) = 0 /\ Len(inbox) = 0
  BY EmptySeq DEF Init
<1>5. \A k \in 1..Len(mq) : k = 1 /\ mq[k] = m
  BY <1>3
<1>6. TypeOK
  <2>1. \A k \in DOMAIN mq : mq[k] \in Entry
    BY <1>2, <1>3, <1>5
  <2>2. /\ Len(mq) <= Capacity /\ pid_lfsr \in 1..MaxPid
        /\ at \in 1..(Capacity + 1) /\ now \in 0..MaxTime
        /\ time_of_last_send \in 0..MaxTime /\ Len(wire) <= WireCap
    BY <1>3, <1>4, CapacityAssumption, PidAssumption, TimeAssumption DEF Init
  <2>3. /\ error \in Errors /\ timed_out \in BOOLEAN /\ reset \in BOOLEAN
        /\ sync \in {"starting", "sleep", "recv", "between", "send"}
        /\ loading \subseteq Loaded /\ wanted \subseteq Topic
        /\ broker_subs \subseteq Topic
    BY DEF Init, Errors
  <2> QED
    BY <2>1, <2>2, <2>3 DEF TypeOK, Entry
<1>7. TypeInv
  BY <1>2, <1>3, <1>4, <1>5, <1>6 DEF TypeInv, Ops
<1>8. Distinct(mq)
  BY <1>5 DEF Distinct
<1>9. InOrder
  BY DEF InOrder, Init
<1>10. Acked
  <2> DEFINE f == [p \in Nat |-> 0]
  <2>1. Len(Pending) = 0
    BY <1>4, <1>7, ClientTypes
  <2>2. Claims(Pending, mq, f)
    BY <2>1 DEF Claims
  <2>3. error # "ACK_OF_UNKNOWN"
    BY DEF Init
  <2> QED
    BY <2>2, <2>3 DEF Acked, Owed
<1>11. Worded
  <2> SUFFICES ASSUME NEW t \in Topic
               PROVE  Word(mq, wire, broker_subs, wanted, Refusal, t)
    BY DEF Worded
  <2>1. \A k \in 1..Len(mq) : ~Unsent(mq[k], t)
    BY <1>2, <1>5 DEF Unsent, Says, Ops
  <2>2. t \notin broker_subs /\ t \notin wanted
    BY DEF Init
  <2> QED
    BY <1>4, <2>1, <2>2 DEF Word, WireWord, LastUnsent
<1> QED
  BY <1>7, <1>8, <1>9, <1>10, <1>11 DEF IInv

----------------------------------------------------------------------------
(* Queueing a message.                                                      *)

LEMMA TryPackEffect ==
    ASSUME TypeInv, NEW m \in Entry, TryPack(m)
    PROVE  \E d \in Seq(Entry), n \in 0..Len(mq) :
               /\ \A k \in 1..n : Complete(mq[k])
               /\ Dropped(mq, n, d)
               /\ \/ /\ mq' = d
                     /\ error' # "OK"
                     /\ error' \in {error, "SEND_BUFFER_IS_FULL"}
                  \/ /\ mq' = Append(d, m) /\ Len(d) < Capacity
                     /\ error = "OK" /\ error' = "OK"
<1>1. mq \in Seq(Entry) /\ Len(mq) \in Nat
  BY ClientTypes
<1>2. /\ 0 \in 0..Len(mq) /\ Dropped(mq, 0, mq)
      /\ \A k \in 1..0 : Complete(mq[k])
  BY <1>1 DEF Dropped
<1>3. CASE error # "OK"
  BY <1>1, <1>2, <1>3 DEF TryPack
<1>4. CASE error = "OK" /\ Fits(mq)
  <2>1. mq' = Append(mq, m) /\ error' = error
    BY <1>4 DEF TryPack
  <2> QED
    BY <1>1, <1>2, <1>4, <2>1 DEF Fits
<1>5. CASE error = "OK" /\ ~Fits(mq)
  <2>1. PICK n \in 0..Len(mq) :
            /\ \A k \in 1..n : Complete(mq[k])
            /\ Clean(mq) \in Seq(Entry)
            /\ Dropped(mq, n, Clean(mq))
    BY <1>1, CleanDrops
  <2>2. IF Fits(Clean(mq))
        THEN mq' = Append(Clean(mq), m) /\ error' = error
        ELSE mq' = Clean(mq) /\ error' = "SEND_BUFFER_IS_FULL"
    BY <1>5 DEF TryPack
  <2> QED
    BY <1>5, <2>1, <2>2 DEF Fits
<1> QED
  BY <1>3, <1>4, <1>5

\* A call that queues message m, with which the hub wants what it says.
LEMMA QueueStep ==
    ASSUME IInv, NEW m \in Entry, TryPack(m), m.state = "UNSENT",
           m.type \in Ops => m.topic \in Topic,
           m.type \in PidTypes => \A k \in 1..Len(mq) : mq[k].pid # m.pid,
           UNCHANGED <<wire, inbox, broker_subs, timed_out, reset>>,
           \A t \in Topic : IF Says(m, t)
                            THEN m.type = "SUBSCRIBE" <=> t \in wanted'
                            ELSE t \in wanted' <=> t \in wanted
    PROVE  /\ mq' \in Seq(Entry) /\ Len(mq') <= Capacity
           /\ error' \in Errors
           /\ \A k \in 1..Len(mq') : mq'[k].type \in Ops => mq'[k].topic \in Topic
           /\ Distinct(mq') /\ Acked' /\ Worded'
<1>1. PICK d \in Seq(Entry), n \in 0..Len(mq) :
          /\ \A k \in 1..n : Complete(mq[k])
          /\ Dropped(mq, n, d)
          /\ \/ /\ mq' = d
                /\ error' # "OK"
                /\ error' \in {error, "SEND_BUFFER_IS_FULL"}
             \/ /\ mq' = Append(d, m) /\ Len(d) < Capacity
                /\ error = "OK" /\ error' = "OK"
  BY TryPackEffect DEF IInv
<1>2. /\ TypeInv /\ mq \in Seq(Entry) /\ Len(mq) \in Nat /\ Len(d) \in Nat
      /\ Len(Pending) \in Nat /\ Len(mq) <= Capacity /\ Capacity \in Nat
      /\ error \in Errors
      /\ \A k \in 1..Len(mq) : mq[k].type \in Ops => mq[k].topic \in Topic
  BY ClientTypes, CapacityAssumption DEF IInv, TypeInv, TypeOK
<1>3. /\ Len(d) = Len(mq) - n
      /\ \A k \in 1..Len(d) : k + n \in 1..Len(mq) /\ d[k] = mq[k + n]
  BY <1>2, <1>1 DEF Dropped
<1>4. Distinct(d)
  BY <1>1, <1>2, DistinctDrop DEF IInv
<1>5. ~timed_out => Owed(Pending, d)
  BY <1>1, <1>2, OwedDrop DEF IInv, Acked
<1>6. Pending' = Pending
  BY DEF Pending
<1>7. CASE mq' = d /\ error' # "OK" /\ error' \in {error, "SEND_BUFFER_IS_FULL"}
  <2>1. error' \in Errors
    BY <1>2, <1>7 DEF Errors
  <2>2. Acked'
    BY <1>5, <1>6, <1>7 DEF IInv, Acked
  <2>3. Worded'
    BY <1>7 DEF Worded
  <2>4. \A k \in 1..Len(d) : d[k].type \in Ops => d[k].topic \in Topic
    BY <1>2, <1>3
  <2>5. Len(d) <= Capacity
    BY <1>2, <1>3
  <2> QED
    BY <1>4, <1>7, <2>1, <2>2, <2>3, <2>4, <2>5
<1>8. CASE mq' = Append(d, m) /\ Len(d) < Capacity /\ error = "OK" /\ error' = "OK"
  <2>1. /\ mq' \in Seq(Entry) /\ Len(mq') = Len(d) + 1
        /\ \A k \in 1..Len(d) : mq'[k] = d[k]
        /\ mq'[Len(d) + 1] = m
    BY <1>8, AppendProperties
  <2>2. \A k \in 1..Len(mq') : k \in 1..Len(d) \/ k = Len(d) + 1
    BY <1>2, <2>1
  <2>3. \A k \in 1..Len(mq') : mq'[k].type \in Ops => mq'[k].topic \in Topic
    BY <1>2, <1>3, <2>1, <2>2
  <2>4. Distinct(mq')
    <3>1. m.type \in PidTypes => \A k \in 1..Len(d) : d[k].pid # m.pid
      BY <1>3
    <3> QED
      BY <1>2, <1>4, <2>1, <3>1, DistinctExtend
  <2>5. Acked'
    <3>1. Len(d) <= Len(mq') /\ Len(mq') \in Nat
      BY <1>2, <2>1
    <3>2. ~timed_out => Owed(Pending, mq')
      BY <1>2, <1>5, <2>1, <3>1, OwedExtend
    <3> QED
      BY <1>6, <1>8, <3>2 DEF Acked
  <2>6. ASSUME NEW t \in Topic, ~timed_out, ~reset
        PROVE  Word(mq', wire, broker_subs, wanted', Refusal, t)
    <3>1. Word(mq, wire, broker_subs, wanted, Refusal, t)
      BY <1>8, <2>6 DEF IInv, Worded
    <3>2. Word(d, wire, broker_subs, wanted, Refusal, t)
      BY <1>1, <1>2, <3>1, WordDrop
    <3>3. IF Says(m, t) THEN m.type = "SUBSCRIBE" <=> t \in wanted'
          ELSE t \in wanted' <=> t \in wanted
      OBVIOUS
    <3> QED
      BY <1>2, <2>1, <3>2, <3>3, WordExtend
  <2>7. Worded'
    <3>1. Refusal' <=> Refusal
      BY DEF Refusal
    <3>2. ASSUME NEW t \in Topic, ~timed_out', ~reset'
          PROVE  Word(mq', wire', broker_subs', wanted', Refusal', t)
      BY <2>6, <3>1, <3>2 DEF Word, WireWord
    <3> QED
      BY <3>2 DEF Worded
  <2>8. Len(mq') <= Capacity /\ error' \in Errors
    BY <1>2, <1>8, <2>1 DEF Errors
  <2> QED
    BY <2>1, <2>3, <2>4, <2>5, <2>7, <2>8
<1> QED
  BY <1>1, <1>7, <1>8

\* The messages of the hub's calls.
LEMMA CallType ==
    ASSUME IInv, NEW type \in PidTypes, NEW topic \in Topic \cup {None},
           type \in Ops => topic \in Topic, Queue(type, topic),
           UNCHANGED <<wire, inbox, broker_subs, timed_out, reset>>,
           \A t \in Topic : IF type \in Ops /\ topic = t
                            THEN type = "SUBSCRIBE" <=> t \in wanted'
                            ELSE t \in wanted' <=> t \in wanted
    PROVE  /\ mq' \in Seq(Entry) /\ Len(mq') <= Capacity
           /\ error' \in Errors /\ pid_lfsr' \in 1..MaxPid
           /\ \A k \in 1..Len(mq') : mq'[k].type \in Ops => mq'[k].topic \in Topic
           /\ Distinct(mq') /\ Acked' /\ Worded'
<1> DEFINE m == Message(type, pid_lfsr', topic)
<1>1. /\ pid_lfsr' \in 1..MaxPid
      /\ \A k \in 1..Len(mq) : mq[k].pid # pid_lfsr'
  <2>1. /\ mq \in Seq(Entry) /\ Len(mq) <= Capacity /\ pid_lfsr \in 1..MaxPid
        /\ pid_lfsr' = NextPid(mq, pid_lfsr)
    BY DEF IInv, TypeInv, TypeOK, Queue
  <2> QED
    BY <2>1, NextPidIsFree
<1>2. /\ m \in Entry /\ m.state = "UNSENT" /\ m.type = type /\ m.topic = topic
      /\ m.pid = pid_lfsr'
  <2>1. /\ 0 \in 0..MaxTime /\ pid_lfsr' \in 0..MaxPid /\ type \in Type
    BY <1>1, TimeAssumption DEF PidTypes, Ops, Type
  <2> QED
    BY <2>1 DEF Message, Entry
<1>3. TryPack(m)
  BY DEF Queue
<1> HIDE DEF m
<1>4. \A t \in Topic : IF Says(m, t)
                       THEN m.type = "SUBSCRIBE" <=> t \in wanted'
                       ELSE t \in wanted' <=> t \in wanted
  BY <1>2 DEF Says
<1> QED
  BY <1>1, <1>2, <1>3, <1>4, QueueStep

\* The types of the calls' results, for a step that leaves the rest alone.
LEMMA CallTypeInv ==
    ASSUME IInv, mq' \in Seq(Entry), Len(mq') <= Capacity, error' \in Errors,
           pid_lfsr' \in 1..MaxPid,
           \A k \in 1..Len(mq') : mq'[k].type \in Ops => mq'[k].topic \in Topic,
           loading' \subseteq Loaded, wanted' \subseteq Topic,
           sync' \in {"starting", "sleep", "recv", "between", "send"},
           UNCHANGED <<timed_out, time_of_last_send, at, now, wire, inbox,
                       broker_subs, reset>>
    PROVE  TypeInv'
<1>1. \A k \in DOMAIN mq' : mq'[k] \in Entry
  OBVIOUS
<1>2. TypeOK'
  BY <1>1 DEF IInv, TypeInv, TypeOK, Entry
<1> QED
  BY <1>2 DEF IInv, TypeInv

LEMMA CallStep ==
    ASSUME IInv, NEW type \in PidTypes, NEW topic \in Topic \cup {None},
           type \in Ops => topic \in Topic, Queue(type, topic),
           UNCHANGED <<sync, timed_out, time_of_last_send, at, now, wire, inbox,
                       broker_subs, reset>>,
           sync # "send", loading' \subseteq Loaded, wanted' \subseteq Topic,
           \A t \in Topic : IF type \in Ops /\ topic = t
                            THEN type = "SUBSCRIBE" <=> t \in wanted'
                            ELSE t \in wanted' <=> t \in wanted
    PROVE  IInv'
<1>1. /\ mq' \in Seq(Entry) /\ Len(mq') <= Capacity
      /\ error' \in Errors /\ pid_lfsr' \in 1..MaxPid
      /\ \A k \in 1..Len(mq') : mq'[k].type \in Ops => mq'[k].topic \in Topic
      /\ Distinct(mq') /\ Acked' /\ Worded'
  BY CallType
<1>2. sync' \in {"starting", "sleep", "recv", "between", "send"}
  BY DEF IInv, TypeInv, TypeOK
<1>3. TypeInv'
  BY <1>1, <1>2, CallTypeInv
<1>4. InOrder'
  BY DEF InOrder
<1> QED
  BY <1>1, <1>3, <1>4 DEF IInv

LEMMA RequestStep ==
    ASSUME IInv, (\E t \in Topic : Load(t)) \/ Request
    PROVE  IInv'
<1>1. /\ loading \subseteq Loaded /\ wanted \subseteq Topic
      /\ "SUBSCRIBE" \in PidTypes /\ "UNSUBSCRIBE" \in PidTypes
      /\ "PUBLISH" \in PidTypes /\ "SUBSCRIBE" \in Ops /\ "UNSUBSCRIBE" \in Ops
      /\ "PUBLISH" \notin Ops
  BY DEF IInv, TypeInv, TypeOK, PidTypes, Ops
<1>2. ASSUME NEW t \in Topic, Load(t) \/ mqtt_subscribe(t)
      PROVE  IInv'
  <2>1. /\ Queue("SUBSCRIBE", t) /\ wanted' = wanted \cup {t}
        /\ loading' \in {loading, loading \ {t}} /\ sync # "send"
        /\ UNCHANGED <<sync, timed_out, time_of_last_send, at, now, wire, inbox,
                       broker_subs, reset>>
    BY <1>2 DEF Load, mqtt_subscribe, MutexFree, sending, broker
  <2>2. /\ loading' \subseteq Loaded /\ wanted' \subseteq Topic
        /\ \A s \in Topic : IF "SUBSCRIBE" \in Ops /\ t = s
                            THEN "SUBSCRIBE" = "SUBSCRIBE" <=> s \in wanted'
                            ELSE s \in wanted' <=> s \in wanted
    BY <1>1, <2>1
  <2> QED
    BY <1>1, <2>1, <2>2, CallStep
<1>3. ASSUME NEW t \in Topic, mqtt_unsubscribe(t)
      PROVE  IInv'
  <2>1. /\ Queue("UNSUBSCRIBE", t) /\ wanted' = wanted \ {t}
        /\ loading' = loading /\ sync # "send"
        /\ UNCHANGED <<sync, timed_out, time_of_last_send, at, now, wire, inbox,
                       broker_subs, reset>>
    BY <1>3 DEF mqtt_unsubscribe, MutexFree, sending, broker
  <2>2. /\ loading' \subseteq Loaded /\ wanted' \subseteq Topic
        /\ \A s \in Topic : IF "UNSUBSCRIBE" \in Ops /\ t = s
                            THEN "UNSUBSCRIBE" = "SUBSCRIBE" <=> s \in wanted'
                            ELSE s \in wanted' <=> s \in wanted
    BY <1>1, <2>1
  <2> QED
    BY <1>1, <2>1, <2>2, CallStep
<1>4. CASE mqtt_publish
  <2>1. /\ Queue("PUBLISH", None) /\ wanted' = wanted
        /\ loading' = loading /\ sync # "send"
        /\ UNCHANGED <<sync, timed_out, time_of_last_send, at, now, wire, inbox,
                       broker_subs, reset>>
    BY <1>4 DEF mqtt_publish, MutexFree, sending, hub, broker
  <2>2. /\ loading' \subseteq Loaded /\ wanted' \subseteq Topic
        /\ \A s \in Topic : IF "PUBLISH" \in Ops /\ None = s
                            THEN "PUBLISH" = "SUBSCRIBE" <=> s \in wanted'
                            ELSE s \in wanted' <=> s \in wanted
    BY <1>1, <2>1
  <2> QED
    BY <1>1, <2>1, <2>2, CallStep
<1> QED
  BY <1>2, <1>3, <1>4 DEF Request

----------------------------------------------------------------------------
(* The refresher.                                                           *)

\* Steps that leave the queue and what is on the way alone.
LEMMA QuietStep ==
    ASSUME IInv, UNCHANGED <<mq, wire, inbox, broker_subs, wanted, timed_out, reset>>,
           error' \in {error, "SOCKET_ERROR"}
    PROVE  Distinct(mq') /\ Acked' /\ Worded'
<1>1. Pending' = Pending /\ (Refusal' <=> Refusal)
  BY DEF Pending, Refusal
<1>2. Distinct(mq') /\ Acked'
  BY <1>1 DEF IInv, Acked
<1>3. Worded'
  <2> SUFFICES ASSUME error' = "OK", ~timed_out', ~reset', NEW t \in Topic
               PROVE  Word(mq', wire', broker_subs', wanted', Refusal', t)
    BY DEF Worded
  <2>1. Word(mq, wire, broker_subs, wanted, Refusal, t)
    BY DEF IInv, Worded
  <2> QED
    BY <1>1, <2>1 DEF Word, WireWord
<1> QED
  BY <1>2, <1>3

LEMMA IdleStep ==
    ASSUME IInv,
           \/ StartRefresher \/ Wake \/ ReceiveNothing \/ SocketError
           \/ BeginSend \/ SkipMessage \/ Tick \/ UNCHANGED vars
    PROVE  IInv'
<1>1. /\ UNCHANGED <<mq, pid_lfsr, wire, inbox, broker_subs, loading, wanted,
                    timed_out, time_of_last_send, reset>>
      /\ error' \in {error, "SOCKET_ERROR"}
  BY DEF StartRefresher, Wake, ReceiveNothing, SocketError, BeginSend,
     SkipMessage, Tick, vars, client, sending, hub, broker
<1>2. Distinct(mq') /\ Acked' /\ Worded'
  BY <1>1, QuietStep
<1>3. /\ sync' \in {"starting", "sleep", "recv", "between", "send"}
      /\ now' \in 0..MaxTime
      /\ at' \in 1..(Capacity + 1)
  <2>1. /\ sync \in {"starting", "sleep", "recv", "between", "send"}
        /\ now \in 0..MaxTime /\ MaxTime \in Nat
        /\ at \in 1..(Capacity + 1) /\ Len(mq) <= Capacity /\ Len(mq) \in Nat
        /\ Capacity \in Nat /\ Capacity >= 1
    BY ClientTypes, CapacityAssumption, TimeAssumption
       DEF IInv, TypeInv, TypeOK
  <2>2. sync' \in {sync, "sleep", "recv", "between", "send"}
    <3>1. CASE StartRefresher \/ Wake \/ ReceiveNothing \/ BeginSend
      BY <3>1 DEF StartRefresher, Wake, ReceiveNothing, BeginSend, AfterReceive, client, sending, hub,
         broker
    <3>2. CASE SocketError \/ SkipMessage \/ Tick \/ UNCHANGED vars
      BY <3>2 DEF SocketError, SkipMessage, Tick, vars, client, sending, hub,
         broker
    <3> QED
      BY <3>1, <3>2
  <2>3. now' = now \/ (now' = now + 1 /\ now < MaxTime)
    <3>1. CASE Tick
      BY <3>1 DEF Tick
    <3>2. ~Tick => now' = now
      BY DEF StartRefresher, Wake, ReceiveNothing, SocketError, BeginSend,
         SkipMessage, vars
    <3> QED
      BY <3>1, <3>2
  <2>4. at' = at \/ at' = 1 \/ (at' = at + 1 /\ at <= Len(mq))
    <3>1. CASE SkipMessage
      BY <3>1 DEF SkipMessage, AtMessage
    <3>2. ~SkipMessage => at' \in {at, 1}
      BY DEF StartRefresher, Wake, ReceiveNothing, SocketError, BeginSend,
         Tick, vars, sending
    <3> QED
      BY <2>1, <3>1, <3>2
  <2> QED
    BY <2>1, <2>2, <2>3, <2>4
<1>4. TypeInv'
  <2>1. error' \in Errors
    BY <1>1 DEF IInv, TypeInv, TypeOK, Errors
  <2>2. TypeOK'
    BY <1>1, <1>3, <2>1 DEF IInv, TypeInv, TypeOK
  <2> QED
    BY <1>1, <2>2 DEF IInv, TypeInv
<1>5. InOrder'
  <2> SUFFICES ASSUME sync' = "send", NEW k \in 1..Len(mq), k < at'
               PROVE  mq[k].state # "UNSENT"
    BY <1>1 DEF InOrder
  <2>1. CASE sync = "send" /\ at' = at
    BY <2>1 DEF IInv, InOrder
  <2>2. CASE SkipMessage
    <3>1. /\ sync = "send" /\ at' = at + 1 /\ mq[at].state # "UNSENT"
          /\ at \in Nat /\ k \in Nat
      BY <2>2 DEF SkipMessage, AtMessage, IInv, TypeInv, TypeOK
    <3>2. k < at \/ k = at
      BY <3>1
    <3> QED
      BY <3>1, <3>2 DEF IInv, InOrder
  <2>3. CASE BeginSend
    BY <2>3 DEF BeginSend
  <2>4. (sync = "send" /\ at' = at) \/ SkipMessage \/ BeginSend
    BY DEF StartRefresher, Wake, ReceiveNothing, SocketError,
       Tick, vars, AfterReceive, sending
  <2> QED
    BY <2>1, <2>2, <2>3, <2>4
<1> QED
  BY <1>2, <1>4, <1>5 DEF IInv

\* After all messages were looked at, a ping may be queued.
LEMMA EndSendStep ==
    ASSUME IInv, EndSend
    PROVE  IInv'
<1>1. /\ sync' = "sleep"
      /\ UNCHANGED <<timed_out, time_of_last_send, at, now, loading, wanted,
                     wire, inbox, broker_subs, reset>>
  BY DEF EndSend, sending, hub, broker
<1>2. InOrder'
  BY <1>1 DEF InOrder
<1>3. loading' \subseteq Loaded /\ wanted' \subseteq Topic
  BY <1>1 DEF IInv, TypeInv, TypeOK
<1>4. CASE UNCHANGED client
  <2>1. Distinct(mq') /\ Acked' /\ Worded'
    BY <1>1, <1>4, QuietStep DEF client
  <2>2. TypeInv'
    BY <1>1, <1>3, <1>4, CallTypeInv DEF client, IInv, TypeInv, TypeOK
  <2> QED
    BY <1>2, <2>1, <2>2 DEF IInv
<1>5. CASE Ping
  <2>1. PICK pid \in Leftover : TryPack(Message("PINGREQ", pid, None))
    BY <1>5 DEF Ping
  <2> DEFINE m == Message("PINGREQ", pid, None)
  <2>2. m \in Entry /\ m.state = "UNSENT" /\ m.type = "PINGREQ"
    <3>1. pid \in 0..MaxPid /\ 0 \in 0..MaxTime
      BY PidAssumption, TimeAssumption
    <3> QED
      BY <3>1 DEF Message, Entry, Type
  <2>3. TryPack(m)
    BY <2>1
  <2> HIDE DEF m
  <2>4. m.type \notin Ops /\ m.type \notin PidTypes /\ \A t \in Topic : ~Says(m, t)
    BY <2>2 DEF Ops, PidTypes, Says
  <2>5. /\ mq' \in Seq(Entry) /\ Len(mq') <= Capacity
        /\ error' \in Errors
        /\ \A k \in 1..Len(mq') : mq'[k].type \in Ops => mq'[k].topic \in Topic
        /\ Distinct(mq') /\ Acked' /\ Worded'
    BY <1>1, <2>2, <2>3, <2>4, QueueStep
  <2>6. pid_lfsr' \in 1..MaxPid
    BY <1>5 DEF Ping, IInv, TypeInv, TypeOK
  <2>7. TypeInv'
    BY <1>1, <1>3, <2>5, <2>6, CallTypeInv
  <2> QED
    BY <1>2, <2>5, <2>7 DEF IInv
<1> QED
  BY <1>4, <1>5 DEF EndSend

\* One message is marked as sent or as acknowledged.
LEMMA MarkType ==
    ASSUME TypeInv, NEW k \in 1..Len(mq), NEW e \in Entry,
           e.type = mq[k].type, e.pid = mq[k].pid, e.topic = mq[k].topic,
           mq' = [mq EXCEPT ![k] = e]
    PROVE  /\ mq' \in Seq(Entry) /\ Len(mq') = Len(mq)
           /\ mq'[k] = e
           /\ \A j \in 1..Len(mq) : j # k => mq'[j] = mq[j]
           /\ \A j \in 1..Len(mq) : /\ mq'[j].type = mq[j].type
                                    /\ mq'[j].pid = mq[j].pid
                                    /\ mq'[j].topic = mq[j].topic
           /\ \A j \in 1..Len(mq') : mq'[j].type \in Ops => mq'[j].topic \in Topic
           /\ \A j \in DOMAIN mq' : mq'[j] \in Entry
           /\ Distinct(mq) => Distinct(mq')
<1>1. mq \in Seq(Entry)
  BY DEF TypeInv
<1>2. /\ mq' \in Seq(Entry) /\ Len(mq') = Len(mq)
      /\ \A j \in 1..Len(mq) : mq'[j] = IF j = k THEN e ELSE mq[j]
  BY <1>1, ExceptSeq
<1>3. \A j \in 1..Len(mq) : /\ mq'[j].type = mq[j].type
                            /\ mq'[j].pid = mq[j].pid
                            /\ mq'[j].topic = mq[j].topic
  BY <1>2
<1>4. \A j \in 1..Len(mq') : mq'[j].type \in Ops => mq'[j].topic \in Topic
  BY <1>2, <1>3 DEF TypeInv
<1>5. Distinct(mq) => Distinct(mq')
  BY <1>2, <1>3, DistinctSame
<1>6. \A j \in DOMAIN mq' : mq'[j] \in Entry
  BY <1>2
<1> QED
  BY <1>2, <1>3, <1>4, <1>5, <1>6

\* The broker's acknowledgement finds its message.
LEMMA AckFinds ==
    ASSUME IInv, ~timed_out, inbox # <<>>
    PROVE  \E k \in 1..Len(mq) :
               Finds(Head(inbox), mq[k]) /\ Match(inbox[1], mq[k])
<1>1. /\ Head(inbox) = inbox[1] /\ inbox[1] \in Ack /\ 1 \in 1..Len(inbox)
  BY TailElements DEF IInv, TypeInv
<1>2. /\ Pending[1] = inbox[1] /\ 1 \in 1..Len(Pending)
  BY <1>1, ClientTypes DEF IInv
<1>3. PICK f : Claims(Pending, mq, f)
  BY DEF IInv, Acked, Owed
<1>4. inbox[1].type # "PUBLISH" /\ inbox[1].type \in Type
  BY <1>1 DEF Ack
<1>5. f[1] \in 1..Len(mq) /\ Match(inbox[1], mq[f[1]])
  BY <1>2, <1>3, <1>4 DEF Claims
<1>6. Finds(inbox[1], mq[f[1]])
  BY <1>4, <1>5 DEF Finds, Match, Complete, PidTypes, Ops, Type
<1> QED
  BY <1>1, <1>5, <1>6

LEMMA ReceiveStep ==
    ASSUME IInv, Receive
    PROVE  IInv'
<1> DEFINE ack == Head(inbox)
           found == {k \in DOMAIN mq : Finds(ack, mq[k])}
<1>1. /\ TypeInv /\ inbox # <<>> /\ inbox' = Tail(inbox)
      /\ UNCHANGED <<pid_lfsr, timed_out, time_of_last_send, at, now, loading,
                     wanted, wire, broker_subs, reset>>
  BY DEF Receive, IInv, sending, hub
<1>2. /\ inbox' \in Seq(Ack) /\ Dropped(inbox, 1, inbox')
      /\ ack = inbox[1] /\ ack \in Ack /\ Len(inbox) \in Nat \ {0}
      /\ DOMAIN mq = 1..Len(mq) /\ Len(mq) \in Nat
  BY <1>1, TailElements, ClientTypes DEF TypeInv
<1>3. /\ sync = "recv" /\ sync' \in {"sleep", "recv"}
      /\ error' \in {error, "ACK_OF_UNKNOWN", "REFUSED"}
  BY DEF Receive
<1>4. InOrder'
  BY <1>3 DEF InOrder
<1>5. ack.type # "PUBLISH" /\ ack.type \in Type
  BY <1>2 DEF Ack
<1>6. /\ Len(Pending) \in Nat \ {0} /\ Pending[1] = ack
      /\ Dropped(Pending, 1, Pending')
  <2>1. inbox' \in Seq(Ack) /\ wire \in Seq(Packet) /\ wire' = wire
    BY <1>1, <1>2 DEF TypeInv
  <2>2. Pending = inbox \o wire /\ Pending' = inbox' \o wire
    BY <1>1 DEF Pending
  <2>3. /\ Len(Pending) = Len(inbox) + Len(wire) /\ Len(wire) \in Nat
        /\ \A k \in 1..Len(inbox) : Pending[k] = inbox[k]
        /\ \A k \in 1..Len(wire) : Pending[Len(inbox) + k] = wire[k]
    BY <1>1, ClientTypes
  <2>4. /\ Len(Pending') = Len(inbox') + Len(wire)
        /\ \A p \in 1..Len(inbox') + Len(wire) :
               Pending'[p] = IF p <= Len(inbox') THEN inbox'[p]
                             ELSE wire[p - Len(inbox')]
    <3> DEFINE F == Ack \cup Packet
    <3>1. inbox' \in Seq(F) /\ wire \in Seq(F)
      BY <2>1
    <3> HIDE DEF F
    <3> QED
      BY <2>2, <3>1, ConcatProperties
  <2>5. /\ Len(inbox') = Len(inbox) - 1
        /\ \A p \in 1..Len(inbox) - 1 : inbox'[p] = inbox[p + 1]
    BY <1>2 DEF Dropped
  <2>6. ASSUME NEW p \in 1..Len(Pending) - 1
        PROVE  Pending'[p] = Pending[p + 1]
    <3>1. p \in 1..Len(inbox') + Len(wire)
      BY <1>2, <2>3, <2>5
    <3>2. CASE p <= Len(inbox')
      <4>1. p \in 1..Len(inbox) - 1 /\ p + 1 \in 1..Len(inbox)
        BY <1>2, <2>5, <3>2
      <4> QED
        BY <2>3, <2>4, <2>5, <3>1, <3>2, <4>1
    <3>3. CASE ~(p <= Len(inbox'))
      <4>1. /\ p - Len(inbox') \in 1..Len(wire)
            /\ Len(inbox) + (p - Len(inbox')) = p + 1
        BY <1>2, <2>3, <2>5, <3>1, <3>3
      <4> QED
        BY <2>3, <2>4, <3>1, <3>3, <4>1
    <3> QED
      BY <3>2, <3>3
  <2>7. Len(Pending') = Len(Pending) - 1
    BY <1>2, <2>3, <2>4, <2>5
  <2>8. Len(Pending) \in Nat \ {0} /\ Pending[1] = ack
    <3>1. 1 \in 1..Len(inbox)
      BY <1>2
    <3> QED
      BY <1>2, <2>3, <3>1
  <2> QED
    BY <2>6, <2>7, <2>8 DEF Dropped
<1>7. error' \in Errors
  BY <1>3 DEF IInv, TypeInv, TypeOK, Errors
<1>8. CASE found = {} /\ error' = "ACK_OF_UNKNOWN" /\ mq' = mq
  <2>1. timed_out
    <3>1. \A k \in 1..Len(mq) : ~Finds(ack, mq[k])
      BY <1>2, <1>8
    <3> QED
      BY <1>1, <3>1, AckFinds
  <2>2. Acked' /\ Worded'
    BY <1>1, <2>1 DEF Acked, Worded
  <2>3. TypeOK'
    BY <1>1, <1>3, <1>7, <1>8 DEF TypeInv, TypeOK
  <2>4. TypeInv'
    BY <1>1, <1>2, <1>8, <2>3 DEF TypeInv
  <2> QED
    BY <1>4, <1>8, <2>2, <2>4 DEF IInv
<1>9. ASSUME NEW k \in found, \A j \in found : k <= j,
             mq' = [mq EXCEPT ![k].state = "COMPLETE"],
             IF ack.refused THEN error' = "REFUSED" ELSE error' = error
      PROVE  IInv'
  <2> DEFINE e == [mq[k] EXCEPT !.state = "COMPLETE"]
  <2>1. k \in 1..Len(mq) /\ mq[k] \in Entry /\ Finds(ack, mq[k])
    BY <1>1, <1>2, ClientTypes
  <2>2. /\ e \in Entry /\ e.type = mq[k].type /\ e.pid = mq[k].pid
        /\ e.topic = mq[k].topic /\ e.state = "COMPLETE"
    BY <2>1 DEF Entry
  <2>3. mq' = [mq EXCEPT ![k] = e]
    BY <1>9
  <2> HIDE DEF e
  <2>4. /\ mq' \in Seq(Entry) /\ Len(mq') = Len(mq) /\ mq'[k] = e
        /\ \A j \in 1..Len(mq) : j # k => mq'[j] = mq[j]
        /\ \A j \in 1..Len(mq) : /\ mq'[j].type = mq[j].type
                                 /\ mq'[j].pid = mq[j].pid
                                 /\ mq'[j].topic = mq[j].topic
        /\ \A j \in 1..Len(mq') : mq'[j].type \in Ops => mq'[j].topic \in Topic
        /\ \A j \in DOMAIN mq' : mq'[j] \in Entry
        /\ Distinct(mq) => Distinct(mq')
    BY <1>1, <2>1, <2>2, <2>3, MarkType
  <2>5. TypeInv'
    <3>1. TypeOK'
      BY <1>1, <1>3, <1>7, <2>4 DEF TypeInv, TypeOK, Entry
    <3> QED
      BY <1>1, <1>2, <2>4, <3>1 DEF TypeInv
  <2>6. mq[k].type = ack.type /\ (ack.type \in PidTypes => mq[k].pid = ack.pid)
    BY <2>1 DEF Finds, PidTypes, Ops
  <2>7. Acked'
    <3> SUFFICES ASSUME ~timed_out
                 PROVE  Owed(Pending', mq') /\ error' # "ACK_OF_UNKNOWN"
      BY <1>1 DEF Acked
    <3>1. Owed(Pending, mq) /\ error # "ACK_OF_UNKNOWN"
      BY DEF IInv, Acked
    <3>2. error' # "ACK_OF_UNKNOWN"
      BY <1>9, <3>1
    <3>3. Owed(Pending', mq')
      BY <1>2, <1>5, <1>6, <2>1, <2>4, <2>6, <3>1, OwedTake
    <3> QED
      BY <3>2, <3>3
  <2>8. Worded'
    <3> SUFFICES ASSUME error' = "OK", ~timed_out, ~reset, NEW t \in Topic
                 PROVE  Word(mq', wire, broker_subs, wanted, Refusal', t)
      BY <1>1 DEF Worded
    <3>1. ~ack.refused /\ error = "OK"
      BY <1>9
    <3>2. Refusal => Refusal'
      <4> SUFFICES ASSUME NEW j \in 1..Len(inbox),
                          inbox[j].type = "SUBSCRIBE", inbox[j].refused
                   PROVE  Refusal'
        BY DEF Refusal
      <4>1. j # 1
        BY <1>2, <3>1
      <4>2. j - 1 \in 1..Len(inbox) - 1 /\ (j - 1) + 1 = j
        BY <1>2, <4>1
      <4>3. j - 1 \in 1..Len(inbox') /\ inbox'[j - 1] = inbox[j]
        BY <1>2, <4>2 DEF Dropped
      <4> QED
        BY <4>3 DEF Refusal
    <3>3. Word(mq, wire, broker_subs, wanted, Refusal, t)
      BY <3>1 DEF IInv, Worded
    <3>4. ~Unsent(mq[k], t)
      <4> SUFFICES ASSUME mq[k].type \in Ops, mq[k].state = "UNSENT"
                   PROVE  FALSE
        BY DEF Unsent, Says
      <4>1. PICK j \in 1..Len(mq) : Match(inbox[1], mq[j])
        BY <1>1, AckFinds
      <4>2. /\ mq[j].type = mq[k].type /\ mq[j].pid = mq[k].pid
            /\ mq[j].state = "AWAITING_ACK" /\ mq[k].type \in PidTypes
        BY <1>2, <2>6, <4>1 DEF Match, PidTypes
      <4>3. j = k
        BY <2>1, <4>2 DEF IInv, Distinct
      <4> QED
        BY <4>2, <4>3
    <3>5. \A j \in 1..Len(mq) : /\ Unsent(mq'[j], t) <=> Unsent(mq[j], t)
                                /\ mq'[j].type = mq[j].type
      BY <2>2, <2>4, <3>4 DEF Unsent, Says
    <3>6. Word(mq', wire, broker_subs, wanted, Refusal, t)
      BY <2>4, <3>3, <3>5, WordSame
    <3> QED
      BY <3>2, <3>6 DEF Word, WireWord
  <2> QED
    BY <1>4, <2>4, <2>5, <2>7, <2>8 DEF IInv
<1> QED
  <2>1. \/ found = {} /\ error' = "ACK_OF_UNKNOWN" /\ mq' = mq
        \/ \E k \in found :
               /\ \A j \in found : k <= j
               /\ mq' = [mq EXCEPT ![k].state = "COMPLETE"]
               /\ IF ack.refused THEN error' = "REFUSED" ELSE error' = error
    BY DEF Receive
  <2> QED
    BY <1>8, <1>9, <2>1

LEMMA SendStep ==
    ASSUME IInv, SendMessage
    PROVE  IInv'
<1> DEFINE m == mq[at]
           x == [type |-> m.type, pid |-> m.pid, topic |-> m.topic]
           e == [[m EXCEPT !.state = SentState(m.type)] EXCEPT !.time_sent = now]
<1>1. /\ sync = "send" /\ at <= Len(mq) /\ ~reset
      /\ (m.state = "UNSENT" \/ Late(m))
      /\ Len(wire) < WireCap /\ wire' = Append(wire, x)
      /\ mq' = [mq EXCEPT ![at].state = SentState(m.type),
                         ![at].time_sent = now]
      /\ timed_out' = (timed_out \/ Late(m))
      /\ time_of_last_send' = now /\ at' = at + 1
      /\ UNCHANGED <<pid_lfsr, error, sync, now, loading, wanted, inbox,
                     broker_subs, reset>>
  BY DEF SendMessage, AtMessage, hub
<1>2. /\ TypeInv /\ mq \in Seq(Entry) /\ Len(mq) \in Nat /\ DOMAIN mq = 1..Len(mq)
      /\ wire \in Seq(Packet) /\ Len(wire) \in Nat /\ Len(inbox) \in Nat
      /\ Len(Pending) \in Nat
      /\ at \in 1..Len(mq) /\ m \in Entry /\ now \in 0..MaxTime
  <2>1. at \in 1..(Capacity + 1) /\ Capacity \in Nat /\ now \in 0..MaxTime
    BY CapacityAssumption DEF IInv, TypeInv, TypeOK
  <2>2. at \in 1..Len(mq)
    BY <1>1, <2>1, ClientTypes DEF IInv
  <2> QED
    BY <2>1, <2>2, ClientTypes DEF IInv
<1>3. /\ e \in Entry /\ e.type = m.type /\ e.pid = m.pid /\ e.topic = m.topic
      /\ e.state = SentState(m.type) /\ e.state # "UNSENT"
  <2>1. SentState(m.type) \in {"AWAITING_ACK", "COMPLETE"}
    BY DEF SentState
  <2> QED
    BY <1>2, <2>1 DEF Entry
<1>4. mq' = [mq EXCEPT ![at] = e]
  BY <1>1, <1>2
<1>5. x \in Packet /\ x.type = m.type /\ x.pid = m.pid /\ x.topic = m.topic
  BY <1>2 DEF Packet, Entry
<1> HIDE DEF e, x
<1>6. /\ mq' \in Seq(Entry) /\ Len(mq') = Len(mq) /\ mq'[at] = e
      /\ \A j \in 1..Len(mq) : j # at => mq'[j] = mq[j]
      /\ \A j \in 1..Len(mq') : mq'[j].type \in Ops => mq'[j].topic \in Topic
      /\ \A j \in DOMAIN mq' : mq'[j] \in Entry
      /\ Distinct(mq) => Distinct(mq')
  BY <1>2, <1>3, <1>4, MarkType
<1>7. /\ wire' \in Seq(Packet) /\ Len(wire') = Len(wire) + 1
      /\ \A k \in 1..Len(wire) : wire'[k] = wire[k]
      /\ wire'[Len(wire) + 1] = x
  BY <1>1, <1>2, <1>5, AppendProperties
<1>8. /\ Len(Pending') = Len(Pending) + 1
      /\ \A p \in 1..Len(Pending) : Pending'[p] = Pending[p]
      /\ Pending'[Len(Pending) + 1] = x
  <2> DEFINE F == Ack \cup Packet
  <2>1. inbox \in Seq(F) /\ wire \in Seq(F) /\ x \in F
    BY <1>2, <1>5 DEF TypeInv
  <2>2. Pending = inbox \o wire /\ Pending' = inbox \o Append(wire, x)
    BY <1>1 DEF Pending
  <2> HIDE DEF F
  <2>3. Pending' = Append(Pending, x) /\ Pending \in Seq(F)
    <3>1. inbox \o Append(wire, x) = Append(inbox \o wire, x)
      BY <2>1
    <3>2. inbox \o wire \in Seq(F)
      BY <2>1, ConcatProperties
    <3> QED
      BY <2>2, <3>1, <3>2
  <2> QED
    BY <2>1, <2>3, AppendProperties
<1>9. TypeInv'
  <2>1. TypeOK'
    <3>1. /\ at' \in 1..(Capacity + 1) /\ Len(mq') <= Capacity
          /\ Len(wire') <= WireCap
      BY <1>1, <1>2, <1>6, <1>7, CapacityAssumption
         DEF IInv, TypeInv, TypeOK
    <3>2. timed_out' \in BOOLEAN
      BY <1>1 DEF IInv, TypeInv, TypeOK, Late
    <3> QED
      BY <1>1, <1>2, <1>6, <3>1, <3>2 DEF IInv, TypeInv, TypeOK, Entry
  <2>2. \A k \in 1..Len(wire') : wire'[k].type \in Ops => wire'[k].topic \in Topic
    <3>1. m.type \in Ops => m.topic \in Topic
      BY <1>2 DEF TypeInv
    <3>2. \A k \in 1..Len(wire) : wire[k].type \in Ops => wire[k].topic \in Topic
      BY <1>2 DEF TypeInv
    <3>3. \A k \in 1..Len(wire') : k \in 1..Len(wire) \/ k = Len(wire) + 1
      BY <1>2, <1>7
    <3> QED
      BY <1>5, <1>7, <3>1, <3>2, <3>3
  <2> QED
    BY <1>1, <1>2, <1>6, <1>7, <2>1, <2>2 DEF TypeInv
<1>10. InOrder'
  <2>1. \A k \in 1..Len(mq) : k < at + 1 => k = at \/ k < at
    BY <1>2
  <2> QED
    BY <1>1, <1>3, <1>6, <2>1 DEF IInv, InOrder
<1>11. ~timed_out' => ~timed_out /\ m.state = "UNSENT"
  BY <1>1
<1>12. Acked'
  <2> SUFFICES ASSUME ~timed_out'
               PROVE  Owed(Pending', mq') /\ error' # "ACK_OF_UNKNOWN"
    BY DEF Acked
  <2>1. Owed(Pending, mq) /\ error # "ACK_OF_UNKNOWN"
    BY <1>11 DEF IInv, Acked
  <2>2. x.type # "PUBLISH" => Match(x, e)
    BY <1>3, <1>5 DEF Match, SentState
  <2>3. Pending'[Len(Pending) + 1].type # "PUBLISH" =>
            Match(Pending'[Len(Pending) + 1], mq'[at])
    BY <1>6, <1>8, <2>2
  <2>4. Owed(Pending', mq')
    <3> HIDE DEF m
    <3>1. mq[at].state = "UNSENT"
      BY <1>11 DEF m
    <3> QED
      BY <1>2, <1>6, <1>8, <2>1, <2>3, <3>1, OwedSend
  <2> QED
    BY <1>1, <2>1, <2>4
<1>13. Worded'
  <2> SUFFICES ASSUME error' = "OK", ~timed_out', NEW t \in Topic
               PROVE  Word(mq', wire', broker_subs', wanted', Refusal', t)
    BY DEF Worded
  <2>1. Word(mq, wire, broker_subs, wanted, Refusal, t)
    BY <1>1, <1>11 DEF IInv, Worded
  <2>2. Refusal' <=> Refusal
    BY <1>1 DEF Refusal
  <2>3. \A k \in 1..Len(mq) : k < at => mq[k].state # "UNSENT"
    BY <1>1 DEF IInv, InOrder
  <2>4. Word(mq', wire', broker_subs, wanted, Refusal, t)
    <3>1. /\ wire'[Len(wire) + 1].type = mq[at].type
          /\ wire'[Len(wire) + 1].topic = mq[at].topic
          /\ mq[at].state = "UNSENT" /\ mq'[at].state # "UNSENT"
      BY <1>3, <1>5, <1>6, <1>7, <1>11
    <3> HIDE DEF m
    <3> QED
      BY <1>2, <1>6, <1>7, <2>1, <2>3, <3>1, WordSend
  <2> QED
    BY <1>1, <2>2, <2>4 DEF Word, WireWord
<1> QED
  BY <1>6, <1>9, <1>10, <1>12, <1>13 DEF IInv

----------------------------------------------------------------------------
(* The broker.                                                              *)

\* It takes the first message from the wire, answers unless that is a PUBLISH, and
\* does what the message says of a topic or refuses it.
LEMMA TakeStep ==
    ASSUME IInv, wire # <<>>, wire' = Tail(wire), NEW refused \in BOOLEAN,
           UNCHANGED <<mq, pid_lfsr, error, timed_out, time_of_last_send, sync,
                       at, now, loading, wanted, reset>>,
           inbox' = IF wire[1].type = "PUBLISH" THEN inbox
                    ELSE Append(inbox, [type |-> wire[1].type,
                                        pid |-> wire[1].pid,
                                        refused |-> refused]),
           broker_subs' \subseteq Topic,
           \A t \in Topic :
               IF Says(wire[1], t)
               THEN \/ wire[1].type = "SUBSCRIBE" /\ refused
                    \/ wire[1].type = "SUBSCRIBE" <=> t \in broker_subs'
               ELSE t \in broker_subs' <=> t \in broker_subs
    PROVE  IInv'
<1> DEFINE m == wire[1]
           a == [type |-> m.type, pid |-> m.pid, refused |-> refused]
<1>1. /\ TypeInv /\ wire \in Seq(Packet) /\ Len(wire) \in Nat \ {0}
      /\ wire' \in Seq(Packet) /\ Dropped(wire, 1, wire')
      /\ m \in Packet /\ inbox \in Seq(Ack) /\ Len(inbox) \in Nat
      /\ Len(Pending) \in Nat /\ Len(wire) <= WireCap /\ WireCap \in Nat
  <2>1. wire \in Seq(Packet) /\ TypeInv
    BY DEF IInv, TypeInv
  <2>2. /\ wire' \in Seq(Packet) /\ Dropped(wire, 1, wire')
        /\ Len(wire) \in Nat \ {0}
    BY <2>1, TailElements
  <2>3. m \in Packet
    BY <2>1, <2>2
  <2>4. Len(wire) <= WireCap /\ WireCap \in Nat
    BY <2>1, CapacityAssumption DEF TypeInv, TypeOK
  <2> QED
    BY <2>1, <2>2, <2>3, <2>4, ClientTypes
<1>2. m.type # "PUBLISH" => a \in Ack
  BY <1>1 DEF Packet, Ack
<1>3. a.type = m.type /\ a.pid = m.pid /\ a.refused = refused
  OBVIOUS
<1>4. inbox' = IF m.type = "PUBLISH" THEN inbox ELSE Append(inbox, a)
  OBVIOUS
<1> HIDE DEF a
<1>5. /\ inbox' \in Seq(Ack) /\ Len(inbox') \in Nat
      /\ Len(inbox') = IF m.type = "PUBLISH" THEN Len(inbox) ELSE Len(inbox) + 1
      /\ \A k \in 1..Len(inbox) : inbox'[k] = inbox[k]
      /\ m.type # "PUBLISH" => inbox'[Len(inbox) + 1] = a
  <2>1. CASE m.type = "PUBLISH"
    BY <1>1, <1>4, <2>1
  <2>2. CASE m.type # "PUBLISH"
    <3>1. inbox' = Append(inbox, a) /\ a \in Ack
      BY <1>2, <1>4, <2>2
    <3>2. /\ inbox' \in Seq(Ack) /\ Len(inbox') = Len(inbox) + 1
          /\ \A k \in 1..Len(inbox) : inbox'[k] = inbox[k]
          /\ inbox'[Len(inbox) + 1] = a
      BY <1>1, <3>1, AppendProperties
    <3> QED
      BY <1>1, <2>2, <3>2
  <2> QED
    BY <2>1, <2>2
<1>6. /\ Len(wire') = Len(wire) - 1
      /\ \A k \in 1..Len(wire) - 1 : wire'[k] = wire[k + 1]
  BY <1>1 DEF Dropped
<1>7. TypeInv'
  <2>1. /\ Len(wire') <= WireCap
        /\ \A k \in 1..Len(wire') : k \in 1..Len(wire) - 1 /\ k + 1 \in 1..Len(wire)
    BY <1>1, <1>6
  <2>2. \A k \in 1..Len(wire') : wire'[k].type \in Ops => wire'[k].topic \in Topic
    BY <1>1, <1>6, <2>1 DEF TypeInv
  <2>3. TypeOK'
    BY <1>1, <2>1 DEF TypeInv, TypeOK
  <2> QED
    BY <1>1, <1>5, <2>2, <2>3 DEF TypeInv
<1>8. Distinct(mq') /\ InOrder'
  BY DEF IInv, InOrder
<1>9. ASSUME NEW p \in 1..Len(Pending'),
             Pending'[p].type # "PUBLISH"
      PROVE  LET s == IF m.type = "PUBLISH" /\ p > Len(inbox) THEN p + 1 ELSE p
             IN /\ s \in 1..Len(Pending)
                /\ Pending'[p].type = Pending[s].type
                /\ Pending'[p].pid = Pending[s].pid
  <2>1. /\ Len(Pending) = Len(inbox) + Len(wire)
        /\ \A k \in 1..Len(inbox) : Pending[k] = inbox[k]
        /\ \A k \in 1..Len(wire) : Pending[Len(inbox) + k] = wire[k]
    BY <1>1, ClientTypes
  <2>2. /\ Len(Pending') = Len(inbox') + Len(wire')
        /\ \A k \in 1..Len(inbox') : Pending'[k] = inbox'[k]
        /\ \A k \in 1..Len(wire') : Pending'[Len(inbox') + k] = wire'[k]
    BY <1>7, TypesAfter
  <2>3. CASE p \in 1..Len(inbox)
    <3>1. p \in 1..Len(inbox') /\ p \in 1..Len(Pending) /\ ~(p > Len(inbox))
      BY <1>1, <1>5, <2>1, <2>3
    <3> QED
      BY <1>5, <2>1, <2>2, <2>3, <3>1
  <2>4. CASE m.type # "PUBLISH" /\ p = Len(inbox) + 1
    <3>1. /\ p \in 1..Len(inbox') /\ p \in 1..Len(Pending)
          /\ 1 \in 1..Len(wire)
      BY <1>1, <1>5, <2>1, <2>4
    <3>2. Pending[p] = m
      BY <2>1, <2>4, <3>1
    <3> QED
      BY <1>3, <1>5, <2>2, <2>4, <3>1, <3>2
  <2>5. CASE m.type # "PUBLISH" /\ p > Len(inbox) + 1
    <3>1. /\ p - Len(inbox') \in 1..Len(wire')
          /\ p - Len(inbox') \in 1..Len(wire) - 1
          /\ Len(inbox') + (p - Len(inbox')) = p
          /\ (p - Len(inbox')) + 1 \in 1..Len(wire)
          /\ Len(inbox) + ((p - Len(inbox')) + 1) = p
          /\ p \in 1..Len(Pending)
      BY <1>1, <1>5, <1>6, <2>1, <2>2, <2>5
    <3>2. Pending'[p] = wire'[p - Len(inbox')]
      BY <2>2, <3>1
    <3>3. Pending[p] = wire[(p - Len(inbox')) + 1]
      BY <2>1, <3>1
    <3>4. wire'[p - Len(inbox')] = wire[(p - Len(inbox')) + 1]
      BY <1>6, <3>1
    <3> QED
      BY <2>5, <3>1, <3>2, <3>3, <3>4
  <2>6. CASE m.type = "PUBLISH" /\ p > Len(inbox)
    <3>1. /\ p - Len(inbox) \in 1..Len(wire')
          /\ p - Len(inbox) \in 1..Len(wire) - 1
          /\ Len(inbox') + (p - Len(inbox)) = p
          /\ (p - Len(inbox)) + 1 \in 1..Len(wire)
          /\ Len(inbox) + ((p - Len(inbox)) + 1) = p + 1
          /\ p + 1 \in 1..Len(Pending)
      BY <1>1, <1>5, <1>6, <2>1, <2>2, <2>6
    <3>2. Pending'[p] = wire'[p - Len(inbox)]
      BY <2>2, <3>1
    <3>3. Pending[p + 1] = wire[(p - Len(inbox)) + 1]
      BY <2>1, <3>1
    <3>4. wire'[p - Len(inbox)] = wire[(p - Len(inbox)) + 1]
      BY <1>6, <3>1
    <3> QED
      BY <2>6, <3>1, <3>2, <3>3, <3>4
  <2>7. /\ p \in Nat
        /\ \/ p \in 1..Len(inbox)
           \/ m.type # "PUBLISH" /\ (p = Len(inbox) + 1 \/ p > Len(inbox) + 1)
           \/ m.type = "PUBLISH" /\ p > Len(inbox)
    BY <1>1
  <2> QED
    BY <2>3, <2>4, <2>5, <2>6, <2>7
<1>10. Acked'
  <2> SUFFICES ASSUME ~timed_out
               PROVE  Owed(Pending', mq) /\ error # "ACK_OF_UNKNOWN"
    BY DEF Acked
  <2>1. Owed(Pending, mq) /\ error # "ACK_OF_UNKNOWN"
    BY DEF IInv, Acked
  <2> DEFINE h == [p \in Nat |-> IF m.type = "PUBLISH" /\ p > Len(inbox)
                                 THEN p + 1 ELSE p]
  <2>2. h \in [Nat -> Nat]
    OBVIOUS
  <2>3. Len(Pending') \in Nat
    BY <1>7, TypesAfter
  <2>4. \A p \in 1..Len(Pending') : Pending'[p].type # "PUBLISH" =>
            /\ h[p] \in 1..Len(Pending)
            /\ Pending'[p].type = Pending[h[p]].type
            /\ Pending'[p].pid = Pending[h[p]].pid
    <3> SUFFICES ASSUME NEW p \in 1..Len(Pending'), Pending'[p].type # "PUBLISH"
                 PROVE  /\ h[p] \in 1..Len(Pending)
                        /\ Pending'[p].type = Pending[h[p]].type
                        /\ Pending'[p].pid = Pending[h[p]].pid
      OBVIOUS
    <3>1. h[p] = IF m.type = "PUBLISH" /\ p > Len(inbox) THEN p + 1 ELSE p
      OBVIOUS
    <3> HIDE DEF h
    <3> QED
      BY <1>9, <3>1
  <2>5. \A p, s \in 1..Len(Pending') : h[p] = h[s] => p = s
    BY <1>1
  <2> HIDE DEF h
  <2>6. Owed(Pending', mq)
    BY <2>1, <2>2, <2>3, <2>4, <2>5, OwedRearranged
  <2> QED
    BY <2>1, <2>6
<1>11. Refusal => Refusal'
  <2>1. \A k \in 1..Len(inbox) : k \in 1..Len(inbox') /\ inbox'[k] = inbox[k]
    BY <1>1, <1>5
  <2> QED
    BY <2>1 DEF Refusal
<1>12. m.type = "SUBSCRIBE" /\ refused => Refusal'
  <2> SUFFICES ASSUME m.type = "SUBSCRIBE", refused
               PROVE  Refusal'
    OBVIOUS
  <2>1. Len(inbox) + 1 \in 1..Len(inbox') /\ inbox'[Len(inbox) + 1] = a
    BY <1>1, <1>5
  <2> QED
    BY <1>3, <2>1 DEF Refusal
<1>13. Worded'
  <2> SUFFICES ASSUME error = "OK", ~timed_out, ~reset, NEW t \in Topic
               PROVE  Word(mq, wire', broker_subs', wanted, Refusal', t)
    BY DEF Worded
  <2>1. Word(mq, wire, broker_subs, wanted, Refusal, t)
    BY DEF IInv, Worded
  <2>2. IF Says(wire[1], t)
        THEN Refusal' \/ (wire[1].type = "SUBSCRIBE" <=> t \in broker_subs')
        ELSE t \in broker_subs' <=> t \in broker_subs
    BY <1>12
  <2> HIDE DEF m
  <2> QED
    BY <1>1, <1>11, <2>1, <2>2, WordRead
<1> QED
  BY <1>7, <1>8, <1>10, <1>13 DEF IInv

LEMMA BrokerStep ==
    ASSUME IInv, BrokerReads \/ BrokerRefuses
    PROVE  IInv'
<1>1. /\ wire # <<>> /\ wire' = Tail(wire) /\ Head(wire) = wire[1]
      /\ UNCHANGED <<mq, pid_lfsr, error, timed_out, time_of_last_send, sync,
                     at, now, loading, wanted, reset>>
  BY TailElements DEF BrokerReads, BrokerRefuses, IInv, TypeInv, client, sending,
     hub
<1> DEFINE m == wire[1]
<1>2. /\ broker_subs \subseteq Topic
      /\ m.type \in Ops => m.topic \in Topic
  <2>1. 1 \in 1..Len(wire) /\ broker_subs \subseteq Topic
    BY <1>1, TailElements DEF IInv, TypeInv, TypeOK
  <2> QED
    BY <2>1 DEF IInv, TypeInv
<1>3. CASE BrokerReads
  <2>1. /\ broker_subs' = CASE m.type = "SUBSCRIBE" -> broker_subs \cup {m.topic}
                            [] m.type = "UNSUBSCRIBE" -> broker_subs \ {m.topic}
                            [] OTHER -> broker_subs
        /\ inbox' = IF m.type = "PUBLISH" THEN inbox
                    ELSE Append(inbox, [type |-> m.type, pid |-> m.pid,
                                        refused |-> FALSE])
    BY <1>1, <1>3 DEF BrokerReads
  <2> HIDE DEF m
  <2>2. broker_subs' \subseteq Topic
    BY <1>2, <2>1 DEF Ops
  <2>3. \A t \in Topic : IF Says(m, t)
                         THEN m.type = "SUBSCRIBE" <=> t \in broker_subs'
                         ELSE t \in broker_subs' <=> t \in broker_subs
    BY <2>1 DEF Says, Ops
  <2> USE DEF m
  <2> QED
    BY <1>1, <2>1, <2>2, <2>3, TakeStep
<1>4. CASE BrokerRefuses
  <2>1. /\ broker_subs' = broker_subs
        /\ m.type \in {"CONNECT", "SUBSCRIBE"}
        /\ inbox' = Append(inbox, [type |-> m.type, pid |-> m.pid,
                                   refused |-> TRUE])
    BY <1>1, <1>4 DEF BrokerRefuses
  <2>2. m.type # "PUBLISH"
    BY <2>1
  <2>3. \A t \in Topic : IF Says(m, t) THEN m.type = "SUBSCRIBE"
                         ELSE t \in broker_subs' <=> t \in broker_subs
    BY <2>1 DEF Says, Ops
  <2> QED
    BY <1>1, <1>2, <2>1, <2>2, <2>3, TakeStep
<1> QED
  BY <1>3, <1>4

\* The connection breaks; from then on the client is in error.
LEMMA ResetStep ==
    ASSUME IInv, Reset
    PROVE  IInv'
<1>1. /\ reset' = TRUE /\ wire' = <<>> /\ inbox' = <<>> /\ broker_subs' = {}
      /\ UNCHANGED <<mq, pid_lfsr, error, timed_out, time_of_last_send, sync,
                     at, now, loading, wanted>>
  BY DEF Reset, client, sending, hub
<1>2. /\ wire' \in Seq(Packet) /\ inbox' \in Seq(Ack)
      /\ Len(wire') = 0 /\ Len(inbox') = 0
  BY <1>1, EmptySeq
<1>3. TypeInv'
  <2>1. Len(wire') <= WireCap
    BY <1>2, CapacityAssumption
  <2>2. TypeOK'
    BY <1>1, <2>1 DEF IInv, TypeInv, TypeOK
  <2> QED
    BY <1>1, <1>2, <2>2 DEF IInv, TypeInv
<1>4. Acked'
  <2> DEFINE f == [p \in Nat |-> 0]
  <2>1. Len(Pending') = 0
    BY <1>2, <1>3, TypesAfter
  <2>2. Claims(Pending', mq', f)
    BY <2>1 DEF Claims
  <2>3. ~timed_out' => error' # "ACK_OF_UNKNOWN"
    BY <1>1 DEF IInv, Acked
  <2> QED
    BY <2>2, <2>3 DEF Acked, Owed
<1>5. Worded' /\ InOrder' /\ Distinct(mq')
  BY <1>1 DEF Worded, IInv, InOrder
<1> QED
  BY <1>3, <1>4, <1>5 DEF IInv

----------------------------------------------------------------------------
(* The theorems.                                                            *)

LEMMA NextInv == IInv /\ [Next]_vars => IInv'
<1> SUFFICES ASSUME IInv, [Next]_vars
             PROVE  IInv'
  OBVIOUS
<1>1. CASE Startup \/ Request
  BY <1>1, RequestStep, IdleStep DEF Startup
<1>2. CASE Refresher
  BY <1>2, IdleStep, ReceiveStep, SendStep, EndSendStep DEF Refresher
<1>3. CASE Broker
  BY <1>3, BrokerStep, ResetStep DEF Broker
<1>4. CASE Tick \/ UNCHANGED vars
  BY <1>4, IdleStep
<1> QED
  BY <1>1, <1>2, <1>3, <1>4 DEF Next

\* What the hub queued, sent and asked for last, and what the broker has still to
\* answer, fit together in every state of mqtt_sync (mqtt.c:413-737).
THEOREM Invariance == Spec => []IInv
<1>1. Init => IInv
  BY InitInv
<1>2. IInv /\ [Next]_vars => IInv'
  BY NextInv
<1> QED
  BY <1>1, <1>2, PTL DEF Spec

\* The queue never outgrows the send buffer (TypeOK), however many messages the
\* hub's threads queue while the broker is slow.
THEOREM TypeCorrect == Spec => []TypeOK
<1>1. IInv => TypeOK
  BY DEF IInv, TypeInv
<1> QED
  BY <1>1, Invariance, PTL

\* No acknowledgement is unknown to mqtt_mq_find as long as nothing was sent twice
\* (NoUnknownAck): what mqtt_mq_clean drops is owed no answer.
THEOREM AcksAreKnown == Spec => []NoUnknownAck
<1>1. IInv => NoUnknownAck
  BY DEF IInv, Acked, NoUnknownAck
<1> QED
  BY <1>1, Invariance, PTL

LEMMA SettledMatches == IInv => BrokerMatches
<1> SUFFICES ASSUME IInv, Settled, error = "OK", ~timed_out, ~reset
             PROVE  broker_subs = wanted
  BY DEF BrokerMatches
<1>1. /\ DOMAIN mq = 1..Len(mq) /\ Len(wire) \in Nat /\ Len(inbox) \in Nat
      /\ Len(Pending) = Len(inbox) + Len(wire)
      /\ \A k \in 1..Len(inbox) : Pending[k] = inbox[k]
      /\ \A k \in 1..Len(wire) : Pending[Len(inbox) + k] = wire[k]
  BY ClientTypes DEF IInv
<1>2. \A k \in 1..Len(mq) : mq[k].type \in Ops => mq[k].state = "COMPLETE"
  BY <1>1 DEF Settled, Ops, Complete
<1>3. \A p \in 1..Len(Pending) : Pending[p].type \notin Ops
  <2> SUFFICES ASSUME NEW p \in 1..Len(Pending), Pending[p].type \in Ops
               PROVE  FALSE
    OBVIOUS
  <2>1. PICK f : Claims(Pending, mq, f)
    BY DEF IInv, Acked, Owed
  <2>2. f[p] \in 1..Len(mq) /\ Match(Pending[p], mq[f[p]])
    BY <2>1 DEF Claims, Ops
  <2> QED
    BY <1>2, <2>2 DEF Match
<1>4. \A k \in 1..Len(wire) : wire[k].type \notin Ops
  <2>1. \A k \in 1..Len(wire) : Len(inbox) + k \in 1..Len(Pending)
    BY <1>1
  <2> QED
    BY <1>1, <1>3, <2>1
<1>5. ~Refusal
  <2>1. \A k \in 1..Len(inbox) : k \in 1..Len(Pending)
    BY <1>1
  <2> QED
    BY <1>1, <1>3, <2>1 DEF Refusal, Ops
<1>6. ASSUME NEW t \in Topic
      PROVE  t \in broker_subs <=> t \in wanted
  <2>1. Word(mq, wire, broker_subs, wanted, Refusal, t)
    BY DEF IInv, Worded
  <2>2. \A k \in 1..Len(mq) : ~Unsent(mq[k], t)
    BY <1>2 DEF Unsent, Says
  <2>3. \A k \in 1..Len(wire) : ~Says(wire[k], t)
    BY <1>4 DEF Says
  <2> QED
    BY <1>5, <2>1, <2>2, <2>3 DEF Word, WireWord
<1>7. broker_subs \subseteq Topic /\ wanted \subseteq Topic
  BY DEF IInv, TypeInv, TypeOK
<1> QED
  BY <1>6, <1>7

\* When the client takes all it asked for as done, the broker has the subscriptions
\* the hub wants (BrokerMatches), for any devices and any size of the queue.
THEOREM BrokerHasWanted == Spec => []BrokerMatches
<1>1. IInv => BrokerMatches
  BY SettledMatches
<1> QED
  BY <1>1, Invariance, PTL
=============================================================================
