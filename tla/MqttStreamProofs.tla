-------------------------- MODULE MqttStreamProofs --------------------------
(* What holds of the stream of bytes for every set of messages, whatever     *)
(* their sizes, every size of the receive buffer and of the wire, and        *)
(* however the network cuts, delays and ends the connection.                 *)
EXTENDS MqttStream, SequenceTheorems, TLAPS

Byte == Nat \X Nat

----------------------------------------------------------------------------
(* A stream of bytes in which messages lie one after the other.  Each byte    *)
(* knows where the others of its message are, and where the next begins.     *)

\* Place q of stream u holds byte k of message i, which has z bytes.
InBlock(u, q, i, k, z) ==
    /\ k \in 1..z /\ k <= q
    /\ \A d \in 1..z : q + d - k <= Len(u) => u[q + d - k] = <<i, d>>
    /\ q + z - k + 1 <= Len(u) => u[q + z - k + 1] = <<i + 1, 1>>

Blocks(u, s) ==
    \A q \in 1..Len(u) :
        /\ u[q][1] \in 1..Len(s)
        /\ InBlock(u, q, u[q][1], u[q][2], Size[s[u[q][1]]])

\* No message is shorter than its header.
LEMMA SizeType == \A m \in Message : Size[m] \in Nat /\ Size[m] >= 2
<1> SUFFICES ASSUME NEW m \in Message PROVE Size[m] \in Nat /\ Size[m] >= 2
  OBVIOUS
<1>1. Size[m] \in Nat \ {0, 1}
  BY SizeAssumption
<1>2. \A n \in Nat \ {0, 1} : n \in Nat /\ n >= 2
  OBVIOUS
<1> QED
  BY <1>1, <1>2

\* The types of what a stream is made of.
LEMMA BlockTypes ==
    ASSUME NEW u \in Seq(Byte), NEW s \in Seq(Message), NEW q \in 1..Len(u),
           Blocks(u, s)
    PROVE  /\ Len(u) \in Nat /\ q \in Nat /\ Len(s) \in Nat
           /\ u[q] \in Byte /\ u[q] = <<u[q][1], u[q][2]>>
           /\ u[q][1] \in 1..Len(s) /\ u[q][1] \in Nat /\ u[q][2] \in Nat
           /\ Size[s[u[q][1]]] \in Nat /\ Size[s[u[q][1]]] >= 2
           /\ InBlock(u, q, u[q][1], u[q][2], Size[s[u[q][1]]])
<1>1. /\ Len(u) \in Nat /\ q \in Nat /\ Len(s) \in Nat /\ u[q] \in Byte
  OBVIOUS
<1>2. u[q] = <<u[q][1], u[q][2]>> /\ u[q][1] \in Nat /\ u[q][2] \in Nat
  BY <1>1 DEF Byte
<1>3. /\ u[q][1] \in 1..Len(s)
      /\ InBlock(u, q, u[q][1], u[q][2], Size[s[u[q][1]]])
  BY DEF Blocks
<1>4. s[u[q][1]] \in Message
  BY <1>3
<1> QED
  BY <1>1, <1>2, <1>3, <1>4, SizeType

\* A stream that is cut short is still one.
LEMMA BlocksPrefix ==
    ASSUME NEW u \in Seq(Byte), NEW v \in Seq(Byte), NEW s \in Seq(Message),
           Blocks(u, s), Len(v) <= Len(u),
           \A q \in 1..Len(v) : v[q] = u[q]
    PROVE  Blocks(v, s)
<1>1. Len(u) \in Nat /\ Len(v) \in Nat
  OBVIOUS
<1>2. ASSUME NEW q \in Nat, NEW i \in Nat, NEW k \in Nat, NEW z \in Nat,
             InBlock(u, q, i, k, z)
      PROVE  InBlock(v, q, i, k, z)
  <2>1. ASSUME NEW d \in 1..z, q + d - k <= Len(v)
        PROVE  v[q + d - k] = <<i, d>>
    <3>1. k <= q /\ \A e \in 1..z : q + e - k <= Len(u) =>
              u[q + e - k] = <<i, e>>
      BY <1>2 DEF InBlock
    <3>2. q + d - k \in 1..Len(v) /\ q + d - k <= Len(u)
      BY <1>1, <2>1, <3>1
    <3>3. u[q + d - k] = <<i, d>>
      BY <3>1, <3>2
    <3> QED
      BY <3>2, <3>3
  <2>2. q + z - k + 1 <= Len(v) => v[q + z - k + 1] = <<i + 1, 1>>
    BY <1>1, <1>2 DEF InBlock
  <2> QED
    BY <1>2, <2>1, <2>2 DEF InBlock
<1>3. ASSUME NEW q \in 1..Len(v)
      PROVE  /\ v[q][1] \in 1..Len(s)
             /\ InBlock(v, q, v[q][1], v[q][2], Size[s[v[q][1]]])
  <2>1. q \in 1..Len(u) /\ v[q] = u[q]
    BY <1>1
  <2> QED
    BY <1>2, <2>1, BlockTypes
<1> QED
  BY <1>3 DEF Blocks

\* So is one from which whole messages were taken: it begins anew after place c.
LEMMA BlocksSuffix ==
    ASSUME NEW u \in Seq(Byte), NEW v \in Seq(Byte), NEW s \in Seq(Message),
           NEW c \in 1..Len(u), Blocks(u, s), u[c][2] = Size[s[u[c][1]]],
           Len(v) = Len(u) - c, \A q \in 1..Len(v) : v[q] = u[q + c]
    PROVE  Blocks(v, s)
<1>1. Len(u) \in Nat /\ Len(v) \in Nat /\ c \in Nat
  OBVIOUS
<1>2. ASSUME NEW q \in 1..Len(v)
      PROVE  /\ v[q][1] \in 1..Len(s)
             /\ InBlock(v, q, v[q][1], v[q][2], Size[s[v[q][1]]])
  <2>1. PICK i \in Nat, k \in Nat, z \in Nat :
            /\ v[q] = <<i, k>> /\ z = Size[s[i]] /\ i \in 1..Len(s)
            /\ InBlock(u, q + c, i, k, z)
    <3>1. q + c \in 1..Len(u) /\ v[q] = u[q + c]
      BY <1>1
    <3> QED
      BY <3>1, BlockTypes, ZenonT(40)
  <2> DEFINE p == q + c
  <2>2. /\ p \in Nat /\ q \in Nat /\ z \in Nat /\ k \in 1..z
        /\ \A e \in 1..z : p + e - k <= Len(u) => u[p + e - k] = <<i, e>>
        /\ p + z - k + 1 <= Len(u) => u[p + z - k + 1] = <<i + 1, 1>>
    <3>1. InBlock(u, p, i, k, z)
      BY <2>1
    <3>2. p \in Nat /\ q \in Nat
      BY <1>1
    <3> HIDE DEF p
    <3> QED
      BY <3>1, <3>2 DEF InBlock
  <2>3. k <= q
    <3>1. SUFFICES ASSUME k > q PROVE FALSE
      BY <2>2
    <3>2. k - q \in 1..z /\ p + (k - q) - k = c /\ c <= Len(u)
      BY <1>1, <2>2, <3>1
    <3>3. u[c] = <<i, k - q>>
      BY <2>2, <3>2
    <3>4. k - q = z
      BY <2>1, <3>3
    <3> QED
      BY <1>1, <2>2, <3>4
  <2>4. ASSUME NEW d \in 1..z, q + d - k <= Len(v)
        PROVE  v[q + d - k] = <<i, d>>
    <3>1. /\ q + d - k \in 1..Len(v) /\ (q + d - k) + c = p + d - k
          /\ p + d - k <= Len(u)
      BY <1>1, <2>2, <2>3, <2>4
    <3>2. u[p + d - k] = <<i, d>>
      BY <2>2, <3>1
    <3>3. v[q + d - k] = u[(q + d - k) + c]
      BY <3>1
    <3> QED
      BY <3>1, <3>2, <3>3
  <2>5. ASSUME q + z - k + 1 <= Len(v)
        PROVE  v[q + z - k + 1] = <<i + 1, 1>>
    <3>1. /\ q + z - k + 1 \in 1..Len(v)
          /\ (q + z - k + 1) + c = p + z - k + 1
          /\ p + z - k + 1 <= Len(u)
      BY <1>1, <2>2, <2>3, <2>5
    <3>2. u[p + z - k + 1] = <<i + 1, 1>>
      BY <2>2, <3>1
    <3>3. v[q + z - k + 1] = u[(q + z - k + 1) + c]
      BY <3>1
    <3> QED
      BY <3>1, <3>2, <3>3
  <2>6. InBlock(v, q, i, k, z)
    BY <2>2, <2>3, <2>4, <2>5 DEF InBlock
  <2> QED
    BY <2>1, <2>6
<1> QED
  BY <1>2 DEF Blocks

\* And so is one to which a message is appended after the last byte of the last.
LEMMA BlocksAppend ==
    ASSUME NEW u \in Seq(Byte), NEW v \in Seq(Byte), NEW s \in Seq(Message),
           NEW m \in Message, Blocks(u, s),
           Len(u) > 0 => u[Len(u)] = <<Len(s), Size[s[Len(s)]]>>,
           Len(v) = Len(u) + Size[m], \A q \in 1..Len(u) : v[q] = u[q],
           \A k \in 1..Size[m] : v[Len(u) + k] = <<Len(s) + 1, k>>
    PROVE  Blocks(v, Append(s, m))
<1> DEFINE t == Append(s, m)
<1>1. /\ Len(u) \in Nat /\ Len(v) \in Nat /\ Len(s) \in Nat
      /\ Size[m] \in Nat /\ Size[m] >= 2
      /\ t \in Seq(Message) /\ Len(t) = Len(s) + 1
      /\ \A j \in 1..Len(s) : t[j] = s[j]
      /\ t[Len(s) + 1] = m
  BY SizeType
<1> HIDE DEF t
<1>2. ASSUME NEW q \in 1..Len(u)
      PROVE  /\ v[q][1] \in 1..Len(t)
             /\ InBlock(v, q, v[q][1], v[q][2], Size[t[v[q][1]]])
  <2>1. PICK i \in Nat, k \in Nat, z \in Nat :
            /\ v[q] = <<i, k>> /\ z = Size[s[i]] /\ i \in 1..Len(s)
            /\ InBlock(u, q, i, k, z)
    <3>1. v[q] = u[q]
      OBVIOUS
    <3>2. v[q] = <<v[q][1], v[q][2]>> /\ v[q][1] \in Nat /\ v[q][2] \in Nat
          /\ v[q][1] \in 1..Len(s) /\ Size[s[v[q][1]]] \in Nat
          /\ InBlock(u, q, v[q][1], v[q][2], Size[s[v[q][1]]])
      BY <3>1, BlockTypes
    <3> QED
      BY <3>2
  <2>2. z = Size[t[i]] /\ i \in 1..Len(t)
    BY <1>1, <2>1
  <2> DEFINE r == Len(u)
  <2>3. /\ r \in Nat /\ q \in Nat /\ q <= r /\ z \in Nat /\ k \in 1..z /\ k <= q
        /\ \A e \in 1..z : q + e - k <= r => u[q + e - k] = <<i, e>>
        /\ q + z - k + 1 <= r => u[q + z - k + 1] = <<i + 1, 1>>
    <3>1. InBlock(u, q, i, k, z) /\ q \in Nat /\ q <= r /\ r \in Nat
      BY <1>1, <2>1
    <3> QED
      BY <3>1, <2>1 DEF InBlock
  <2>4. r > 0 /\ u[r] = <<Len(s), Size[s[Len(s)]]>>
    BY <2>3
  <2>5. q + z - k <= r
    <3>1. SUFFICES ASSUME q + z - k > r PROVE FALSE
      BY <2>3
    <3>2. r - q + k \in 1..z /\ r - q + k < z /\ q + (r - q + k) - k = r
      BY <2>3, <3>1
    <3>3. r <= r
      BY <2>3
    <3> HIDE DEF r
    <3>4. \A e \in 1..z : q + e - k <= r => u[q + e - k] = <<i, e>>
      BY <2>3
    <3>5. q + (r - q + k) - k <= r =>
              u[q + (r - q + k) - k] = <<i, r - q + k>>
      BY <3>2, <3>4
    <3>6. u[r] = <<i, r - q + k>>
      BY <3>2, <3>3, <3>5
    <3>7. i = Len(s) /\ r - q + k = Size[s[Len(s)]]
      BY <2>4, <3>6
    <3> QED
      BY <2>1, <3>2, <3>7
  <2>6. ASSUME NEW d \in 1..z, q + d - k <= Len(v)
        PROVE  v[q + d - k] = <<i, d>>
    <3>1. q + d - k \in 1..r /\ q + d - k <= r
      BY <2>3, <2>5
    <3>2. u[q + d - k] = <<i, d>>
      BY <2>3, <3>1
    <3> QED
      BY <3>1, <3>2
  <2>7. v[q + z - k + 1] = <<i + 1, 1>>
    <3>1. CASE q + z - k < r
      <4>1. q + z - k + 1 \in 1..r /\ q + z - k + 1 <= r
        BY <2>3, <3>1
      <4>2. u[q + z - k + 1] = <<i + 1, 1>>
        BY <2>3, <4>1
      <4> QED
        BY <4>1, <4>2
    <3>2. CASE q + z - k = r
      <4>1. z \in 1..z /\ q + z - k <= r
        BY <2>3, <3>2
      <4>2. u[q + z - k] = <<i, z>>
        BY <2>3, <4>1
      <4>3. i = Len(s)
        BY <2>4, <3>2, <4>2
      <4>4. v[r + 1] = <<Len(s) + 1, 1>>
        BY <1>1
      <4> QED
        BY <3>2, <4>3, <4>4
    <3>3. q \in Nat /\ z \in Nat /\ k \in Nat /\ r \in Nat
      BY <2>3
    <3> HIDE DEF r
    <3>4. q + z - k < r \/ q + z - k = r
      BY <2>5, <3>3
    <3> QED
      BY <3>1, <3>2, <3>4
  <2>8. InBlock(v, q, i, k, z)
    BY <2>3, <2>6, <2>7 DEF InBlock
  <2>9. v[q][1] = i /\ v[q][2] = k
    BY <2>1
  <2> QED
    BY <2>2, <2>8, <2>9
<1>3. ASSUME NEW k \in 1..Size[m]
      PROVE  InBlock(v, Len(u) + k, Len(s) + 1, k, Size[m])
  <2>1. /\ k <= Len(u) + k
        /\ \A d \in 1..Size[m] : (Len(u) + k) + d - k = Len(u) + d
    BY <1>1
  <2>2. (Len(u) + k) + Size[m] - k + 1 > Len(v)
    BY <1>1
  <2> QED
    BY <1>1, <2>1, <2>2, SMTT(30) DEF InBlock
<1>4. ASSUME NEW q \in 1..Len(v), q > Len(u)
      PROVE  /\ v[q][1] \in 1..Len(t)
             /\ InBlock(v, q, v[q][1], v[q][2], Size[t[v[q][1]]])
  <2>1. PICK k \in 1..Size[m] : q = Len(u) + k
    <3>1. q - Len(u) \in 1..Size[m] /\ q = Len(u) + (q - Len(u))
      BY <1>1, <1>4
    <3> QED
      BY <3>1
  <2>2. v[q] = <<Len(s) + 1, k>>
    BY <2>1
  <2> QED
    BY <1>1, <1>3, <2>1, <2>2
<1>5. Blocks(v, t)
  BY <1>1, <1>2, <1>4 DEF Blocks
<1> QED
  BY <1>5 DEF t

----------------------------------------------------------------------------
(* Sequences of bytes.                                                      *)

LEMMA BytesType ==
    ASSUME NEW i \in Nat, NEW m \in Message
    PROVE  /\ Bytes(i, m) \in Seq(Byte) /\ Len(Bytes(i, m)) = Size[m]
           /\ \A k \in 1..Size[m] : Bytes(i, m)[k] = <<i, k>>
<1>1. Size[m] \in Nat
  BY SizeType
<1>2. \A k \in 1..Size[m] : <<i, k>> \in Byte
  BY <1>1 DEF Byte
<1> QED
  BY <1>1, <1>2 DEF Bytes

LEMMA Piece ==
    ASSUME NEW b \in Seq(Byte), NEW i \in 1..Len(b) + 1, NEW j \in 0..Len(b),
           i <= j + 1
    PROVE  /\ SubSeq(b, i, j) \in Seq(Byte)
           /\ Len(SubSeq(b, i, j)) = j - i + 1
           /\ \A q \in 1..j - i + 1 : SubSeq(b, i, j)[q] = b[q + i - 1]
<1>1. Len(b) \in Nat /\ i \in Int /\ j \in Int
  OBVIOUS
<1>2. \A q \in i..j : b[q] \in Byte
  BY <1>1
<1>3. \A q \in 1..j - i + 1 : i + q - 1 = q + i - 1
  BY <1>1
<1> QED
  BY <1>1, <1>2, <1>3, SubSeqProperties

\* Bytes may go from the head of one sequence to the end of the one before it.
LEMMA Shift ==
    ASSUME NEW a \in Seq(Byte), NEW b \in Seq(Byte), NEW n \in 0..Len(b)
    PROVE  (a \o SubSeq(b, 1, n)) \o SubSeq(b, n + 1, Len(b)) = a \o b
<1> DEFINE c == SubSeq(b, 1, n)
           d == SubSeq(b, n + 1, Len(b))
<1>1. Len(b) \in Nat /\ n \in Nat /\ n <= Len(b)
  OBVIOUS
<1>2. c \in Seq(Byte)
  <2>1. 1 \in 1..Len(b) + 1 /\ n \in 0..Len(b) /\ 1 <= n + 1
    BY <1>1
  <2> QED
    BY <2>1, Piece
<1>3. d \in Seq(Byte)
  <2>1. n + 1 \in 1..Len(b) + 1 /\ Len(b) \in 0..Len(b) /\ n + 1 <= Len(b) + 1
    BY <1>1
  <2> QED
    BY <2>1, Piece
<1>4. c \o d = b
  <2>1. /\ 1 \in 1..Len(b) + 1 /\ n \in 1 - 1..Len(b) /\ Len(b) \in n..Len(b)
    BY <1>1
  <2>2. c \o d = SubSeq(b, 1, Len(b))
    BY <2>1, ConcatAdjacentSubSeq
  <2>3. SubSeq(b, 1, Len(b)) = b
    BY SubSeqFull
  <2> QED
    BY <2>2, <2>3, Zenon
<1> HIDE DEF c, d
<1>5. (a \o c) \o d = a \o (c \o d)
  BY <1>2, <1>3, ConcatAssociative, SMTT(30)
<1>6. (a \o c) \o d = a \o b
  BY <1>4, <1>5
<1> QED
  BY <1>6, Zenon DEF c, d

----------------------------------------------------------------------------
(* The inductive invariant.                                                 *)

Left == mem \o net

Up == conn \in {"up", "closed", "gone"}

\* What the successor of each byte says of its neighbour, Laid says of its whole
\* message: a step that handles a message needs all the bytes of it.
Laid ==
    /\ mem \in Seq(Byte) /\ net \in Seq(Byte)
    /\ Blocks(Left, sent)

Starts == Len(Left) > 0 => Left[1] = <<Len(handled) + 1, 1>>

Ends ==
    Up => IF Len(Left) = 0 THEN Len(handled) = Len(sent)
          ELSE Left[Len(Left)] = <<Len(sent), Size[sent[Len(sent)]]>>

HandledWhole ==
    /\ handled \in Seq(Seq(Byte))
    /\ \A i \in 1..Len(handled) : handled[i] = Bytes(i, sent[i])

IInv == TypeOK /\ Laid /\ Starts /\ Ends /\ HandledWhole

LEMMA StreamTypes ==
    ASSUME IInv
    PROVE  /\ Left \in Seq(Byte) /\ Len(Left) = Len(mem) + Len(net)
           /\ Len(Left) \in Nat /\ Len(mem) \in Nat /\ Len(net) \in Nat
           /\ Len(sent) \in Nat /\ Len(handled) \in Nat
           /\ arrived \in Nat /\ arrived <= Len(net)
           /\ \A q \in 1..Len(mem) : Left[q] = mem[q]
           /\ \A q \in 1..Len(net) : Left[Len(mem) + q] = net[q]
<1>1. mem \in Seq(Byte) /\ net \in Seq(Byte)
  BY DEF IInv, Laid
<1>2. /\ sent \in Seq(Message) /\ handled \in Seq(Seq(Byte))
      /\ arrived \in 0..Len(net)
  BY DEF IInv, TypeOK, HandledWhole
<1>3. /\ Len(mem) \in Nat /\ Len(net) \in Nat /\ Len(sent) \in Nat
      /\ Len(handled) \in Nat
  BY <1>1, <1>2
<1>4. /\ Left \in Seq(Byte) /\ Len(Left) = Len(mem) + Len(net)
      /\ \A q \in 1..Len(mem) + Len(net) :
             Left[q] = IF q <= Len(mem) THEN mem[q] ELSE net[q - Len(mem)]
  BY <1>1, ConcatProperties DEF Left
<1>5. \A q \in 1..Len(net) : Left[Len(mem) + q] = net[q]
  <2> SUFFICES ASSUME NEW q \in 1..Len(net)
               PROVE  Left[Len(mem) + q] = net[q]
    OBVIOUS
  <2>1. /\ Len(mem) + q \in 1..Len(mem) + Len(net)
        /\ ~(Len(mem) + q <= Len(mem)) /\ (Len(mem) + q) - Len(mem) = q
    BY <1>3
  <2> QED
    BY <1>4, <2>1
<1>6. \A q \in 1..Len(mem) : q \in 1..Len(mem) + Len(net) /\ q <= Len(mem)
  BY <1>3
<1>7. \A q \in 1..Len(mem) : Left[q] = mem[q]
  BY <1>4, <1>6
<1>8. Len(Left) \in Nat /\ arrived \in Nat /\ arrived <= Len(net)
  BY <1>2, <1>3, <1>4
<1> QED
  BY <1>1, <1>3, <1>4, <1>5, <1>7, <1>8

\* What the header at mem_start says, when there is one.
LEMMA Header ==
    ASSUME IInv, Len(Left) > 0
    PROVE  /\ Len(handled) + 1 \in 1..Len(sent)
           /\ LET i == Len(handled) + 1
                  z == Size[sent[i]]
              IN  /\ z \in Nat /\ z >= 2
                  /\ \A d \in 1..z : d <= Len(Left) => Left[d] = <<i, d>>
                  /\ z + 1 <= Len(Left) => Left[z + 1] = <<i + 1, 1>>
<1> DEFINE i == Len(handled) + 1
           z == Size[sent[i]]
<1>1. /\ Left \in Seq(Byte) /\ sent \in Seq(Message) /\ Blocks(Left, sent)
      /\ Len(Left) \in Nat /\ Len(handled) \in Nat
      /\ Left[1] = <<i, 1>>
  BY StreamTypes DEF IInv, TypeOK, Laid, Starts
<1>2. Left[1][1] = i /\ Left[1][2] = 1 /\ 1 \in 1..Len(Left)
  BY <1>1
<1>3. /\ i \in 1..Len(sent) /\ z \in Nat /\ z >= 2
      /\ InBlock(Left, 1, i, 1, z)
  BY <1>1, <1>2, BlockTypes
<1>4. /\ \A d \in 1..z : 1 + d - 1 <= Len(Left) => Left[1 + d - 1] = <<i, d>>
      /\ 1 + z - 1 + 1 <= Len(Left) => Left[1 + z - 1 + 1] = <<i + 1, 1>>
  BY <1>3 DEF InBlock
<1>5. (\A d \in 1..z : 1 + d - 1 = d) /\ 1 + z - 1 + 1 = z + 1
  BY <1>3
<1>6. \A d \in 1..z : d <= Len(Left) => Left[d] = <<i, d>>
  BY <1>4, <1>5
<1>7. z + 1 <= Len(Left) => Left[z + 1] = <<i + 1, 1>>
  BY <1>4, <1>5
<1> QED
  BY <1>3, <1>6, <1>7

----------------------------------------------------------------------------
(* How the steps change the stream.                                         *)

StreamInv == Laid /\ Starts /\ Ends /\ HandledWhole

\* Bytes move from the kernel to the buffer, or none move.
LEMMA StreamStays ==
    ASSUME IInv, UNCHANGED <<sent, handled>>, Left' = Left,
           mem' \in Seq(Byte), net' \in Seq(Byte), Up' => Up
    PROVE  StreamInv'
BY DEF IInv, StreamInv, Laid, Starts, Ends, HandledWhole

\* The end of the stream is lost with the connection.
LEMMA StreamCut ==
    ASSUME IInv, UNCHANGED <<sent, mem, handled>>, ~Up',
           NEW n \in 0..Len(net), net' = SubSeq(net, 1, n)
    PROVE  StreamInv'
<1>1. /\ mem \in Seq(Byte) /\ net \in Seq(Byte) /\ Blocks(Left, sent)
      /\ sent \in Seq(Message) /\ n \in Nat /\ n <= Len(net)
      /\ Len(mem) \in Nat /\ Len(net) \in Nat
  BY StreamTypes DEF IInv, Laid, TypeOK
<1>2. /\ net' \in Seq(Byte) /\ Len(net') = n
      /\ \A q \in 1..n : net'[q] = net[q]
  <2>1. /\ 1 \in 1..Len(net) + 1 /\ n \in 0..Len(net) /\ 1 <= n + 1
        /\ n - 1 + 1 = n /\ \A q \in 1..n : q + 1 - 1 = q
    BY <1>1
  <2>2. /\ SubSeq(net, 1, n) \in Seq(Byte)
        /\ Len(SubSeq(net, 1, n)) = n - 1 + 1
        /\ \A q \in 1..n - 1 + 1 : SubSeq(net, 1, n)[q] = net[q + 1 - 1]
    BY <1>1, <2>1, Piece
  <2> QED
    BY <2>1, <2>2
<1>3. /\ Left' \in Seq(Byte) /\ Len(Left') = Len(mem) + n
      /\ \A q \in 1..Len(mem) + n :
             Left'[q] = IF q <= Len(mem) THEN mem[q] ELSE net'[q - Len(mem)]
  <2>1. Left' = mem \o net'
    BY DEF Left
  <2> QED
    BY <1>1, <1>2, <2>1, ConcatProperties
<1>4. /\ Len(Left) \in Nat /\ Len(Left) = Len(mem) + Len(net)
      /\ Left \in Seq(Byte)
      /\ \A q \in 1..Len(mem) + Len(net) :
             Left[q] = IF q <= Len(mem) THEN mem[q] ELSE net[q - Len(mem)]
  <2>1. Left \in Seq(Byte) /\ Len(Left) \in Nat
    BY StreamTypes
  <2> QED
    BY <1>1, <2>1, ConcatProperties DEF Left
<1>5. \A q \in 1..Len(Left') : Left'[q] = Left[q]
  <2> SUFFICES ASSUME NEW q \in 1..Len(Left') PROVE Left'[q] = Left[q]
    OBVIOUS
  <2>1. q \in 1..Len(mem) + n /\ q \in 1..Len(mem) + Len(net)
    BY <1>1, <1>3
  <2>2. CASE q <= Len(mem)
    BY <1>3, <1>4, <2>1, <2>2
  <2>3. CASE ~(q <= Len(mem))
    <3>1. q - Len(mem) \in 1..n
      BY <1>1, <2>1, <2>3
    <3> QED
      BY <1>2, <1>3, <1>4, <2>1, <2>3, <3>1
  <2> QED
    BY <2>2, <2>3
<1>6. Blocks(Left', sent)
  <2>1. Len(Left') <= Len(Left)
    BY <1>1, <1>3, <1>4
  <2> QED
    BY <1>1, <1>3, <1>4, <1>5, <2>1, BlocksPrefix
<1>7. Laid'
  BY <1>1, <1>2, <1>6 DEF Laid
<1>8. Starts'
  <2> SUFFICES ASSUME Len(Left') > 0
               PROVE  Left'[1] = <<Len(handled) + 1, 1>>
    BY DEF Starts
  <2>1. 1 \in 1..Len(Left') /\ Len(Left) > 0
    BY <1>1, <1>3, <1>4
  <2> QED
    BY <1>5, <2>1 DEF IInv, Starts
<1>9. Ends' /\ HandledWhole'
  BY DEF Ends, HandledWhole, IInv
<1> QED
  BY <1>7, <1>8, <1>9 DEF StreamInv

\* The broker adds a message at the end.
LEMMA StreamGrows ==
    ASSUME IInv, NEW m \in Message, Up, BrokerSends(m)
    PROVE  StreamInv'
<1> DEFINE b == Bytes(Len(sent) + 1, m)
           u == Left
           n == Len(Left)
<1>1. /\ mem \in Seq(Byte) /\ net \in Seq(Byte) /\ Blocks(u, sent)
      /\ sent \in Seq(Message) /\ u \in Seq(Byte) /\ n \in Nat
      /\ Len(sent) \in Nat /\ Len(handled) \in Nat
      /\ Len(handled) <= Len(sent)
      /\ Size[m] \in Nat /\ Size[m] >= 2
  BY StreamTypes, SizeType DEF IInv, Laid, TypeOK
<1>2. /\ sent' = Append(sent, m) /\ sent' \in Seq(Message)
      /\ Len(sent') = Len(sent) + 1
      /\ \A i \in 1..Len(sent) : sent'[i] = sent[i]
      /\ sent'[Len(sent) + 1] = m
      /\ mem' = mem /\ handled' = handled
  BY <1>1, AppendProperties DEF BrokerSends
<1>3. /\ b \in Seq(Byte) /\ Len(b) = Size[m]
      /\ \A k \in 1..Size[m] : b[k] = <<Len(sent) + 1, k>>
  <2>1. Len(sent) + 1 \in Nat
    BY <1>1
  <2> HIDE DEF u, n
  <2> QED
    BY <2>1, BytesType
<1>4. net' = net \o b /\ net' \in Seq(Byte)
  <2>1. net' = net \o b
    BY <1>2 DEF BrokerSends
  <2> QED
    BY <1>1, <1>3, <2>1, ConcatProperties
<1> HIDE DEF b
<1>5. Left' = u \o b
  <2>1. Left' = mem \o (net \o b)
    BY <1>2, <1>4 DEF Left
  <2>2. u = mem \o net
    BY DEF Left
  <2>3. (mem \o net) \o b = mem \o (net \o b)
    <3>1. mem \in Seq(Byte) /\ net \in Seq(Byte) /\ b \in Seq(Byte)
      BY <1>1, <1>3
    <3> HIDE DEF u, n
    <3> QED
      BY <3>1, ConcatAssociative
  <2>4. u \o b = (mem \o net) \o b
    BY <2>2
  <2> HIDE DEF u, n
  <2> QED
    BY <2>1, <2>3, <2>4, Zenon
<1>6. /\ Left' \in Seq(Byte) /\ Len(Left') = n + Size[m]
      /\ \A q \in 1..n + Size[m] :
             Left'[q] = IF q <= n THEN u[q] ELSE b[q - n]
  <2>1. u \in Seq(Byte) /\ Len(u) = n
    BY <1>1
  <2> HIDE DEF u, n
  <2>2. /\ u \o b \in Seq(Byte) /\ Len(u \o b) = Len(u) + Len(b)
        /\ \A q \in 1..Len(u) + Len(b) :
               (u \o b)[q] = IF q <= Len(u) THEN u[q] ELSE b[q - Len(u)]
    BY <1>3, <2>1, ConcatProperties
  <2> QED
    BY <1>3, <1>5, <2>1, <2>2
<1>7. \A q \in 1..n : Left'[q] = u[q]
  <2>1. \A q \in 1..n : q \in 1..n + Size[m] /\ q <= n
    BY <1>1
  <2> QED
    BY <1>6, <2>1
<1>8. \A k \in 1..Size[m] : Left'[n + k] = <<Len(sent) + 1, k>>
  <2> SUFFICES ASSUME NEW k \in 1..Size[m]
               PROVE  Left'[n + k] = <<Len(sent) + 1, k>>
    OBVIOUS
  <2>1. n + k \in 1..n + Size[m] /\ ~(n + k <= n) /\ (n + k) - n = k
    BY <1>1
  <2> QED
    BY <1>3, <1>6, <2>1
<1>9. IF n = 0 THEN Len(handled) = Len(sent)
      ELSE u[n] = <<Len(sent), Size[sent[Len(sent)]]>>
  BY DEF IInv, Ends
<1>10. Blocks(Left', sent')
  <2>1. n > 0 => u[n] = <<Len(sent), Size[sent[Len(sent)]]>>
    BY <1>9
  <2>2. Blocks(Left', Append(sent, m))
    BY <1>1, <1>6, <1>7, <1>8, <2>1, BlocksAppend
  <2> QED
    BY <1>2, <2>2
<1>11. Laid'
  BY <1>1, <1>2, <1>4, <1>10 DEF Laid
<1>12. Starts'
  <2>1. CASE n > 0
    <3>1. 1 \in 1..n /\ u[1] = <<Len(handled) + 1, 1>>
      BY <1>1, <2>1 DEF IInv, Starts
    <3> QED
      BY <1>2, <1>7, <3>1 DEF Starts
  <2>2. CASE n = 0
    <3>1. Left'[n + 1] = <<Len(sent) + 1, 1>> /\ n + 1 = 1
      BY <1>1, <1>8, <2>2
    <3> QED
      BY <1>2, <1>9, <2>2, <3>1 DEF Starts
  <2> QED
    BY <1>1, <2>1, <2>2
<1>13. Ends'
  <2>1. Left'[n + Size[m]] = <<Len(sent) + 1, Size[m]>>
    BY <1>1, <1>8
  <2>2. Len(Left') # 0
    BY <1>1, <1>6
  <2> QED
    BY <1>2, <1>6, <2>1, <2>2 DEF Ends
<1>14. HandledWhole'
  <2>1. \A i \in 1..Len(handled) : i \in 1..Len(sent)
    BY <1>1
  <2> QED
    BY <1>2, <2>1 DEF HandledWhole, IInv
<1> QED
  BY <1>11, <1>12, <1>13, <1>14 DEF StreamInv

\* A message is handled whole, and the rest begins where the next one does.
LEMMA StreamShrinks ==
    ASSUME IInv, Handle
    PROVE  /\ StreamInv' /\ Len(handled') <= Len(sent)
           /\ Len(mem') <= Len(mem)
<1> DEFINE u == Left
           n == Len(Left)
           i == Len(handled) + 1
           z == Size[sent[i]]
<1>1. /\ mem \in Seq(Byte) /\ net \in Seq(Byte) /\ Blocks(u, sent)
      /\ sent \in Seq(Message) /\ u \in Seq(Byte) /\ n \in Nat
      /\ handled \in Seq(Seq(Byte))
      /\ Len(sent) \in Nat /\ Len(handled) \in Nat
      /\ Len(mem) \in Nat /\ Len(net) \in Nat /\ n = Len(mem) + Len(net)
  BY StreamTypes DEF IInv, Laid, TypeOK, HandledWhole
<1>2. Len(mem) \in Nat \ {0}
  BY <1>1, EmptySeq DEF Handle, Whole
<1>3. /\ i \in 1..Len(sent) /\ z \in Nat /\ z >= 2
      /\ \A d \in 1..z : d <= n => u[d] = <<i, d>>
      /\ z + 1 <= n => u[z + 1] = <<i + 1, 1>>
  <2>1. Len(Left) > 0
    BY <1>1, <1>2
  <2> QED
    BY <2>1, Header
<1>4. Consumed = z
  <2>1. mem[1] = u[1] /\ u[1] = <<i, 1>>
    BY <1>1, <1>2, <1>3, StreamTypes
  <2>2. mem[1][1] = i
    BY <2>1
  <2> HIDE DEF i
  <2> QED
    BY <2>2 DEF Consumed
<1>5. /\ z <= Len(mem) /\ UNCHANGED <<sent, net, conn>>
      /\ handled' = Append(handled, SubSeq(mem, 1, z))
      /\ mem' = SubSeq(mem, z + 1, Len(mem))
  <2> HIDE DEF z, i
  <2> QED
    BY <1>4 DEF Handle, Whole, Rest
<1> HIDE DEF u, n, i, z
<1>6. z \in 1..n /\ z \in 1..Len(mem) /\ \A d \in 1..z : d <= n
  BY <1>1, <1>3, <1>5
<1>7. /\ mem' \in Seq(Byte) /\ Len(mem') = Len(mem) - z
      /\ \A q \in 1..Len(mem) - z : mem'[q] = mem[q + z]
  <2>1. /\ z + 1 \in 1..Len(mem) + 1 /\ Len(mem) \in 0..Len(mem)
        /\ z + 1 <= Len(mem) + 1
        /\ Len(mem) - (z + 1) + 1 = Len(mem) - z
        /\ \A q \in 1..Len(mem) - z : q + (z + 1) - 1 = q + z
    BY <1>1, <1>6
  <2>2. /\ SubSeq(mem, z + 1, Len(mem)) \in Seq(Byte)
        /\ Len(SubSeq(mem, z + 1, Len(mem))) = Len(mem) - (z + 1) + 1
        /\ \A q \in 1..Len(mem) - (z + 1) + 1 :
               SubSeq(mem, z + 1, Len(mem))[q] = mem[q + (z + 1) - 1]
    BY <1>1, <2>1, Piece
  <2> QED
    BY <1>5, <2>1, <2>2
<1>8. /\ Left' \in Seq(Byte) /\ Len(Left') = (Len(mem) - z) + Len(net)
      /\ \A q \in 1..(Len(mem) - z) + Len(net) :
             Left'[q] = IF q <= Len(mem) - z THEN mem'[q]
                        ELSE net[q - (Len(mem) - z)]
  <2>1. Left' = mem' \o net
    BY <1>5 DEF Left
  <2> QED
    BY <1>1, <1>7, <2>1, ConcatProperties
<1>9. Len(Left') = n - z /\ Len(Left') \in Nat
  BY <1>1, <1>6, <1>8
<1>10. \A q \in 1..Len(Left') : Left'[q] = u[q + z]
  <2> SUFFICES ASSUME NEW q \in 1..Len(Left') PROVE Left'[q] = u[q + z]
    OBVIOUS
  <2>1. /\ \A p \in 1..Len(mem) : u[p] = mem[p]
        /\ \A p \in 1..Len(net) : u[Len(mem) + p] = net[p]
    BY StreamTypes DEF u
  <2>2. q \in 1..(Len(mem) - z) + Len(net) /\ q \in Nat
    BY <1>8
  <2>3. CASE q <= Len(mem) - z
    <3>1. q \in 1..Len(mem) - z /\ q + z \in 1..Len(mem)
      BY <1>1, <1>3, <2>2, <2>3
    <3> QED
      BY <1>7, <1>8, <2>1, <2>2, <2>3, <3>1
  <2>4. CASE ~(q <= Len(mem) - z)
    <3>1. /\ q - (Len(mem) - z) \in 1..Len(net)
          /\ Len(mem) + (q - (Len(mem) - z)) = q + z
      BY <1>1, <1>3, <2>2, <2>4
    <3> QED
      BY <1>8, <2>1, <2>2, <2>4, <3>1
  <2> QED
    BY <2>3, <2>4
<1>11. u[z] = <<i, z>>
  <2>1. z \in 1..z /\ z <= n
    BY <1>1, <1>3, <1>6
  <2> QED
    BY <1>3, <2>1
<1>12. Blocks(Left', sent)
  <2>1. u[z][2] = Size[sent[u[z][1]]]
    BY <1>11 DEF z
  <2>2. n = Len(u)
    BY DEF n, u
  <2>3. /\ u \in Seq(Byte) /\ Left' \in Seq(Byte) /\ sent \in Seq(Message)
        /\ Blocks(u, sent) /\ z \in 1..Len(u) /\ Len(Left') = Len(u) - z
    BY <1>1, <1>6, <1>8, <1>9, <2>2
  <2> QED
    BY <1>10, <2>1, <2>3, BlocksSuffix
<1>13. Laid'
  BY <1>1, <1>5, <1>7, <1>12 DEF Laid
<1>14. /\ handled' \in Seq(Seq(Byte)) /\ Len(handled') = i
       /\ \A j \in 1..Len(handled) : handled'[j] = handled[j]
       /\ handled'[i] = SubSeq(mem, 1, z)
       /\ SubSeq(mem, 1, z) \in Seq(Byte) /\ Len(SubSeq(mem, 1, z)) = z
       /\ \A q \in 1..z : SubSeq(mem, 1, z)[q] = mem[q]
  <2>1. /\ 1 \in 1..Len(mem) + 1 /\ z \in 0..Len(mem) /\ 1 <= z + 1
        /\ z - 1 + 1 = z /\ \A q \in 1..z : q + 1 - 1 = q
    BY <1>1, <1>6
  <2>2. /\ SubSeq(mem, 1, z) \in Seq(Byte)
        /\ Len(SubSeq(mem, 1, z)) = z - 1 + 1
        /\ \A q \in 1..z - 1 + 1 : SubSeq(mem, 1, z)[q] = mem[q + 1 - 1]
    BY <1>1, <2>1, Piece
  <2>3. /\ SubSeq(mem, 1, z) \in Seq(Byte) /\ Len(SubSeq(mem, 1, z)) = z
        /\ \A q \in 1..z : SubSeq(mem, 1, z)[q] = mem[q]
    BY <2>1, <2>2
  <2> DEFINE b == SubSeq(mem, 1, z)
  <2>4. b \in Seq(Byte) /\ handled' = Append(handled, b)
    BY <1>5, <2>3
  <2> HIDE DEF b
  <2>5. /\ handled' \in Seq(Seq(Byte)) /\ Len(handled') = i
        /\ \A j \in 1..Len(handled) : handled'[j] = handled[j]
        /\ handled'[i] = b
    BY <1>1, <2>4, AppendProperties DEF i
  <2> QED
    BY <2>3, <2>5 DEF b
<1>15. Starts'
  <2> SUFFICES ASSUME Len(Left') > 0 PROVE Left'[1] = <<i + 1, 1>>
    BY <1>14 DEF Starts
  <2>1. 1 \in 1..Len(Left') /\ 1 + z = z + 1 /\ z + 1 <= n
    BY <1>1, <1>3, <1>9
  <2> QED
    BY <1>3, <1>10, <2>1
<1>16. Ends'
  <2> SUFFICES ASSUME Up
               PROVE  IF Len(Left') = 0 THEN i = Len(sent)
                      ELSE Left'[Len(Left')] = <<Len(sent), Size[sent[Len(sent)]]>>
    BY <1>5, <1>14 DEF Ends, Up
  <2>1. u[n] = <<Len(sent), Size[sent[Len(sent)]]>>
    BY <1>1, <1>6 DEF IInv, Ends, u, n
  <2>2. CASE Len(Left') = 0
    <3>1. n = z
      BY <1>1, <1>3, <1>9, <2>2
    <3> QED
      BY <1>11, <2>1, <2>2, <3>1
  <2>3. CASE Len(Left') # 0
    <3>1. Len(Left') \in 1..Len(Left') /\ Len(Left') + z = n
      BY <1>1, <1>3, <1>9, <2>3
    <3> QED
      BY <1>10, <2>1, <2>3, <3>1
  <2> QED
    BY <2>2, <2>3
<1>17. HandledWhole'
  <2>1. SubSeq(mem, 1, z) = Bytes(i, sent[i])
    <3>1. i \in Nat /\ sent[i] \in Message /\ z = Size[sent[i]]
      BY <1>1, <1>3 DEF z
    <3>2. /\ Bytes(i, sent[i]) \in Seq(Byte) /\ Len(Bytes(i, sent[i])) = z
          /\ \A k \in 1..z : Bytes(i, sent[i])[k] = <<i, k>>
      BY <3>1, BytesType
    <3>3. \A q \in 1..z : mem[q] = <<i, q>>
      <4> SUFFICES ASSUME NEW q \in 1..z PROVE mem[q] = <<i, q>>
        OBVIOUS
      <4>1. q \in 1..Len(mem) /\ q <= n
        BY <1>1, <1>3, <1>6
      <4>2. u[q] = mem[q]
        BY <4>1, StreamTypes DEF u
      <4> QED
        BY <1>3, <4>1, <4>2
    <3> DEFINE a == SubSeq(mem, 1, z)
               b == Bytes(i, sent[i])
    <3>4. /\ a \in Seq(Byte) /\ Len(a) = z
          /\ \A q \in 1..z : a[q] = <<i, q>>
      BY <1>14, <3>3
    <3>5. /\ b \in Seq(Byte) /\ Len(b) = z
          /\ \A q \in 1..z : b[q] = <<i, q>>
      BY <3>2
    <3> HIDE DEF a, b
    <3>6. a = b
      BY <3>4, <3>5, SeqEqual
    <3> QED
      BY <3>6 DEF a, b
  <2> SUFFICES ASSUME NEW j \in 1..i PROVE handled'[j] = Bytes(j, sent[j])
    BY <1>5, <1>14 DEF HandledWhole
  <2>2. CASE j = i
    BY <1>14, <2>1, <2>2
  <2>3. CASE j # i
    <3>1. j \in 1..Len(handled)
      BY <1>1, <2>3 DEF i
    <3> QED
      BY <1>14, <3>1 DEF IInv, HandledWhole
  <2> QED
    BY <2>2, <2>3
<1>18. Len(handled') <= Len(sent) /\ Len(mem') <= Len(mem)
  BY <1>1, <1>3, <1>7, <1>14
<1> QED
  BY <1>13, <1>15, <1>16, <1>17, <1>18 DEF StreamInv

\* recvall moves bytes to the buffer, no more than there is room for.
LEMMA StreamMoves ==
    ASSUME IInv, Recvall
    PROVE  /\ StreamInv' /\ Len(mem') <= RecvBuff
           /\ arrived' \in 0..Len(net')
<1> DEFINE n == IF arrived < Room THEN arrived ELSE Room
<1>1. /\ mem \in Seq(Byte) /\ net \in Seq(Byte)
      /\ Len(mem) \in Nat /\ Len(net) \in Nat /\ Len(mem) <= RecvBuff
      /\ arrived \in Nat /\ arrived <= Len(net) /\ RecvBuff \in Nat
      /\ Room = RecvBuff - Len(mem)
  BY StreamTypes, SizeAssumption DEF IInv, Laid, TypeOK, Room
<1>2. /\ mem' = mem \o SubSeq(net, 1, n)
      /\ net' = SubSeq(net, n + 1, Len(net))
      /\ arrived' = arrived - n
      /\ UNCHANGED <<sent, handled, conn>>
  BY DEF Recvall
<1>3. /\ n \in 0..Len(net) /\ n \in Nat /\ n <= arrived
      /\ Len(mem) + n <= RecvBuff
  BY <1>1
<1> HIDE DEF n
<1>4. /\ SubSeq(net, 1, n) \in Seq(Byte) /\ Len(SubSeq(net, 1, n)) = n
  <2>1. /\ 1 \in 1..Len(net) + 1 /\ n \in 0..Len(net) /\ 1 <= n + 1
        /\ n - 1 + 1 = n
    BY <1>1, <1>3
  <2> QED
    BY <1>1, <2>1, Piece
<1>5. /\ net' \in Seq(Byte) /\ Len(net') = Len(net) - n
  <2>1. /\ n + 1 \in 1..Len(net) + 1 /\ Len(net) \in 0..Len(net)
        /\ n + 1 <= Len(net) + 1 /\ Len(net) - (n + 1) + 1 = Len(net) - n
    BY <1>1, <1>3
  <2>2. /\ SubSeq(net, n + 1, Len(net)) \in Seq(Byte)
        /\ Len(SubSeq(net, n + 1, Len(net))) = Len(net) - (n + 1) + 1
    BY <1>1, <2>1, Piece
  <2> QED
    BY <1>2, <2>1, <2>2
<1>6. mem' \in Seq(Byte) /\ Len(mem') = Len(mem) + n
  BY <1>1, <1>2, <1>4, ConcatProperties
<1>7. Left' = Left
  BY <1>1, <1>2, <1>3, Shift DEF Left
<1>8. StreamInv'
  BY <1>2, <1>5, <1>6, <1>7, StreamStays DEF Up
<1> QED
  BY <1>1, <1>2, <1>3, <1>5, <1>6, <1>8

----------------------------------------------------------------------------
(* The invariant holds in the first state and is kept by every step.         *)

LEMMA InitInv == Init => IInv
<1> SUFFICES ASSUME Init PROVE IInv
  OBVIOUS
<1>1. /\ <<>> \in Seq(Byte) /\ <<>> \in Seq(Message)
      /\ <<>> \in Seq(Seq(Byte)) /\ Len(<<>>) = 0
  BY EmptySeq
<1>2. TypeOK
  BY <1>1, SizeAssumption DEF Init, TypeOK
<1>3. Left = <<>>
  BY <1>1, ConcatEmptySeq DEF Init, Left
<1>4. Laid /\ Starts /\ Ends /\ HandledWhole
  BY <1>1, <1>3 DEF Init, Laid, Blocks, Starts, Ends, HandledWhole
<1> QED
  BY <1>2, <1>4 DEF IInv

LEMMA StreamStep == IInv /\ [Next]_vars => StreamInv'
<1> SUFFICES ASSUME IInv, [Next]_vars PROVE StreamInv'
  OBVIOUS
<1>1. /\ mem \in Seq(Byte) /\ net \in Seq(Byte)
      /\ Len(net) \in Nat /\ arrived \in Nat /\ arrived <= Len(net)
  BY StreamTypes DEF IInv, Laid
<1>2. ASSUME UNCHANGED <<sent, net, mem, handled>>, Up' => Up
      PROVE  StreamInv'
  <2>1. Left' = Left
    BY <1>2 DEF Left
  <2> QED
    BY <1>1, <1>2, <2>1, StreamStays
<1>3. CASE Refresher
  <2>1. CASE Wake \/ TooSmall \/ AwaitRest \/ BeginSend \/ SendSome
             \/ SendFails \/ BrokenPipe \/ EndSend
    BY <1>2, <2>1 DEF Wake, TooSmall, AwaitRest, BeginSend, SendSome,
       SendFails, BrokenPipe, EndSend, receiving, Up
  <2>2. CASE Recvall
    BY <2>2, StreamMoves
  <2>3. CASE RecvFails
    <3>1. SubSeq(net, 1, 0) = <<>>
      BY SubSeqEmpty
    <3>2. net' = SubSeq(net, 1, 0) /\ 0 \in 0..Len(net)
      BY <1>1, <2>3, <3>1 DEF RecvFails
    <3>3. UNCHANGED <<sent, mem, handled>> /\ ~Up'
      BY <2>3 DEF RecvFails, Up
    <3> QED
      BY <3>2, <3>3, StreamCut
  <2>4. CASE Handle
    BY <2>4, StreamShrinks
  <2> QED
    BY <1>3, <2>1, <2>2, <2>3, <2>4 DEF Refresher
<1>4. CASE Ping \/ Request
  BY <1>2, <1>4 DEF Ping, Request, receiving, Up
<1>5. CASE Network
  <2>1. CASE \E m \in Message : BrokerSends(m)
    <3>1. PICK m \in Message : BrokerSends(m)
      BY <2>1
    <3>2. Up
      BY <3>1 DEF BrokerSends, Up
    <3> QED
      BY <3>1, <3>2, StreamGrows
  <2>2. CASE Arrive \/ BrokerReads \/ Close \/ ResetAfterClose
    BY <1>2, <2>2 DEF Arrive, BrokerReads, Close, ResetAfterClose,
       receiving, Up
  <2>3. CASE Reset
    <3>1. net' = SubSeq(net, 1, arrived) /\ arrived \in 0..Len(net)
      BY <1>1, <2>3 DEF Reset
    <3>2. UNCHANGED <<sent, mem, handled>> /\ ~Up'
      BY <2>3 DEF Reset, Up
    <3> QED
      BY <3>1, <3>2, StreamCut
  <2> QED
    BY <1>5, <2>1, <2>2, <2>3 DEF Network
<1>6. CASE UNCHANGED vars
  BY <1>2, <1>6 DEF vars, receiving, Up
<1> QED
  BY <1>3, <1>4, <1>5, <1>6 DEF Next

\* A send's bytes fit the message they are of.
LEMMA OffsetType ==
    ASSUME NEW n \in Nat
    PROVE  n % OutSize \in 0..OutSize - 1
BY SizeAssumption

LEMMA TypeStep == IInv /\ [Next]_vars => TypeOK'
<1> SUFFICES ASSUME IInv, [Next]_vars PROVE TypeOK'
  OBVIOUS
<1>1. /\ TypeOK /\ sent \in Seq(Message)
      /\ Len(net) \in Nat /\ Len(mem) \in Nat /\ Len(sent) \in Nat
      /\ Len(handled) \in Nat /\ arrived \in Nat /\ arrived <= Len(net)
      /\ RecvBuff \in Nat /\ WireCap \in Nat /\ OutSize \in Nat
      /\ OutSize >= 1 /\ MaxUnsent \in Nat /\ MaxUnsent >= 1
  BY StreamTypes, SizeAssumption DEF IInv, TypeOK
<1>2. CASE Refresher
  <2>1. CASE Wake \/ TooSmall \/ AwaitRest \/ BeginSend \/ SendFails
             \/ BrokenPipe \/ EndSend
    BY <1>1, <2>1 DEF TypeOK, Wake, TooSmall, AwaitRest, BeginSend, SendFails,
       BrokenPipe, EndSend, receiving, sending
  <2>2. CASE Recvall
    <3>1. Len(mem') <= RecvBuff /\ arrived' \in 0..Len(net')
      BY <2>2, StreamMoves
    <3>2. /\ UNCHANGED <<sent, handled, error, sending, conn>>
          /\ pc' = "parse"
      BY <2>2 DEF Recvall
    <3> QED
      BY <1>1, <3>1, <3>2 DEF TypeOK, sending
  <2>3. CASE RecvFails
    <3>1. Len(net') = 0
      BY <2>3, EmptySeq DEF RecvFails
    <3> QED
      BY <1>1, <2>3, <3>1 DEF TypeOK, RecvFails, sending
  <2>4. CASE Handle
    <3>1. Len(handled') <= Len(sent) /\ Len(mem') <= Len(mem)
          /\ mem' \in Seq(Byte)
      BY <2>4, StreamShrinks DEF StreamInv, Laid
    <3>2. Len(mem') <= RecvBuff
      BY <1>1, <3>1 DEF TypeOK
    <3>3. /\ UNCHANGED <<sent, net, arrived, sending, conn>>
          /\ pc' \in {"sleep", "read"}
          /\ error' \in {error, "ACK_OF_UNKNOWN"}
      BY <2>4 DEF Handle
    <3> QED
      BY <1>1, <3>1, <3>2, <3>3 DEF TypeOK, sending
  <2>5. CASE SendSome
    <3>1. PICK n \in 1..OutSize - offset :
              /\ out + n <= WireCap
              /\ out' = out + n
              /\ offset' = (offset + n) % OutSize
      BY <2>5 DEF SendSome
    <3>2. /\ unsent' \in {unsent, unsent - 1} /\ unsent > 0
          /\ UNCHANGED <<receiving, error, pc, conn>>
      BY <2>5 DEF SendSome
    <3>3. /\ offset \in Nat /\ out \in Nat /\ unsent \in 0..MaxUnsent
      BY <1>1 DEF TypeOK
    <3>4. out' \in 0..WireCap /\ unsent' \in 0..MaxUnsent
      BY <1>1, <3>1, <3>2, <3>3
    <3>5. offset' \in 0..OutSize - 1
      <4>1. offset + n \in Nat
        BY <1>1, <3>3
      <4>2. (offset + n) % OutSize \in 0..OutSize - 1
        BY <4>1, OffsetType
      <4> QED
        BY <3>1, <4>2
    <3> QED
      BY <1>1, <3>2, <3>4, <3>5 DEF TypeOK, receiving
  <2> QED
    BY <1>2, <2>1, <2>2, <2>3, <2>4, <2>5 DEF Refresher
<1>3. CASE Ping
  BY <1>1, <1>3 DEF TypeOK, Ping, PingDue, receiving
<1>4. CASE Request
  BY <1>1, <1>4 DEF TypeOK, Request, receiving
<1>5. CASE Network
  <2>1. ASSUME NEW m \in Message, BrokerSends(m)
        PROVE  TypeOK'
    <3>1. sent' \in Seq(Message) /\ Len(sent') = Len(sent) + 1
      BY <1>1, <2>1, AppendProperties DEF BrokerSends
    <3>2. Up
      BY <2>1 DEF BrokerSends, Up
    <3>3. net' \in Seq(Byte) /\ Len(net') >= Len(net)
      <4>1. Len(sent') \in Nat
        BY <1>1, <3>1
      <4>2. /\ Bytes(Len(sent'), m) \in Seq(Byte)
            /\ Len(Bytes(Len(sent'), m)) \in Nat
        BY <4>1, BytesType, SizeType
      <4>3. net \in Seq(Byte) /\ net' = net \o Bytes(Len(sent'), m)
        BY <2>1 DEF BrokerSends, IInv, Laid
      <4> HIDE DEF Bytes
      <4> QED
        BY <1>1, <4>2, <4>3, ConcatProperties
    <3>4. Len(handled) <= Len(sent') /\ arrived \in 0..Len(net')
      BY <1>1, <3>1, <3>3 DEF TypeOK
    <3> QED
      BY <1>1, <2>1, <3>1, <3>4 DEF TypeOK, BrokerSends, sending
  <2>2. CASE Arrive \/ BrokerReads \/ Close \/ ResetAfterClose
    BY <1>1, <2>2, SMTT(20) DEF TypeOK, Arrive, BrokerReads, Close, ResetAfterClose,
       receiving, sending
  <2>3. CASE Reset
    <3>1. Len(net') = arrived
      <4>1. 1 \in 1..Len(net) + 1 /\ arrived \in 0..Len(net)
            /\ 1 <= arrived + 1 /\ arrived - 1 + 1 = arrived
        BY <1>1
      <4>2. net \in Seq(Byte) /\ net' = SubSeq(net, 1, arrived)
        BY <2>3 DEF Reset, IInv, Laid
      <4> QED
        BY <4>1, <4>2, Piece
    <3> QED
      BY <1>1, <2>3, <3>1 DEF TypeOK, Reset, sending
  <2> QED
    BY <1>5, <2>1, <2>2, <2>3 DEF Network
<1>6. CASE UNCHANGED vars
  BY <1>1, <1>6 DEF TypeOK, vars, receiving, sending
<1> QED
  BY <1>2, <1>3, <1>4, <1>5, <1>6 DEF Next

\* The inductive invariant holds in every state.
THEOREM Invariance == Spec => []IInv
<1>1. Init => IInv
  BY InitInv
<1>2. IInv /\ [Next]_vars => IInv'
  BY StreamStep, TypeStep DEF IInv, StreamInv
<1> QED
  BY <1>1, <1>2, PTL DEF Spec

\* The receive buffer never holds more than it has room for, nor does the hub
\* handle a message the broker has not sent, whatever the sizes.
THEOREM TypeCorrect == Spec => []TypeOK
<1>1. IInv => TypeOK
  BY DEF IInv
<1> QED
  BY <1>1, Invariance, PTL

\* However recv cuts the stream into pieces, __mqtt_recv hands over every message
\* whole and in its turn, and keeps the rest without a gap.
LEMMA InvNothingLost == IInv => NothingLost
<1> SUFFICES ASSUME IInv PROVE NothingLost
  OBVIOUS
<1>1. /\ Left \in Seq(Byte) /\ Len(Left) \in Nat /\ sent \in Seq(Message)
      /\ Blocks(Left, sent) /\ Len(sent) \in Nat
      /\ (Left = <<>> <=> Len(Left) = 0)
  BY StreamTypes, EmptySeq DEF IInv, TypeOK, Laid
<1>2. \A i \in 1..Len(handled) : handled[i] = Bytes(i, sent[i])
  BY DEF IInv, HandledWhole
<1>3. Left # <<>> => Left[1] = <<Len(handled) + 1, 1>>
  BY <1>1 DEF IInv, Starts
<1>4. \A q \in 1..Len(Left) : Left[q][1] <= Len(sent)
  BY <1>1 DEF Blocks
<1>5. ASSUME NEW q \in 2..Len(Left)
      PROVE  Left[q] = After(Left[q - 1])
  <2> DEFINE p == q - 1
  <2>1. p \in 1..Len(Left) /\ p \in Nat /\ q = p + 1 /\ q <= Len(Left)
    BY <1>1
  <2> HIDE DEF p
  <2>2. PICK i \in Nat, k \in Nat, z \in Nat :
            /\ Left[p] = <<i, k>> /\ z = Size[sent[i]]
            /\ InBlock(Left, p, i, k, z)
    BY <1>1, <2>1, BlockTypes
  <2>3. /\ k \in 1..z /\ k <= p
        /\ \A d \in 1..z : p + d - k <= Len(Left) => Left[p + d - k] = <<i, d>>
        /\ p + z - k + 1 <= Len(Left) => Left[p + z - k + 1] = <<i + 1, 1>>
    BY <2>2 DEF InBlock
  <2>4. After(Left[p]) = IF k < z THEN <<i, k + 1>> ELSE <<i + 1, 1>>
    BY <2>2 DEF After
  <2>5. CASE k < z
    <3>1. k + 1 \in 1..z /\ p + (k + 1) - k = q
      BY <2>1, <2>2, <2>5
    <3>2. Left[q] = <<i, k + 1>>
      BY <2>1, <2>3, <3>1
    <3> QED
      BY <2>4, <2>5, <3>2 DEF p
  <2>6. CASE ~(k < z)
    <3>1. p + z - k + 1 = q
      BY <2>1, <2>2, <2>3, <2>6
    <3>2. Left[q] = <<i + 1, 1>>
      BY <2>1, <2>3, <3>1
    <3> QED
      BY <2>4, <2>6, <3>2 DEF p
  <2> QED
    BY <2>5, <2>6
<1>6. Up => IF Left = <<>> THEN Len(handled) = Len(sent)
            ELSE After(Left[Len(Left)]) = <<Len(sent) + 1, 1>>
  <2> SUFFICES ASSUME Up, Len(Left) # 0
               PROVE  After(Left[Len(Left)]) = <<Len(sent) + 1, 1>>
    BY <1>1 DEF IInv, Ends
  <2>1. /\ Left[Len(Left)] = <<Len(sent), Size[sent[Len(sent)]]>>
        /\ Len(Left) \in 1..Len(Left)
    BY <1>1 DEF IInv, Ends
  <2>2. Size[sent[Len(sent)]] \in Nat
    BY <1>1, <2>1, BlockTypes
  <2> QED
    BY <2>1, <2>2 DEF After
<1> QED
  BY <1>2, <1>3, <1>4, <1>5, <1>6 DEF NothingLost, Left, Up

THEOREM NothingIsLost == Spec => []NothingLost
BY Invariance, InvNothingLost, PTL
=============================================================================
