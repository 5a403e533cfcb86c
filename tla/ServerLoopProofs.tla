-------------------------- MODULE ServerLoopProofs --------------------------
(* What holds of the server loop for every number of slots, every backlog    *)
(* and every set of clients, whatever they do.                               *)
EXTENDS ServerLoop, FiniteSetTheorems, SequenceTheorems, TLAPS

\* The kernel queues a client once, and not while it has a slot.
BacklogInv ==
    \A k, l \in DOMAIN backlog :
        /\ backlog[k] = backlog[l] => k = l
        /\ \A i \in Slots : fds[i] # backlog[k]

\* The inductive invariant: an accepted client gets one slot only because it was
\* queued once, and the handler's index stays in the array only because maxi does.
IInv == TypeOK /\ InBoundsUntilFull /\ PolledWhileOpen /\ BacklogInv

----------------------------------------------------------------------------
\* The loop starts with no client and every slot free.
LEMMA InitEstablishes == Init => IInv
<1> SUFFICES ASSUME Init PROVE IInv
  OBVIOUS
<1>1. TypeOK
  <2>1. revents \in [Slots -> BOOLEAN]
    BY DEF Init
  <2>2. /\ fds \in [Slots -> Client \cup {NoFd}]
        /\ maxi \in 0..(PollSize + 1) /\ nready \in 0..PollSize
        /\ polled \in 0..(PollSize - 1) /\ count \in 1..PollSize
    BY SizeAssumption DEF Init
  <2>3. backlog \in Seq(Client) /\ Len(backlog) <= ListenQueue
    BY QueueAssumption, EmptySeq DEF Init
  <2>4. /\ pc \in {"poll", "accept", "handler", "left", "undefined"}
        /\ pc = "accept" => backlog # <<>>
        /\ sent \subseteq Client /\ hungup \subseteq Client
        /\ closeSocket \in BOOLEAN
    BY DEF Init
  <2> QED
    BY <2>1, <2>2, <2>3, <2>4 DEF TypeOK
<1>2. InBoundsUntilFull /\ PolledWhileOpen /\ BacklogInv
  BY SizeAssumption
  DEF Init, InBoundsUntilFull, InBounds, PolledWhileOpen, BacklogInv
<1> QED
  BY <1>1, <1>2 DEF IInv

----------------------------------------------------------------------------
(* The clients and the kernel.                                               *)

\* A client connects only when it has neither a slot nor a place in the backlog.
LEMMA ConnectPreserves ==
    ASSUME IInv, NEW c \in Client, Connect(c)
    PROVE  IInv'
<1>1. backlog \in Seq(Client) /\ backlog' = Append(backlog, c)
  BY DEF IInv, TypeOK, Connect
<1>2. /\ backlog' \in Seq(Client)
      /\ Len(backlog') = Len(backlog) + 1
      /\ backlog' # <<>>
      /\ \A k \in 1..Len(backlog) : backlog'[k] = backlog[k]
      /\ backlog'[Len(backlog) + 1] = c
  BY <1>1, AppendProperties
<1>3. TypeOK'
  BY <1>2, QueueAssumption DEF IInv, TypeOK, Connect, round
<1>4. BacklogInv'
  <2>1. \A k \in DOMAIN backlog' :
           \/ k \in DOMAIN backlog /\ backlog'[k] = backlog[k]
           \/ k = Len(backlog) + 1 /\ backlog'[k] = c
    BY <1>1, <1>2
  <2>2. \A k \in DOMAIN backlog : backlog[k] # c
    BY DEF Connect, Queued
  <2>3. \A i \in Slots : fds'[i] = fds[i] /\ fds[i] # c
    BY DEF Connect, Open
  <2> QED
    BY <2>1, <2>2, <2>3 DEF IInv, BacklogInv
<1>5. InBoundsUntilFull' /\ PolledWhileOpen'
  BY DEF IInv, Connect, InBoundsUntilFull, InBounds, PolledWhileOpen
<1> QED
  BY <1>3, <1>4, <1>5 DEF IInv

\* A request, the end of a connection and SIGINT change no slot and no place in
\* the backlog.
LEMMA ClientPreserves ==
    ASSUME IInv, NEW c \in Client, Send(c) \/ HangUp(c)
    PROVE  IInv'
<1>1. UNCHANGED <<fds, revents, maxi, nready, polled, count, pc, backlog>>
  BY DEF Send, HangUp, round
<1>2. TypeOK'
  BY <1>1 DEF IInv, TypeOK, Send, HangUp
<1>3. InBoundsUntilFull' /\ PolledWhileOpen' /\ BacklogInv'
  BY <1>1 DEF IInv, InBoundsUntilFull, InBounds, PolledWhileOpen, BacklogInv
<1> QED
  BY <1>2, <1>3 DEF IInv

----------------------------------------------------------------------------
(* The server thread.                                                        *)

\* There are at most as many ready slots as slots.
LEMMA ReadyCount ==
    ASSUME TypeOK, InBounds
    PROVE  Cardinality(ReadySlots) \in 0..(PollSize - 1)
<1>1. IsFiniteSet(Slots) /\ Cardinality(Slots) = PollSize - 1
  BY FS_Interval, SizeAssumption DEF Slots
<1>2. ReadySlots \subseteq Slots
  BY SizeAssumption DEF ReadySlots, Slots, TypeOK, InBounds
<1>3. IsFiniteSet(ReadySlots) /\ Cardinality(ReadySlots) <= Cardinality(Slots)
  BY <1>1, <1>2, FS_Subset
<1> QED
  BY <1>1, <1>3, FS_CardinalityType, SizeAssumption

\* poll changes no slot's owner.
LEMMA PollPreserves ==
    ASSUME IInv, Poll
    PROVE  IInv'
<1>1. Cardinality(ReadySlots) \in 0..(PollSize - 1)
  BY ReadyCount DEF IInv, InBoundsUntilFull, Poll
<1>2. nready' \in 0..PollSize
  BY <1>1, SizeAssumption DEF Poll
<1>3. revents' \in [Slots -> BOOLEAN]
  <2>1. revents \in [Slots -> BOOLEAN]
    BY DEF IInv, TypeOK
  <2>2. ASSUME NEW i \in Slots
        PROVE  (IF i <= maxi THEN i \in ReadySlots ELSE revents[i]) \in BOOLEAN
    <3>1. revents[i] \in BOOLEAN /\ (i \in ReadySlots) \in BOOLEAN
      BY <2>1
    <3> QED
      BY <3>1, Zenon
  <2>3. revents' = [i \in Slots |-> IF i <= maxi THEN i \in ReadySlots
                                                ELSE revents[i]]
    BY DEF Poll
  <2> QED
    BY <2>2, <2>3, Zenon
<1>4. polled' \in 0..(PollSize - 1)
  BY SizeAssumption DEF IInv, TypeOK, InBoundsUntilFull, InBounds, Poll
<1>5. TypeOK'
  BY <1>2, <1>3, <1>4, SizeAssumption DEF IInv, TypeOK, Poll, clients
<1>6. InBoundsUntilFull' /\ PolledWhileOpen' /\ BacklogInv'
  BY DEF IInv, Poll, clients, InBoundsUntilFull, InBounds, PolledWhileOpen,
         BacklogInv
<1> QED
  BY <1>5, <1>6 DEF IInv

\* What the first client of the backlog leaves behind.
LEMMA BacklogShift ==
    ASSUME TypeOK, backlog # <<>>, backlog' = Tail(backlog)
    PROVE  /\ backlog' \in Seq(Client)
           /\ Len(backlog') = Len(backlog) - 1
           /\ Head(backlog) = backlog[1] /\ 1 \in DOMAIN backlog
           /\ Head(backlog) \in Client
           /\ \A k \in DOMAIN backlog' :
                 k + 1 \in DOMAIN backlog /\ k \in Nat \ {0}
                 /\ backlog'[k] = backlog[k + 1]
BY HeadTailProperties, SMTT(30) DEF TypeOK

\* The client gets a free slot, which maxi then covers, and is queued no more.
LEMMA AcceptPreserves ==
    ASSUME IInv, Accept
    PROVE  IInv'
<1>1. PICK i \in Slots : /\ FirstFree(i)
                         /\ fds' = [fds EXCEPT ![i] = Head(backlog)]
                         /\ RaiseMaxi(i)
  BY DEF Accept
<1>2. /\ backlog' \in Seq(Client)
      /\ Len(backlog') = Len(backlog) - 1
      /\ Head(backlog) = backlog[1] /\ 1 \in DOMAIN backlog
      /\ Head(backlog) \in Client
      /\ \A k \in DOMAIN backlog' :
            k + 1 \in DOMAIN backlog /\ k \in Nat \ {0}
            /\ backlog'[k] = backlog[k + 1]
  BY BacklogShift DEF IInv, TypeOK, Accept
<1>3. maxi' \in 0..(PollSize - 1) /\ maxi' >= maxi /\ maxi' >= i
  BY <1>1, SizeAssumption
  DEF IInv, TypeOK, InBoundsUntilFull, InBounds, RaiseMaxi, Slots, Accept
<1>4. TypeOK'
  BY <1>1, <1>2, <1>3, SizeAssumption, QueueAssumption
  DEF IInv, TypeOK, Accept, AfterAccept, round
<1>5. InBoundsUntilFull'
  BY <1>3, SizeAssumption DEF InBoundsUntilFull, InBounds
<1>6. PolledWhileOpen'
  <2>1. \A j \in Slots : fds[j] # Head(backlog)
    BY <1>2 DEF IInv, BacklogInv
  <2>2. \A j \in Slots : fds'[j] = IF j = i THEN Head(backlog) ELSE fds[j]
    BY <1>1 DEF IInv, TypeOK
  <2>3. \A j \in Slots : fds'[j] # NoFd => j <= maxi'
    BY <1>3, <2>2, SizeAssumption DEF IInv, TypeOK, PolledWhileOpen, Slots
  <2>4. \A j, k \in Slots : fds'[j] # NoFd /\ fds'[j] = fds'[k] => j = k
    BY <2>1, <2>2 DEF IInv, PolledWhileOpen
  <2> QED
    BY <2>3, <2>4 DEF PolledWhileOpen
<1>7. BacklogInv'
  <2>1. \A k \in DOMAIN backlog' : backlog'[k] # Head(backlog)
    BY <1>2 DEF IInv, BacklogInv
  <2>2. \A k, l \in DOMAIN backlog' : backlog'[k] = backlog'[l] => k = l
    BY <1>2 DEF IInv, BacklogInv
  <2>3. \A k \in DOMAIN backlog', j \in Slots : fds'[j] # backlog'[k]
    BY <1>1, <1>2, <2>1 DEF IInv, BacklogInv, TypeOK
  <2> QED
    BY <2>2, <2>3 DEF BacklogInv
<1> QED
  BY <1>4, <1>5, <1>6, <1>7 DEF IInv

\* The refused client changes no slot; what follows is outside the array.
LEMMA AcceptFullPreserves ==
    ASSUME IInv, AcceptFull
    PROVE  IInv'
<1>1. /\ backlog' \in Seq(Client)
      /\ Len(backlog') = Len(backlog) - 1
      /\ \A k \in DOMAIN backlog' :
            k + 1 \in DOMAIN backlog /\ k \in Nat \ {0}
            /\ backlog'[k] = backlog[k + 1]
  BY BacklogShift DEF IInv, TypeOK, AcceptFull
<1>2. maxi' = PollSize + 1 /\ maxi <= maxi'
  BY SizeAssumption DEF IInv, TypeOK, AcceptFull, RaiseMaxi
<1>3. TypeOK'
  BY <1>1, <1>2, SizeAssumption, QueueAssumption
  DEF IInv, TypeOK, AcceptFull, round
<1>4. BacklogInv'
  BY <1>1 DEF IInv, BacklogInv, AcceptFull
<1>5. InBoundsUntilFull' /\ PolledWhileOpen'
  BY <1>2, SizeAssumption
  DEF IInv, TypeOK, AcceptFull, InBoundsUntilFull, PolledWhileOpen, Slots
<1> QED
  BY <1>3, <1>4, <1>5 DEF IInv

\* The other exits of the loop body change no slot.
LEMMA LeavePreserves ==
    ASSUME IInv, PollInterrupted \/ AcceptFails \/ CheckClose \/ UNCHANGED vars
    PROVE  IInv'
<1>1. /\ UNCHANGED <<fds, revents, maxi, nready, polled, count, backlog, sent,
                     hungup>>
      /\ pc' \in {pc, "left", "poll"}
      /\ pc' # pc => pc # "undefined"
      /\ closeSocket' \in BOOLEAN
  BY DEF PollInterrupted, AcceptFails, CheckClose, vars, round, clients, IInv,
         TypeOK
<1>2. TypeOK'
  BY <1>1 DEF IInv, TypeOK
<1>3. InBoundsUntilFull' /\ PolledWhileOpen' /\ BacklogInv'
  BY <1>1 DEF IInv, InBoundsUntilFull, InBounds, PolledWhileOpen, BacklogInv
<1> QED
  BY <1>2, <1>3 DEF IInv

\* The handler's step at one slot serves it, closes it or leaves it alone.
LEMMA HandlePreserves ==
    ASSUME IInv, SkipSlot \/ ServeSlot \/ DropSlot
    PROVE  IInv'
<1>1. AtSlot /\ count' = count + 1
  BY DEF SkipSlot, ServeSlot, DropSlot, Reads
<1>2. count \in Slots /\ count' \in 1..PollSize
  BY <1>1, SizeAssumption
  DEF IInv, TypeOK, InBoundsUntilFull, InBounds, AtSlot, Slots
<1>3. /\ UNCHANGED <<revents, maxi, nready, polled, pc, backlog, closeSocket>>
      /\ fds' = fds \/ fds' = [fds EXCEPT ![count] = NoFd]
      /\ sent' \subseteq sent /\ hungup' \subseteq hungup
  BY DEF SkipSlot, ServeSlot, DropSlot, CloseSlot, LeaveMaxi, MinusOne, round,
         clients
<1>4. \A i \in Slots : fds'[i] = fds[i] \/ fds'[i] = NoFd
  BY <1>3 DEF IInv, TypeOK
<1>5. TypeOK'
  BY <1>2, <1>3 DEF IInv, TypeOK
<1>6. InBoundsUntilFull' /\ PolledWhileOpen'
  BY <1>3, <1>4 DEF IInv, InBoundsUntilFull, InBounds, PolledWhileOpen
<1>7. BacklogInv'
  BY <1>3, <1>4, FdAssumption DEF IInv, TypeOK, BacklogInv
<1> QED
  BY <1>5, <1>6, <1>7 DEF IInv

----------------------------------------------------------------------------
\* Every step preserves the invariant.
LEMMA NextPreserves == IInv /\ [Next]_vars => IInv'
<1> SUFFICES ASSUME IInv, [Next]_vars PROVE IInv'
  OBVIOUS
<1>1. CASE \E c \in Client : Connect(c)
  BY <1>1, ConnectPreserves
<1>2. CASE (\E c \in Client : Send(c) \/ HangUp(c))
  BY <1>2, ClientPreserves
<1>3. CASE Signal
  <2>1. UNCHANGED <<fds, revents, maxi, nready, polled, count, pc, clients>>
    BY <1>3 DEF Signal, round
  <2>2. TypeOK'
    BY <1>3, <2>1 DEF IInv, TypeOK, Signal, clients
  <2> QED
    BY <2>1, <2>2 DEF IInv, InBoundsUntilFull, InBounds, PolledWhileOpen,
                      BacklogInv, clients
<1>4. CASE Poll
  BY <1>4, PollPreserves
<1>5. CASE Accept
  BY <1>5, AcceptPreserves
<1>6. CASE AcceptFull
  BY <1>6, AcceptFullPreserves
<1>7. CASE SkipSlot \/ ServeSlot \/ DropSlot
  BY <1>7, HandlePreserves
<1>8. CASE PollInterrupted \/ AcceptFails \/ CheckClose \/ UNCHANGED vars
  BY <1>8, LeavePreserves
<1> QED
  BY <1>1, <1>2, <1>3, <1>4, <1>5, <1>6, <1>7, <1>8 DEF Next, Loop

\* The invariant holds of every behaviour.
THEOREM Invariance == Spec => []IInv
BY InitEstablishes, NextPreserves, PTL DEF Spec

\* The loop's variables keep their types; in particular the handler's index and
\* the number of ready sockets stay within the array.
THEOREM TypeCorrect == Spec => []TypeOK
<1>1. IInv => TypeOK
  BY DEF IInv
<1> QED
  BY <1>1, Invariance, PTL

\* No index leaves clientfds before a client is refused, in server_loop with any
\* POLL_SIZE and LISTEN_QUEUE.
THEOREM IndexInBounds == Spec => []InBoundsUntilFull
<1>1. IInv => InBoundsUntilFull
  BY DEF IInv
<1> QED
  BY <1>1, Invariance, PTL

\* An accepted connection has one slot, and poll( clientfds, maxi+1 ) covers it.
THEOREM EveryoneIsPolled == Spec => []PolledWhileOpen
<1>1. IInv => PolledWhileOpen
  BY DEF IInv
<1> QED
  BY <1>1, Invariance, PTL

----------------------------------------------------------------------------
(* The server reads a silent client in no slot that poll has been given.     *)

\* Of the slots that poll has been given, those the handler has still to look at
\* are marked only if their client has something to read.
ReadyInv ==
    /\ polled <= maxi
    /\ pc = "accept" =>
           \A i \in Slots : i <= polled /\ revents[i] =>
                              fds[i] # NoFd /\ Readable(fds[i])
    /\ pc = "handler" =>
           \A i \in Slots : i >= count /\ i <= polled /\ revents[i] =>
                              fds[i] # NoFd /\ Readable(fds[i])

\* poll marks exactly the slots that are ready.
LEMMA PollMarks ==
    ASSUME IInv, ReadyInv, Poll
    PROVE  ReadyInv'
<1>1. polled' <= maxi' /\ polled' <= maxi
  BY DEF IInv, TypeOK, ReadyInv, Poll
<1>2. ASSUME NEW i \in Slots, i <= polled', revents'[i]
      PROVE  (fds[i] # NoFd /\ Readable(fds[i]))'
  <2>1. i <= maxi
    BY <1>1, <1>2 DEF IInv, TypeOK, Slots, Poll
  <2>2. i \in ReadySlots
    BY <1>2, <2>1, Zenon DEF Poll
  <2> QED
    BY <2>2 DEF ReadySlots, Readable, Poll, clients
<1> QED
  BY <1>1, <1>2, Zenon DEF ReadyInv

\* Serving or closing one slot takes nothing from the clients of the others.
LEMMA HandleMarks ==
    ASSUME IInv, ReadyInv, SkipSlot \/ ServeSlot \/ DropSlot
    PROVE  ReadyInv'
<1>1. /\ AtSlot /\ count' = count + 1
      /\ UNCHANGED <<revents, maxi, polled, pc>>
      /\ \A i \in Slots : i # count => fds'[i] = fds[i]
      /\ sent \ {fds[count]} \subseteq sent'
      /\ hungup \ {fds[count]} \subseteq hungup'
  BY DEF SkipSlot, ServeSlot, DropSlot, Reads, CloseSlot, LeaveMaxi, clients,
         round, IInv, TypeOK
<1>2. count \in Slots
  BY <1>1, SizeAssumption
  DEF IInv, TypeOK, InBoundsUntilFull, InBounds, AtSlot, Slots
<1>3. ASSUME NEW i \in Slots, i >= count', i <= polled, revents[i]
      PROVE  (fds[i] # NoFd /\ Readable(fds[i]))'
  <2>1. i # count /\ i >= count
    BY <1>1, <1>2, <1>3 DEF Slots
  <2>2. fds[i] # NoFd /\ Readable(fds[i])
    BY <1>1, <1>3, <2>1, Zenon DEF ReadyInv, AtSlot
  <2>3. fds[i] # fds[count]
    BY <1>2, <2>1, <2>2 DEF IInv, PolledWhileOpen
  <2> QED
    BY <1>1, <2>1, <2>2, <2>3 DEF Readable
<1>4. pc' # "accept" /\ polled' <= maxi'
  BY <1>1 DEF AtSlot, ReadyInv
<1> QED
  BY <1>1, <1>3, <1>4, Zenon DEF ReadyInv

\* A new client gets a slot that no poll has been given, or one that is not marked.
LEMMA AcceptMarks ==
    ASSUME IInv, ReadyInv, Accept
    PROVE  ReadyInv'
<1>1. PICK j \in Slots : /\ FirstFree(j)
                         /\ fds' = [fds EXCEPT ![j] = Head(backlog)]
                         /\ RaiseMaxi(j)
  BY DEF Accept
<1>2. /\ UNCHANGED <<revents, polled, sent, hungup>>
      /\ pc = "accept" /\ pc' # "accept"
  BY DEF Accept, AfterAccept, round
<1>3. ~(j <= polled /\ revents[j])
  BY <1>1, <1>2, Zenon DEF ReadyInv, FirstFree
<1>4. polled' <= maxi'
  BY <1>1, <1>2 DEF IInv, TypeOK, ReadyInv, RaiseMaxi, Slots
<1>5. ASSUME NEW i \in Slots, i <= polled, revents[i]
      PROVE  (fds[i] # NoFd /\ Readable(fds[i]))'
  <2>1. i # j /\ fds[i] # NoFd /\ Readable(fds[i])
    BY <1>2, <1>3, <1>5, Zenon DEF ReadyInv
  <2>2. fds'[i] = fds[i]
    BY <1>1, <2>1 DEF IInv, TypeOK
  <2> QED
    BY <1>2, <2>1, <2>2 DEF Readable
<1> QED
  BY <1>2, <1>4, <1>5, Zenon DEF ReadyInv

\* A client that sends or hangs up has more to read than before; one that connects
\* and the steps that leave the loop body have no part in it.
LEMMA OtherMarks ==
    ASSUME IInv, ReadyInv,
           \/ \E c \in Client : Connect(c) \/ Send(c) \/ HangUp(c)
           \/ Signal \/ PollInterrupted \/ AcceptFails \/ CheckClose
           \/ UNCHANGED vars
    PROVE  ReadyInv'
<1>1. /\ UNCHANGED <<fds, revents, maxi, polled, count>>
      /\ sent \subseteq sent' /\ hungup \subseteq hungup'
      /\ pc' \in {pc, "left", "poll"}
  BY DEF Connect, Send, HangUp, Signal, PollInterrupted, AcceptFails, CheckClose,
         vars, round, clients, IInv, TypeOK
<1>2. pc' \in {"accept", "handler"} => pc' = pc
  BY <1>1
<1>3. \A i \in Slots : Readable(fds[i]) => Readable(fds[i])'
  BY <1>1 DEF Readable
<1> QED
  BY <1>1, <1>2, <1>3, Zenon DEF ReadyInv

\* Every step but the refusal of a client keeps the marks true; after a refusal
\* maxi is past every slot and the handler does not run.
LEMMA MarksPreserved == IInv /\ ReadyInv /\ [Next]_vars => ReadyInv'
<1> SUFFICES ASSUME IInv, ReadyInv, [Next]_vars PROVE ReadyInv'
  OBVIOUS
<1>1. CASE Poll
  BY <1>1, PollMarks
<1>2. CASE SkipSlot \/ ServeSlot \/ DropSlot
  BY <1>2, HandleMarks
<1>3. CASE Accept
  BY <1>3, AcceptMarks
<1>4. CASE AcceptFull
  <2>1. maxi' = PollSize + 1 /\ polled' = polled /\ pc' = "undefined"
    BY <1>4, SizeAssumption DEF AcceptFull, RaiseMaxi, round, IInv, TypeOK
  <2>2. polled' <= maxi'
    BY <2>1, SizeAssumption DEF IInv, TypeOK
  <2> QED
    BY <2>1, <2>2 DEF ReadyInv
<1>5. CASE \/ \E c \in Client : Connect(c) \/ Send(c) \/ HangUp(c)
           \/ Signal \/ PollInterrupted \/ AcceptFails \/ CheckClose
           \/ UNCHANGED vars
  BY <1>5, OtherMarks
<1> QED
  BY <1>1, <1>2, <1>3, <1>4, <1>5 DEF Next, Loop

\* Whatever malloc left in clientfds, the handler calls read for a client that has
\* sent nothing only in a slot that poll has never been given: once poll has been
\* given a slot, closing it and using it again never makes the server wait there.
THEOREM ReadsWhatPollFound == Spec => []ReadsOnlyReady
<1>1. Init => ReadyInv
  BY DEF Init, ReadyInv
<1>2. IInv /\ ReadyInv => ReadsOnlyReady
  <2> SUFFICES ASSUME IInv, ReadyInv, Reads, count <= polled
               PROVE  Readable(fds[count])
    BY DEF ReadsOnlyReady
  <2>1. count \in Slots /\ count >= count
    BY SizeAssumption
    DEF Reads, AtSlot, IInv, TypeOK, InBoundsUntilFull, InBounds, Slots
  <2> QED
    BY <2>1, Zenon DEF ReadyInv, Reads, AtSlot
<1> QED
  BY <1>1, <1>2, MarksPreserved, Invariance, PTL DEF Spec
=============================================================================
