----------------------------- MODULE ServerLoop -----------------------------
(***************************************************************************)
(* server_loop and server_connection_handler of src/server.c: the array    *)
(* clientfds, its highest used index maxi, and the clients that connect,   *)
(* send requests and hang up at any moment.                                *)
(*                                                                         *)
(* Slot 0 of clientfds is the listening socket; it never changes and is    *)
(* represented by the backlog.  A request is one read: what it asks is the *)
(* subject of DeviceTable and HubLocks, here it either ends the session or *)
(* does not.                                                               *)
(*                                                                         *)
(* A definition marked "Slip" is a plausible mistake in the definition that *)
(* follows it, which must make the property named beside it fail.          *)
(***************************************************************************)
EXTENDS Naturals, Sequences, FiniteSets

CONSTANTS
    Client,      \* programs that may connect
    PollSize,    \* POLL_SIZE, the length of clientfds
    ListenQueue, \* LISTEN_QUEUE
    NoFd         \* the fd of a free slot, -1

ASSUME SizeAssumption == PollSize \in Nat /\ PollSize >= 2
ASSUME QueueAssumption == ListenQueue \in Nat \ {0}
ASSUME FdAssumption == NoFd \notin Client

Slots == 1..(PollSize - 1)

VARIABLES
    fds,          \* clientfds[i].fd
    revents,      \* clientfds[i].revents has POLLIN
    maxi,
    nready,       \* sockets poll found ready, and the listening one among them
    polled,       \* the last slot that a poll has ever been given
    count,        \* slot the handler is at
    pc,           \* where the server thread is
    backlog,      \* connections the kernel has completed
    sent,         \* clients with a request on the way
    hungup,       \* clients that closed their end
    closeSocket

round == <<nready, polled>>
clients == <<backlog, sent, hungup>>
vars == <<fds, revents, maxi, round, count, pc, clients, closeSocket>>

Open(c) == \E i \in Slots : fds[i] = c
Queued(c) == \E k \in DOMAIN backlog : backlog[k] = c

\* There is something to read: a request, or the end of the connection.
Readable(c) == c \in sent \cup hungup

----------------------------------------------------------------------------
(* The clients and the kernel.                                              *)

Connect(c) ==
    /\ ~Open(c) /\ ~Queued(c)
    /\ Len(backlog) < ListenQueue
    /\ backlog' = Append(backlog, c)
    /\ UNCHANGED <<fds, revents, maxi, round, count, pc, sent, hungup,
                   closeSocket>>

Send(c) ==
    /\ Open(c) \/ Queued(c)
    /\ c \notin sent \cup hungup
    /\ sent' = sent \cup {c}
    /\ UNCHANGED <<fds, revents, maxi, round, count, pc, backlog, hungup,
                   closeSocket>>

HangUp(c) ==
    /\ Open(c) \/ Queued(c)
    /\ hungup' = hungup \cup {c}
    /\ UNCHANGED <<fds, revents, maxi, round, count, pc, backlog, sent,
                   closeSocket>>

Signal ==
    /\ ~closeSocket
    /\ closeSocket' = TRUE
    /\ UNCHANGED <<fds, revents, maxi, round, count, pc, clients>>

----------------------------------------------------------------------------
(* poll( clientfds, maxi+1, 50 ) writes revents of the slots it is given,   *)
(* zero for a negative fd, and leaves the others alone.                     *)

ReadySlots == {i \in 1..maxi : fds[i] # NoFd /\ Readable(fds[i])}

Poll ==
    /\ pc = "poll"
    /\ revents' = [i \in Slots |->
                      IF i <= maxi THEN i \in ReadySlots ELSE revents[i]]
    /\ nready' = Cardinality(ReadySlots) + (IF backlog = <<>> THEN 0 ELSE 1)
    /\ polled' = (IF maxi > polled THEN maxi ELSE polled)
    /\ pc' = IF backlog = <<>> THEN "handler" ELSE "accept"
    /\ count' = 1
    /\ UNCHANGED <<fds, maxi, clients, closeSocket>>

\* A signal interrupts poll: server_loop returns 1.
PollInterrupted ==
    /\ pc = "poll" /\ closeSocket
    /\ pc' = "left"
    /\ UNCHANGED <<fds, revents, maxi, round, count, clients, closeSocket>>

FirstFree(i) == fds[i] = NoFd /\ \A j \in Slots : j < i => fds[j] # NoFd

\* Slip (PolledWhileOpen, RequestRead): maxi is not raised.
KeepMaxi(i) == maxi' = maxi

\* Slip (InBoundsUntilFull): counts connections instead.
CountMaxi(i) == maxi' = maxi + 1

RaiseMaxi(i) == maxi' = (IF i > maxi THEN i ELSE maxi)

\* "if ( --nready <= 0 ) continue": nothing else was ready.
AfterAccept == IF nready <= 1 THEN "poll" ELSE "handler"

Accept ==
    /\ pc = "accept"
    /\ \E i \in Slots :
          /\ FirstFree(i)
          /\ fds' = [fds EXCEPT ![i] = Head(backlog)]
          /\ RaiseMaxi(i)
    /\ backlog' = Tail(backlog)
    /\ pc' = AfterAccept
    /\ UNCHANGED <<revents, round, count, sent, hungup, closeSocket>>

\* No slot is free: the client gets 505.  The search leaves its index at
\* POLL_SIZE + 1, where events is set, and maxi follows; from there on the program
\* works on memory that is not clientfds.
AcceptFull ==
    /\ pc = "accept"
    /\ \A i \in Slots : ~FirstFree(i)
    /\ RaiseMaxi(PollSize + 1)
    /\ backlog' = Tail(backlog)
    /\ sent' = sent \ {Head(backlog)}
    /\ hungup' = hungup \ {Head(backlog)}
    /\ pc' = "undefined"
    /\ UNCHANGED <<fds, revents, round, count, closeSocket>>

\* accept returns an error: server_loop returns 1, except that a signal that
\* interrupts it starts the iteration over.
AcceptFails ==
    /\ pc = "accept"
    /\ \/ pc' = "left" /\ UNCHANGED closeSocket
       \/ ~closeSocket /\ closeSocket' = TRUE /\ pc' = "poll"
    /\ UNCHANGED <<fds, revents, maxi, round, count, clients>>

----------------------------------------------------------------------------
(* server_connection_handler( clientfds, maxi ).                            *)

AtSlot == pc = "handler" /\ count <= maxi

\* Slip (ReadsOnlyReady): lowers maxi with the last slot.
LowerMaxi == maxi' = (IF count = maxi THEN maxi - 1 ELSE maxi)

LeaveMaxi == UNCHANGED maxi

\* Slip (TypeOK): marks the slot with a valid descriptor.
FreedFd == 0

MinusOne == NoFd

\* close( fd ): what the client still had on the way is lost.
CloseSlot ==
    /\ fds' = [fds EXCEPT ![count] = MinusOne]
    /\ sent' = sent \ {fds[count]}
    /\ hungup' = hungup \ {fds[count]}
    /\ LeaveMaxi

SkipSlot ==
    /\ AtSlot
    /\ fds[count] = NoFd \/ ~revents[count]
    /\ count' = count + 1
    /\ UNCHANGED <<fds, revents, maxi, round, pc, clients, closeSocket>>

\* The slot read() is called for; it blocks until the client is readable, SIGINT
\* or not: signal() has interrupted calls restarted.
Reads == AtSlot /\ fds[count] # NoFd /\ revents[count]

\* read() returns a request, which is answered; EXIT closes the connection.
ServeSlot ==
    /\ Reads /\ fds[count] \in sent
    /\ \/ sent' = sent \ {fds[count]} /\ UNCHANGED <<fds, maxi, hungup>>
       \/ CloseSlot
    /\ count' = count + 1
    /\ UNCHANGED <<revents, round, pc, backlog, closeSocket>>

\* read() returns 0 or an error.
DropSlot ==
    /\ Reads /\ fds[count] \in hungup \ sent
    /\ CloseSlot
    /\ count' = count + 1
    /\ UNCHANGED <<revents, round, pc, backlog, closeSocket>>

\* Slip (LoopEnds): leaves only after an idle poll.
ExitWhenIdle == closeSocket /\ nready = 0

ExitTime == closeSocket

\* The handler returns; exit time is looked at here only.
CheckClose ==
    /\ pc = "handler" /\ count > maxi
    /\ pc' = IF ExitTime THEN "left" ELSE "poll"
    /\ UNCHANGED <<fds, revents, maxi, round, count, clients, closeSocket>>

----------------------------------------------------------------------------
(* clientfds comes from malloc, and server_loop sets fd of every slot but not *)
(* revents: until poll has been given a slot its revents is anything.        *)

Init ==
    /\ fds = [i \in Slots |-> NoFd]
    /\ revents \in [Slots -> BOOLEAN]
    /\ maxi = 0
    /\ nready = 0
    /\ polled = 0
    /\ count = 1
    /\ pc = "poll"
    /\ backlog = <<>>
    /\ sent = {}
    /\ hungup = {}
    /\ closeSocket = FALSE

Loop == \/ Poll \/ PollInterrupted \/ Accept \/ AcceptFull \/ AcceptFails
        \/ SkipSlot \/ ServeSlot \/ DropSlot \/ CheckClose

Next == \/ \E c \in Client : Connect(c) \/ Send(c) \/ HangUp(c)
        \/ Signal
        \/ Loop

Spec == Init /\ [][Next]_vars

\* The server thread runs; poll returns after 50 ms at the latest.
FairSpec == Spec /\ WF_vars(Loop)

----------------------------------------------------------------------------
\* Slots hold clients, the loop is where its code can be.
TypeOK ==
    /\ fds \in [Slots -> Client \cup {NoFd}]
    /\ revents \in [Slots -> BOOLEAN]
    /\ maxi \in 0..(PollSize + 1)
    /\ nready \in 0..PollSize
    /\ polled \in 0..(PollSize - 1)
    /\ count \in 1..PollSize
    /\ pc \in {"poll", "accept", "handler", "left", "undefined"}
    /\ backlog \in Seq(Client) /\ Len(backlog) <= ListenQueue
    /\ pc = "accept" => backlog # <<>>
    /\ sent \subseteq Client
    /\ hungup \subseteq Client
    /\ closeSocket \in BOOLEAN

\* Every index of clientfds the loop uses lies inside the array.
InBounds == maxi < PollSize

\* They do, through any sequence of connections opened, closed and reopened, up
\* to the moment a client is refused because every slot is taken.
InBoundsUntilFull == pc # "undefined" => InBounds

\* An accepted connection is in exactly one slot, and the next poll covers it.
PolledWhileOpen ==
    \A i, j \in Slots : fds[i] # NoFd =>
        /\ i <= maxi
        /\ fds[i] = fds[j] => i = j

\* The handler reads only where there is something to read, in every slot that
\* poll has ever been given: what it finds in revents there is what the poll of
\* this iteration wrote, however the slot was closed and reused.
ReadsOnlyReady == Reads /\ count <= polled => Readable(fds[count])

\* The server thread is in read() for a client that has sent nothing: accept has
\* just put it into a slot that no poll has been given yet, whose revents is what
\* malloc left there, and another socket was ready as well.
WaitsForSilent == Reads /\ count > polled /\ ~Readable(fds[count])

Over == pc \in {"left", "undefined"}

\* A request on an open connection is read, or the loop is over first; unless the
\* server thread stays in the read of a silent client.
RequestRead ==
    \A c \in Client :
        (Open(c) /\ c \in sent) ~> (c \notin sent \/ Over \/ []WaitsForSilent)

\* SIGINT ends the loop, however busy the clients are; unless the server thread
\* stays in the read of a silent client.
LoopEnds == closeSocket ~> (Over \/ []WaitsForSilent)
============================================================================
