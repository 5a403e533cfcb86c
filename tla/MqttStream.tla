----------------------------- MODULE MqttStream -----------------------------
(***************************************************************************)
(* The connection to the broker below the messages: how the refresher cuts  *)
(* the bytes it receives into messages (__mqtt_recv of src/mqttc/mqtt.c and *)
(* mqtt_pal_recvall), how it sends (mqtt_pal_sendall), and what it notices  *)
(* when the connection ends.  What messages mean is in MqttClient.          *)
(*                                                                         *)
(* A byte is named after its place: <<i, k>> is byte k of the i-th message  *)
(* the broker has sent.  The connection ends by a FIN ("closed") or by a    *)
(* reset; a FIN is followed by a reset once the hub has sent something      *)
(* ("gone").  A peer that disappears without a word is left out.            *)
(*                                                                         *)
(* A definition marked "Slip" is a plausible mistake in the definition that *)
(* follows it.                                                              *)
(***************************************************************************)
EXTENDS Integers, Sequences

CONSTANTS
    Message,    \* what the broker sends
    Size,       \* Size[m]: bytes of m, its header included
    Refused,    \* messages whose handling ends in an error, such as an
                \* acknowledgement of nothing
    RecvBuff,   \* conf->recv_buff
    OutSize,    \* bytes of a message to the broker
    WireCap,    \* bytes the kernel takes before the broker reads some
    MaxSent,    \* bound on what the broker sends
    MaxUnsent   \* bound on what waits to be sent

ASSUME SizeAssumption ==
    /\ Refused \subseteq Message
    /\ \A m \in Message : Size[m] \in Nat \ {0, 1}
    /\ RecvBuff \in Nat \ {0}
    /\ OutSize \in Nat \ {0} /\ WireCap \in Nat \ {0}
    /\ MaxSent \in Nat /\ MaxUnsent \in Nat \ {0}

VARIABLES
    sent,       \* the messages the broker has sent
    net,        \* their bytes the hub has not read
    arrived,    \* how many of these are in the hub's kernel
    mem,        \* recv_buffer from mem_start to curr
    handled,    \* the bytes of each message handled
    error,      \* client->error
    pc,         \* the refresher: sleeping, in a half of mqtt_sync or between
    unsent,     \* messages waiting to be sent
    offset,     \* bytes of the first one that sendall has sent
    out,        \* bytes on the way to the broker
    conn        \* the connection

receiving == <<sent, net, arrived, mem, handled>>
sending == <<unsent, offset, out>>
vars == <<receiving, error, pc, sending, conn>>

----------------------------------------------------------------------------
(* The broker and the network.                                              *)

Bytes(i, m) == [k \in 1..Size[m] |-> <<i, k>>]

BrokerSends(m) ==
    /\ conn = "up" /\ Len(sent) < MaxSent
    /\ sent' = Append(sent, m)
    /\ net' = net \o Bytes(Len(sent'), m)
    /\ UNCHANGED <<arrived, mem, handled, error, pc, sending, conn>>

Arrive ==
    /\ conn \in {"up", "closed", "gone"}
    /\ \E n \in arrived + 1..Len(net) : arrived' = n
    /\ UNCHANGED <<sent, net, mem, handled, error, pc, sending, conn>>

BrokerReads ==
    /\ conn = "up" /\ out > 0
    /\ \E n \in 0..out - 1 : out' = n
    /\ UNCHANGED <<receiving, error, pc, unsent, offset, conn>>

Close ==
    /\ conn = "up" /\ out = 0
    /\ conn' = "closed"
    /\ UNCHANGED <<receiving, error, pc, sending>>

\* The broker's machine answers what is sent to a closed socket.
ResetAfterClose ==
    /\ conn = "closed" /\ out > 0
    /\ conn' = "gone"
    /\ UNCHANGED <<receiving, error, pc, sending>>

\* What is still on its way is lost.
Reset ==
    /\ conn = "up"
    /\ conn' = "reset"
    /\ net' = SubSeq(net, 1, arrived)
    /\ UNCHANGED <<sent, arrived, mem, handled, error, pc, sending>>

----------------------------------------------------------------------------
(* __mqtt_recv.  client->mutex is held while pc is "read" or "parse".       *)

\* Slip (HandledOrTooLong): the refresher looks at mqtt_sync's result.
WakeUnlessFailed ==
    /\ pc = "sleep" /\ error = "OK"
    /\ pc' = "read"
    /\ UNCHANGED <<receiving, error, sending, conn>>

Wake ==
    /\ pc = "sleep"
    /\ pc' = "read"
    /\ UNCHANGED <<receiving, error, sending, conn>>

\* Slip (TypeOK): curr_sz is not taken down.
RoomAtStart == RecvBuff

\* curr_sz
Room == RecvBuff - Len(mem)

\* recvall reads until there is no room or nothing more, a FIN included.  What
\* arrived before a reset is read before recv tells of it.
Recvall ==
    LET n == IF arrived < Room THEN arrived ELSE Room
    IN  /\ pc = "read" /\ (conn = "reset" => arrived >= Room)
        /\ mem' = mem \o SubSeq(net, 1, n)
        /\ net' = SubSeq(net, n + 1, Len(net))
        /\ arrived' = arrived - n
        /\ pc' = "parse"
        /\ UNCHANGED <<sent, handled, error, sending, conn>>

\* After the reset was seen once, recv returns 0.  What recvall had read before
\* it is not counted.
RecvFails ==
    /\ pc = "read" /\ conn = "reset" /\ arrived < Room
    /\ error' = "SOCKET_ERROR"
    /\ conn' = "off"
    /\ net' = <<>> /\ arrived' = 0
    /\ pc' = "sleep"
    /\ UNCHANGED <<sent, mem, handled, sending>>

\* The bytes of the message whose header is at mem_start.
Consumed == Size[sent[mem[1][1]]]

\* mqtt_unpack_fixed_header: the length is there and so many bytes.
Whole == mem # <<>> /\ Len(mem) >= Consumed

\* Slip (NothingLost): empties the buffer, with the start of the next message.
EmptyBuffer(n) == <<>>

\* The memmove.
Rest(n) == SubSeq(mem, n + 1, Len(mem))

\* Only an error ends the loop before the next read.
Handle ==
    /\ pc = "parse" /\ Whole
    /\ handled' = Append(handled, SubSeq(mem, 1, Consumed))
    /\ mem' = Rest(Consumed)
    /\ IF sent[mem[1][1]] \in Refused
       THEN error' = "ACK_OF_UNKNOWN" /\ pc' = "sleep"
       ELSE UNCHANGED error /\ pc' = "read"
    /\ UNCHANGED <<sent, net, arrived, sending, conn>>

NoRoom == Room = 0

\* The buffer is not emptied, so this error comes back at every call.
TooSmall ==
    /\ pc = "parse" /\ ~Whole /\ NoRoom
    /\ error' = "RECV_BUFFER_TOO_SMALL"
    /\ pc' = "sleep"
    /\ UNCHANGED <<receiving, sending, conn>>

AwaitRest ==
    /\ pc = "parse" /\ ~Whole /\ ~NoRoom
    /\ pc' = "between"
    /\ UNCHANGED <<receiving, error, sending, conn>>

----------------------------------------------------------------------------
(* __mqtt_send.  client->mutex is held while pc is "send".                  *)

\* A request, which finds the mutex free.
Request ==
    /\ pc \in {"sleep", "between"} /\ error = "OK"
    /\ unsent < MaxUnsent
    /\ unsent' = unsent + 1
    /\ UNCHANGED <<receiving, error, pc, offset, out, conn>>

BeginSend ==
    /\ pc = "between"
    /\ pc' = IF error = "OK" THEN "send" ELSE "sleep"
    /\ UNCHANGED <<receiving, error, sending, conn>>

\* sendall sends a byte or more, and tries again for ever at EAGAIN.
SendSome ==
    /\ pc = "send" /\ unsent > 0 /\ conn \in {"up", "closed"}
    /\ \E n \in 1..OutSize - offset :
           /\ out + n <= WireCap
           /\ out' = out + n
           /\ offset' = (offset + n) % OutSize
    /\ unsent' = IF offset' = 0 THEN unsent - 1 ELSE unsent
    /\ UNCHANGED <<receiving, error, pc, conn>>

SendFails ==
    /\ pc = "send" /\ unsent > 0 /\ conn = "reset"
    /\ error' = "SOCKET_ERROR"
    /\ conn' = "off"
    /\ offset' = 0
    /\ pc' = "sleep"
    /\ UNCHANGED <<receiving, unsent, out>>

\* SIGPIPE, which the hub does not handle.
BrokenPipe ==
    /\ pc = "send" /\ unsent > 0 /\ conn = "gone"
    /\ pc' = "killed"
    /\ UNCHANGED <<receiving, error, sending, conn>>

EndSend ==
    /\ pc = "send" /\ unsent = 0
    /\ pc' = "sleep"
    /\ UNCHANGED <<receiving, error, sending, conn>>

\* Slip (ClosedIsNoticed): keep-alive only while data comes in.
PingWhileReceiving == arrived > 0

\* Nothing was sent for three quarters of keep_alive.
PingDue == unsent = 0

\* __mqtt_ping; the next call sends it.
Ping ==
    /\ pc = "send" /\ PingDue
    /\ unsent' = unsent + 1
    /\ pc' = "sleep"
    /\ UNCHANGED <<receiving, error, offset, out, conn>>

----------------------------------------------------------------------------
Init ==
    /\ sent = <<>> /\ net = <<>> /\ arrived = 0
    /\ mem = <<>> /\ handled = <<>>
    /\ error = "OK" /\ pc = "sleep"
    /\ unsent = 0 /\ offset = 0 /\ out = 0
    /\ conn = "up"

Refresher ==
    \/ Wake \/ Recvall \/ RecvFails \/ Handle \/ TooSmall \/ AwaitRest
    \/ BeginSend \/ SendSome \/ SendFails \/ BrokenPipe \/ EndSend

Network ==
    \/ \E m \in Message : BrokerSends(m)
    \/ Arrive \/ BrokerReads \/ Close \/ ResetAfterClose \/ Reset

Next == Refresher \/ Ping \/ Request \/ Network

Spec == Init /\ [][Next]_vars

\* The thread runs, its clock goes on until a ping is due, bytes arrive, and the
\* broker reads while it is there.  It need not send, nor need anything end.
FairSpec ==
    /\ Spec
    /\ WF_vars(Refresher) /\ SF_vars(Ping)
    /\ WF_vars(Arrive) /\ WF_vars(BrokerReads) /\ WF_vars(ResetAfterClose)

----------------------------------------------------------------------------
\* The state is well-typed: the buffer and the wire never hold more than they
\* have room for.
TypeOK ==
    /\ sent \in Seq(Message)
    /\ arrived \in 0..Len(net)
    /\ Len(mem) <= RecvBuff
    /\ Len(handled) <= Len(sent)
    /\ error \in {"OK", "SOCKET_ERROR", "ACK_OF_UNKNOWN",
                  "RECV_BUFFER_TOO_SMALL"}
    /\ pc \in {"sleep", "read", "parse", "between", "send", "killed"}
    /\ unsent \in 0..MaxUnsent /\ offset \in 0..OutSize - 1
    /\ out \in 0..WireCap
    /\ conn \in {"up", "closed", "gone", "reset", "off"}

\* The byte that follows byte b in what the broker has sent.
After(b) == IF b[2] < Size[sent[b[1]]] THEN <<b[1], b[2] + 1>>
                                       ELSE <<b[1] + 1, 1>>

\* However the network cuts the stream, every message is handled whole and in
\* its turn, and what is not handled is in the buffer and on the way without a
\* gap, from the first message not handled to the last one sent, or up to where a
\* reset has cut it.
NothingLost ==
    /\ \A i \in 1..Len(handled) : handled[i] = Bytes(i, sent[i])
    /\ LET left == mem \o net
       IN  /\ left # <<>> => left[1] = <<Len(handled) + 1, 1>>
           /\ \A q \in 1..Len(left) : left[q][1] <= Len(sent)
           /\ \A q \in 2..Len(left) : left[q] = After(left[q - 1])
           /\ conn \in {"up", "closed", "gone"} =>
                  IF left = <<>> THEN Len(handled) = Len(sent)
                  ELSE After(left[Len(left)]) = <<Len(sent) + 1, 1>>

\* Every message the broker sends is handled, also after the client has failed
\* over an acknowledgement, unless it or one before it is too long for the
\* buffer, the connection is reset, or the hub has ended.
TooLong(i) == \E j \in 1..Len(sent) : j <= i /\ Size[sent[j]] > RecvBuff

HandledOrTooLong ==
    \A i \in 1..MaxSent :
        (Len(sent) >= i) ~> \/ Len(handled) >= i
                            \/ TooLong(i)
                            \/ conn \in {"reset", "off"}
                            \/ pc = "killed"

\* The hub does not sit for ever before a broker that has closed the connection:
\* its pings meet a reset, and the process ends, unless the client had failed.
ClosedIsNoticed == (conn = "closed") ~> (pc = "killed" \/ error # "OK")
=============================================================================
