------------------------------ MODULE MqttClient ------------------------------
(***************************************************************************)
(* The MQTT client of the hub (src/mqttc/mqtt.c) as the hub uses it: the    *)
(* server thread queues SUBSCRIBE, UNSUBSCRIBE and PUBLISH messages, the    *)
(* refresher thread calls mqtt_sync again and again, which first reads what *)
(* the broker acknowledged and then sends what is unsent or was not         *)
(* acknowledged in time.  client->mutex is held for one call of the server  *)
(* and for each of the two halves of mqtt_sync.                             *)
(*                                                                         *)
(* The hub publishes with QoS 0 and subscribes with QoS 0; the messages of  *)
(* QoS 1 and 2 do not occur.  RESULT messages from the broker end in the    *)
(* callback (see DeviceTable and HubLocks) and leave the queue alone.  All  *)
(* messages take the same room: Capacity is how many fit the send buffer.   *)
(* The broker and the connection to it are not the hub's code.              *)
(*                                                                         *)
(* A definition marked "Slip" is a plausible mistake in the definition that *)
(* follows it, which must make the property named beside it fail.          *)
(***************************************************************************)
EXTENDS Integers, Sequences

CONSTANTS
    Topic,      \* RESULT topics of devices
    Loaded,     \* those of the devices the hub finds in its database
    Capacity,   \* messages that fit client->mq, snd_buff bytes long
    MaxPid,     \* packet ids, the values of the LFSR
    Leftover,   \* what packet_id of a CONNECT or PINGREQ may hold: it is not set
    WireCap,    \* messages the connection takes before the broker reads one
    Timeout,    \* response_timeout, 30 s
    KeepAlive,  \* three quarters of keep_alive, 300 s
    MaxTime,    \* bound on the clock
    None        \* a message without a topic

ASSUME TopicAssumption == Loaded \subseteq Topic /\ None \notin Topic
ASSUME CapacityAssumption ==
    /\ Capacity \in Nat \ {0}
    /\ WireCap \in Nat \ {0}
\* The search for a free packet id ends.
ASSUME PidAssumption ==
    /\ MaxPid \in Nat /\ MaxPid > Capacity
    /\ Leftover \subseteq 0..MaxPid /\ Leftover # {}
ASSUME TimeAssumption ==
    Timeout \in Nat /\ KeepAlive \in Nat /\ MaxTime \in Nat

VARIABLES
    mq,                 \* the messages queued, oldest first
    pid_lfsr,           \* the last packet id given out
    error,              \* client->error
    timed_out,          \* number_of_timeouts > 0
    time_of_last_send,
    sync,               \* where the refresher is in mqtt_sync
    at,                 \* the message __mqtt_send looks at
    now,                \* MQTT_PAL_TIME()
    loading,            \* topics main has still to subscribe to at start-up
    wanted,             \* topics the hub subscribed to and did not unsubscribe
    wire, inbox,        \* on the way to the broker and from it
    broker_subs,        \* the broker's subscriptions of this session
    reset               \* the connection was reset

client == <<mq, pid_lfsr, error>>
sending == <<timed_out, time_of_last_send, at>>
hub == <<loading, wanted>>
broker == <<wire, inbox, broker_subs, reset>>
vars == <<mq, pid_lfsr, error, timed_out, time_of_last_send, sync, at, now,
          loading, wanted, wire, inbox, broker_subs, reset>>

----------------------------------------------------------------------------
(* The queue.                                                               *)

Message(type, pid, topic) ==
    [type |-> type, pid |-> pid, topic |-> topic,
     state |-> "UNSENT", time_sent |-> 0]

\* Slip (TypeOK): one message too many.
FitsOneMore(q) == Len(q) <= Capacity

Fits(q) == Len(q) < Capacity

Complete(m) == m.state = "COMPLETE"

\* Slip (NoUnknownAck): drops messages that were sent.
CleanSent(q) == SelectSeq(q, LAMBDA m : m.state = "UNSENT")

\* mqtt_mq_clean: the completed messages at the head of the queue go.
Clean(q) ==
    LET done == {n \in 0..Len(q) : \A k \in 1..n : Complete(q[k])}
        most == CHOOSE n \in done : \A k \in done : k <= n
    IN SubSeq(q, most + 1, Len(q))

\* The next packet id that no message of the queue has.
After(pid, d) == ((pid + d - 1) % MaxPid) + 1
NextPid(q, pid) ==
    LET free == {d \in 1..MaxPid :
                    \A k \in DOMAIN q : q[k].pid # After(pid, d)}
    IN After(pid, CHOOSE d \in free : \A e \in free : d <= e)

\* MQTT_CLIENT_TRY_PACK: refused once there is an error; a queue that is full even
\* after it was cleaned is such an error.
TryPack(m) ==
    IF error # "OK" THEN UNCHANGED <<mq, error>>
    ELSE LET room == IF Fits(mq) THEN mq ELSE Clean(mq) IN
         IF Fits(room)
         THEN mq' = Append(room, m) /\ UNCHANGED error
         ELSE mq' = room /\ error' = "SEND_BUFFER_IS_FULL"

Queue(type, topic) ==
    /\ pid_lfsr' = NextPid(mq, pid_lfsr)
    /\ TryPack(Message(type, pid_lfsr', topic))

\* __mqtt_ping: the packet id is left as it was in memory.
Ping ==
    /\ \E pid \in Leftover : TryPack(Message("PINGREQ", pid, None))
    /\ UNCHANGED pid_lfsr

----------------------------------------------------------------------------
(* The hub's calls.  Their results are ignored, but for TRANSMIT's.         *)

\* main subscribes to what it loaded before it starts the refresher.
Load(t) ==
    /\ sync = "starting" /\ t \in loading
    /\ Queue("SUBSCRIBE", t)
    /\ loading' = loading \ {t}
    /\ wanted' = wanted \cup {t}
    /\ UNCHANGED <<sending, sync, now, broker>>

StartRefresher ==
    /\ sync = "starting" /\ loading = {}
    /\ sync' = "sleep"
    /\ UNCHANGED <<client, sending, now, hub, broker>>

MutexFree == sync \in {"sleep", "between"}

mqtt_subscribe(t) ==
    /\ MutexFree
    /\ Queue("SUBSCRIBE", t)
    /\ wanted' = wanted \cup {t}
    /\ UNCHANGED <<sending, sync, now, loading, broker>>

mqtt_unsubscribe(t) ==
    /\ MutexFree /\ t \in wanted
    /\ Queue("UNSUBSCRIBE", t)
    /\ wanted' = wanted \ {t}
    /\ UNCHANGED <<sending, sync, now, loading, broker>>

mqtt_publish ==
    /\ MutexFree
    /\ Queue("PUBLISH", None)
    /\ UNCHANGED <<sending, sync, now, hub, broker>>

----------------------------------------------------------------------------
(* mqtt_sync: __mqtt_recv, then __mqtt_send unless there was an error.      *)

Wake ==
    /\ sync = "sleep"
    /\ sync' = "recv"
    /\ UNCHANGED <<client, sending, now, hub, broker>>

\* mqtt_mq_find: the first message of that type; with that packet id, or, where
\* there is none, not yet completed.
Finds(ack, m) ==
    /\ m.type = ack.type
    /\ IF ack.type \in {"CONNECT", "PINGREQ"}
       THEN ~Complete(m) ELSE m.pid = ack.pid

Receive ==
    /\ sync = "recv" /\ ~reset /\ inbox # <<>>
    /\ LET found == {k \in DOMAIN mq : Finds(Head(inbox), mq[k])} IN
       \/ /\ found = {}
          /\ error' = "ACK_OF_UNKNOWN"
          /\ sync' = "sleep"
          /\ UNCHANGED mq
       \/ \E k \in found :
          /\ \A j \in found : k <= j
          /\ mq' = [mq EXCEPT ![k].state = "COMPLETE"]
          /\ IF Head(inbox).refused
             THEN error' = "REFUSED" /\ sync' = "sleep"
             ELSE UNCHANGED <<error, sync>>
    /\ inbox' = Tail(inbox)
    /\ UNCHANGED <<pid_lfsr, sending, now, hub, wire, broker_subs, reset>>

\* Slip (WantedEventuallySubscribed): mqtt_sync returns if nothing was received.
AfterIdleReceive == "sleep"

AfterReceive == "between"

ReceiveNothing ==
    /\ sync = "recv" /\ ~reset /\ inbox = <<>>
    /\ sync' = AfterReceive
    /\ UNCHANGED <<client, sending, now, hub, broker>>

\* recv or send returns an error.
SocketError ==
    /\ sync \in {"recv", "send"} /\ reset
    /\ error' = "SOCKET_ERROR"
    /\ sync' = "sleep"
    /\ UNCHANGED <<mq, pid_lfsr, sending, now, hub, broker>>

\* A full queue does not keep what is in it from being sent; other errors do.
BeginSend ==
    /\ sync = "between"
    /\ sync' = IF error \in {"OK", "SEND_BUFFER_IS_FULL"} THEN "send"
                                                         ELSE "sleep"
    /\ at' = 1
    /\ UNCHANGED <<client, timed_out, time_of_last_send, now, hub, broker>>

AtMessage == sync = "send" /\ at <= Len(mq) /\ ~reset

Late(m) == m.state = "AWAITING_ACK" /\ now > m.time_sent + Timeout

\* Slip (BrokerMatches): an UNSUBSCRIBE is not waited for.
SentUnsubscribe(type) ==
    IF type \in {"PUBLISH", "UNSUBSCRIBE"} THEN "COMPLETE" ELSE "AWAITING_ACK"

SentState(type) == IF type = "PUBLISH" THEN "COMPLETE" ELSE "AWAITING_ACK"

\* mqtt_pal_sendall waits, with client->mutex, until the connection takes it all.
SendMessage ==
    /\ AtMessage
    /\ mq[at].state = "UNSENT" \/ Late(mq[at])
    /\ Len(wire) < WireCap
    /\ wire' = Append(wire, [type |-> mq[at].type, pid |-> mq[at].pid,
                             topic |-> mq[at].topic])
    /\ mq' = [mq EXCEPT ![at].state = SentState(mq[at].type),
                      ![at].time_sent = now]
    /\ timed_out' = (timed_out \/ Late(mq[at]))
    /\ time_of_last_send' = now
    /\ at' = at + 1
    /\ UNCHANGED <<pid_lfsr, error, sync, now, hub, inbox, broker_subs, reset>>

SkipMessage ==
    /\ AtMessage
    /\ mq[at].state # "UNSENT" /\ ~Late(mq[at])
    /\ at' = at + 1
    /\ UNCHANGED <<client, timed_out, time_of_last_send, sync, now, hub, broker>>

\* All messages were looked at; a ping is queued if nothing was sent for long.
EndSend ==
    /\ sync = "send" /\ at > Len(mq)
    /\ IF now > time_of_last_send + KeepAlive THEN Ping ELSE UNCHANGED client
    /\ sync' = "sleep"
    /\ UNCHANGED <<sending, now, hub, broker>>

----------------------------------------------------------------------------
(* The broker handles messages in order and acknowledges all but PUBLISH.   *)

BrokerReads ==
    /\ ~reset /\ wire # <<>>
    /\ LET m == Head(wire) IN
       /\ broker_subs' = CASE m.type = "SUBSCRIBE" -> broker_subs \cup {m.topic}
                           [] m.type = "UNSUBSCRIBE" -> broker_subs \ {m.topic}
                           [] OTHER -> broker_subs
       /\ inbox' = IF m.type = "PUBLISH" THEN inbox
                   ELSE Append(inbox, [type |-> m.type, pid |-> m.pid,
                                       refused |-> FALSE])
    /\ wire' = Tail(wire)
    /\ UNCHANGED <<client, sending, sync, now, hub, reset>>

\* It may refuse the session, or a subscription.
BrokerRefuses ==
    /\ ~reset /\ wire # <<>>
    /\ Head(wire).type \in {"CONNECT", "SUBSCRIBE"}
    /\ inbox' = Append(inbox, [type |-> Head(wire).type, pid |-> Head(wire).pid,
                               refused |-> TRUE])
    /\ wire' = Tail(wire)
    /\ UNCHANGED <<client, sending, sync, now, hub, broker_subs, reset>>

\* The connection breaks: what was on the way is lost, and so is the session.
Reset ==
    /\ ~reset
    /\ reset' = TRUE
    /\ wire' = <<>> /\ inbox' = <<>> /\ broker_subs' = {}
    /\ UNCHANGED <<client, sending, sync, now, hub>>

Tick ==
    /\ now < MaxTime
    /\ now' = now + 1
    /\ UNCHANGED <<client, sending, sync, hub, broker>>

----------------------------------------------------------------------------
\* initialize_mqtt has queued the CONNECT.
Init ==
    /\ \E pid \in Leftover : mq = <<Message("CONNECT", pid, None)>>
    /\ pid_lfsr = MaxPid
    /\ error = "OK"
    /\ timed_out = FALSE
    /\ time_of_last_send = 0
    /\ sync = "starting"
    /\ at = 1
    /\ now = 0
    /\ loading = Loaded
    /\ wanted = {}
    /\ wire = <<>> /\ inbox = <<>>
    /\ broker_subs = {}
    /\ reset = FALSE

Startup == (\E t \in Topic : Load(t)) \/ StartRefresher

Request == \/ \E t \in Topic : mqtt_subscribe(t) \/ mqtt_unsubscribe(t)
           \/ mqtt_publish

Refresher == \/ Wake \/ Receive \/ ReceiveNothing \/ SocketError
             \/ BeginSend \/ SendMessage \/ SkipMessage \/ EndSend

Broker == BrokerReads \/ BrokerRefuses \/ Reset

Next == Startup \/ Request \/ Refresher \/ Broker \/ Tick

Spec == Init /\ [][Next]_vars

\* main and the refresher run, and the broker reads what it is sent.
FairSpec == Spec /\ WF_vars(Startup) /\ WF_vars(Refresher)
                 /\ WF_vars(BrokerReads \/ BrokerRefuses)

----------------------------------------------------------------------------
Type == {"CONNECT", "SUBSCRIBE", "UNSUBSCRIBE", "PUBLISH", "PINGREQ"}
Errors == {"OK", "SEND_BUFFER_IS_FULL", "ACK_OF_UNKNOWN", "SOCKET_ERROR",
           "REFUSED"}   \* CONNECTION_REFUSED or SUBSCRIBE_FAILED

\* The queue never outgrows the send buffer, and holds messages in a state the
\* send loop knows.
TypeOK ==
    /\ \A k \in DOMAIN mq :
          mq[k] \in [type : Type, pid : 0..MaxPid, topic : Topic \cup {None},
                     state : {"UNSENT", "AWAITING_ACK", "COMPLETE"},
                     time_sent : 0..MaxTime]
    /\ Len(mq) <= Capacity
    /\ pid_lfsr \in 1..MaxPid
    /\ error \in Errors
    /\ timed_out \in BOOLEAN
    /\ time_of_last_send \in 0..MaxTime
    /\ sync \in {"starting", "sleep", "recv", "between", "send"}
    /\ at \in 1..(Capacity + 1)
    /\ now \in 0..MaxTime
    /\ loading \subseteq Loaded
    /\ wanted \subseteq Topic
    /\ Len(wire) <= WireCap
    /\ broker_subs \subseteq Topic
    /\ reset \in BOOLEAN

\* As long as the broker answers in time, every acknowledgement finds its message,
\* whatever was cleaned from the queue in between: an unknown one would end all
\* traffic for good.
NoUnknownAck == ~timed_out => error # "ACK_OF_UNKNOWN"

Settled == \A k \in DOMAIN mq :
               mq[k].type \in {"SUBSCRIBE", "UNSUBSCRIBE"} => Complete(mq[k])

\* Once the client takes every subscription and unsubscription for done, the
\* broker's subscriptions are those the hub wants, in whatever order they were
\* asked for and sent, if none had to be sent twice.
BrokerMatches ==
    (Settled /\ sync # "starting" /\ error = "OK" /\ ~timed_out /\ ~reset)
        => broker_subs = wanted

\* A topic the hub wants is subscribed at the broker in the end, unless the client
\* has failed or a message was sent twice.
WantedEventuallySubscribed ==
    \A t \in Topic :
        t \in wanted ~> \/ t \in broker_subs \/ t \notin wanted
                        \/ error # "OK" \/ timed_out \/ reset

\* When the refresher starts, every device found in the database is subscribed to.
LoadedSubscribed ==
    (sync = "starting" /\ loading = {}) =>
        \A t \in Loaded : \E k \in DOMAIN mq :
            mq[k].type = "SUBSCRIBE" /\ mq[k].topic = t
============================================================================
