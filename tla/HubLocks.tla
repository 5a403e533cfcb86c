------------------------------ MODULE HubLocks ------------------------------
(***************************************************************************)
(* The three threads of the hub and what they share: the server thread     *)
(* (main, in server_loop), the refresher (client_refresher: mqtt_sync) and *)
(* the updater (db_updater).  The table of devices is guarded by the       *)
(* semaphore `mutex` and then by `lock`, the queue of the MQTT client by   *)
(* client->mutex, SQLite's connection by a mutex of its own.  The module   *)
(* follows every acquisition and release, SIGINT, and the exit of main,    *)
(* which cancels the other two threads at their cancellation points; a     *)
(* thread that ends there gives nothing back.                              *)
(*                                                                         *)
(* What a section does to the table is the subject of DeviceTable; here it *)
(* is the calls it makes on the MQTT client and the slots it stages.       *)
(*                                                                         *)
(* A definition marked "Slip" is a plausible mistake in the definition that *)
(* follows it, which must make the property named beside it fail.          *)
(***************************************************************************)
EXTENDS Naturals, Sequences

CONSTANTS
    Requests,   \* the requests clients make, a part of Commands
    Messages,   \* TRUE when the broker sends messages on RESULT topics
    Slot,       \* slots a change can be staged in
    MaxReady,   \* connections with a request after one poll, POLL_SIZE - 1
    None        \* nobody holds it

Threads == {"server", "refresher", "updater"}
Helpers == {"refresher", "updater"}
Commands == {"ADD", "DELETE", "NAME", "TOPIC", "STATE", "SET", "TOGGLE",
             "LIST", "STATUS", "TRANSMIT"}

ASSUME RequestsAssumption == Requests \subseteq Commands /\ Requests # {}
ASSUME MessagesAssumption == Messages \in BOOLEAN
ASSUME ReadyAssumption == MaxReady \in Nat \ {0}
ASSUME NoneAssumption == None \notin Threads

VARIABLES
    pc,            \* where each thread is
    mutex,         \* the semaphore, 0 or 1
    lock,          \* owner of lock, or None
    client_mutex,  \* owner of client->mutex, or None
    sqlite,        \* owner of the mutex of the SQLite connection, or None
    ready,         \* connections the handler has still to serve
    calls,         \* MQTT calls the current request has still to make
    stages,        \* TRUE if the current request stages a change
    to_change,     \* slots with a change staged
    canceled,      \* threads pthread_cancel was called for
    closeSocket

vars == <<pc, mutex, lock, client_mutex, sqlite, ready, calls, stages,
          to_change, canceled, closeSocket>>
locks == <<mutex, lock, client_mutex, sqlite>>
request == <<ready, calls, stages>>

Goto(t, label) == pc' = [pc EXCEPT ![t] = label]

\* Labels at which a helper is inside a function that is a cancellation point:
\* usleep, sem_wait, recv, send, and the file accesses of a SQL statement.
\* Slip (HelpersJoined): the table is guarded by pthread_mutex_lock alone.
CancelPointsWithoutSemaphore == {"sleep", "recv", "send", "exec"}

CancelPoints == {"sleep", "sem_wait", "recv", "send", "exec"}

\* A cancelled helper does not get past a cancellation point; __mqtt_send and
\* insert_db_entry have paths without one.
Alive(t) == ~(t \in canceled /\ pc[t] \in CancelPoints \ {"send", "exec"})

----------------------------------------------------------------------------
(* The section on the table: sem_wait(mutex), pthread_mutex_lock(lock), the *)
(* work, pthread_mutex_unlock(lock), sem_post(mutex).                       *)

SemWait(t) ==
    /\ pc[t] = "sem_wait" /\ Alive(t)
    /\ mutex = 1
    /\ mutex' = 0
    /\ Goto(t, "lock")
    /\ UNCHANGED <<lock, client_mutex, sqlite, request, to_change, canceled,
                   closeSocket>>

Lock(t) ==
    /\ pc[t] = "lock"
    /\ lock = None
    /\ lock' = t
    /\ Goto(t, "table")
    /\ UNCHANGED <<mutex, client_mutex, sqlite, request, to_change, canceled,
                   closeSocket>>

\* The work of the section is done.
Finished(t) ==
    CASE t = "server" -> pc[t] = "table" /\ calls = <<>> /\ ~stages
      [] t = "updater" -> pc[t] = "table" /\ to_change = {}
      [] t = "refresher" -> pc[t] = "delivered"

\* Slip (WaitsEnd): pthread_mutex_unlock is missing.
KeepLock == UNCHANGED lock

ReleaseLock == lock' = None

Unlock(t) ==
    /\ Finished(t)
    /\ ReleaseLock
    /\ Goto(t, "sem_post")
    /\ UNCHANGED <<mutex, client_mutex, sqlite, request, to_change, canceled,
                   closeSocket>>

Outside(t) == CASE t = "server" -> "handler"
                [] t = "refresher" -> "recv"
                [] t = "updater" -> "sleep"

\* Slip (AnsweredOrCrosswise): an early return without sem_post.
KeepSemaphore == UNCHANGED mutex

\* Slip (TypeOK): an error path posts, and falls through to the common post.
PostTwice == mutex' = mutex + 2

PostSemaphore == mutex' = mutex + 1

SemPost(t) ==
    /\ pc[t] = "sem_post"
    /\ PostSemaphore
    /\ Goto(t, Outside(t))
    /\ UNCHANGED <<lock, client_mutex, sqlite, request, to_change, canceled,
                   closeSocket>>

\* A change of some slot is staged, or joins what is staged there.
StageSome == \E s \in Slot : to_change' = to_change \cup {s}

----------------------------------------------------------------------------
(* The server thread.                                                       *)

Outcome(made, staged) == [calls |-> made, stages |-> staged]

\* What a request may do in its section: nothing, when its arguments or the table
\* do not allow it, or the calls and changes of its handler.
Outcomes(r) ==
    {Outcome(<<>>, FALSE)} \cup
    CASE r = "ADD" -> {Outcome(<<"subscribe", "publish">>, TRUE)}
      [] r = "DELETE" -> {Outcome(<<"unsubscribe">>, TRUE)}
      [] r = "NAME" -> {Outcome(<<>>, TRUE)}
      [] r = "TOPIC" ->
             {Outcome(<<"publish", "unsubscribe", "subscribe">>, TRUE)}
      [] r = "STATE" -> {Outcome(<<"publish">>, TRUE)}
      [] r \in {"SET", "TOGGLE"} -> {Outcome(<<"publish">>, FALSE)}
      [] r \in {"LIST", "STATUS"} -> {}

\* poll returns: clients have sent some requests, or its 50 ms are over.
Poll == /\ pc["server"] = "poll"
        /\ ready' \in 0..MaxReady
        /\ Goto("server", "handler")
        /\ UNCHANGED <<locks, calls, stages, to_change, canceled, closeSocket>>

\* A signal interrupts poll, or accept fails: server_loop ends at once.
LeaveLoop ==
    /\ pc["server"] = "poll"
    /\ Goto("server", "cancel")
    /\ UNCHANGED <<locks, request, to_change, canceled, closeSocket>>

\* A request that looks at the table.
TableRequest ==
    /\ pc["server"] = "handler" /\ ready > 0
    /\ \E r \in Requests \ {"TRANSMIT"} : \E o \in Outcomes(r) :
           calls' = o.calls /\ stages' = o.stages
    /\ ready' = ready - 1
    /\ Goto("server", "sem_wait")
    /\ UNCHANGED <<locks, to_change, canceled, closeSocket>>

\* TRANSMIT publishes without the section.
Transmit ==
    /\ pc["server"] = "handler" /\ ready > 0
    /\ "TRANSMIT" \in Requests
    /\ calls' = <<"publish">> /\ stages' = FALSE
    /\ ready' = ready - 1
    /\ Goto("server", "mqtt_lock")
    /\ UNCHANGED <<locks, to_change, canceled, closeSocket>>

\* mqtt_unsubscribe takes its packet id before it takes client->mutex; the other
\* calls take it inside.
BeginCall ==
    /\ pc["server"] = "table" /\ calls # <<>>
    /\ Goto("server",
            IF Head(calls) = "unsubscribe" THEN "next_pid" ELSE "mqtt_lock")
    /\ UNCHANGED <<locks, request, to_change, canceled, closeSocket>>

NextPid ==
    /\ pc["server"] = "next_pid"
    /\ Goto("server", "mqtt_lock")
    /\ UNCHANGED <<locks, request, to_change, canceled, closeSocket>>

EndCall ==
    /\ pc["server"] = "mqtt_call"
    /\ client_mutex' = None
    /\ calls' = Tail(calls)
    /\ Goto("server", IF lock = "server" THEN "table" ELSE "handler")
    /\ UNCHANGED <<mutex, lock, sqlite, ready, stages, to_change, canceled,
                   closeSocket>>

StageChange ==
    /\ pc["server"] = "table" /\ calls = <<>> /\ stages
    /\ StageSome
    /\ stages' = FALSE
    /\ UNCHANGED <<pc, locks, ready, calls, canceled, closeSocket>>

\* Slip (ExitOrHang): leaves only when nothing is left to be written.
ExitWhenWritten == closeSocket /\ to_change = {}

ExitTime == closeSocket

\* server_loop looks at closeSocket when the handler has served everybody.
CheckClose ==
    /\ pc["server"] = "handler" /\ ready = 0
    /\ Goto("server", IF ExitTime THEN "cancel" ELSE "poll")
    /\ UNCHANGED <<locks, request, to_change, canceled, closeSocket>>

----------------------------------------------------------------------------
(* The exit of main: two pthread_cancel, two pthread_join, sqlite3_close,   *)
(* and the release of the table and of the MQTT client.                     *)

CancelHelpers ==
    /\ pc["server"] = "cancel"
    /\ IF "refresher" \in canceled
       THEN canceled' = Helpers /\ Goto("server", "join")
       ELSE canceled' = {"refresher"} /\ UNCHANGED pc
    /\ UNCHANGED <<locks, request, to_change, closeSocket>>

Join ==
    /\ pc["server"] = "join"
    /\ \A t \in Helpers : pc[t] = "ended"
    /\ Goto("server", "close")
    /\ UNCHANGED <<locks, request, to_change, canceled, closeSocket>>

\* sqlite3_close needs the mutex of the connection; then cleanup and return.
Close ==
    /\ pc["server"] = "close" /\ sqlite = None
    /\ Goto("server", "exited")
    /\ UNCHANGED <<locks, request, to_change, canceled, closeSocket>>

\* SIGINT: the handler may run in any thread, at any time.
Signal == /\ ~closeSocket
          /\ closeSocket' = TRUE
          /\ UNCHANGED <<pc, locks, request, to_change, canceled>>

\* pthread_cancel takes effect.
Cancel(t) ==
    /\ t \in canceled /\ pc[t] \in CancelPoints
    /\ Goto(t, "ended")
    /\ UNCHANGED <<locks, request, to_change, canceled, closeSocket>>

----------------------------------------------------------------------------
(* client->mutex is taken by the server in its calls and by the refresher   *)
(* three times in mqtt_sync: to look at the error, to receive, to send.     *)

ClientLabel == [mqtt_lock |-> "mqtt_call", sync_lock |-> "sync",
                recv_lock |-> "recv", send_lock |-> "send"]

ClientLock(t) ==
    /\ pc[t] \in DOMAIN ClientLabel
    /\ client_mutex = None
    /\ client_mutex' = t
    /\ Goto(t, ClientLabel[pc[t]])
    /\ UNCHANGED <<mutex, lock, sqlite, request, to_change, canceled,
                   closeSocket>>

----------------------------------------------------------------------------
(* The refresher.                                                           *)

RefresherWakes ==
    /\ pc["refresher"] = "sleep" /\ Alive("refresher")
    /\ Goto("refresher", "sync_lock")
    /\ UNCHANGED <<locks, request, to_change, canceled, closeSocket>>

SyncNext == [sync |-> "recv_lock", recv |-> "send_lock", send |-> "sleep"]

\* The end of one of the three, with or without an error of the broker's.
ClientUnlock ==
    /\ pc["refresher"] \in DOMAIN SyncNext /\ Alive("refresher")
    /\ client_mutex' = None
    /\ \E next \in {SyncNext[pc["refresher"]]} \cup
                   (IF pc["refresher"] = "recv" THEN {"sleep"} ELSE {}) :
           Goto("refresher", next)
    /\ UNCHANGED <<mutex, lock, sqlite, request, to_change, canceled,
                   closeSocket>>

\* Slip (TableExclusive): the callback takes neither mutex nor lock.
CallbackUnlocked == "table"

CallbackEntry == "sem_wait"

\* A message: publish_kl_callback is called while client->mutex is held.
Receive ==
    /\ pc["refresher"] = "recv" /\ Alive("refresher") /\ Messages
    /\ Goto("refresher", CallbackEntry)
    /\ UNCHANGED <<locks, request, to_change, canceled, closeSocket>>

\* The message is from a listed device, or from none.
Deliver ==
    /\ pc["refresher"] = "table"
    /\ StageSome \/ UNCHANGED to_change
    /\ Goto("refresher", "delivered")
    /\ UNCHANGED <<locks, request, canceled, closeSocket>>

----------------------------------------------------------------------------
(* The updater.                                                             *)

UpdaterWakes ==
    /\ pc["updater"] = "sleep" /\ Alive("updater")
    /\ Goto("updater", "sem_wait")
    /\ UNCHANGED <<locks, request, to_change, canceled, closeSocket>>

BeginExec ==
    /\ pc["updater"] = "table" /\ to_change # {}
    /\ sqlite = None
    /\ sqlite' = "updater"
    /\ Goto("updater", "exec")
    /\ UNCHANGED <<mutex, lock, client_mutex, request, to_change, canceled,
                   closeSocket>>

\* Slip (WrittenOrCrosswise): to_change[i] = -1 is missing.
KeepStaged == UNCHANGED to_change

ClearStaged == \E s \in to_change : to_change' = to_change \ {s}

EndExec ==
    /\ pc["updater"] = "exec" /\ Alive("updater")
    /\ sqlite' = None
    /\ ClearStaged
    /\ Goto("updater", "table")
    /\ UNCHANGED <<mutex, lock, client_mutex, request, canceled, closeSocket>>

----------------------------------------------------------------------------
Init ==
    /\ pc = [t \in Threads |-> IF t = "server" THEN "poll" ELSE "sleep"]
    /\ mutex = 1
    /\ lock = None
    /\ client_mutex = None
    /\ sqlite = None
    /\ ready = 0
    /\ calls = <<>>
    /\ stages = FALSE
    /\ to_change = {}
    /\ canceled = {}
    /\ closeSocket = FALSE

\* The steps that wait for somebody else.
Acquire(t) == SemWait(t) \/ Lock(t) \/ ClientLock(t)

Release(t) == Unlock(t) \/ SemPost(t)

Server == \/ Poll \/ LeaveLoop \/ TableRequest \/ Transmit \/ BeginCall
          \/ NextPid \/ EndCall \/ StageChange \/ CheckClose
          \/ CancelHelpers \/ Join \/ Close
Refresher == RefresherWakes \/ ClientUnlock \/ Receive \/ Deliver
Updater == UpdaterWakes \/ BeginExec \/ EndExec

Next == \/ \E t \in Threads : Acquire(t) \/ Release(t)
        \/ \E t \in Helpers : Cancel(t)
        \/ Server \/ Refresher \/ Updater \/ Signal

Spec == Init /\ [][Next]_vars

\* Threads run.  A thread that waits for the semaphore or a mutex gets it if it
\* becomes free again and again: the others sleep or wait in poll outside their
\* sections.  The broker does not send without a pause.
Fairness ==
    /\ \A t \in Threads : SF_vars(Acquire(t)) /\ WF_vars(Release(t))
    /\ \A t \in Helpers : WF_vars(Cancel(t))
    /\ WF_vars(Server) /\ WF_vars(Updater)
    /\ WF_vars(RefresherWakes) /\ WF_vars(Deliver)
    /\ SF_vars(ClientUnlock)

FairSpec == Spec /\ Fairness

----------------------------------------------------------------------------
ServerLabel == {"poll", "handler", "sem_wait", "lock", "table", "next_pid",
                "mqtt_lock", "mqtt_call", "sem_post", "cancel", "join",
                "close", "exited"}
RefresherLabel == {"sleep", "sync_lock", "sync", "recv_lock", "recv",
                   "sem_wait", "lock", "table", "delivered", "sem_post",
                   "send_lock", "send", "ended"}
UpdaterLabel == {"sleep", "sem_wait", "lock", "table", "exec", "sem_post",
                 "ended"}
Call == {"publish", "subscribe", "unsubscribe"}

\* The threads are where their code can be, locks have owners or none, and the
\* semaphore, posted at one place per section, never counts beyond 1.
TypeOK ==
    /\ pc \in [Threads -> ServerLabel \cup RefresherLabel \cup UpdaterLabel]
    /\ pc["server"] \in ServerLabel
    /\ pc["refresher"] \in RefresherLabel
    /\ pc["updater"] \in UpdaterLabel
    /\ mutex \in 0..1
    /\ lock \in Threads \cup {None}
    /\ client_mutex \in {"server", "refresher", None}
    /\ sqlite \in {"updater", None}
    /\ ready \in 0..MaxReady
    /\ calls \in Seq(Call)
    /\ stages \in BOOLEAN
    /\ to_change \subseteq Slot
    /\ canceled \subseteq Helpers
    /\ closeSocket \in BOOLEAN

InTable(t) == pc[t] \in {"table", "next_pid", "delivered", "exec"}

\* Whoever reads or changes the device table owns lock, whatever the other two
\* threads do and wherever one of them was cancelled.
TableExclusive == \A t \in Threads : InTable(t) => lock = t

\* Nobody ever waits for lock: whoever has passed the semaphore finds it free.
\* A helper that waited there could not be cancelled, and main would wait for it.
NobodyWaitsForLock == \A t \in Threads : pc[t] = "lock" => lock = None

\* The server waits for the MQTT client inside its section while the refresher
\* waits for the section inside the MQTT client.
CircularWait ==
    /\ pc["server"] = "mqtt_lock" /\ lock = "server"
    /\ pc["refresher"] = "sem_wait" /\ client_mutex = "refresher"

\* Between sem_wait and sem_post; a thread cancelled there keeps lock, and with it
\* the semaphore.
Inside(t) == pc[t] \in {"lock", "sem_post"} \/ lock = t

\* The thread cannot go on; in sem_wait it can still be cancelled.
Blocked(t) ==
    \/ pc[t] = "sem_wait" /\ mutex = 0 /\ t \notin canceled
    \/ pc[t] = "lock" /\ lock # None
    \/ pc[t] \in DOMAIN ClientLabel /\ client_mutex # None
    \/ pc[t] = "join" /\ \E u \in Helpers : pc[u] # "ended"
    \/ pc[t] = "close" /\ sqlite # None

\* What the first thread waits for is the other's to give back, or its end.
WaitsFor(t, u) ==
    \/ pc[t] = "sem_wait" /\ Inside(u)
    \/ pc[t] \in DOMAIN ClientLabel /\ client_mutex = u
    \/ pc[t] = "join" /\ u \in Helpers

Runs(t) == ~Blocked(t) /\ pc[t] # "ended"

\* The updater was cancelled inside a SQL statement: sqlite3_close waits for ever.
SqliteAbandoned == pc["server"] = "close" /\ sqlite = "updater"

\* The crosswise wait and the statement that was cut off are the only deadlocks of
\* the hub, its exit included: in every other state a thread that cannot go on
\* waits for one that can, or for one that waits for one that can.
WaitsEnd ==
    \/ CircularWait \/ SqliteAbandoned
    \/ \A t \in Threads : Blocked(t) =>
           \E u \in Threads :
               /\ WaitsFor(t, u)
               /\ Runs(u) \/ \E v \in Threads : WaitsFor(u, v) /\ Runs(v)

\* The MQTT client's queue is not searched for a free packet id while the
\* refresher appends to it.
QueueExclusive ==
    ~(pc["server"] = "next_pid" /\ pc["refresher"] = "send")

Serving == pc["server"] \in {"sem_wait", "lock", "table", "next_pid",
                             "mqtt_lock", "mqtt_call", "sem_post"}

\* A request that was read is answered.
RequestAnswered == Serving ~> pc["server"] = "handler"

\* Nothing but the crosswise wait keeps a request from its answer: not the other
\* locks, not the updater's pass, not messages that keep coming, not SIGINT.
AnsweredOrCrosswise == Serving ~> (pc["server"] = "handler" \/ CircularWait)

Leaving == pc["server"] \in {"cancel", "join", "close", "exited"}

\* A staged change is written, however busy clients and broker keep the table,
\* unless the hub exits first or the crosswise wait stops the updater too.
WrittenOrCrosswise ==
    \A s \in Slot : s \in to_change ~>
        (s \notin to_change \/ Leaving \/ CircularWait)

\* Both helpers end after they are cancelled, whatever they hold or wait for.
HelpersJoined == pc["server"] = "join" ~> pc["server"] = "close"

\* SIGINT ends the process, and only the crosswise wait or a SQL statement that
\* was cut off can stop it from doing so.
ExitOrHang ==
    closeSocket ~> (pc["server"] = "exited" \/ SqliteAbandoned \/ CircularWait)
============================================================================
