----------------------------- MODULE Lifecycle -----------------------------
(***************************************************************************)
(* Hub processes on one machine from start to end: the pid file and its     *)
(* lock (src/daemon.c), the steps of start-up and shut-down in the order of *)
(* main (src/main.c), the port, and the one database they share.            *)
(*                                                                         *)
(* A file is named after the hub that created it, so a file that took       *)
(* another's place at PIDFILE is another file.  The database is the number  *)
(* of statements that have changed it.  What a hub does between start and   *)
(* end is in the other modules; here only the updater's statements matter.  *)
(*                                                                         *)
(* A definition marked "Slip" is a plausible mistake in the definition that *)
(* follows it.                                                              *)
(***************************************************************************)
EXTENDS Naturals

CONSTANTS
    Hubs,       \* the processes ever started
    Daemons,    \* those started with the argument "daemon"
    MaxWrites,  \* bound on the statements that change the database
    None        \* no hub, no file

ASSUME HubsAssumption ==
    /\ None \notin Hubs
    /\ Daemons \subseteq Hubs
    /\ MaxWrites \in Nat

VARIABLES
    pc,         \* pc[h]: how far main of h is
    file,       \* the file at PIDFILE
    fd,         \* fd[h]: the file that pid_fd of h is open on
    owner,      \* owner[f]: the hub that has file f locked
    signal,     \* signal[h]: "default", "handled" (SIGINT goes to
                \* handle_signal), "unlocked" (in the handler), "closing"
    listener,   \* the hub whose socket is bound to the port
    lingering,  \* connections of a listener that was closed
    db,         \* the changes made to the database
    known,      \* known[h]: those in the memory of h
    counted,    \* counted[h]: get_db_len has set db_len of h, which is -1 until then
    writing,    \* writing[h]: the updater of h is in a statement
    exposed     \* hubs that had the table in memory together with another,
                \* which the pid file is not meant to or no longer can prevent

kernel == <<file, fd, owner, signal>>
port == <<listener, lingering>>
data == <<db, known, counted, writing, exposed>>
vars == <<pc, kernel, port, data>>

Started == {"child", "opened", "args", "count", "dump", "connect", "bind",
             "serving", "cancel", "close", "hung"}
Loaded == {"connect", "bind", "serving", "cancel", "close", "hung"}
Writing == {"serving", "cancel"}

Alive(h) == pc[h] \in Started
Goto(h, from, to) == pc[h] = from /\ pc' = [pc EXCEPT ![h] = to]

\* main does nothing while it is in the handler.
Step(h, from, to) == signal[h] # "unlocked" /\ Goto(h, from, to)

----------------------------------------------------------------------------
(* The end of a process: what the kernel takes back.                        *)

\* Slip (StaleFileNoObstacle): as if the file itself were the lock.
KeptByFile(h) == owner

ReleasedBy(h) == [f \in Hubs |-> IF owner[f] = h THEN None ELSE owner[f]]

\* Slip (TypeOK): the socket of the loop is not closed.
StillBound(h) == listener

Unbound(h) == IF listener = h THEN None ELSE listener

\* The pid file stays where it is.  A statement under way is rolled back, and
\* what the hub had in memory is no more.
Ended(h) ==
    /\ fd' = [fd EXCEPT ![h] = None]
    /\ owner' = ReleasedBy(h)
    /\ signal' = [signal EXCEPT ![h] = "default"]
    /\ listener' = Unbound(h)
    /\ lingering' \in {lingering, lingering \/ listener = h}
    /\ writing' = [writing EXCEPT ![h] = FALSE]
    /\ known' = [known EXCEPT ![h] = 0]
    /\ counted' = [counted EXCEPT ![h] = FALSE]
    /\ exposed' = exposed \ {h}
    /\ UNCHANGED <<file, db>>

Exit(h, from) == Step(h, from, "gone") /\ Ended(h)

\* SIGTERM, SIGKILL, or a SIGINT that finds the default action.
Kill(h) ==
    /\ Alive(h)
    /\ pc' = [pc EXCEPT ![h] = "gone"]
    /\ Ended(h)

----------------------------------------------------------------------------
(* daemonize, after the second fork, and handle_signal.                     *)

Start(h) ==
    /\ Goto(h, "none", IF h \in Daemons THEN "child" ELSE "args")
    /\ UNCHANGED <<kernel, port, data>>

OpenPidfile(h) ==
    /\ Step(h, "child", "opened")
    /\ file' = IF file = None THEN h ELSE file
    /\ fd' = [fd EXCEPT ![h] = file']
    /\ UNCHANGED <<owner, signal, port, data>>

\* Slip (KnowsTheRows): the result of lockf is not looked at.
LockedAnyway(h) == TRUE

LockFree(h) == owner[fd[h]] = None

LockPidfile(h) ==
    /\ Step(h, "opened", "args")
    /\ LockFree(h)
    /\ owner' = [owner EXCEPT ![fd[h]] = h]
    /\ UNCHANGED <<file, fd, signal, port, data>>

LockRefused(h) == Exit(h, "opened") /\ ~LockFree(h)

HandleSigint(h) ==
    /\ Step(h, "args", "count")
    /\ signal' = [signal EXCEPT ![h] = "handled"]
    /\ UNCHANGED <<file, fd, owner, port, data>>

\* A daemon unlocks and closes its file first ...
Interrupt(h) ==
    /\ Alive(h) /\ signal[h] = "handled"
    /\ signal' = [signal EXCEPT ![h] =
                      IF h \in Daemons THEN "unlocked" ELSE "closing"]
    /\ owner' = IF h \in Daemons THEN ReleasedBy(h) ELSE owner
    /\ fd' = [fd EXCEPT ![h] = None]
    /\ UNCHANGED <<pc, file, port, data>>

\* ... and then unlinks whatever is at PIDFILE and sets closeSocket.
Unlink(h) ==
    /\ Alive(h) /\ signal[h] = "unlocked"
    /\ signal' = [signal EXCEPT ![h] = "closing"]
    /\ file' = None
    /\ UNCHANGED <<pc, fd, owner, port, data>>

----------------------------------------------------------------------------
(* The database.  A statement fails while another process is in one.        *)

Busy(h) == \E g \in Hubs \ {h} : writing[g]

\* get_db_len: when its statement fails it returns 1, and initialize_db, which
\* looks for a negative status, goes on; db_len, which only the statement's callback
\* sets, keeps the -1 it is initialised with.
Count(h) ==
    /\ Step(h, "count", "dump")
    /\ counted' = [counted EXCEPT ![h] = ~Busy(h)]
    /\ UNCHANGED <<kernel, port, db, known, writing, exposed>>

\* Another hub with the table in memory that the pid file does not exclude.
Beside(h) ==
    {g \in Hubs \ {h} :
        /\ pc[g] \in Loaded
        /\ \/ {g, h} \cap Daemons # {g, h}
           \/ signal[g] # "handled"
           \/ signal[h] # "handled"
           \/ fd[g] # file
           \/ fd[h] # file}

dump_db_entries(h) ==
    /\ ~Busy(h)
    /\ Step(h, "dump", "connect")
    /\ known' = [known EXCEPT ![h] = db]
    /\ exposed' = IF Beside(h) = {} THEN exposed
                                    ELSE exposed \cup {h} \cup Beside(h)
    /\ UNCHANGED <<kernel, port, db, counted, writing>>

DumpFails(h) == Busy(h) /\ Exit(h, "dump")

\* db_updater until it is cancelled.  It sleeps for five seconds before its
\* first pass; by then main has bound the port or given up.
BeginStatement(h) ==
    /\ pc[h] \in Writing
    /\ ~Busy(h) /\ ~writing[h]
    /\ db < MaxWrites
    /\ writing' = [writing EXCEPT ![h] = TRUE]
    /\ UNCHANGED <<pc, kernel, port, db, known, counted, exposed>>

Commit(h) ==
    /\ pc[h] \in Writing
    /\ writing[h]
    /\ writing' = [writing EXCEPT ![h] = FALSE]
    /\ db' = db + 1
    /\ known' = IF known[h] = db THEN [known EXCEPT ![h] = db + 1] ELSE known
    /\ UNCHANGED <<pc, kernel, port, counted, exposed>>

----------------------------------------------------------------------------
(* MQTT, threads, the port, the loop.                                       *)

\* The broker is not there, or a thread cannot be created.
ConnectAndCreateThreads(h) ==
    \/ Step(h, "connect", "bind") /\ UNCHANGED <<kernel, port, data>>
    \/ Exit(h, "connect")

\* SO_REUSEADDR is not set, so connections left over are in the way as well.
\* A hub that fails joins its threads before they have done anything.
create_server_socket(h) ==
    IF listener = None /\ ~lingering
    THEN /\ Step(h, "bind", "serving")
         /\ listener' = h
         /\ UNCHANGED <<kernel, lingering, data>>
    ELSE Step(h, "bind", "close") /\ UNCHANGED <<kernel, port, data>>

LingerEnds ==
    /\ lingering
    /\ lingering' = FALSE
    /\ UNCHANGED <<pc, kernel, listener, data>>

\* The loop closes the socket when it sees closeSocket, but not when SIGINT
\* has broken off poll; main closes it after the joins.
LeaveLoop(h) ==
    /\ signal[h] = "closing"
    /\ Step(h, "serving", "cancel")
    /\ \/ UNCHANGED port
       \/ listener' = None /\ lingering' \in BOOLEAN
    /\ UNCHANGED <<kernel, data>>

\* An updater cancelled in a statement keeps SQLite's mutex, for which
\* sqlite3_close waits, and the lock on the file.
Join(h) ==
    /\ Step(h, "cancel", IF writing[h] THEN "hung" ELSE "close")
    /\ listener' = Unbound(h)
    /\ lingering' \in {lingering, lingering \/ listener = h}
    /\ UNCHANGED <<kernel, data>>

----------------------------------------------------------------------------
Init ==
    /\ pc = [h \in Hubs |-> "none"]
    /\ file = None
    /\ fd = [h \in Hubs |-> None]
    /\ owner = [f \in Hubs |-> None]
    /\ signal = [h \in Hubs |-> "default"]
    /\ listener = None
    /\ lingering = FALSE
    /\ db = 0
    /\ known = [h \in Hubs |-> 0]
    /\ counted = [h \in Hubs |-> FALSE]
    /\ writing = [h \in Hubs |-> FALSE]
    /\ exposed = {}

Hub(h) ==
    \/ Start(h) \/ OpenPidfile(h) \/ LockPidfile(h) \/ LockRefused(h)
    \/ HandleSigint(h) \/ Interrupt(h) \/ Unlink(h) \/ Kill(h)
    \/ Count(h) \/ dump_db_entries(h) \/ DumpFails(h)
    \/ BeginStatement(h) \/ Commit(h)
    \/ ConnectAndCreateThreads(h) \/ create_server_socket(h)
    \/ LeaveLoop(h) \/ Join(h) \/ Exit(h, "close")

Next == (\E h \in Hubs : Hub(h)) \/ LingerEnds

Spec == Init /\ [][Next]_vars

----------------------------------------------------------------------------
\* The state is well-typed; only a hub in its loop or just
\* out of it has the port, and only one with an updater is in a statement.
TypeOK ==
    /\ pc \in [Hubs -> Started \cup {"none", "gone"}]
    /\ file \in Hubs \cup {None}
    /\ fd \in [Hubs -> Hubs \cup {None}]
    /\ owner \in [Hubs -> Hubs \cup {None}]
    /\ signal \in [Hubs -> {"default", "handled", "unlocked", "closing"}]
    /\ listener \in Hubs \cup {None}
    /\ listener # None => pc[listener] \in {"serving", "cancel"}
    /\ lingering \in BOOLEAN
    /\ db \in Nat
    /\ known \in [Hubs -> Nat]
    /\ counted \in [Hubs -> BOOLEAN]
    /\ writing \in [Hubs -> BOOLEAN]
    /\ \A h \in Hubs : writing[h] => pc[h] \in Writing \cup {"hung"}
    /\ exposed \subseteq Hubs

\* What a serving hub has in memory is what the database holds, whatever was
\* started, stopped and killed before, unless it or another loaded the table
\* beside the other: one of the two was not a daemon, was told to stop (the
\* handler gives the lock up before the last statements are through), or has
\* lost its file at PIDFILE to the handler of a third.
KnowsTheRows ==
    \A h \in Hubs :
        pc[h] = "serving" /\ h \notin exposed => known[h] = db

\* A pid file left by a hub that was killed or could not start never keeps
\* another from starting: it gives up only when a hub that is alive, and has not
\* been told to stop, has the lock.
StaleFileNoObstacle ==
    \A h \in Hubs : pc[h] = "opened" /\ ~LockFree(h) =>
        \E g \in Hubs \ {h} :
            /\ owner[fd[h]] = g
            /\ Alive(g)
            /\ signal[g] \in {"default", "handled"}

\* A serving hub has counted its rows: its db_len is their number when it starts.
\* The code does not keep this: a count that fails leaves db_len -1 and does not
\* keep the hub from serving.
CountedWhenServing == \A h \in Hubs : pc[h] = "serving" => counted[h]
=============================================================================
