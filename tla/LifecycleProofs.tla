-------------------------- MODULE LifecycleProofs --------------------------
(* What the pid file guarantees for any number of hubs, started, stopped and  *)
(* killed at any time.                                                        *)
EXTENDS Lifecycle, TLAPS

\* Past lockf, and not yet told to stop.
HasFile(h) ==
    /\ pc[h] \in Started \ {"child", "opened"}
    /\ signal[h] \in {"default", "handled"}

\* SIGINT has its default action until main has seen to it.
SignalInv ==
    \A h \in Hubs :
        pc[h] \in {"none", "child", "opened", "args"} => signal[h] = "default"

\* Only daemons come to the pid file.
DaemonInv ==
    \A h \in Hubs : pc[h] \in {"child", "opened"} => h \in Daemons

\* Exactly the daemons past lockf and not told to stop have their file locked.
LockInv ==
    /\ \A h \in Hubs : pc[h] = "opened" => fd[h] \in Hubs
    /\ \A h \in Daemons : HasFile(h) => fd[h] \in Hubs /\ owner[fd[h]] = h
    /\ \A f \in Hubs : owner[f] # None =>
           /\ owner[f] \in Daemons
           /\ HasFile(owner[f])
           /\ fd[owner[f]] = f

\* Two hubs with the table in memory are both exposed, and one that is not has
\* what the database holds.
LoadInv ==
    /\ \A g, h \in Hubs :
           g # h /\ pc[g] \in Loaded /\ pc[h] \in Loaded => g \in exposed
    /\ \A h \in Hubs :
           pc[h] \in Loaded /\ h \notin exposed => known[h] = db

\* The inductive invariant: a hub's memory is current because nobody else has
\* the table, which is so because of the lock.
IInv == TypeOK /\ SignalInv /\ DaemonInv /\ LockInv /\ LoadInv

----------------------------------------------------------------------------
\* At the start no hub runs and no file is there.
LEMMA InitEstablishes == Init => IInv
<1> SUFFICES ASSUME Init PROVE IInv
  OBVIOUS
<1>1. counted \in [Hubs -> BOOLEAN] /\ writing \in [Hubs -> BOOLEAN]
  BY Zenon DEF Init
<1>2. \A h \in Hubs : writing[h] = FALSE
  BY DEF Init
<1>3. TypeOK
  BY <1>1, <1>2, HubsAssumption DEF Init, TypeOK
<1>4. SignalInv /\ DaemonInv /\ LockInv /\ LoadInv
  BY HubsAssumption
  DEF Init, SignalInv, DaemonInv, LockInv, LoadInv, HasFile, Started, Loaded
<1> QED
  BY <1>3, <1>4 DEF IInv

\* A hub that ends leaves no lock, no port and no statement behind, and the hubs
\* that stay keep what they have.
LEMMA EndPreserves ==
    ASSUME IInv, NEW h \in Hubs, pc' = [pc EXCEPT ![h] = "gone"], Ended(h)
    PROVE  IInv'
<1>1. TypeOK'
  BY HubsAssumption
  DEF IInv, TypeOK, Ended, ReleasedBy, Unbound, Writing
<1>2. /\ pc'[h] = "gone"
      /\ \A g \in Hubs \ {h} : /\ pc'[g] = pc[g] /\ fd'[g] = fd[g]
                               /\ signal'[g] = signal[g]
                               /\ known'[g] = known[g]
      /\ \A f \in Hubs : owner'[f] = IF owner[f] = h THEN None ELSE owner[f]
      /\ db' = db /\ exposed' = exposed \ {h}
  BY DEF IInv, TypeOK, Ended, ReleasedBy
<1>3. SignalInv' /\ DaemonInv'
  BY <1>2 DEF IInv, SignalInv, DaemonInv
<1>4. LockInv'
  BY <1>2, HubsAssumption DEF IInv, TypeOK, LockInv, HasFile, Started
<1>5. LoadInv'
  BY <1>2 DEF IInv, LoadInv, Loaded
<1> QED
  BY <1>1, <1>3, <1>4, <1>5 DEF IInv

----------------------------------------------------------------------------
(* Start-up and SIGINT.                                                      *)

LEMMA StartPreserves ==
    ASSUME IInv, NEW h \in Hubs, Start(h)
    PROVE  IInv'
BY HubsAssumption
DEF IInv, TypeOK, SignalInv, DaemonInv, LockInv, LoadInv, HasFile, Started,
    Loaded, Writing, Start, Goto, kernel, port, data

\* Opening gives the file a name if it has none, and touches no lock.
LEMMA OpenPreserves ==
    ASSUME IInv, NEW h \in Hubs, OpenPidfile(h)
    PROVE  IInv'
<1>1. /\ pc[h] = "child" /\ pc' = [pc EXCEPT ![h] = "opened"]
      /\ file' \in Hubs /\ fd' = [fd EXCEPT ![h] = file']
      /\ UNCHANGED <<owner, signal, listener, lingering, db, known, counted,
                     writing, exposed>>
  BY DEF IInv, TypeOK, OpenPidfile, Step, Goto, port, data
<1>2. TypeOK'
  BY <1>1 DEF IInv, TypeOK, Started, Writing
<1>3. SignalInv' /\ DaemonInv' /\ LoadInv'
  BY <1>1 DEF IInv, TypeOK, SignalInv, DaemonInv, LoadInv, Loaded
<1>4. LockInv'
  <2>1. \A g \in Hubs : HasFile(g)' => HasFile(g) /\ g # h
    BY <1>1 DEF IInv, TypeOK, HasFile, Started
  <2>2. \A g \in Hubs \ {h} : pc'[g] = pc[g] /\ fd'[g] = fd[g]
    BY <1>1 DEF IInv, TypeOK
  <2>3. ~HasFile(h) /\ fd'[h] \in Hubs
    BY <1>1 DEF IInv, TypeOK, HasFile
  <2>4. \A g \in Hubs \ {h} : HasFile(g) => HasFile(g)'
    BY <1>1, <2>2 DEF HasFile
  <2> QED
    BY <1>1, <2>1, <2>2, <2>3, <2>4, HubsAssumption DEF IInv, LockInv
<1> QED
  BY <1>2, <1>3, <1>4 DEF IInv

\* The only place where a lock is taken: nobody had it.
LEMMA LockPreserves ==
    ASSUME IInv, NEW h \in Hubs, LockPidfile(h)
    PROVE  IInv'
<1>1. /\ pc[h] = "opened" /\ pc' = [pc EXCEPT ![h] = "args"]
      /\ fd[h] \in Hubs /\ owner[fd[h]] = None
      /\ owner' = [owner EXCEPT ![fd[h]] = h]
      /\ UNCHANGED <<file, fd, signal, listener, lingering, db, known, counted,
                     writing, exposed>>
  BY DEF IInv, LockInv, LockPidfile, LockFree, Step, Goto, port, data
<1>2. signal[h] = "default" /\ h \in Daemons
  BY <1>1 DEF IInv, SignalInv, DaemonInv
<1>3. TypeOK'
  BY <1>1 DEF IInv, TypeOK, Started, Writing
<1>4. SignalInv' /\ DaemonInv' /\ LoadInv'
  BY <1>1, <1>2 DEF IInv, TypeOK, SignalInv, DaemonInv, LoadInv, Loaded
<1>5. LockInv'
  <2>1. \A g \in Hubs \ {h} : HasFile(g)' <=> HasFile(g)
    BY <1>1 DEF IInv, TypeOK, HasFile
  <2>2. HasFile(h)' /\ ~HasFile(h)
    BY <1>1, <1>2 DEF IInv, TypeOK, HasFile, Started
  <2>3. \A f \in Hubs \ {fd[h]} : owner'[f] = owner[f]
    BY <1>1 DEF IInv, TypeOK
  <2>4. owner'[fd[h]] = h /\ fd' = fd
    BY <1>1 DEF IInv, TypeOK
  <2>5. \A g \in Hubs : pc'[g] = "opened" => pc[g] = "opened"
    BY <1>1 DEF IInv, TypeOK
  <2>6. \A g \in Daemons \ {h} : HasFile(g) => fd[g] # fd[h]
    BY <1>1, HubsAssumption DEF IInv, LockInv
  <2> QED
    BY <1>1, <1>2, <2>1, <2>2, <2>3, <2>4, <2>5, <2>6, HubsAssumption
    DEF IInv, LockInv
<1> QED
  BY <1>3, <1>4, <1>5 DEF IInv

LEMMA HandlePreserves ==
    ASSUME IInv, NEW h \in Hubs, HandleSigint(h)
    PROVE  IInv'
BY HubsAssumption
DEF IInv, TypeOK, SignalInv, DaemonInv, LockInv, LoadInv, HasFile, Started,
    Loaded, Writing, HandleSigint, Step, Goto, port, data

\* The handler gives up the lock and the file together.
LEMMA InterruptPreserves ==
    ASSUME IInv, NEW h \in Hubs, Interrupt(h)
    PROVE  IInv'
BY HubsAssumption
DEF IInv, TypeOK, SignalInv, DaemonInv, LockInv, LoadInv, HasFile, Started,
    Loaded, Writing, Interrupt, Alive, ReleasedBy, port, data

LEMMA UnlinkPreserves ==
    ASSUME IInv, NEW h \in Hubs, Unlink(h)
    PROVE  IInv'
BY HubsAssumption
DEF IInv, TypeOK, SignalInv, DaemonInv, LockInv, LoadInv, HasFile, Started,
    Loaded, Writing, Unlink, Alive, port, data

----------------------------------------------------------------------------
(* The database.                                                             *)

LEMMA CountPreserves ==
    ASSUME IInv, NEW h \in Hubs, Count(h)
    PROVE  IInv'
BY HubsAssumption
DEF IInv, TypeOK, SignalInv, DaemonInv, LockInv, LoadInv, HasFile, Started,
    Loaded, Writing, Count, Busy, Step, Goto, kernel, port

\* Another hub with the table is either beside this one, and both become
\* exposed, or both have the file at PIDFILE locked, which only one can.
LEMMA DumpPreserves ==
    ASSUME IInv, NEW h \in Hubs, dump_db_entries(h)
    PROVE  IInv'
<1>1. /\ pc[h] = "dump" /\ pc' = [pc EXCEPT ![h] = "connect"]
      /\ known' = [known EXCEPT ![h] = db]
      /\ exposed' = IF Beside(h) = {} THEN exposed
                                      ELSE exposed \cup {h} \cup Beside(h)
      /\ UNCHANGED <<file, fd, owner, signal, listener, lingering, db, counted,
                     writing>>
  BY DEF dump_db_entries, Step, Goto, kernel, port
<1>2. TypeOK'
  BY <1>1 DEF IInv, TypeOK, Started, Writing, Beside
<1>3. SignalInv' /\ DaemonInv' /\ LockInv'
  BY <1>1 DEF IInv, TypeOK, SignalInv, DaemonInv, LockInv, HasFile, Started
<1>4. \A g \in Hubs \ {h} : pc[g] \in Loaded => g \in Beside(h)
  <2> SUFFICES ASSUME NEW g \in Hubs \ {h}, pc[g] \in Loaded,
                      g \notin Beside(h)
               PROVE  FALSE
    OBVIOUS
  <2>1. /\ g \in Daemons /\ h \in Daemons
        /\ signal[g] = "handled" /\ signal[h] = "handled"
        /\ fd[g] = fd[h]
    BY DEF Beside
  <2>2. HasFile(g) /\ HasFile(h)
    BY <1>1, <2>1 DEF HasFile, Loaded, Started
  <2>3. owner[fd[g]] = g /\ owner[fd[h]] = h
    BY <2>1, <2>2 DEF IInv, LockInv
  <2> QED
    BY <2>1, <2>3
<1>5. /\ exposed \subseteq exposed'
      /\ \A g \in Hubs \ {h} : pc[g] \in Loaded =>
             g \in exposed' /\ h \in exposed'
  BY <1>1, <1>4
<1>6. /\ pc'[h] = "connect" /\ known'[h] = db
      /\ \A g \in Hubs \ {h} : pc'[g] = pc[g] /\ known'[g] = known[g]
      /\ db' = db
  BY <1>1 DEF IInv, TypeOK
<1>7. LoadInv'
  BY <1>5, <1>6 DEF IInv, LoadInv, Loaded
<1> QED
  BY <1>2, <1>3, <1>7 DEF IInv

LEMMA BeginPreserves ==
    ASSUME IInv, NEW h \in Hubs, BeginStatement(h)
    PROVE  IInv'
BY DEF IInv, TypeOK, SignalInv, DaemonInv, LockInv, LoadInv, HasFile,
       BeginStatement, kernel, port

\* What one hub commits, no other that is not exposed has in memory.
LEMMA CommitPreserves ==
    ASSUME IInv, NEW h \in Hubs, Commit(h)
    PROVE  IInv'
<1>1. /\ pc[h] \in Loaded
      /\ db' = db + 1 /\ db \in Nat
      /\ known' = IF known[h] = db THEN [known EXCEPT ![h] = db + 1] ELSE known
      /\ UNCHANGED <<pc, file, fd, owner, signal, listener, lingering, counted,
                     exposed>>
  BY DEF IInv, TypeOK, Commit, Writing, Loaded, kernel, port
<1>2. TypeOK'
  BY <1>1 DEF IInv, TypeOK, Commit
<1>3. SignalInv' /\ DaemonInv' /\ LockInv'
  BY <1>1 DEF IInv, SignalInv, DaemonInv, LockInv, HasFile
<1>4. LoadInv'
  <2>1. ASSUME NEW g \in Hubs, pc[g] \in Loaded, g \notin exposed
        PROVE  known'[g] = db + 1
    <3>1. g = h /\ known[h] = db
      BY <1>1, <2>1 DEF IInv, LoadInv
    <3> QED
      BY <1>1, <3>1 DEF IInv, TypeOK
  <2> QED
    BY <1>1, <2>1 DEF IInv, LoadInv
<1> QED
  BY <1>2, <1>3, <1>4 DEF IInv

----------------------------------------------------------------------------
(* The port and the way out.                                                 *)

\* These steps change main's place and the port only.
LEMMA MainPreserves ==
    ASSUME IInv, NEW h \in Hubs,
           \/ Step(h, "connect", "bind") /\ UNCHANGED <<kernel, port, data>>
           \/ create_server_socket(h)
           \/ LeaveLoop(h)
           \/ Join(h)
    PROVE  IInv'
<1>1. /\ pc[h] \in {"connect", "bind", "serving", "cancel"}
      /\ \E to \in {"bind", "serving", "cancel", "close", "hung"} :
             pc' = [pc EXCEPT ![h] = to]
      /\ UNCHANGED <<file, fd, owner, signal, db, known, counted, writing,
                     exposed>>
  BY DEF create_server_socket, LeaveLoop, Join, Step, Goto, kernel, data
<1>2. TypeOK'
  <2>1. CASE Step(h, "connect", "bind") /\ UNCHANGED <<kernel, port, data>>
    BY <2>1, HubsAssumption
    DEF IInv, TypeOK, Started, Writing, Step, Goto, kernel, port, data
  <2>2. CASE create_server_socket(h)
    BY <2>2, HubsAssumption
    DEF IInv, TypeOK, Started, Writing, create_server_socket, Step, Goto,
        kernel, port, data
  <2>3. CASE LeaveLoop(h)
    BY <2>3, HubsAssumption
    DEF IInv, TypeOK, Started, Writing, LeaveLoop, Step, Goto, kernel, port,
        data
  <2>4. CASE Join(h)
    BY <2>4, HubsAssumption
    DEF IInv, TypeOK, Started, Writing, Join, Unbound, Step, Goto, kernel, data
  <2> QED
    BY <2>1, <2>2, <2>3, <2>4
<1>3. SignalInv' /\ DaemonInv'
  BY <1>1 DEF IInv, TypeOK, SignalInv, DaemonInv
<1>4. LockInv'
  BY <1>1, HubsAssumption DEF IInv, TypeOK, LockInv, HasFile, Started
<1>5. LoadInv'
  BY <1>1 DEF IInv, TypeOK, LoadInv, Loaded
<1> QED
  BY <1>2, <1>3, <1>4, <1>5 DEF IInv

LEMMA LingerPreserves ==
    ASSUME IInv, LingerEnds
    PROVE  IInv'
BY DEF IInv, TypeOK, SignalInv, DaemonInv, LockInv, LoadInv, HasFile,
       LingerEnds, kernel, data

----------------------------------------------------------------------------
\* Every step preserves the invariant.
LEMMA NextPreserves == IInv /\ [Next]_vars => IInv'
<1> SUFFICES ASSUME IInv, [Next]_vars PROVE IInv'
  OBVIOUS
<1>1. ASSUME NEW h \in Hubs, Hub(h)
      PROVE  IInv'
  <2>1. CASE \/ \E from \in Started : Exit(h, from)
             \/ Kill(h)
    <3>1. pc' = [pc EXCEPT ![h] = "gone"] /\ Ended(h)
      BY <2>1 DEF Exit, Step, Goto, Kill
    <3> QED
      BY <3>1, EndPreserves
  <2>2. CASE LockRefused(h) \/ DumpFails(h) \/ Exit(h, "close")
    BY <2>1, <2>2 DEF LockRefused, DumpFails, Started
  <2>3. CASE Start(h) \/ OpenPidfile(h) \/ LockPidfile(h) \/ HandleSigint(h)
    BY <2>3, StartPreserves, OpenPreserves, LockPreserves, HandlePreserves
  <2>4. CASE Interrupt(h) \/ Unlink(h)
    BY <2>4, InterruptPreserves, UnlinkPreserves
  <2>5. CASE Count(h) \/ dump_db_entries(h) \/ BeginStatement(h) \/ Commit(h)
    BY <2>5, CountPreserves, DumpPreserves, BeginPreserves, CommitPreserves
  <2>6. CASE ConnectAndCreateThreads(h)
    BY <2>1, <2>6, MainPreserves DEF ConnectAndCreateThreads, Started
  <2>7. CASE create_server_socket(h) \/ LeaveLoop(h) \/ Join(h)
    BY <2>7, MainPreserves
  <2> QED
    BY <1>1, <2>1, <2>2, <2>3, <2>4, <2>5, <2>6, <2>7 DEF Hub
<1>2. CASE UNCHANGED vars
  BY <1>2
  DEF IInv, TypeOK, SignalInv, DaemonInv, LockInv, LoadInv, HasFile, vars,
      kernel, port, data
<1> QED
  BY <1>1, <1>2, LingerPreserves DEF Next

\* The invariant holds in every reachable state.
LEMMA Invariant == Spec => []IInv
BY InitEstablishes, NextPreserves, PTL DEF Spec

----------------------------------------------------------------------------
\* Every reachable state of the hubs, their files and the port is well-typed:
\* the port belongs to a hub in its loop or just out of it.
THEOREM TypeCorrect == Spec => []TypeOK
<1>1. IInv => TypeOK
  BY DEF IInv
<1> QED
  BY <1>1, Invariant, PTL

\* A serving hub's memory is the database, unless it was exposed to another
\* (main.c 451, daemon.c 59-69).
THEOREM MemoryIsCurrent == Spec => []KnowsTheRows
<1>1. IInv => KnowsTheRows
  BY DEF IInv, LoadInv, KnowsTheRows, Loaded
<1> QED
  BY <1>1, Invariant, PTL

\* A start is refused only by a hub that is alive and not told to stop
\* (daemon.c 215-235).
THEOREM StaleFileHarmless == Spec => []StaleFileNoObstacle
<1>1. IInv => StaleFileNoObstacle
  <2> SUFFICES ASSUME IInv, NEW h \in Hubs, pc[h] = "opened", ~LockFree(h)
               PROVE  \E g \in Hubs \ {h} :
                          /\ owner[fd[h]] = g
                          /\ Alive(g)
                          /\ signal[g] \in {"default", "handled"}
    BY DEF StaleFileNoObstacle
  <2>1. fd[h] \in Hubs /\ owner[fd[h]] # None
    BY DEF IInv, LockInv, LockFree
  <2>2. /\ owner[fd[h]] \in Daemons
        /\ HasFile(owner[fd[h]])
    BY <2>1 DEF IInv, LockInv
  <2>3. owner[fd[h]] \in Hubs \ {h}
    BY <2>2, HubsAssumption DEF HasFile
  <2> QED
    BY <2>2, <2>3 DEF HasFile, Alive
<1> QED
  BY <1>1, Invariant, PTL
=============================================================================
