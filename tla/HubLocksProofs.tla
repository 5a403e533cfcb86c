--------------------------- MODULE HubLocksProofs ---------------------------
(* What holds of the threads and locks of the hub for every set of requests, *)
(* of slots and of connections, through SIGINT and the cancellation of the   *)
(* two helpers at any of their cancellation points.                          *)
EXTENDS HubLocks, SequenceTheorems, TLAPS

\* Where a thread can be while it owns lock.
OwnerLabel == {"table", "next_pid", "mqtt_lock", "mqtt_call", "delivered",
               "exec", "ended"}

\* The semaphore admits one thread at a time, and lock is taken only after it and
\* given back before it.
SectionInv ==
    /\ \A t \in Threads : Inside(t) => mutex = 0
    /\ \A t, u \in Threads : Inside(t) /\ Inside(u) => t = u
    /\ \A t \in Threads : lock = t => pc[t] \in OwnerLabel
    /\ \A t \in Threads : InTable(t) => lock = t

\* In an MQTT call there is a call to make.
CallInv == pc["server"] \in {"next_pid", "mqtt_lock", "mqtt_call"} =>
               calls # <<>>

\* The inductive invariant.  TableExclusive alone is not inductive: the owner must
\* be the only thread past the semaphore.
IInv == TypeOK /\ CallInv /\ SectionInv

----------------------------------------------------------------------------
\* The threads start outside every section, with all locks free.
LEMMA InitEstablishes == Init => IInv
<1> SUFFICES ASSUME Init PROVE IInv
  OBVIOUS
<1>1. TypeOK
  <2>1. calls \in Seq(Call)
    BY DEF Init
  <2>2. /\ pc \in [Threads -> ServerLabel \cup RefresherLabel \cup UpdaterLabel]
        /\ pc["server"] \in ServerLabel
        /\ pc["refresher"] \in RefresherLabel
        /\ pc["updater"] \in UpdaterLabel
    BY DEF Init, Threads, ServerLabel, RefresherLabel, UpdaterLabel
  <2>3. ready \in 0..MaxReady /\ mutex \in 0..1
    BY ReadyAssumption DEF Init
  <2>4. /\ lock \in Threads \cup {None}
        /\ client_mutex \in {"server", "refresher", None}
        /\ sqlite \in {"updater", None}
        /\ stages \in BOOLEAN
        /\ to_change \subseteq Slot
        /\ canceled \subseteq Helpers
        /\ closeSocket \in BOOLEAN
    BY DEF Init
  <2> QED
    BY <2>1, <2>2, <2>3, <2>4 DEF TypeOK
<1>2. CallInv /\ SectionInv
  BY NoneAssumption DEF Init, CallInv, SectionInv, Inside, InTable, Threads
<1> QED
  BY <1>1, <1>2 DEF IInv

\* sem_wait lets a thread in only when nobody is inside.
LEMMA SemWaitPreserves ==
    ASSUME IInv, NEW t \in Threads, SemWait(t) PROVE IInv'
<1>1. TypeOK'
  BY DEF IInv, TypeOK, SemWait, Goto, request, Threads, ServerLabel,
         RefresherLabel, UpdaterLabel
<1>2. CallInv'
  BY DEF IInv, TypeOK, CallInv, SemWait, Goto, request
<1>3. SectionInv'
  BY NoneAssumption
  DEF IInv, TypeOK, SectionInv, Inside, InTable, OwnerLabel, SemWait, Goto
<1> QED
  BY <1>1, <1>2, <1>3 DEF IInv

\* pthread_mutex_lock is called by the one thread past the semaphore.
LEMMA LockPreserves ==
    ASSUME IInv, NEW t \in Threads, Lock(t) PROVE IInv'
<1>1. TypeOK'
  BY DEF IInv, TypeOK, Lock, Goto, request, Threads, ServerLabel,
         RefresherLabel, UpdaterLabel
<1>2. CallInv'
  BY DEF IInv, TypeOK, CallInv, Lock, Goto, request
<1>3. SectionInv'
  BY NoneAssumption
  DEF IInv, TypeOK, SectionInv, Inside, InTable, OwnerLabel, Lock, Goto
<1> QED
  BY <1>1, <1>2, <1>3 DEF IInv

\* The thread that gives lock back is still past the semaphore.
LEMMA UnlockPreserves ==
    ASSUME IInv, NEW t \in Threads, Unlock(t) PROVE IInv'
<1>0. pc[t] \in {"table", "delivered"}
  BY DEF Unlock, Finished, Threads
<1>1. TypeOK'
  BY DEF IInv, TypeOK, Unlock, ReleaseLock, Goto, request, Threads,
         ServerLabel, RefresherLabel, UpdaterLabel
<1>2. CallInv'
  BY DEF IInv, TypeOK, CallInv, Unlock, Goto, request
<1>3. SectionInv'
  BY <1>0, NoneAssumption
  DEF IInv, TypeOK, SectionInv, Inside, InTable, OwnerLabel, Unlock,
      ReleaseLock, Goto
<1> QED
  BY <1>1, <1>2, <1>3 DEF IInv

\* sem_post leaves nobody inside.
LEMMA SemPostPreserves ==
    ASSUME IInv, NEW t \in Threads, SemPost(t) PROVE IInv'
<1>0. mutex = 0 /\ mutex' = 1
  BY DEF IInv, SectionInv, Inside, SemPost, PostSemaphore
<1>1. TypeOK'
  BY <1>0 DEF IInv, TypeOK, SemPost, Outside, Goto, request, Threads,
         ServerLabel, RefresherLabel, UpdaterLabel
<1>2. CallInv'
  BY DEF IInv, TypeOK, CallInv, SemPost, Outside, Goto, request, Threads
<1>3. Outside(t) \in {"handler", "recv", "sleep"}
  BY DEF Outside, Threads
<1>4. SectionInv'
  BY <1>0, <1>3, NoneAssumption
  DEF IInv, TypeOK, SectionInv, Inside, InTable, OwnerLabel, SemPost, Goto
<1> QED
  BY <1>1, <1>2, <1>4 DEF IInv

\* client->mutex is taken without any change to the section.
LEMMA ClientLockPreserves ==
    ASSUME IInv, NEW t \in Threads, ClientLock(t) PROVE IInv'
<1>1. /\ pc[t] \in {"mqtt_lock", "sync_lock", "recv_lock", "send_lock"}
      /\ pc[t] = "mqtt_lock" => ClientLabel[pc[t]] = "mqtt_call"
      /\ pc[t] = "sync_lock" => ClientLabel[pc[t]] = "sync"
      /\ pc[t] = "recv_lock" => ClientLabel[pc[t]] = "recv"
      /\ pc[t] = "send_lock" => ClientLabel[pc[t]] = "send"
  BY DEF ClientLock, ClientLabel
<1>2. TypeOK'
  BY <1>1 DEF IInv, TypeOK, ClientLock, Goto, request, Threads,
              ServerLabel, RefresherLabel, UpdaterLabel
<1>3. CallInv'
  BY <1>1 DEF IInv, TypeOK, CallInv, ClientLock, Goto, request, Threads,
              RefresherLabel, UpdaterLabel
<1>4. SectionInv'
  BY <1>1, NoneAssumption
  DEF IInv, TypeOK, SectionInv, Inside, InTable, OwnerLabel, ClientLock, Goto
<1> QED
  BY <1>2, <1>3, <1>4 DEF IInv

\* A cancelled helper keeps what it holds: the updater in a SQL statement keeps
\* lock and with it the semaphore, elsewhere a helper holds neither.
LEMMA CancelPreserves ==
    ASSUME IInv, NEW t \in Helpers, Cancel(t) PROVE IInv'
<1>1. TypeOK' /\ CallInv'
  BY DEF IInv, TypeOK, CallInv, Cancel, Goto, locks, request, Threads,
         Helpers, ServerLabel, RefresherLabel, UpdaterLabel
<1>2. SectionInv'
  BY NoneAssumption
  DEF IInv, TypeOK, SectionInv, Inside, InTable, OwnerLabel, Cancel,
      CancelPoints, Goto, locks, Threads, Helpers
<1> QED
  BY <1>1, <1>2 DEF IInv

\* Every thread acquires and releases within the discipline.
LEMMA LockStepPreserves ==
    ASSUME IInv, NEW t \in Threads, Acquire(t) \/ Release(t) PROVE IInv'
BY SemWaitPreserves, LockPreserves, ClientLockPreserves, UnlockPreserves,
   SemPostPreserves DEF Acquire, Release

----------------------------------------------------------------------------
\* The loop of the server between two requests, and the exit of main up to the
\* release of its memory, happen outside the section.
LEMMA LoopPreserves ==
    ASSUME IInv,
           Poll \/ LeaveLoop \/ CheckClose \/ CancelHelpers \/ Join \/ Close
    PROVE  IInv'
<1>1. TypeOK'
  <2>1. CASE Poll \/ LeaveLoop \/ Join \/ Close
    BY <2>1
    DEF IInv, TypeOK, Poll, LeaveLoop, Join, Close, Goto, locks, request,
        Threads, ServerLabel, RefresherLabel, UpdaterLabel
  <2>2. CASE CheckClose
    BY <2>2
    DEF IInv, TypeOK, CheckClose, Goto, locks, request, Threads, ServerLabel,
        RefresherLabel, UpdaterLabel
  <2>3. CASE CancelHelpers
    BY <2>3
    DEF IInv, TypeOK, CancelHelpers, Goto, locks, request, Threads, Helpers,
        ServerLabel, RefresherLabel, UpdaterLabel
  <2> QED
    BY <2>1, <2>2, <2>3
<1>2. CallInv'
  BY DEF IInv, TypeOK, CallInv, Poll, LeaveLoop, CheckClose, CancelHelpers,
         Join, Close, Goto, locks, request, Threads
<1>3. SectionInv'
  BY DEF IInv, TypeOK, SectionInv, Inside, InTable, OwnerLabel, Poll,
         LeaveLoop, CheckClose, CancelHelpers, Join, Close, Goto, locks,
         Threads
<1> QED
  BY <1>1, <1>2, <1>3 DEF IInv

\* The outcome of a request is a list of MQTT calls and whether it stages.
LEMMA OutcomeType ==
    ASSUME NEW r \in Commands \ {"TRANSMIT"}, NEW o \in Outcomes(r)
    PROVE  o.calls \in Seq(Call) /\ o.stages \in BOOLEAN
<1>1. /\ <<>> \in Seq(Call)
      /\ <<"subscribe", "publish">> \in Seq(Call)
      /\ <<"unsubscribe">> \in Seq(Call)
      /\ <<"publish", "unsubscribe", "subscribe">> \in Seq(Call)
      /\ <<"publish">> \in Seq(Call)
  BY DEF Call
<1>2. \/ o = Outcome(<<>>, FALSE)
      \/ o = Outcome(<<"subscribe", "publish">>, TRUE)
      \/ o = Outcome(<<"unsubscribe">>, TRUE)
      \/ o = Outcome(<<>>, TRUE)
      \/ o = Outcome(<<"publish", "unsubscribe", "subscribe">>, TRUE)
      \/ o = Outcome(<<"publish">>, TRUE)
      \/ o = Outcome(<<"publish">>, FALSE)
  BY DEF Outcomes, Commands
<1>3. \E m \in Seq(Call), b \in BOOLEAN : o = [calls |-> m, stages |-> b]
  BY <1>1, <1>2, Zenon DEF Outcome
<1> QED
  BY <1>3

\* A request enters from the handler, where the server owns nothing.
LEMMA RequestPreserves ==
    ASSUME IInv, TableRequest \/ Transmit PROVE IInv'
<1>1. calls' \in Seq(Call) /\ stages' \in BOOLEAN
  <2>1. CASE TableRequest
    BY <2>1, OutcomeType, RequestsAssumption DEF TableRequest
  <2>2. CASE Transmit
    <3>1. <<"publish">> \in Seq(Call)
      BY DEF Call
    <3> QED
      BY <2>2, <3>1 DEF Transmit
  <2> QED
    BY <2>1, <2>2
<1>2. ready' \in 0..MaxReady
  BY ReadyAssumption DEF IInv, TypeOK, TableRequest, Transmit
<1>3. /\ pc["server"] = "handler"
      /\ \/ pc' = [pc EXCEPT !["server"] = "sem_wait"]
         \/ pc' = [pc EXCEPT !["server"] = "mqtt_lock"] /\ calls' # <<>>
      /\ UNCHANGED <<mutex, lock, client_mutex, sqlite, to_change, canceled,
                     closeSocket>>
  <2>1. CASE TableRequest
    BY <2>1 DEF TableRequest, Goto, locks
  <2>2. CASE Transmit
    <3>1. <<"publish">> # <<>>
      OBVIOUS
    <3> QED
      BY <2>2, <3>1 DEF Transmit, Goto, locks
  <2> QED
    BY <2>1, <2>2
<1>4. TypeOK'
  BY <1>1, <1>2, <1>3
  DEF IInv, TypeOK, Threads, ServerLabel, RefresherLabel, UpdaterLabel
<1>5. CallInv'
  BY <1>3 DEF IInv, TypeOK, CallInv, Threads
<1>6. SectionInv'
  BY <1>3 DEF IInv, TypeOK, SectionInv, Inside, InTable, OwnerLabel, Threads
<1> QED
  BY <1>4, <1>5, <1>6 DEF IInv

\* The MQTT calls of a request, and the staging that follows them, stay inside the
\* section if the request is in one.
LEMMA CallPreserves ==
    ASSUME IInv, BeginCall \/ NextPid \/ EndCall \/ StageChange PROVE IInv'
<1>1. calls' \in Seq(Call)
  <2>1. CASE EndCall
    <3>1. calls # <<>> /\ calls \in Seq(Call)
      BY <2>1 DEF IInv, TypeOK, CallInv, EndCall
    <3>2. Tail(calls) \in Seq(Call)
      BY <3>1, HeadTailProperties
    <3> QED
      BY <2>1, <3>2 DEF EndCall
  <2>2. CASE BeginCall \/ NextPid \/ StageChange
    BY <2>2 DEF IInv, TypeOK, BeginCall, NextPid, StageChange, request
  <2> QED
    BY <2>1, <2>2
<1>2. TypeOK'
  <2>1. CASE BeginCall
    BY <1>1, <2>1
    DEF IInv, TypeOK, BeginCall, Goto, locks, request, Threads, ServerLabel,
        RefresherLabel, UpdaterLabel
  <2>2. CASE NextPid
    BY <1>1, <2>2
    DEF IInv, TypeOK, NextPid, Goto, locks, request, Threads, ServerLabel,
        RefresherLabel, UpdaterLabel
  <2>3. CASE EndCall
    BY <1>1, <2>3
    DEF IInv, TypeOK, EndCall, Goto, Threads, ServerLabel, RefresherLabel,
        UpdaterLabel
  <2>4. CASE StageChange
    BY <1>1, <2>4 DEF IInv, TypeOK, StageChange, StageSome, locks
  <2> QED
    BY <2>1, <2>2, <2>3, <2>4
<1>3. CallInv'
  BY DEF IInv, TypeOK, CallInv, BeginCall, NextPid, EndCall, StageChange,
         Goto, locks, request, Threads
<1>4. SectionInv'
  BY DEF IInv, TypeOK, SectionInv, Inside, InTable, OwnerLabel, BeginCall,
         NextPid, EndCall, StageChange, Goto, locks, Threads
<1> QED
  BY <1>2, <1>3, <1>4 DEF IInv

\* The refresher changes to_change only inside the section.
LEMMA RefresherPreserves == IInv /\ Refresher => IInv'
<1> SUFFICES ASSUME IInv, Refresher PROVE IInv'
  OBVIOUS
<1>1. CASE ClientUnlock
  <2>1. pc["refresher"] \in {"sync", "recv", "send"}
    BY <1>1 DEF ClientUnlock, SyncNext
  <2>2. SyncNext[pc["refresher"]] \in {"recv_lock", "send_lock", "sleep"}
    BY <2>1 DEF SyncNext
  <2>3. PICK next \in {"recv_lock", "send_lock", "sleep"} :
            pc' = [pc EXCEPT !["refresher"] = next]
    BY <1>1, <2>2 DEF ClientUnlock, Goto
  <2>4. TypeOK' /\ CallInv'
    BY <1>1, <2>3
    DEF IInv, TypeOK, CallInv, ClientUnlock, request, Threads, ServerLabel,
        RefresherLabel, UpdaterLabel
  <2>5. SectionInv'
    BY <1>1, <2>1, <2>3
    DEF IInv, TypeOK, SectionInv, Inside, InTable, OwnerLabel, ClientUnlock,
        Threads
  <2> QED
    BY <2>4, <2>5 DEF IInv
<1>2. CASE RefresherWakes \/ Receive \/ Deliver
  <2>1. TypeOK' /\ CallInv'
    BY <1>2
    DEF IInv, TypeOK, CallInv, RefresherWakes, Receive, CallbackEntry,
        Deliver, StageSome, Goto, locks, request, Threads, ServerLabel,
        RefresherLabel, UpdaterLabel
  <2>2. SectionInv'
    BY <1>2
    DEF IInv, TypeOK, SectionInv, Inside, InTable, OwnerLabel, RefresherWakes,
        Receive, CallbackEntry, Deliver, Goto, locks, Threads
  <2> QED
    BY <2>1, <2>2 DEF IInv
<1> QED
  BY <1>1, <1>2 DEF Refresher

\* The updater executes SQL statements only inside the section.
LEMMA UpdaterPreserves == IInv /\ Updater => IInv'
<1> SUFFICES ASSUME IInv, Updater PROVE IInv'
  OBVIOUS
<1>1. TypeOK' /\ CallInv'
  BY DEF IInv, TypeOK, CallInv, Updater, UpdaterWakes, BeginExec, EndExec,
         ClearStaged, Goto, locks, request, Threads, ServerLabel,
         RefresherLabel, UpdaterLabel
<1>2. SectionInv'
  BY DEF IInv, TypeOK, SectionInv, Inside, InTable, OwnerLabel, Updater,
         UpdaterWakes, BeginExec, EndExec, Goto, locks, Threads
<1> QED
  BY <1>1, <1>2 DEF IInv

\* The invariant is inductive.
LEMMA NextPreserves == IInv /\ [Next]_vars => IInv'
<1> SUFFICES ASSUME IInv, [Next]_vars PROVE IInv'
  OBVIOUS
<1>1. ASSUME NEW t \in Threads, Acquire(t) \/ Release(t) PROVE IInv'
  BY <1>1, LockStepPreserves
<1>2. ASSUME NEW t \in Helpers, Cancel(t) PROVE IInv'
  BY <1>2, CancelPreserves
<1>3. CASE Server
  BY <1>3, LoopPreserves, RequestPreserves, CallPreserves DEF Server
<1>4. CASE Refresher
  BY <1>4, RefresherPreserves
<1>5. CASE Updater
  BY <1>5, UpdaterPreserves
<1>6. CASE Signal \/ UNCHANGED vars
  BY <1>6
  DEF IInv, TypeOK, CallInv, SectionInv, Inside, InTable, Signal, vars, locks,
      request
<1> QED
  BY <1>1, <1>2, <1>3, <1>4, <1>5, <1>6 DEF Next

\* The discipline of the section holds in every reachable state.
THEOREM Invariance == Spec => []IInv
BY InitEstablishes, NextPreserves, PTL DEF Spec

\* The threads are where their code can be and locks have owners or none.
THEOREM TypeCorrect == Spec => []TypeOK
<1>1. IInv => TypeOK
  BY DEF IInv
<1> QED
  BY <1>1, Invariance, PTL

\* The device table is read and changed only by the owner of lock, also after a
\* helper was cancelled while it owned it.
THEOREM TableExclusion == Spec => []TableExclusive
<1>1. IInv => TableExclusive
  BY DEF IInv, SectionInv, TableExclusive
<1> QED
  BY <1>1, Invariance, PTL

\* No thread ever blocks in pthread_mutex_lock( lock ), which is not a
\* cancellation point: the semaphore makes the helpers cancellable.
THEOREM LockIsFree == Spec => []NobodyWaitsForLock
<1>1. IInv => NobodyWaitsForLock
  <2> SUFFICES ASSUME IInv, NEW t \in Threads, pc[t] = "lock", lock # None
               PROVE  FALSE
    BY DEF NobodyWaitsForLock
  <2>1. lock \in Threads /\ Inside(lock) /\ Inside(t)
    BY DEF IInv, TypeOK, Inside
  <2> QED
    BY <2>1 DEF IInv, SectionInv, OwnerLabel
<1> QED
  BY <1>1, Invariance, PTL

----------------------------------------------------------------------------
(* Who holds what is waited for, and who has been cancelled.                 *)

\* Where the refresher can be while it owns client->mutex.
SyncLabel == {"sync", "recv", "sem_wait", "lock", "table", "delivered",
              "sem_post", "send", "ended"}

\* The semaphore is taken by a thread inside, client->mutex by one that is in a
\* call or in mqtt_sync.
HoldersInv ==
    /\ mutex = 0 => \E t \in Threads : Inside(t)
    /\ client_mutex = "server" => pc["server"] = "mqtt_call"
    /\ client_mutex = "refresher" => pc["refresher"] \in SyncLabel

\* main cancels the refresher and then the updater, and goes on when both have
\* ended.  The refresher never ends with lock.
CancelInv ==
    /\ canceled # {} => pc["server"] \in {"cancel", "join", "close", "exited"}
    /\ pc["server"] = "join" => canceled = Helpers
    /\ "updater" \in canceled => "refresher" \in canceled
    /\ \A t \in Helpers : pc[t] = "ended" => t \in canceled
    /\ pc["refresher"] = "ended" => lock # "refresher"

\* A thread that stays inside keeps the semaphore's holder.
LEMMA StillHeld ==
    ASSUME HoldersInv, mutex' = mutex, lock' = lock,
           \A t \in Threads : pc[t] \in {"lock", "sem_post"} =>
                                  pc'[t] \in {"lock", "sem_post"}
    PROVE  mutex' = 0 => \E t \in Threads : Inside(t)'
BY DEF HoldersInv, Inside

\* What a step of the server does to the locks: it gives back client->mutex.
LEMMA ServerHolds ==
    ASSUME IInv, HoldersInv, Server
    PROVE  HoldersInv'
<1>1. pc \in [Threads -> ServerLabel \cup RefresherLabel \cup UpdaterLabel]
  BY DEF IInv, TypeOK
<1>2. /\ mutex' = mutex /\ lock' = lock
      /\ pc["server"] \notin {"lock", "sem_post"}
      /\ \A t \in Helpers : pc'[t] = pc[t]
  BY <1>1
  DEF Server, Poll, LeaveLoop, TableRequest, Transmit, BeginCall, NextPid,
      EndCall, StageChange, CheckClose, CancelHelpers, Join, Close, Goto, locks,
      Threads, Helpers
<1>3. \A t \in Threads : pc[t] \in {"lock", "sem_post"} =>
                             pc'[t] \in {"lock", "sem_post"}
  BY <1>2 DEF Threads, Helpers
<1>4. mutex' = 0 => \E t \in Threads : Inside(t)'
  BY <1>2, <1>3, StillHeld
<1>5. \/ client_mutex' = client_mutex /\ pc["server"] # "mqtt_call"
      \/ client_mutex' = None
  BY DEF Server, Poll, LeaveLoop, TableRequest, Transmit, BeginCall, NextPid,
         EndCall, StageChange, CheckClose, CancelHelpers, Join, Close, locks
<1> QED
  BY <1>2, <1>4, <1>5, NoneAssumption DEF HoldersInv, Threads, Helpers

LEMMA RefresherHolds ==
    ASSUME IInv, HoldersInv, Refresher
    PROVE  HoldersInv'
<1>1. pc \in [Threads -> ServerLabel \cup RefresherLabel \cup UpdaterLabel]
  BY DEF IInv, TypeOK
<1>2. /\ mutex' = mutex /\ lock' = lock
      /\ pc["refresher"] \notin {"lock", "sem_post"}
      /\ \A t \in Threads \ {"refresher"} : pc'[t] = pc[t]
  BY <1>1
  DEF Refresher, RefresherWakes, ClientUnlock, SyncNext, Receive, Deliver,
      Goto, locks, Threads
<1>3. mutex' = 0 => \E t \in Threads : Inside(t)'
  <2>1. \A t \in Threads : pc[t] \in {"lock", "sem_post"} =>
                               pc'[t] \in {"lock", "sem_post"}
    BY <1>2
  <2> QED
    BY <1>2, <2>1, StillHeld
<1>4. CASE ClientUnlock
  <2>1. client_mutex' = None
    BY <1>4 DEF ClientUnlock
  <2> QED
    BY <1>3, <2>1, NoneAssumption DEF HoldersInv, Threads
<1>5. CASE RefresherWakes \/ Receive \/ Deliver
  <2>1. /\ client_mutex' = client_mutex
        /\ pc["refresher"] \in SyncLabel => pc'["refresher"] \in SyncLabel
    BY <1>1, <1>5
    DEF RefresherWakes, Receive, CallbackEntry, Deliver, Goto, locks, SyncLabel,
        Threads
  <2> QED
    BY <1>2, <1>3, <2>1 DEF HoldersInv, Threads
<1> QED
  BY <1>4, <1>5 DEF Refresher

LEMMA ClientLockHolds ==
    ASSUME IInv, HoldersInv, NEW t \in Threads, ClientLock(t)
    PROVE  HoldersInv'
<1>1. /\ pc[t] \in {"mqtt_lock", "sync_lock", "recv_lock", "send_lock"}
      /\ pc[t] = "mqtt_lock" => pc'[t] = "mqtt_call"
      /\ pc[t] = "sync_lock" => pc'[t] = "sync"
      /\ pc[t] = "recv_lock" => pc'[t] = "recv"
      /\ pc[t] = "send_lock" => pc'[t] = "send"
      /\ \A u \in Threads : u # t => pc'[u] = pc[u]
      /\ client_mutex' = t /\ mutex' = mutex /\ lock' = lock
  BY DEF IInv, TypeOK, ClientLock, ClientLabel, Goto
<1>2. /\ t = "server" => pc[t] = "mqtt_lock"
      /\ t = "refresher" => pc[t] # "mqtt_lock"
      /\ t # "updater"
  BY <1>1 DEF IInv, TypeOK, ServerLabel, RefresherLabel, UpdaterLabel, Threads
<1>3. mutex' = 0 => \E u \in Threads : Inside(u)'
  BY <1>1, StillHeld
<1> QED
  BY <1>1, <1>2, <1>3 DEF HoldersInv, SyncLabel, Threads

LEMMA HoldersPreserve ==
    ASSUME IInv, HoldersInv, [Next]_vars PROVE HoldersInv'
<1>1. /\ pc \in [Threads -> ServerLabel \cup RefresherLabel \cup UpdaterLabel]
      /\ mutex \in 0..1
  BY DEF IInv, TypeOK
<1>2. ASSUME NEW t \in Threads, SemWait(t) PROVE HoldersInv'
  BY <1>1, <1>2 DEF HoldersInv, Inside, SemWait, SyncLabel, Goto, Threads
<1>3. ASSUME NEW t \in Threads, Lock(t) PROVE HoldersInv'
  BY <1>1, <1>3 DEF HoldersInv, Inside, Lock, SyncLabel, Goto, Threads
<1>4. ASSUME NEW t \in Threads, Unlock(t) PROVE HoldersInv'
  <2>1. pc[t] \in {"table", "delivered"}
    BY <1>4 DEF Unlock, Finished, Threads
  <2> QED
    BY <1>1, <1>4, <2>1 DEF HoldersInv, Inside, Unlock, SyncLabel, Goto, Threads
<1>5. ASSUME NEW t \in Threads, SemPost(t) PROVE HoldersInv'
  <2>1. mutex' # 0
    BY <1>1, <1>5 DEF SemPost, PostSemaphore
  <2>2. t = "refresher" => Outside(t) = "recv"
    BY DEF Outside
  <2> QED
    BY <1>1, <1>5, <2>1, <2>2 DEF HoldersInv, SemPost, SyncLabel, Goto, Threads
<1>6. ASSUME NEW t \in Helpers, Cancel(t) PROVE HoldersInv'
  <2>1. /\ pc[t] \in {"sleep", "sem_wait", "recv", "send", "exec"}
        /\ pc' = [pc EXCEPT ![t] = "ended"] /\ t # "server" /\ t \in Threads
        /\ mutex' = mutex /\ lock' = lock /\ client_mutex' = client_mutex
    BY <1>6 DEF Cancel, CancelPoints, Goto, locks, Helpers, Threads
  <2>2. mutex' = 0 => \E u \in Threads : Inside(u)'
    <3>1. \A u \in Threads : pc[u] \in {"lock", "sem_post"} =>
                                 pc'[u] \in {"lock", "sem_post"}
      BY <1>1, <2>1
    <3> QED
      BY <2>1, <3>1, StillHeld
  <2> QED
    BY <1>1, <2>1, <2>2 DEF HoldersInv, SyncLabel, Threads
<1>7. CASE Updater
  <2>1. /\ mutex' = mutex /\ lock' = lock /\ client_mutex' = client_mutex
        /\ pc["updater"] \notin {"lock", "sem_post"}
        /\ \A t \in Threads \ {"updater"} : pc'[t] = pc[t]
    BY <1>1, <1>7
    DEF Updater, UpdaterWakes, BeginExec, EndExec, Goto, locks, Threads
  <2>2. mutex' = 0 => \E t \in Threads : Inside(t)'
    <3>1. \A t \in Threads : pc[t] \in {"lock", "sem_post"} =>
                                 pc'[t] \in {"lock", "sem_post"}
      BY <2>1
    <3> QED
      BY <2>1, <3>1, StillHeld
  <2> QED
    BY <2>1, <2>2 DEF HoldersInv, Threads
<1>8. CASE Signal \/ UNCHANGED vars
  BY <1>8 DEF HoldersInv, Inside, Signal, vars, locks
<1> QED
  BY <1>2, <1>3, <1>4, <1>5, <1>6, <1>7, <1>8, ClientLockHolds, ServerHolds,
     RefresherHolds
  DEF Next, Acquire, Release

\* Cancellation is main's, after its loop, and a helper ends only by it.
LEMMA CancelInvPreserves ==
    ASSUME IInv, CancelInv, [Next]_vars PROVE CancelInv'
<1>1. pc \in [Threads -> ServerLabel \cup RefresherLabel \cup UpdaterLabel]
  BY DEF IInv, TypeOK
<1>2. ASSUME NEW t \in Threads, Acquire(t) \/ Release(t) PROVE CancelInv'
  <2>1. /\ canceled' = canceled
        /\ \A u \in Threads : u # t => pc'[u] = pc[u]
    BY <1>1, <1>2
    DEF Acquire, Release, SemWait, Lock, ClientLock, Unlock, SemPost, Goto
  <2>2. /\ pc[t] \in {"sem_wait", "lock", "mqtt_lock", "sync_lock", "recv_lock",
                     "send_lock", "table", "delivered", "sem_post"}
        /\ pc'[t] \notin {"ended", "join"}
        /\ lock' = lock \/ lock' \in {t, None}
    <3>1. CASE SemWait(t) \/ Lock(t)
      BY <1>1, <3>1 DEF SemWait, Lock, Goto
    <3>2. CASE ClientLock(t)
      BY <1>1, <3>2 DEF ClientLock, ClientLabel, Goto
    <3>3. CASE Unlock(t)
      BY <1>1, <3>3 DEF Unlock, Finished, ReleaseLock, Goto, Threads
    <3>4. CASE SemPost(t)
      BY <1>1, <3>4 DEF SemPost, Outside, Goto, Threads
    <3> QED
      BY <1>2, <3>1, <3>2, <3>3, <3>4 DEF Acquire, Release
  <2> QED
    BY <2>1, <2>2, NoneAssumption DEF CancelInv, Threads, Helpers
<1>3. ASSUME NEW t \in Helpers, Cancel(t) PROVE CancelInv'
  <2>1. /\ t \in canceled /\ canceled' = canceled /\ lock' = lock
        /\ pc' = [pc EXCEPT ![t] = "ended"]
        /\ pc[t] \in {"sleep", "sem_wait", "recv", "send", "exec"}
    BY <1>3 DEF Cancel, CancelPoints, Goto, locks
  <2>2. t = "refresher" => lock # "refresher"
    BY <2>1
    DEF IInv, TypeOK, SectionInv, OwnerLabel, RefresherLabel, Threads
  <2> QED
    BY <1>1, <2>1, <2>2 DEF CancelInv, Threads, Helpers
<1>4. CASE CancelHelpers
  BY <1>1, <1>4 DEF CancelInv, CancelHelpers, Goto, locks, Threads, Helpers
<1>5. CASE Join \/ Close \/ LeaveLoop \/ CheckClose \/ Poll
  BY <1>1, <1>5
  DEF CancelInv, Join, Close, LeaveLoop, CheckClose, Poll, Goto, locks, Threads,
      Helpers
<1>6. CASE TableRequest \/ Transmit \/ BeginCall \/ NextPid \/ EndCall
           \/ StageChange
  BY <1>1, <1>6
  DEF CancelInv, TableRequest, Transmit, BeginCall, NextPid, EndCall, StageChange,
      Goto, locks, Threads, Helpers
<1>7. CASE Refresher
  <2>1. /\ canceled' = canceled /\ lock' = lock
        /\ \A t \in Threads \ {"refresher"} : pc'[t] = pc[t]
        /\ pc'["refresher"] # "ended"
    BY <1>1, <1>7
    DEF Refresher, RefresherWakes, ClientUnlock, SyncNext, Receive, CallbackEntry,
        Deliver, Goto, locks, Threads
  <2> QED
    BY <2>1 DEF CancelInv, Threads, Helpers
<1>8. CASE Updater
  <2>1. /\ canceled' = canceled /\ lock' = lock
        /\ \A t \in Threads \ {"updater"} : pc'[t] = pc[t]
        /\ pc'["updater"] # "ended"
    BY <1>1, <1>8
    DEF Updater, UpdaterWakes, BeginExec, EndExec, Goto, locks, Threads
  <2> QED
    BY <2>1 DEF CancelInv, Threads, Helpers
<1>9. CASE Signal \/ UNCHANGED vars
  BY <1>9 DEF CancelInv, Signal, vars, locks
<1> QED
  BY <1>2, <1>3, <1>4, <1>5, <1>6, <1>7, <1>8, <1>9 DEF Next, Server

\* Who is inside runs or was cancelled there, unless it is the server in front of
\* its MQTT call.
LEMMA InsideRuns ==
    ASSUME IInv, NEW u \in Threads, Inside(u), Blocked(u)
    PROVE  /\ u = "server" /\ pc[u] = "mqtt_lock" /\ lock = u
           /\ client_mutex # None
<1>1. pc[u] # "lock" \/ lock = None
  <2> SUFFICES ASSUME pc[u] = "lock", lock # None PROVE FALSE
    OBVIOUS
  <2>1. lock \in Threads /\ Inside(lock)
    BY DEF IInv, TypeOK, Inside
  <2> QED
    BY <2>1 DEF IInv, SectionInv, OwnerLabel
<1>2. pc[u] \notin {"sem_wait", "join", "close"}
  BY DEF IInv, SectionInv, Inside, OwnerLabel
<1>3. pc[u] \in DOMAIN ClientLabel /\ client_mutex # None
  BY <1>1, <1>2 DEF Blocked
<1>4. pc[u] \in {"mqtt_lock", "sync_lock", "recv_lock", "send_lock"}
  BY <1>3 DEF ClientLabel
<1>5. lock = u /\ pc[u] = "mqtt_lock"
  BY <1>4 DEF IInv, SectionInv, Inside, OwnerLabel
<1>6. u = "server"
  BY <1>5 DEF IInv, TypeOK, RefresherLabel, UpdaterLabel, Threads
<1> QED
  BY <1>3, <1>5, <1>6

\* A thread that ended inside is the updater, cancelled while main was leaving.
LEMMA EndedInside ==
    ASSUME IInv, CancelInv, NEW u \in Threads, Inside(u), pc[u] = "ended"
    PROVE  /\ u = "updater" /\ canceled = Helpers
           /\ pc["server"] \in {"cancel", "join", "close", "exited"}
<1>1. lock = u /\ u # "server"
  BY DEF IInv, TypeOK, ServerLabel, Inside
<1>2. u # "refresher"
  BY <1>1 DEF CancelInv
<1>3. u = "updater" /\ "updater" \in canceled
  BY <1>1, <1>2 DEF CancelInv, Threads, Helpers
<1> QED
  BY <1>3 DEF IInv, TypeOK, CancelInv, Helpers

\* Who owns client->mutex runs or was cancelled, unless it is the refresher in
\* front of the section.
LEMMA OwnerRuns ==
    ASSUME IInv, HoldersInv, client_mutex # None, Blocked(client_mutex)
    PROVE  /\ client_mutex = "refresher" /\ pc["refresher"] = "sem_wait"
           /\ mutex = 0 /\ "refresher" \notin canceled
<1>1. client_mutex \in {"server", "refresher"}
  BY DEF IInv, TypeOK
<1>2. client_mutex # "server"
  BY DEF HoldersInv, Blocked, ClientLabel
<1>3. client_mutex = "refresher" /\ pc["refresher"] \in SyncLabel
  BY <1>1, <1>2 DEF HoldersInv
<1>4. ~(pc["refresher"] = "lock" /\ lock # None)
  <2>1. "refresher" \in Threads
    BY DEF Threads
  <2> QED
    BY <1>3, <2>1, InsideRuns DEF Inside, Blocked
<1> QED
  BY <1>3, <1>4 DEF Blocked, SyncLabel, ClientLabel

\* The semaphore is taken: its holder runs, or runs as soon as it has
\* client->mutex.
LEMMA SemaphoreEnds ==
    ASSUME IInv, HoldersInv, CancelInv, ~CircularWait, NEW t \in Threads,
           pc[t] = "sem_wait", mutex = 0, t \notin canceled
    PROVE  \E u \in Threads :
               /\ WaitsFor(t, u)
               /\ Runs(u) \/ \E v \in Threads : WaitsFor(u, v) /\ Runs(v)
<1>1. PICK u \in Threads : Inside(u)
  BY DEF HoldersInv
<1>2. WaitsFor(t, u)
  BY <1>1 DEF WaitsFor
<1>3. pc[u] # "ended"
  <2> SUFFICES ASSUME pc[u] = "ended" PROVE FALSE
    OBVIOUS
  <2>1. /\ u = "updater" /\ canceled = Helpers
        /\ pc["server"] \in {"cancel", "join", "close", "exited"}
    BY <1>1, EndedInside
  <2> QED
    BY <2>1 DEF Threads, Helpers
<1>4. CASE Blocked(u)
  <2>1. /\ u = "server" /\ pc[u] = "mqtt_lock" /\ lock = u
        /\ client_mutex # None
    BY <1>1, <1>4, InsideRuns
  <2>2. client_mutex \in Threads /\ WaitsFor(u, client_mutex)
    BY <2>1 DEF IInv, TypeOK, Threads, WaitsFor, ClientLabel
  <2>3. ~Blocked(client_mutex)
    BY <2>1, OwnerRuns DEF CircularWait
  <2>4. pc[client_mutex] # "ended"
    BY <2>1, <2>2 DEF IInv, TypeOK, ServerLabel, CancelInv, Threads, Helpers
  <2> QED
    BY <1>2, <2>2, <2>3, <2>4 DEF Runs
<1> QED
  BY <1>2, <1>3, <1>4 DEF Runs

\* client->mutex is taken: its owner runs, or runs as soon as it has the section.
LEMMA ClientMutexEnds ==
    ASSUME IInv, HoldersInv, CancelInv, ~CircularWait, NEW t \in Threads,
           pc[t] \in DOMAIN ClientLabel, client_mutex # None
    PROVE  \E u \in Threads :
               /\ WaitsFor(t, u)
               /\ Runs(u) \/ \E v \in Threads : WaitsFor(u, v) /\ Runs(v)
<1>1. client_mutex \in Threads /\ WaitsFor(t, client_mutex)
  BY DEF IInv, TypeOK, Threads, WaitsFor
<1>2. pc[t] \in {"mqtt_lock", "sync_lock", "recv_lock", "send_lock"}
  BY DEF ClientLabel
<1>3. client_mutex = "refresher" => t = "server" /\ pc[t] = "mqtt_lock"
  BY <1>2
  DEF IInv, TypeOK, HoldersInv, SyncLabel, ServerLabel, UpdaterLabel, Threads
<1>4. client_mutex = "refresher" => canceled = {}
  BY <1>3 DEF CancelInv
<1>5. pc[client_mutex] # "ended"
  BY <1>1, <1>4 DEF IInv, TypeOK, ServerLabel, CancelInv, Threads, Helpers
<1>6. CASE Blocked(client_mutex)
  <2>1. client_mutex = "refresher" /\ pc["refresher"] = "sem_wait" /\ mutex = 0
    BY <1>6, OwnerRuns
  <2>2. PICK v \in Threads : Inside(v)
    BY <2>1 DEF HoldersInv
  <2>3. WaitsFor(client_mutex, v)
    BY <2>1, <2>2 DEF WaitsFor
  <2>4. ~Blocked(v)
    BY <2>1, <2>2, InsideRuns DEF CircularWait
  <2>5. pc[v] # "ended"
    <3> SUFFICES ASSUME pc[v] = "ended" PROVE FALSE
      OBVIOUS
    <3>1. canceled = Helpers
      BY <2>2, EndedInside
    <3> QED
      BY <1>4, <2>1, <3>1 DEF Helpers
  <2> QED
    BY <1>1, <2>3, <2>4, <2>5 DEF Runs
<1> QED
  BY <1>1, <1>5, <1>6 DEF Runs

\* main waits in pthread_join: the helper that has not ended runs.
LEMMA JoinEnds ==
    ASSUME IInv, HoldersInv, CancelInv, NEW t \in Threads, pc[t] = "join",
           NEW u \in Helpers, pc[u] # "ended"
    PROVE  WaitsFor(t, u) /\ Runs(u)
<1>1. t = "server" /\ u \in Threads /\ u # "server" /\ canceled = Helpers
  BY DEF IInv, TypeOK, RefresherLabel, UpdaterLabel, CancelInv, Threads, Helpers
<1>2. ~(pc[u] = "lock" /\ lock # None)
  BY <1>1, InsideRuns DEF Inside, Blocked
<1>3. ~(pc[u] \in DOMAIN ClientLabel /\ client_mutex # None)
  <2> SUFFICES ASSUME pc[u] \in DOMAIN ClientLabel, client_mutex # None
               PROVE  FALSE
    OBVIOUS
  <2>1. pc[u] \in {"mqtt_lock", "sync_lock", "recv_lock", "send_lock"}
    BY DEF ClientLabel
  <2>2. u = "refresher"
    BY <2>1 DEF IInv, TypeOK, UpdaterLabel, Helpers
  <2> QED
    BY <1>1, <2>1, <2>2 DEF IInv, TypeOK, HoldersInv, SyncLabel
<1>4. pc[u] \notin {"join", "close"}
  BY DEF IInv, TypeOK, RefresherLabel, UpdaterLabel, Helpers
<1> QED
  BY <1>1, <1>2, <1>3, <1>4 DEF WaitsFor, Blocked, Runs

LEMMA WaitEnds ==
    ASSUME IInv, HoldersInv, CancelInv PROVE WaitsEnd
<1> SUFFICES ASSUME ~CircularWait, ~SqliteAbandoned, NEW t \in Threads, Blocked(t)
             PROVE  \E u \in Threads :
                        /\ WaitsFor(t, u)
                        /\ \/ Runs(u)
                           \/ \E v \in Threads : WaitsFor(u, v) /\ Runs(v)
  BY DEF WaitsEnd
<1>1. ~(pc[t] = "lock" /\ lock # None)
  BY InsideRuns DEF Inside, Blocked
<1>2. ~(pc[t] = "close" /\ sqlite # None)
  BY DEF IInv, TypeOK, RefresherLabel, UpdaterLabel, SqliteAbandoned, Threads
<1>3. CASE pc[t] = "join" /\ \E u \in Helpers : pc[u] # "ended"
  BY <1>3, JoinEnds DEF Helpers, Threads
<1> QED
  BY <1>1, <1>2, <1>3, SemaphoreEnds, ClientMutexEnds DEF Blocked

\* The crosswise wait and the statement that was cut off are the only deadlocks
\* (WaitsEnd): for every set of requests and slots, whatever the broker sends,
\* wherever SIGINT comes and wherever a helper is cancelled.
THEOREM NoOtherDeadlock == Spec => []WaitsEnd
<1>1. Init => HoldersInv /\ CancelInv
  BY NoneAssumption DEF Init, HoldersInv, CancelInv, Threads, Helpers
<1>2. IInv /\ HoldersInv /\ [Next]_vars => HoldersInv'
  BY HoldersPreserve
<1>3. IInv /\ CancelInv /\ [Next]_vars => CancelInv'
  BY CancelInvPreserves
<1>4. IInv /\ HoldersInv /\ CancelInv => WaitsEnd
  BY WaitEnds
<1> QED
  BY <1>1, <1>2, <1>3, <1>4, Invariance, PTL DEF Spec

\* Once the server and the refresher wait for each other, the only steps left are
\* the updater's way to the semaphore, which is taken, and SIGINT's flag.
LEMMA CrosswiseStays ==
    ASSUME IInv, CancelInv, [Next]_vars, CircularWait
    PROVE  CircularWait' /\ to_change' = to_change
<1>1. /\ pc["server"] = "mqtt_lock" /\ lock = "server"
      /\ pc["refresher"] = "sem_wait" /\ client_mutex = "refresher"
  BY DEF CircularWait
<1>2. mutex = 0 /\ canceled = {}
  BY <1>1 DEF IInv, SectionInv, Inside, CancelInv, Threads
<1>3. pc["updater"] \in {"sleep", "sem_wait", "ended"}
  <2>1. ~Inside("updater") /\ ~InTable("updater")
    BY <1>1 DEF IInv, SectionInv, Inside, InTable, Threads
  <2> QED
    BY <2>1 DEF IInv, TypeOK, UpdaterLabel, Inside, InTable
<1>4. ~(\E t \in Threads : Acquire(t) \/ Release(t))
  <2>1. ASSUME NEW t \in Threads
        PROVE  pc[t] \in {"mqtt_lock", "sem_wait", "sleep", "ended"}
    BY <1>1, <1>3 DEF Threads
  <2>2. ASSUME NEW t \in Threads PROVE ~SemWait(t) /\ ~Lock(t) /\ ~ClientLock(t)
    BY <1>1, <1>2, <2>1, NoneAssumption DEF SemWait, Lock, ClientLock, Threads
  <2>3. ASSUME NEW t \in Threads PROVE ~Unlock(t) /\ ~SemPost(t)
    BY <2>1 DEF Unlock, Finished, SemPost, Threads
  <2> QED
    BY <2>2, <2>3 DEF Acquire, Release
<1>5. ~(\E t \in Helpers : Cancel(t))
  BY <1>2 DEF Cancel
<1>6. ~Server
  BY <1>1 DEF Server, Poll, LeaveLoop, TableRequest, Transmit, BeginCall, NextPid,
              EndCall, StageChange, CheckClose, CancelHelpers, Join, Close
<1>7. ~Refresher
  BY <1>1 DEF Refresher, RefresherWakes, ClientUnlock, SyncNext, Receive, Deliver
<1>8. CASE Updater
  <2>1. UpdaterWakes
    BY <1>3, <1>8 DEF Updater, BeginExec, EndExec
  <2> QED
    BY <1>1, <2>1 DEF IInv, TypeOK, UpdaterWakes, Goto, locks, CircularWait
<1>9. CASE Signal \/ UNCHANGED vars
  BY <1>1, <1>9 DEF Signal, vars, locks, CircularWait
<1> QED
  BY <1>4, <1>5, <1>6, <1>7, <1>8, <1>9 DEF Next

\* The crosswise wait that AnsweredOrCrosswise, WrittenOrCrosswise and ExitOrHang
\* name is the end of the hub (server.c:861 against server.c:1829): no message, no
\* SIGINT and no other thread undoes it, and what is staged is never written.
THEOREM CrosswiseForEver ==
    Spec => [][CircularWait => CircularWait' /\ to_change' = to_change]_vars
<1>1. Init => CancelInv
  BY NoneAssumption DEF Init, CancelInv, Threads, Helpers
<1>2. IInv /\ CancelInv /\ [Next]_vars => CancelInv'
  BY CancelInvPreserves
<1>3. IInv /\ CancelInv /\ [Next]_vars =>
        [CircularWait => CircularWait' /\ to_change' = to_change]_vars
  BY CrosswiseStays
<1> QED
  BY <1>1, <1>2, <1>3, Invariance, PTL DEF Spec
============================================================================
