---------------------------- MODULE HubLocks_MC ----------------------------
(* Values for the constants of HubLocks: two slots a change can be staged   *)
(* in, so that a change can be staged in one while the other is written.    *)
EXTENDS HubLocks

CONSTANTS s1, s2

\* The steps of one thread, its cancellation among them.
Of(t) == \/ Acquire(t) \/ Release(t)
         \/ t \in Helpers /\ Cancel(t)
         \/ t = "server" /\ Server
         \/ t = "refresher" /\ Refresher
         \/ t = "updater" /\ Updater

\* Runs, a predicate on the locks because WaitsEnd is proved, is what ENABLED says:
\* an invariant to add to hub_any.cfg when HubLocks is changed.
RunsExactly ==
    \A t \in Threads : Runs(t) <=> ENABLED Of(t) \/ pc[t] = "exited"
============================================================================
