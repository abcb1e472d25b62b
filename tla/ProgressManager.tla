-------------------------- MODULE ProgressManager ---------------------------
(***************************************************************************)
(* progress.py: one watcher thread per prompt run polls the controller for *)
(* the run's events, edits a notice and, when the run is over, asks the    *)
(* host once to inject a completion message; and the part of plugin.py     *)
(* that starts watchers (harness_prompt) and ends them (unload).           *)
(*                                                                         *)
(* The controller is seen through what events() answers: how many events   *)
(* a run has, the oldest it keeps, its state, and from which tier (its     *)
(* memory, its store, neither); a read of the store may fail.              *)
(* Host calls (post, edit, inject) take time and may fail; whether one did *)
(* is only logged.                                                         *)
(*                                                                         *)
(* A definition headed "Slip:" is a plausible mistake in the definition    *)
(* that follows it; nothing uses it.                                       *)
(***************************************************************************)
EXTENDS Integers, FiniteSets

CONSTANTS
    Runs,       \* runs that prompt calls have launched
    PageLimit,  \* page_limit of the watchers
    MaxEvents,  \* bound: events a run produces
    MaxFaults,  \* bound: reads of the store that fail under each watcher
    MayPrune,   \* whether a finished run may be dropped from memory and store
    Free        \* nobody holds _watchers_lock

ASSUME RunsAssumption == IsFiniteSet(Runs) /\ Free \notin Runs
ASSUME BoundsAssumption == PageLimit \in 1..500 /\ MaxEvents \in Nat
                            /\ MaxFaults \in Nat /\ MayPrune \in BOOLEAN

VARIABLES
    total, oldest,  \* of each run: events appended, and the oldest still kept
    state,          \* of each run: running, completed or cancelled
    open,           \* whether the run's output goes on
    tier,           \* what answers for it: memory, store, a stale row, or nothing
    handler,        \* where harness_prompt is after controller.prompt returned
    key, message,   \* whether it has a session key, and a notice it can edit
    injects,        \* whether the host has an inject_message to call
    watchers,       \* the keys of _watchers
    lock,           \* who holds _watchers_lock beyond one step
    watch,          \* where the watcher thread is
    stopped,        \* its stop event
    cursor,         \* its cursor
    faults,         \* reads of the store that failed under it
    shown,          \* what the notice was last set to
    injected,       \* completion attempts made
    unloading,      \* the _unloading event
    closer,         \* where unload is
    joins           \* watchers close() has still to join

feedVars   == <<total, oldest, state, open, tier>>
tableVars  == <<watchers, lock>>
watchVars  == <<watch, cursor, faults, shown, injected>>
closeVars  == <<unloading, closer, joins>>
handleVars == <<handler, key, message, injects>>
vars == <<feedVars, handleVars, tableVars, watchVars, stopped, closeVars>>

Lowest(m, n) == IF m < n THEN m ELSE n

Handlers == {"returned", "posting", "posted", "inserted", "answered"}
Calls    == {"editing", "finalEditing", "injecting"}
Watches  == {"none", "loop", "poll", "edit", "wait", "finish", "complete", "leave", "exited"} \union Calls
Alive(r) == watch[r] \notin {"none", "exited"}

Init ==
    /\ total = [r \in Runs |-> 0] /\ oldest = [r \in Runs |-> 0]
    /\ state = [r \in Runs |-> "running"]
    /\ open = [r \in Runs |-> TRUE] /\ tier = [r \in Runs |-> "memory"]
    /\ handler = [r \in Runs |-> "returned"]
    /\ key \in [Runs -> BOOLEAN] /\ message = [r \in Runs |-> FALSE]
    /\ injects \in BOOLEAN
    /\ watchers = {} /\ lock = Free
    /\ watch = [r \in Runs |-> "none"] /\ stopped = [r \in Runs |-> FALSE]
    /\ cursor = [r \in Runs |-> 0] /\ faults = [r \in Runs |-> 0]
    /\ shown = [r \in Runs |-> "nothing"] /\ injected = [r \in Runs |-> 0]
    /\ unloading = FALSE /\ closer = "loaded" /\ joins = {}

(* admit_delivery under _delivery_gate, for a watcher and for harness_prompt. *)
Admits(r) == ~unloading /\ ~stopped[r]

-----------------------------------------------------------------------------
(* The controller, as events() shows it. *)

EventArrives(r) ==
    /\ open[r] /\ total[r] < MaxEvents
    /\ total' = [total EXCEPT ![r] = @ + 1]
    /\ UNCHANGED <<oldest, state, open, tier, handleVars, tableVars, watchVars, stopped, closeVars>>

EventsExpire(r) ==
    /\ oldest[r] < total[r]
    /\ oldest' = [oldest EXCEPT ![r] = @ + 1]
    /\ UNCHANGED <<total, state, open, tier, handleVars, tableVars, watchVars, stopped, closeVars>>

(* The collector read everything before it set the outcome. *)
RunEnds(r) ==
    /\ open[r]
    /\ open' = [open EXCEPT ![r] = FALSE]
    /\ state' = [state EXCEPT ![r] = IF @ = "cancelled" THEN @ ELSE "completed"]
    /\ UNCHANGED <<total, oldest, tier, handleVars, tableVars, watchVars, stopped, closeVars>>

(* _store_run drops the record and the row answers.  After failed appends it *)
(* has counted fewer events; when its update failed it says running for good, *)
(* and until a late update when it was only overtaken.                        *)
RunEvicted(r) ==
    /\ MayPrune /\ tier[r] = "memory" /\ state[r] # "running"
    /\ \E t \in {"store", "stale"} : tier' = [tier EXCEPT ![r] = t]
    /\ \E n \in 0..total[r] : \E m \in 0..n :
        total' = [total EXCEPT ![r] = n] /\ oldest' = [oldest EXCEPT ![r] = m]
    /\ UNCHANGED <<state, open, handleVars, tableVars, watchVars, stopped, closeVars>>

RowCatchesUp(r) ==
    /\ tier[r] = "stale"
    /\ tier' = [tier EXCEPT ![r] = "store"]
    /\ UNCHANGED <<total, oldest, state, open, handleVars, tableVars, watchVars, stopped, closeVars>>

(* create prunes the row of an evicted run, unless it says running. *)
RunPruned(r) ==
    /\ MayPrune /\ tier[r] \in {"memory", "store"} /\ state[r] # "running"
    /\ tier' = [tier EXCEPT ![r] = "gone"]
    /\ UNCHANGED <<total, oldest, state, open, handleVars, tableVars, watchVars, stopped, closeVars>>

-----------------------------------------------------------------------------
(* harness_prompt after controller.prompt, and ProgressManager.start. *)

AdmitNotice(r) ==
    /\ handler[r] = "returned"
    /\ handler' = [handler EXCEPT ![r] = IF unloading THEN "answered" ELSE "posting"]
    /\ UNCHANGED <<feedVars, key, message, injects, tableVars, watchVars, stopped, closeVars>>

(* The host posts the notice, or not; a watcher needs a notice or a key. *)
PostNotice(r) ==
    /\ handler[r] = "posting"
    /\ \E posted \in BOOLEAN :
        /\ message' = [message EXCEPT ![r] = posted]
        /\ handler' = [handler EXCEPT ![r] = IF posted \/ key[r] THEN "posted" ELSE "answered"]
    /\ UNCHANGED <<feedVars, key, injects, tableVars, watchVars, stopped, closeVars>>

\* Slip: the thread is started after the lock is released.
InsertUnlocked(r) ==
    /\ handler[r] = "posted" /\ lock = Free
    /\ IF unloading \/ r \in watchers
       THEN handler' = [handler EXCEPT ![r] = "answered"] /\ UNCHANGED tableVars
       ELSE /\ handler' = [handler EXCEPT ![r] = "inserted"]
            /\ watchers' = watchers \union {r} /\ lock' = lock
    /\ UNCHANGED <<feedVars, key, message, injects, watchVars, stopped, closeVars>>
(* start takes _watchers_lock and keeps it until the thread runs. *)
Insert(r) ==
    /\ handler[r] = "posted" /\ lock = Free
    /\ IF unloading \/ r \in watchers
       THEN handler' = [handler EXCEPT ![r] = "answered"] /\ UNCHANGED tableVars
       ELSE /\ handler' = [handler EXCEPT ![r] = "inserted"]
            /\ watchers' = watchers \union {r} /\ lock' = r
    /\ UNCHANGED <<feedVars, key, message, injects, watchVars, stopped, closeVars>>

\* Slip: the entry of a thread that did not start stays.
StartWatcherLeaks(r) ==
    /\ handler[r] = "inserted"
    /\ \/ watch' = [watch EXCEPT ![r] = "loop"]
       \/ watch' = watch
    /\ handler' = [handler EXCEPT ![r] = "answered"]
    /\ lock' = Free /\ watchers' = watchers
    /\ UNCHANGED <<feedVars, key, message, injects, cursor, faults, shown, injected, stopped, closeVars>>
StartWatcher(r) ==
    /\ handler[r] = "inserted"
    /\ \/ watch' = [watch EXCEPT ![r] = "loop"] /\ watchers' = watchers
       \/ watchers' = watchers \ {r} /\ watch' = watch
    /\ handler' = [handler EXCEPT ![r] = "answered"]
    /\ lock' = Free
    /\ UNCHANGED <<feedVars, key, message, injects, cursor, faults, shown, injected, stopped, closeVars>>

-----------------------------------------------------------------------------
(* _watch. *)

Goto(r, pc) == watch' = [watch EXCEPT ![r] = pc]
Still(r) == UNCHANGED <<feedVars, handleVars, tableVars, stopped, closeVars>>

TestStop(r) ==
    /\ watch[r] = "loop"
    /\ Goto(r, IF stopped[r] THEN "leave" ELSE "poll")
    /\ Still(r) /\ UNCHANGED <<cursor, faults, shown, injected>>

Delivered(r) == Lowest(cursor[r] + PageLimit, total[r])

Says(r) == IF tier[r] = "stale" THEN "running" ELSE state[r]

(* Where a page leads: on, while there is more; to the end, when the state is *)
(* terminal; or to a throttled edit, unless on the command line, and a wait.  *)
AfterPage(r) ==
    IF Delivered(r) < total[r] THEN {"loop"}
    ELSE IF Says(r) # "running" THEN {"finish"} ELSE {"edit", "wait"}

(* No tier knows the run, or its row counts fewer events than were read. *)
Unanswered(r) == tier[r] = "gone" \/ cursor[r] > total[r]

(* One call of controller.events.  Only an expired cursor is recovered from; *)
(* after any other error the watcher waits and asks the same again.          *)
Poll(r) ==
    /\ watch[r] = "poll"
    /\ \/ Unanswered(r) /\ Goto(r, "wait") /\ UNCHANGED <<cursor, faults>>
       \/ /\ tier[r] \in {"store", "stale"} /\ faults[r] < MaxFaults
          /\ faults' = [faults EXCEPT ![r] = @ + 1]
          /\ Goto(r, "wait") /\ UNCHANGED cursor
       \/ /\ ~Unanswered(r) /\ cursor[r] < oldest[r]
          /\ cursor' = [cursor EXCEPT ![r] = oldest[r]]
          /\ Goto(r, "loop") /\ UNCHANGED faults
       \/ /\ ~Unanswered(r) /\ cursor[r] >= oldest[r]
          /\ cursor' = [cursor EXCEPT ![r] = Delivered(r)]
          /\ \E pc \in AfterPage(r) : Goto(r, pc)
          /\ UNCHANGED faults
    /\ Still(r) /\ UNCHANGED <<shown, injected>>

(* _edit: nothing without a notice, nothing once unloading. *)
Edit(r) ==
    /\ watch[r] = "edit"
    /\ Goto(r, IF message[r] /\ Admits(r) THEN "editing" ELSE "wait")
    /\ Still(r) /\ UNCHANGED <<cursor, faults, shown, injected>>

EditReturns(r) ==
    /\ watch[r] = "editing"
    /\ shown' = [shown EXCEPT ![r] = "running"]
    /\ Goto(r, "wait")
    /\ Still(r) /\ UNCHANGED <<cursor, faults, injected>>

\* Slip: after the wait it polls without another look at the stop event.
WaitDeaf(r) ==
    /\ watch[r] = "wait"
    /\ Goto(r, "poll")
    /\ Still(r) /\ UNCHANGED <<cursor, faults, shown, injected>>
(* stop.wait(poll_interval): it ends at once when stop is set. *)
Wait(r) ==
    /\ watch[r] = "wait"
    /\ Goto(r, IF stopped[r] THEN "leave" ELSE "loop")
    /\ Still(r) /\ UNCHANGED <<cursor, faults, shown, injected>>

\* Slip: without a notice to edit nothing is done at all.
FinishEditsOnly(r) ==
    /\ watch[r] = "finish"
    /\ Goto(r, IF message[r] /\ Admits(r) THEN "finalEditing" ELSE "leave")
    /\ Still(r) /\ UNCHANGED <<cursor, faults, shown, injected>>
(* _finish: the final edit ... *)
Finish(r) ==
    /\ watch[r] = "finish"
    /\ Goto(r, IF message[r] /\ Admits(r) THEN "finalEditing" ELSE "complete")
    /\ Still(r) /\ UNCHANGED <<cursor, faults, shown, injected>>

FinalEditReturns(r) ==
    /\ watch[r] = "finalEditing"
    /\ shown' = [shown EXCEPT ![r] = "final"]
    /\ Goto(r, "complete")
    /\ Still(r) /\ UNCHANGED <<cursor, faults, injected>>

(* ... then one completion attempt, admitted on its own, if the host has one. *)
Complete(r) ==
    /\ watch[r] = "complete"
    /\ Goto(r, IF key[r] /\ Admits(r) /\ injects THEN "injecting" ELSE "leave")
    /\ Still(r) /\ UNCHANGED <<cursor, faults, shown, injected>>

\* Slip: a refused injection is tried again after the next poll.
InjectRetries(r) ==
    /\ watch[r] = "injecting"
    /\ injected' = [injected EXCEPT ![r] = Lowest(@ + 1, 2)]
    /\ \E pc \in {"leave", "wait"} : Goto(r, pc)
    /\ Still(r) /\ UNCHANGED <<cursor, faults, shown>>
InjectReturns(r) ==
    /\ watch[r] = "injecting"
    /\ injected' = [injected EXCEPT ![r] = @ + 1]
    /\ Goto(r, "leave")
    /\ Still(r) /\ UNCHANGED <<cursor, faults, shown>>

(* The finally clause takes the watcher's own entry out. *)
Leave(r) ==
    /\ watch[r] = "leave" /\ lock = Free
    /\ watchers' = watchers \ {r}
    /\ Goto(r, "exited")
    /\ UNCHANGED <<feedVars, handleVars, lock, cursor, faults, shown, injected, stopped, closeVars>>

-----------------------------------------------------------------------------
(* unload: ProgressManager.close, then controller.close_now. *)

CloseGate ==
    /\ closer = "loaded"
    /\ unloading' = TRUE
    /\ closer' = "gated"
    /\ UNCHANGED <<feedVars, handleVars, tableVars, watchVars, stopped, joins>>

(* Under _watchers_lock: what is there is stopped, and joined later. *)
CloseStop ==
    /\ closer = "gated" /\ lock = Free
    /\ joins' = watchers
    /\ stopped' = [r \in Runs |-> stopped[r] \/ r \in watchers]
    /\ closer' = "joining"
    /\ UNCHANGED <<feedVars, handleVars, tableVars, watchVars, unloading>>

\* Slip: the joins have no deadline.
CloseJoinPatient(r) ==
    /\ closer = "joining" /\ r \in joins
    /\ watch[r] = "exited"
    /\ joins' = joins \ {r}
    /\ UNCHANGED <<feedVars, handleVars, tableVars, watchVars, stopped, unloading, closer>>
(* Each join returns when the watcher ended or the common deadline passed. *)
CloseJoin(r) ==
    /\ closer = "joining" /\ r \in joins
    /\ joins' = joins \ {r}
    /\ UNCHANGED <<feedVars, handleVars, tableVars, watchVars, stopped, unloading, closer>>

CloseDrop ==
    /\ closer = "joining" /\ joins = {} /\ lock = Free
    /\ watchers' = {r \in watchers : Alive(r)}
    /\ closer' = "dropped"
    /\ UNCHANGED <<feedVars, handleVars, lock, watchVars, stopped, unloading, joins>>

\* Slip: unload closes the controller before the progress manager.
ControllerCloseFirst ==
    /\ closer = "loaded"
    /\ state' = [r \in Runs |-> IF open[r] THEN "cancelled" ELSE state[r]]
    /\ UNCHANGED <<total, oldest, open, tier, handleVars, tableVars, watchVars, stopped, closeVars>>
(* close_now cancels what runs; buffered output may still be collected. *)
ControllerClose ==
    /\ closer = "dropped"
    /\ state' = [r \in Runs |-> IF open[r] THEN "cancelled" ELSE state[r]]
    /\ closer' = "closed"
    /\ UNCHANGED <<total, oldest, open, tier, handleVars, tableVars, watchVars, stopped, unloading, joins>>

-----------------------------------------------------------------------------
HandlerStep(r) == AdmitNotice(r) \/ Insert(r) \/ StartWatcher(r)
WatcherStep(r) == TestStop(r) \/ Poll(r) \/ Edit(r) \/ Wait(r) \/ Finish(r) \/ Complete(r) \/ Leave(r)
HostReturns(r) == PostNotice(r) \/ EditReturns(r) \/ FinalEditReturns(r) \/ InjectReturns(r)
FeedStep(r)    == \/ EventArrives(r) \/ EventsExpire(r) \/ RunEnds(r)
                  \/ RunEvicted(r) \/ RowCatchesUp(r) \/ RunPruned(r)
ManagerStep    == CloseStop \/ (\E r \in Runs : CloseJoin(r)) \/ CloseDrop \/ ControllerClose

Next ==
    \/ \E r \in Runs : HandlerStep(r) \/ WatcherStep(r) \/ HostReturns(r) \/ FeedStep(r)
    \/ CloseGate \/ ManagerStep

Spec == Init /\ [][Next]_vars

(* The plugin's threads run.  That the host answers a call is not assumed. *)
RunFairness(r) == WF_vars(HandlerStep(r)) /\ WF_vars(WatcherStep(r))
FairSpec == Spec /\ (\A r \in Runs : RunFairness(r)) /\ WF_vars(ManagerStep)

-----------------------------------------------------------------------------
TypeOK ==
    /\ total \in [Runs -> 0..MaxEvents] /\ oldest \in [Runs -> 0..MaxEvents]
    /\ state \in [Runs -> {"running", "completed", "cancelled"}]
    /\ open \in [Runs -> BOOLEAN]
    /\ tier \in [Runs -> {"memory", "store", "stale", "gone"}] /\ faults \in [Runs -> 0..MaxFaults]
    /\ handler \in [Runs -> Handlers]
    /\ key \in [Runs -> BOOLEAN] /\ message \in [Runs -> BOOLEAN]
    /\ injects \in BOOLEAN
    /\ watchers \subseteq Runs /\ lock \in Runs \union {Free}
    /\ watch \in [Runs -> Watches] /\ stopped \in [Runs -> BOOLEAN]
    /\ cursor \in [Runs -> 0..MaxEvents]
    /\ shown \in [Runs -> {"nothing", "running", "final"}]
    /\ injected \in [Runs -> 0..1]
    /\ unloading \in BOOLEAN
    /\ closer \in {"loaded", "gated", "joining", "dropped", "closed"}
    /\ joins \subseteq Runs

(* README.md: a terminal run is fully drained, of all that the tier which    *)
(* answers has kept, before the final edit, and the completion follows it.   *)
(* It depends on unload closing the manager before the controller, whose     *)
(* cancelled runs still produce events.                                      *)
FinalEditDrained ==
    \A r \in Runs : watch[r] \in {"finalEditing", "injecting"} \/ shown[r] = "final" =>
        ~open[r] /\ cursor[r] >= total[r]

(* close() joins no thread that start() has not started (it would raise), and *)
(* once it has stopped the watchers none is left, or comes later, unstopped.  *)
SweepReachesAll ==
    /\ closer = "joining" => \A r \in joins : watch[r] # "none"
    /\ closer \in {"joining", "dropped", "closed"} => \A r \in Runs : Alive(r) => stopped[r]

(* _watchers holds exactly the watchers that live, or are being started,     *)
(* whether start fails, a watcher leaves or close() drops it.                *)
TableIsExact ==
    \A r \in Runs : r \in watchers <=> Alive(r) \/ lock = r

(* One completion attempt per run, after the final edit if there is a notice *)
(* and the plugin stayed loaded.                                             *)
CompletionOnce ==
    \A r \in Runs : injected[r] > 0 =>
        /\ injected[r] = 1 /\ watch[r] \in {"leave", "exited"}
        /\ message[r] => shown[r] = "final"

(* Once unloading is set no thread begins a host call that was not admitted *)
(* before: neither a watcher's nor the one of harness_prompt.               *)
NothingAdmittedAfterUnload ==
    [][unloading => \A r \in Runs :
        /\ watch'[r] \in Calls => watch[r] = watch'[r]
        /\ handler'[r] = "posting" => handler[r] = "posting"]_vars

(* All that is done to the host keeps to HostDelivery, with any watchers,     *)
(* handlers and an unload at work: the order of the calls of a run, one at a  *)
(* time, each admitted on its own, and the last two of a run read to the end  *)
(* of what is kept of it.                                                     *)
HostCall(r) ==
    IF handler[r] = "posting" THEN "post"
    ELSE IF watch[r] = "editing" THEN "edit"
    ELSE IF watch[r] = "finalEditing" THEN "final"
    ELSE IF watch[r] = "injecting" THEN "inject" ELSE "none"
Notice(r) ==
    IF handler[r] \in {"returned", "posting"} THEN "due"
    ELSE IF ~message[r] THEN "without"
    ELSE IF shown[r] = "nothing" THEN "posted" ELSE shown[r]
Delivery == INSTANCE HostDelivery WITH
    gate   <- ~unloading,
    over   <- {r \in Runs : ~open[r] /\ cursor[r] >= total[r]},
    call   <- [r \in Runs |-> HostCall(r)],
    notice <- [r \in Runs |-> Notice(r)],
    told   <- {r \in Runs : injected[r] > 0}
DeliverySpec == Delivery!Spec

(* _watchers_lock makes nobody wait for good: who holds it can go on, and    *)
(* nothing else keeps a handler, unload, or a watcher that leaves; any other  *)
(* watcher goes on without it, whichever hang in a host call.                 *)
ThreadsGoOn ==
    /\ \A r \in Runs :
        /\ lock = r \/ handler[r] = "returned" \/ (handler[r] = "posted" /\ lock = Free)
            => ENABLED <<HandlerStep(r)>>_vars
        /\ Alive(r) /\ watch[r] \notin Calls /\ (watch[r] = "leave" => lock = Free)
            => ENABLED <<WatcherStep(r)>>_vars
    /\ lock = Free /\ closer \in {"gated", "joining", "dropped"} => ENABLED <<ManagerStep>>_vars

(* close() returns although host calls hang in the watchers it joins. *)
CloseReturns == closer = "gated" ~> closer = "closed"

(* No answer of events() can tell the watcher that the run is over: nothing  *)
(* knows the run, or its row is stale, or has lost events the watcher read.  *)
Lost(r) == tier[r] = "stale" \/ Unanswered(r)

(* A run that ends while it is watched and has a session key gets its        *)
(* completion attempt from a host that takes one, unless the plugin is       *)
(* unloaded first, the run is lost to the watcher, or a host call never      *)
(* returns; failed reads of the store only delay it.                         *)
CompletionDelivered ==
    \A r \in Runs : Alive(r) /\ ~open[r] /\ key[r] /\ injects ~>
        injected[r] = 1 \/ unloading \/ Lost(r) \/ [](watch[r] \in Calls)

(* A stopped watcher ends, also one whose run is lost to it, unless         *)
(* a host call it is in never returns.                                      *)
StoppedWatchersLeave ==
    \A r \in Runs : Alive(r) /\ stopped[r] ~> watch[r] = "exited" \/ [](watch[r] \in Calls)

=============================================================================
