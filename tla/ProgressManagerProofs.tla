----------------------- MODULE ProgressManagerProofs -----------------------
(***************************************************************************)
(* Proofs about ProgressManager for any set of runs, any number of events, *)
(* and hosts that answer or hang.                                          *)
(***************************************************************************)
EXTENDS ProgressManager, FiniteSetTheorems, Numbers

Swept == closer \in {"joining", "dropped", "closed"}

(* Once close() has swept, nobody is between the two halves of start(). *)
CloseInv ==
    /\ closer = "loaded" <=> ~unloading
    /\ Swept => lock = Free

(* A watcher belongs to a harness_prompt that has answered, and the table    *)
(* lists it from before its thread runs until it leaves.                     *)
ThreadInv(r) ==
    /\ watch[r] # "none" => handler[r] = "answered"
    /\ handler[r] = "inserted" <=> lock = r
    /\ r \in watchers <=> Alive(r) \/ lock = r
    /\ closer = "joining" /\ r \in joins => watch[r] # "none"
    /\ Swept /\ Alive(r) => stopped[r]
    /\ stopped[r] => unloading

Drained(r) == ~open[r] /\ cursor[r] >= total[r]

(* Only an unloaded controller calls a run over whose output still comes, so *)
(* a watcher that may still edit or inject has read everything.              *)
DrainInv(r) ==
    /\ state[r] = "completed" => ~open[r]
    /\ state[r] = "cancelled" => ~open[r] \/ closer = "closed"
    /\ watch[r] \in {"finish", "complete"} => Drained(r) \/ closer = "closed"
    /\ watch[r] \in {"finalEditing", "injecting"} \/ shown[r] = "final" => Drained(r)
    /\ shown[r] = "final" => watch[r] \in {"complete", "injecting", "leave", "exited"}

(* The completion comes after the final edit, if there is a notice to edit. *)
OnceInv(r) ==
    /\ watch[r] = "complete" /\ message[r] => shown[r] = "final" \/ unloading
    /\ watch[r] = "injecting" /\ message[r] => shown[r] = "final"
    /\ injected[r] > 0 =>
          /\ injected[r] = 1 /\ watch[r] \in {"leave", "exited"}
          /\ message[r] => shown[r] = "final"

RunInv(r) == ThreadInv(r) /\ DrainInv(r) /\ OnceInv(r)
WatchInv  == TypeOK /\ CloseInv /\ \A r \in Runs : RunInv(r)

-----------------------------------------------------------------------------
LEMMA WatchInit == Init => WatchInv
<1>1. Init => TypeOK
  <2>1. 0 \in 0..MaxEvents /\ 0 \in 0..1
    BY BoundsAssumption
  <2> SUFFICES ASSUME Init PROVE TypeOK
    OBVIOUS
  <2>2. /\ total \in [Runs -> 0..MaxEvents] /\ oldest \in [Runs -> 0..MaxEvents]
        /\ cursor \in [Runs -> 0..MaxEvents] /\ injected \in [Runs -> 0..1]
        /\ faults \in [Runs -> 0..MaxFaults]
    BY <2>1, BoundsAssumption DEF Init
  <2>3. watch \in [Runs -> Watches] /\ handler \in [Runs -> Handlers]
    BY DEF Init, Watches, Handlers
  <2>4. /\ state \in [Runs -> {"running", "completed", "cancelled"}]
        /\ shown \in [Runs -> {"nothing", "running", "final"}]
    BY DEF Init
  <2>5. /\ open \in [Runs -> BOOLEAN] /\ injects \in BOOLEAN
        /\ tier \in [Runs -> {"memory", "store", "stale", "gone"}]
        /\ key \in [Runs -> BOOLEAN] /\ message \in [Runs -> BOOLEAN]
        /\ stopped \in [Runs -> BOOLEAN]
    BY DEF Init
  <2>6. /\ watchers \subseteq Runs /\ lock \in Runs \union {Free} /\ joins \subseteq Runs
        /\ unloading \in BOOLEAN /\ closer \in {"loaded", "gated", "joining", "dropped", "closed"}
    BY DEF Init
  <2>7. QED
    BY <2>2, <2>3, <2>4, <2>5, <2>6 DEF TypeOK
<1>2. Init => CloseInv
  BY DEF Init, CloseInv, Swept
<1>3. Init => \A r \in Runs : RunInv(r)
  BY RunsAssumption DEF Init, RunInv, ThreadInv, DrainInv, OnceInv, Drained, Swept, Alive
<1>4. QED
  BY <1>1, <1>2, <1>3 DEF WatchInv

(* What the controller's runs do under a watcher. *)
LEMMA PreservedByFeed ==
  ASSUME WatchInv, NEW r \in Runs,
         \/ EventArrives(r) \/ EventsExpire(r) \/ RunEnds(r)
         \/ RunPruned(r) \/ RunEvicted(r) \/ RowCatchesUp(r)
  PROVE  WatchInv'
<1>1. CASE EventArrives(r)
  <2>1. TypeOK'
    BY <1>1, BoundsAssumption, RunsAssumption DEF WatchInv, TypeOK, EventArrives, handleVars,
       tableVars, watchVars, closeVars,
       Handlers, Watches, Calls
  <2>2. CloseInv'
    BY <1>1, RunsAssumption DEF WatchInv, TypeOK, CloseInv, Swept, RunInv, ThreadInv,
       EventArrives, handleVars, tableVars, watchVars, closeVars
  <2>3. ASSUME NEW s \in Runs PROVE ThreadInv(s)'
    BY <1>1, <2>1, <2>3, RunsAssumption DEF WatchInv, TypeOK, CloseInv, RunInv, ThreadInv,
       Swept, Alive, Watches, Calls, Handlers, EventArrives, handleVars, tableVars, watchVars,
       closeVars
  <2>4. ASSUME NEW s \in Runs PROVE DrainInv(s)'
    BY <1>1, <2>1, <2>4, RunsAssumption, BoundsAssumption DEF WatchInv, TypeOK, CloseInv,
       RunInv, ThreadInv, DrainInv, Drained, EventArrives, handleVars, tableVars, watchVars,
       closeVars
  <2>5. ASSUME NEW s \in Runs PROVE OnceInv(s)'
    BY <1>1, <2>1, <2>5, RunsAssumption DEF WatchInv, TypeOK, CloseInv, RunInv, ThreadInv,
       DrainInv, OnceInv, EventArrives, handleVars, tableVars, watchVars, closeVars
  <2>6. QED
    BY <2>1, <2>2, <2>3, <2>4, <2>5 DEF WatchInv, RunInv
<1>2. CASE EventsExpire(r)
  <2>1. TypeOK'
    BY <1>2, BoundsAssumption, RunsAssumption DEF WatchInv, TypeOK, EventsExpire, handleVars,
       tableVars, watchVars, closeVars,
       Handlers, Watches, Calls
  <2>2. CloseInv'
    BY <1>2, RunsAssumption DEF WatchInv, TypeOK, CloseInv, Swept, RunInv, ThreadInv,
       EventsExpire, handleVars, tableVars, watchVars, closeVars
  <2>3. ASSUME NEW s \in Runs PROVE ThreadInv(s)'
    BY <1>2, <2>1, <2>3, RunsAssumption DEF WatchInv, TypeOK, CloseInv, RunInv, ThreadInv,
       Swept, Alive, Watches, Calls, Handlers, EventsExpire, handleVars, tableVars, watchVars,
       closeVars
  <2>4. ASSUME NEW s \in Runs PROVE DrainInv(s)'
    BY <1>2, <2>1, <2>4, RunsAssumption, BoundsAssumption DEF WatchInv, TypeOK, CloseInv,
       RunInv, ThreadInv, DrainInv, Drained, EventsExpire, handleVars, tableVars, watchVars,
       closeVars
  <2>5. ASSUME NEW s \in Runs PROVE OnceInv(s)'
    BY <1>2, <2>1, <2>5, RunsAssumption DEF WatchInv, TypeOK, CloseInv, RunInv, ThreadInv,
       DrainInv, OnceInv, EventsExpire, handleVars, tableVars, watchVars, closeVars
  <2>6. QED
    BY <2>1, <2>2, <2>3, <2>4, <2>5 DEF WatchInv, RunInv
<1>3. CASE RunEnds(r)
  <2>1. TypeOK'
    BY <1>3, BoundsAssumption, RunsAssumption DEF WatchInv, TypeOK, RunEnds, handleVars,
       tableVars, watchVars, closeVars,
       Handlers, Watches, Calls
  <2>2. CloseInv'
    BY <1>3, RunsAssumption DEF WatchInv, TypeOK, CloseInv, Swept, RunInv, ThreadInv, RunEnds,
       handleVars, tableVars, watchVars, closeVars
  <2>3. ASSUME NEW s \in Runs PROVE ThreadInv(s)'
    BY <1>3, <2>1, <2>3, RunsAssumption DEF WatchInv, TypeOK, CloseInv, RunInv, ThreadInv,
       Swept, Alive, Watches, Calls, Handlers, RunEnds, handleVars, tableVars, watchVars,
       closeVars
  <2>4. ASSUME NEW s \in Runs PROVE DrainInv(s)'
    BY <1>3, <2>1, <2>4, RunsAssumption, BoundsAssumption DEF WatchInv, TypeOK, CloseInv,
       RunInv, ThreadInv, DrainInv, Drained, RunEnds, handleVars, tableVars, watchVars,
       closeVars
  <2>5. ASSUME NEW s \in Runs PROVE OnceInv(s)'
    BY <1>3, <2>1, <2>5, RunsAssumption DEF WatchInv, TypeOK, CloseInv, RunInv, ThreadInv,
       DrainInv, OnceInv, RunEnds, handleVars, tableVars, watchVars, closeVars
  <2>6. QED
    BY <2>1, <2>2, <2>3, <2>4, <2>5 DEF WatchInv, RunInv
<1>4. CASE RunPruned(r)
  <2>1. TypeOK'
    BY <1>4, BoundsAssumption, RunsAssumption DEF WatchInv, TypeOK, RunPruned, handleVars,
       tableVars, watchVars, closeVars,
       Handlers, Watches, Calls
  <2>2. CloseInv'
    BY <1>4, RunsAssumption DEF WatchInv, TypeOK, CloseInv, Swept, RunInv, ThreadInv,
       RunPruned, handleVars, tableVars, watchVars, closeVars
  <2>3. ASSUME NEW s \in Runs PROVE ThreadInv(s)'
    BY <1>4, <2>1, <2>3, RunsAssumption DEF WatchInv, TypeOK, CloseInv, RunInv, ThreadInv,
       Swept, Alive, Watches, Calls, Handlers, RunPruned, handleVars, tableVars, watchVars,
       closeVars
  <2>4. ASSUME NEW s \in Runs PROVE DrainInv(s)'
    BY <1>4, <2>1, <2>4, RunsAssumption, BoundsAssumption DEF WatchInv, TypeOK, CloseInv,
       RunInv, ThreadInv, DrainInv, Drained, RunPruned, handleVars, tableVars, watchVars,
       closeVars
  <2>5. ASSUME NEW s \in Runs PROVE OnceInv(s)'
    BY <1>4, <2>1, <2>5, RunsAssumption DEF WatchInv, TypeOK, CloseInv, RunInv, ThreadInv,
       DrainInv, OnceInv, RunPruned, handleVars, tableVars, watchVars, closeVars
  <2>6. QED
    BY <2>1, <2>2, <2>3, <2>4, <2>5 DEF WatchInv, RunInv
<1>5. CASE RunEvicted(r)
  <2>1. TypeOK'
    BY <1>5, BoundsAssumption, RunsAssumption DEF WatchInv, TypeOK, RunEvicted, handleVars,
       tableVars, watchVars, closeVars,
       Handlers, Watches, Calls
  <2>2. CloseInv'
    BY <1>5, RunsAssumption DEF WatchInv, TypeOK, CloseInv, Swept, RunInv, ThreadInv,
       RunEvicted, handleVars, tableVars, watchVars, closeVars
  <2>3. ASSUME NEW s \in Runs PROVE ThreadInv(s)'
    BY <1>5, <2>1, <2>3, RunsAssumption DEF WatchInv, TypeOK, CloseInv, RunInv, ThreadInv,
       Swept, Alive, Watches, Calls, Handlers, RunEvicted, handleVars, tableVars, watchVars,
       closeVars
  <2>4. ASSUME NEW s \in Runs PROVE DrainInv(s)'
    BY <1>5, <2>1, <2>4, RunsAssumption, BoundsAssumption DEF WatchInv, TypeOK, CloseInv,
       RunInv, ThreadInv, DrainInv, Drained, RunEvicted, handleVars, tableVars, watchVars,
       closeVars
  <2>5. ASSUME NEW s \in Runs PROVE OnceInv(s)'
    BY <1>5, <2>1, <2>5, RunsAssumption DEF WatchInv, TypeOK, CloseInv, RunInv, ThreadInv,
       DrainInv, OnceInv, RunEvicted, handleVars, tableVars, watchVars, closeVars
  <2>6. QED
    BY <2>1, <2>2, <2>3, <2>4, <2>5 DEF WatchInv, RunInv
<1>6. CASE RowCatchesUp(r)
  <2>1. TypeOK'
    BY <1>6, BoundsAssumption, RunsAssumption DEF WatchInv, TypeOK, RowCatchesUp, handleVars,
       tableVars, watchVars, closeVars,
       Handlers, Watches, Calls
  <2>2. CloseInv'
    BY <1>6, RunsAssumption DEF WatchInv, TypeOK, CloseInv, Swept, RunInv, ThreadInv,
       RowCatchesUp, handleVars, tableVars, watchVars, closeVars
  <2>3. ASSUME NEW s \in Runs PROVE ThreadInv(s)'
    BY <1>6, <2>1, <2>3, RunsAssumption DEF WatchInv, TypeOK, CloseInv, RunInv, ThreadInv,
       Swept, Alive, Watches, Calls, Handlers, RowCatchesUp, handleVars, tableVars, watchVars,
       closeVars
  <2>4. ASSUME NEW s \in Runs PROVE DrainInv(s)'
    BY <1>6, <2>1, <2>4, RunsAssumption, BoundsAssumption DEF WatchInv, TypeOK, CloseInv,
       RunInv, ThreadInv, DrainInv, Drained, RowCatchesUp, handleVars, tableVars, watchVars,
       closeVars
  <2>5. ASSUME NEW s \in Runs PROVE OnceInv(s)'
    BY <1>6, <2>1, <2>5, RunsAssumption DEF WatchInv, TypeOK, CloseInv, RunInv, ThreadInv,
       DrainInv, OnceInv, RowCatchesUp, handleVars, tableVars, watchVars, closeVars
  <2>6. QED
    BY <2>1, <2>2, <2>3, <2>4, <2>5 DEF WatchInv, RunInv
<1>7. QED
  BY <1>1, <1>2, <1>3, <1>4, <1>5, <1>6

(* harness_prompt and start(). *)
LEMMA PreservedByHandler ==
  ASSUME WatchInv, NEW r \in Runs, AdmitNotice(r) \/ PostNotice(r) \/ Insert(r) \/ StartWatcher(r)
  PROVE  WatchInv'
<1>1. CASE AdmitNotice(r)
  <2>1. TypeOK'
    BY <1>1, BoundsAssumption, RunsAssumption DEF WatchInv, TypeOK, AdmitNotice, feedVars,
       tableVars, watchVars, closeVars,
       Handlers, Watches, Calls
  <2>2. CloseInv'
    BY <1>1, RunsAssumption DEF WatchInv, TypeOK, CloseInv, Swept, RunInv, ThreadInv,
       AdmitNotice, feedVars, tableVars, watchVars, closeVars
  <2>3. ASSUME NEW s \in Runs PROVE ThreadInv(s)'
    BY <1>1, <2>1, <2>3, RunsAssumption DEF WatchInv, TypeOK, CloseInv, RunInv, ThreadInv,
       Swept, Alive, Watches, Calls, Handlers, AdmitNotice, feedVars, tableVars, watchVars,
       closeVars
  <2>4. ASSUME NEW s \in Runs PROVE DrainInv(s)'
    BY <1>1, <2>1, <2>4, RunsAssumption, BoundsAssumption DEF WatchInv, TypeOK, CloseInv,
       RunInv, ThreadInv, DrainInv, Drained, AdmitNotice, feedVars, tableVars, watchVars,
       closeVars
  <2>5. ASSUME NEW s \in Runs PROVE OnceInv(s)'
    BY <1>1, <2>1, <2>5, RunsAssumption DEF WatchInv, TypeOK, CloseInv, RunInv, ThreadInv,
       DrainInv, OnceInv, AdmitNotice, feedVars, tableVars, watchVars, closeVars
  <2>6. QED
    BY <2>1, <2>2, <2>3, <2>4, <2>5 DEF WatchInv, RunInv
<1>2. CASE PostNotice(r)
  <2>1. TypeOK'
    BY <1>2, BoundsAssumption, RunsAssumption DEF WatchInv, TypeOK, PostNotice, feedVars,
       tableVars, watchVars, closeVars,
       Handlers, Watches, Calls
  <2>2. CloseInv'
    BY <1>2, RunsAssumption DEF WatchInv, TypeOK, CloseInv, Swept, RunInv, ThreadInv,
       PostNotice, feedVars, tableVars, watchVars, closeVars
  <2>3. ASSUME NEW s \in Runs PROVE ThreadInv(s)'
    BY <1>2, <2>1, <2>3, RunsAssumption DEF WatchInv, TypeOK, CloseInv, RunInv, ThreadInv,
       Swept, Alive, Watches, Calls, Handlers, PostNotice, feedVars, tableVars, watchVars,
       closeVars
  <2>4. ASSUME NEW s \in Runs PROVE DrainInv(s)'
    BY <1>2, <2>1, <2>4, RunsAssumption, BoundsAssumption DEF WatchInv, TypeOK, CloseInv,
       RunInv, ThreadInv, DrainInv, Drained, PostNotice, feedVars, tableVars, watchVars,
       closeVars
  <2>5. ASSUME NEW s \in Runs PROVE OnceInv(s)'
    BY <1>2, <2>1, <2>5, RunsAssumption DEF WatchInv, TypeOK, CloseInv, RunInv, ThreadInv,
       DrainInv, OnceInv, PostNotice, feedVars, tableVars, watchVars, closeVars
  <2>6. QED
    BY <2>1, <2>2, <2>3, <2>4, <2>5 DEF WatchInv, RunInv
<1>3. CASE Insert(r)
  <2>1. TypeOK'
    BY <1>3, BoundsAssumption, RunsAssumption DEF WatchInv, TypeOK, Insert, feedVars,
       tableVars, watchVars, closeVars,
       Handlers, Watches, Calls
  <2>2. CloseInv'
    BY <1>3, RunsAssumption DEF WatchInv, TypeOK, CloseInv, Swept, RunInv, ThreadInv, Insert,
       feedVars, tableVars, watchVars, closeVars
  <2>3. ASSUME NEW s \in Runs PROVE ThreadInv(s)'
    BY <1>3, <2>1, <2>3, RunsAssumption DEF WatchInv, TypeOK, CloseInv, RunInv, ThreadInv,
       Swept, Alive, Watches, Calls, Handlers, Insert, feedVars, tableVars, watchVars,
       closeVars
  <2>4. ASSUME NEW s \in Runs PROVE DrainInv(s)'
    BY <1>3, <2>1, <2>4, RunsAssumption, BoundsAssumption DEF WatchInv, TypeOK, CloseInv,
       RunInv, ThreadInv, DrainInv, Drained, Insert, feedVars, tableVars, watchVars, closeVars
  <2>5. ASSUME NEW s \in Runs PROVE OnceInv(s)'
    BY <1>3, <2>1, <2>5, RunsAssumption DEF WatchInv, TypeOK, CloseInv, RunInv, ThreadInv,
       DrainInv, OnceInv, Insert, feedVars, tableVars, watchVars, closeVars
  <2>6. QED
    BY <2>1, <2>2, <2>3, <2>4, <2>5 DEF WatchInv, RunInv
<1>4. CASE StartWatcher(r)
  <2>1. TypeOK'
    BY <1>4, BoundsAssumption, RunsAssumption DEF WatchInv, TypeOK, StartWatcher, feedVars,
       closeVars,
       Handlers, Watches, Calls
  <2>2. CloseInv'
    BY <1>4, RunsAssumption DEF WatchInv, TypeOK, CloseInv, Swept, RunInv, ThreadInv,
       StartWatcher, feedVars, closeVars
  <2>3. ASSUME NEW s \in Runs PROVE ThreadInv(s)'
    BY <1>4, <2>1, <2>3, RunsAssumption DEF WatchInv, TypeOK, CloseInv, RunInv, ThreadInv,
       Swept, Alive, Watches, Calls, Handlers, StartWatcher, feedVars, closeVars
  <2>4. ASSUME NEW s \in Runs PROVE DrainInv(s)'
    BY <1>4, <2>1, <2>4, RunsAssumption, BoundsAssumption DEF WatchInv, TypeOK, CloseInv,
       RunInv, ThreadInv, DrainInv, Drained, StartWatcher, feedVars, closeVars
  <2>5. ASSUME NEW s \in Runs PROVE OnceInv(s)'
    BY <1>4, <2>1, <2>5, RunsAssumption DEF WatchInv, TypeOK, CloseInv, RunInv, ThreadInv,
       DrainInv, OnceInv, StartWatcher, feedVars, closeVars
  <2>6. QED
    BY <2>1, <2>2, <2>3, <2>4, <2>5 DEF WatchInv, RunInv
<1>5. QED
  BY <1>1, <1>2, <1>3, <1>4

(* _watch and _finish. *)
LEMMA PreservedByWatcher ==
  ASSUME WatchInv, NEW r \in Runs,
         \/ TestStop(r) \/ Poll(r) \/ Edit(r) \/ EditReturns(r) \/ Wait(r) \/ Finish(r)
         \/ FinalEditReturns(r) \/ Complete(r) \/ InjectReturns(r) \/ Leave(r)
  PROVE  WatchInv'
<1>1. CASE TestStop(r)
  <2>1. TypeOK'
    BY <1>1, BoundsAssumption, RunsAssumption DEF WatchInv, TypeOK, TestStop, Goto, Still,
       feedVars, handleVars, tableVars, closeVars,
       Handlers, Watches, Calls
  <2>2. CloseInv'
    BY <1>1, RunsAssumption DEF WatchInv, TypeOK, CloseInv, Swept, RunInv, ThreadInv,
       TestStop, Goto, Still, feedVars, handleVars, tableVars, closeVars
  <2>3. ASSUME NEW s \in Runs PROVE ThreadInv(s)'
    BY <1>1, <2>1, <2>3, RunsAssumption DEF WatchInv, TypeOK, CloseInv, RunInv, ThreadInv,
       Swept, Alive, Watches, Calls, Handlers, TestStop, Goto, Still, feedVars, handleVars,
       tableVars, closeVars
  <2>4. ASSUME NEW s \in Runs PROVE DrainInv(s)'
    BY <1>1, <2>1, <2>4, RunsAssumption, BoundsAssumption DEF WatchInv, TypeOK, CloseInv,
       RunInv, ThreadInv, DrainInv, Drained, TestStop, Goto, Still, feedVars, handleVars,
       tableVars, closeVars
  <2>5. ASSUME NEW s \in Runs PROVE OnceInv(s)'
    BY <1>1, <2>1, <2>5, RunsAssumption DEF WatchInv, TypeOK, CloseInv, RunInv, ThreadInv,
       DrainInv, OnceInv, TestStop, Goto, Still, feedVars, handleVars, tableVars, closeVars
  <2>6. QED
    BY <2>1, <2>2, <2>3, <2>4, <2>5 DEF WatchInv, RunInv
<1>2. CASE Poll(r)
  <2>1. TypeOK'
    BY <1>2, BoundsAssumption, RunsAssumption, SMTT(30) DEF WatchInv, TypeOK, Poll, Goto, Still,
       feedVars, handleVars, tableVars, closeVars, AfterPage, Delivered, Lowest, Unanswered, Says,
       Handlers, Watches, Calls
  <2>2. CloseInv'
    BY <1>2, RunsAssumption DEF WatchInv, TypeOK, CloseInv, Swept, RunInv, ThreadInv, Poll,
       Goto, Still, feedVars, handleVars, tableVars, closeVars, AfterPage, Delivered, Lowest, Unanswered, Says
  <2>3. ASSUME NEW s \in Runs PROVE ThreadInv(s)'
    BY <1>2, <2>1, <2>3, RunsAssumption DEF WatchInv, TypeOK, CloseInv, RunInv, ThreadInv,
       Swept, Alive, Watches, Calls, Handlers, Poll, Goto, Still, feedVars, handleVars,
       tableVars, closeVars, AfterPage, Delivered, Lowest, Unanswered, Says
  <2>4. ASSUME NEW s \in Runs PROVE DrainInv(s)'
    BY <1>2, <2>1, <2>4, RunsAssumption, BoundsAssumption DEF WatchInv, TypeOK, CloseInv,
       RunInv, ThreadInv, DrainInv, Drained, Poll, Goto, Still, feedVars, handleVars,
       tableVars, closeVars, AfterPage, Delivered, Lowest, Unanswered, Says
  <2>5. ASSUME NEW s \in Runs PROVE OnceInv(s)'
    BY <1>2, <2>1, <2>5, RunsAssumption DEF WatchInv, TypeOK, CloseInv, RunInv, ThreadInv,
       DrainInv, OnceInv, Poll, Goto, Still, feedVars, handleVars, tableVars, closeVars,
       AfterPage, Delivered, Lowest, Unanswered, Says
  <2>6. QED
    BY <2>1, <2>2, <2>3, <2>4, <2>5 DEF WatchInv, RunInv
<1>3. CASE Edit(r)
  <2>1. TypeOK'
    BY <1>3, BoundsAssumption, RunsAssumption DEF WatchInv, TypeOK, Edit, Goto, Still,
       feedVars, handleVars, tableVars, closeVars, Admits,
       Handlers, Watches, Calls
  <2>2. CloseInv'
    BY <1>3, RunsAssumption DEF WatchInv, TypeOK, CloseInv, Swept, RunInv, ThreadInv, Edit,
       Goto, Still, feedVars, handleVars, tableVars, closeVars, Admits
  <2>3. ASSUME NEW s \in Runs PROVE ThreadInv(s)'
    BY <1>3, <2>1, <2>3, RunsAssumption DEF WatchInv, TypeOK, CloseInv, RunInv, ThreadInv,
       Swept, Alive, Watches, Calls, Handlers, Edit, Goto, Still, feedVars, handleVars,
       tableVars, closeVars, Admits
  <2>4. ASSUME NEW s \in Runs PROVE DrainInv(s)'
    BY <1>3, <2>1, <2>4, RunsAssumption, BoundsAssumption DEF WatchInv, TypeOK, CloseInv,
       RunInv, ThreadInv, DrainInv, Drained, Edit, Goto, Still, feedVars, handleVars,
       tableVars, closeVars, Admits
  <2>5. ASSUME NEW s \in Runs PROVE OnceInv(s)'
    BY <1>3, <2>1, <2>5, RunsAssumption DEF WatchInv, TypeOK, CloseInv, RunInv, ThreadInv,
       DrainInv, OnceInv, Edit, Goto, Still, feedVars, handleVars, tableVars, closeVars,
       Admits
  <2>6. QED
    BY <2>1, <2>2, <2>3, <2>4, <2>5 DEF WatchInv, RunInv
<1>4. CASE EditReturns(r)
  <2>1. TypeOK'
    BY <1>4, BoundsAssumption, RunsAssumption DEF WatchInv, TypeOK, EditReturns, Goto, Still,
       feedVars, handleVars, tableVars, closeVars,
       Handlers, Watches, Calls
  <2>2. CloseInv'
    BY <1>4, RunsAssumption DEF WatchInv, TypeOK, CloseInv, Swept, RunInv, ThreadInv,
       EditReturns, Goto, Still, feedVars, handleVars, tableVars, closeVars
  <2>3. ASSUME NEW s \in Runs PROVE ThreadInv(s)'
    BY <1>4, <2>1, <2>3, RunsAssumption DEF WatchInv, TypeOK, CloseInv, RunInv, ThreadInv,
       Swept, Alive, Watches, Calls, Handlers, EditReturns, Goto, Still, feedVars, handleVars,
       tableVars, closeVars
  <2>4. ASSUME NEW s \in Runs PROVE DrainInv(s)'
    BY <1>4, <2>1, <2>4, RunsAssumption, BoundsAssumption DEF WatchInv, TypeOK, CloseInv,
       RunInv, ThreadInv, DrainInv, Drained, EditReturns, Goto, Still, feedVars, handleVars,
       tableVars, closeVars
  <2>5. ASSUME NEW s \in Runs PROVE OnceInv(s)'
    BY <1>4, <2>1, <2>5, RunsAssumption DEF WatchInv, TypeOK, CloseInv, RunInv, ThreadInv,
       DrainInv, OnceInv, EditReturns, Goto, Still, feedVars, handleVars, tableVars, closeVars
  <2>6. QED
    BY <2>1, <2>2, <2>3, <2>4, <2>5 DEF WatchInv, RunInv
<1>5. CASE Wait(r)
  <2>1. TypeOK'
    BY <1>5, BoundsAssumption, RunsAssumption DEF WatchInv, TypeOK, Wait, Goto, Still,
       feedVars, handleVars, tableVars, closeVars,
       Handlers, Watches, Calls
  <2>2. CloseInv'
    BY <1>5, RunsAssumption DEF WatchInv, TypeOK, CloseInv, Swept, RunInv, ThreadInv, Wait,
       Goto, Still, feedVars, handleVars, tableVars, closeVars
  <2>3. ASSUME NEW s \in Runs PROVE ThreadInv(s)'
    BY <1>5, <2>1, <2>3, RunsAssumption DEF WatchInv, TypeOK, CloseInv, RunInv, ThreadInv,
       Swept, Alive, Watches, Calls, Handlers, Wait, Goto, Still, feedVars, handleVars,
       tableVars, closeVars
  <2>4. ASSUME NEW s \in Runs PROVE DrainInv(s)'
    BY <1>5, <2>1, <2>4, RunsAssumption, BoundsAssumption DEF WatchInv, TypeOK, CloseInv,
       RunInv, ThreadInv, DrainInv, Drained, Wait, Goto, Still, feedVars, handleVars,
       tableVars, closeVars
  <2>5. ASSUME NEW s \in Runs PROVE OnceInv(s)'
    BY <1>5, <2>1, <2>5, RunsAssumption DEF WatchInv, TypeOK, CloseInv, RunInv, ThreadInv,
       DrainInv, OnceInv, Wait, Goto, Still, feedVars, handleVars, tableVars, closeVars
  <2>6. QED
    BY <2>1, <2>2, <2>3, <2>4, <2>5 DEF WatchInv, RunInv
<1>6. CASE Finish(r)
  <2>1. TypeOK'
    BY <1>6, BoundsAssumption, RunsAssumption DEF WatchInv, TypeOK, Finish, Goto, Still,
       feedVars, handleVars, tableVars, closeVars, Admits,
       Handlers, Watches, Calls
  <2>2. CloseInv'
    BY <1>6, RunsAssumption DEF WatchInv, TypeOK, CloseInv, Swept, RunInv, ThreadInv, Finish,
       Goto, Still, feedVars, handleVars, tableVars, closeVars, Admits
  <2>3. ASSUME NEW s \in Runs PROVE ThreadInv(s)'
    BY <1>6, <2>1, <2>3, RunsAssumption DEF WatchInv, TypeOK, CloseInv, RunInv, ThreadInv,
       Swept, Alive, Watches, Calls, Handlers, Finish, Goto, Still, feedVars, handleVars,
       tableVars, closeVars, Admits
  <2>4. ASSUME NEW s \in Runs PROVE DrainInv(s)'
    BY <1>6, <2>1, <2>4, RunsAssumption, BoundsAssumption DEF WatchInv, TypeOK, CloseInv,
       RunInv, ThreadInv, DrainInv, Drained, Finish, Goto, Still, feedVars, handleVars,
       tableVars, closeVars, Admits
  <2>5. ASSUME NEW s \in Runs PROVE OnceInv(s)'
    BY <1>6, <2>1, <2>5, RunsAssumption DEF WatchInv, TypeOK, CloseInv, RunInv, ThreadInv,
       DrainInv, OnceInv, Finish, Goto, Still, feedVars, handleVars, tableVars, closeVars,
       Admits
  <2>6. QED
    BY <2>1, <2>2, <2>3, <2>4, <2>5 DEF WatchInv, RunInv
<1>7. CASE FinalEditReturns(r)
  <2>1. TypeOK'
    BY <1>7, BoundsAssumption, RunsAssumption DEF WatchInv, TypeOK, FinalEditReturns, Goto,
       Still, feedVars, handleVars, tableVars, closeVars,
       Handlers, Watches, Calls
  <2>2. CloseInv'
    BY <1>7, RunsAssumption DEF WatchInv, TypeOK, CloseInv, Swept, RunInv, ThreadInv,
       FinalEditReturns, Goto, Still, feedVars, handleVars, tableVars, closeVars
  <2>3. ASSUME NEW s \in Runs PROVE ThreadInv(s)'
    BY <1>7, <2>1, <2>3, RunsAssumption DEF WatchInv, TypeOK, CloseInv, RunInv, ThreadInv,
       Swept, Alive, Watches, Calls, Handlers, FinalEditReturns, Goto, Still, feedVars,
       handleVars, tableVars, closeVars
  <2>4. ASSUME NEW s \in Runs PROVE DrainInv(s)'
    BY <1>7, <2>1, <2>4, RunsAssumption, BoundsAssumption DEF WatchInv, TypeOK, CloseInv,
       RunInv, ThreadInv, DrainInv, Drained, FinalEditReturns, Goto, Still, feedVars,
       handleVars, tableVars, closeVars
  <2>5. ASSUME NEW s \in Runs PROVE OnceInv(s)'
    BY <1>7, <2>1, <2>5, RunsAssumption DEF WatchInv, TypeOK, CloseInv, RunInv, ThreadInv,
       DrainInv, OnceInv, FinalEditReturns, Goto, Still, feedVars, handleVars, tableVars,
       closeVars
  <2>6. QED
    BY <2>1, <2>2, <2>3, <2>4, <2>5 DEF WatchInv, RunInv
<1>8. CASE Complete(r)
  <2>1. TypeOK'
    BY <1>8, BoundsAssumption, RunsAssumption DEF WatchInv, TypeOK, Complete, Goto, Still,
       feedVars, handleVars, tableVars, closeVars, Admits,
       Handlers, Watches, Calls
  <2>2. CloseInv'
    BY <1>8, RunsAssumption DEF WatchInv, TypeOK, CloseInv, Swept, RunInv, ThreadInv,
       Complete, Goto, Still, feedVars, handleVars, tableVars, closeVars, Admits
  <2>3. ASSUME NEW s \in Runs PROVE ThreadInv(s)'
    BY <1>8, <2>1, <2>3, RunsAssumption DEF WatchInv, TypeOK, CloseInv, RunInv, ThreadInv,
       Swept, Alive, Watches, Calls, Handlers, Complete, Goto, Still, feedVars, handleVars,
       tableVars, closeVars, Admits
  <2>4. ASSUME NEW s \in Runs PROVE DrainInv(s)'
    BY <1>8, <2>1, <2>4, RunsAssumption, BoundsAssumption DEF WatchInv, TypeOK, CloseInv,
       RunInv, ThreadInv, DrainInv, Drained, Complete, Goto, Still, feedVars, handleVars,
       tableVars, closeVars, Admits
  <2>5. ASSUME NEW s \in Runs PROVE OnceInv(s)'
    BY <1>8, <2>1, <2>5, RunsAssumption DEF WatchInv, TypeOK, CloseInv, RunInv, ThreadInv,
       DrainInv, OnceInv, Complete, Goto, Still, feedVars, handleVars, tableVars, closeVars,
       Admits
  <2>6. QED
    BY <2>1, <2>2, <2>3, <2>4, <2>5 DEF WatchInv, RunInv
<1>9. CASE InjectReturns(r)
  <2>1. TypeOK'
    BY <1>9, BoundsAssumption, RunsAssumption DEF WatchInv, TypeOK, RunInv, OnceInv,
       InjectReturns, Goto, Still, feedVars, handleVars, tableVars, closeVars,
       Handlers, Watches, Calls
  <2>2. CloseInv'
    BY <1>9, RunsAssumption DEF WatchInv, TypeOK, CloseInv, Swept, RunInv, ThreadInv,
       InjectReturns, Goto, Still, feedVars, handleVars, tableVars, closeVars
  <2>3. ASSUME NEW s \in Runs PROVE ThreadInv(s)'
    BY <1>9, <2>1, <2>3, RunsAssumption DEF WatchInv, TypeOK, CloseInv, RunInv, ThreadInv,
       Swept, Alive, Watches, Calls, Handlers, InjectReturns, Goto, Still, feedVars,
       handleVars, tableVars, closeVars
  <2>4. ASSUME NEW s \in Runs PROVE DrainInv(s)'
    BY <1>9, <2>1, <2>4, RunsAssumption, BoundsAssumption DEF WatchInv, TypeOK, CloseInv,
       RunInv, ThreadInv, DrainInv, Drained, InjectReturns, Goto, Still, feedVars, handleVars,
       tableVars, closeVars
  <2>5. ASSUME NEW s \in Runs PROVE OnceInv(s)'
    BY <1>9, <2>1, <2>5, RunsAssumption DEF WatchInv, TypeOK, CloseInv, RunInv, ThreadInv,
       DrainInv, OnceInv, InjectReturns, Goto, Still, feedVars, handleVars, tableVars,
       closeVars
  <2>6. QED
    BY <2>1, <2>2, <2>3, <2>4, <2>5 DEF WatchInv, RunInv
<1>10. CASE Leave(r)
  <2>1. TypeOK'
    BY <1>10, BoundsAssumption, RunsAssumption DEF WatchInv, TypeOK, Leave, feedVars,
       handleVars, closeVars, Goto,
       Handlers, Watches, Calls
  <2>2. CloseInv'
    BY <1>10, RunsAssumption DEF WatchInv, TypeOK, CloseInv, Swept, RunInv, ThreadInv, Leave,
       feedVars, handleVars, closeVars, Goto
  <2>3. ASSUME NEW s \in Runs PROVE ThreadInv(s)'
    BY <1>10, <2>1, <2>3, RunsAssumption DEF WatchInv, TypeOK, CloseInv, RunInv, ThreadInv,
       Swept, Alive, Watches, Calls, Handlers, Leave, feedVars, handleVars, closeVars, Goto
  <2>4. ASSUME NEW s \in Runs PROVE DrainInv(s)'
    BY <1>10, <2>1, <2>4, RunsAssumption, BoundsAssumption DEF WatchInv, TypeOK, CloseInv,
       RunInv, ThreadInv, DrainInv, Drained, Leave, feedVars, handleVars, closeVars, Goto
  <2>5. ASSUME NEW s \in Runs PROVE OnceInv(s)'
    BY <1>10, <2>1, <2>5, RunsAssumption DEF WatchInv, TypeOK, CloseInv, RunInv, ThreadInv,
       DrainInv, OnceInv, Leave, feedVars, handleVars, closeVars, Goto
  <2>6. QED
    BY <2>1, <2>2, <2>3, <2>4, <2>5 DEF WatchInv, RunInv
<1>11. QED
  BY <1>1, <1>2, <1>3, <1>4, <1>5, <1>6, <1>7, <1>8, <1>9, <1>10

(* close() gives up on a watcher, or has joined it. *)
LEMMA PreservedByJoin ==
  ASSUME WatchInv, NEW r \in Runs, CloseJoin(r)
  PROVE  WatchInv'
<1>1. CASE CloseJoin(r)
  <2>1. TypeOK'
    BY <1>1, BoundsAssumption, RunsAssumption DEF WatchInv, TypeOK, CloseJoin, feedVars,
       handleVars, tableVars, watchVars,
       Handlers, Watches, Calls
  <2>2. CloseInv'
    BY <1>1, RunsAssumption DEF WatchInv, TypeOK, CloseInv, Swept, RunInv, ThreadInv,
       CloseJoin, feedVars, handleVars, tableVars, watchVars
  <2>3. ASSUME NEW s \in Runs PROVE ThreadInv(s)'
    BY <1>1, <2>1, <2>3, RunsAssumption DEF WatchInv, TypeOK, CloseInv, RunInv, ThreadInv,
       Swept, Alive, Watches, Calls, Handlers, CloseJoin, feedVars, handleVars, tableVars,
       watchVars
  <2>4. ASSUME NEW s \in Runs PROVE DrainInv(s)'
    BY <1>1, <2>1, <2>4, RunsAssumption, BoundsAssumption DEF WatchInv, TypeOK, CloseInv,
       RunInv, ThreadInv, DrainInv, Drained, CloseJoin, feedVars, handleVars, tableVars,
       watchVars
  <2>5. ASSUME NEW s \in Runs PROVE OnceInv(s)'
    BY <1>1, <2>1, <2>5, RunsAssumption DEF WatchInv, TypeOK, CloseInv, RunInv, ThreadInv,
       DrainInv, OnceInv, CloseJoin, feedVars, handleVars, tableVars, watchVars
  <2>6. QED
    BY <2>1, <2>2, <2>3, <2>4, <2>5 DEF WatchInv, RunInv
<1>2. QED
  BY <1>1

(* unload, and steps that change nothing. *)
LEMMA PreservedByUnload ==
  ASSUME WatchInv, CloseGate \/ CloseStop \/ CloseDrop \/ ControllerClose \/ UNCHANGED vars
  PROVE  WatchInv'
<1>1. CASE CloseGate
  <2>1. TypeOK'
    BY <1>1, BoundsAssumption, RunsAssumption DEF WatchInv, TypeOK, CloseGate, feedVars,
       handleVars, tableVars, watchVars,
       Handlers, Watches, Calls
  <2>2. CloseInv'
    BY <1>1, RunsAssumption DEF WatchInv, TypeOK, CloseInv, Swept, RunInv, ThreadInv,
       CloseGate, feedVars, handleVars, tableVars, watchVars
  <2>3. ASSUME NEW s \in Runs PROVE ThreadInv(s)'
    BY <1>1, <2>1, <2>3, RunsAssumption DEF WatchInv, TypeOK, CloseInv, RunInv, ThreadInv,
       Swept, Alive, Watches, Calls, Handlers, CloseGate, feedVars, handleVars, tableVars,
       watchVars
  <2>4. ASSUME NEW s \in Runs PROVE DrainInv(s)'
    BY <1>1, <2>1, <2>4, RunsAssumption, BoundsAssumption DEF WatchInv, TypeOK, CloseInv,
       RunInv, ThreadInv, DrainInv, Drained, CloseGate, feedVars, handleVars, tableVars,
       watchVars
  <2>5. ASSUME NEW s \in Runs PROVE OnceInv(s)'
    BY <1>1, <2>1, <2>5, RunsAssumption DEF WatchInv, TypeOK, CloseInv, RunInv, ThreadInv,
       DrainInv, OnceInv, CloseGate, feedVars, handleVars, tableVars, watchVars
  <2>6. QED
    BY <2>1, <2>2, <2>3, <2>4, <2>5 DEF WatchInv, RunInv
<1>2. CASE CloseStop
  <2>1. TypeOK'
    BY <1>2, BoundsAssumption, RunsAssumption DEF WatchInv, TypeOK, CloseStop, feedVars,
       handleVars, tableVars, watchVars,
       Handlers, Watches, Calls
  <2>2. CloseInv'
    BY <1>2, RunsAssumption DEF WatchInv, TypeOK, CloseInv, Swept, RunInv, ThreadInv,
       CloseStop, feedVars, handleVars, tableVars, watchVars
  <2>3. ASSUME NEW s \in Runs PROVE ThreadInv(s)'
    <3>1. stopped' = [r \in Runs |-> stopped[r] \/ r \in watchers] /\ joins' = watchers
      BY <1>2 DEF CloseStop
    <3>2. UNCHANGED <<watch, handler, lock, watchers, unloading>>
      BY <1>2 DEF CloseStop, handleVars, tableVars, watchVars
    <3>3. lock = Free /\ closer = "gated" /\ unloading /\ ThreadInv(s)
      BY <1>2, <2>3 DEF CloseStop, WatchInv, CloseInv, RunInv
    <3>4. lock # s
      BY <2>3, <3>3, RunsAssumption
    <3>5. s \in watchers <=> Alive(s)
      BY <3>3, <3>4 DEF ThreadInv
    <3>6. Alive(s)' => stopped'[s]
      BY <2>3, <3>1, <3>2, <3>5 DEF Alive
    <3>7. s \in joins' => watch'[s] # "none"
      BY <3>1, <3>2, <3>5 DEF Alive
    <3>8. QED
      BY <3>2, <3>3, <3>6, <3>7 DEF ThreadInv, Alive
  <2>4. ASSUME NEW s \in Runs PROVE DrainInv(s)'
    BY <1>2, <2>1, <2>4, RunsAssumption, BoundsAssumption DEF WatchInv, TypeOK, CloseInv,
       RunInv, ThreadInv, DrainInv, Drained, CloseStop, feedVars, handleVars, tableVars,
       watchVars
  <2>5. ASSUME NEW s \in Runs PROVE OnceInv(s)'
    BY <1>2, <2>1, <2>5, RunsAssumption DEF WatchInv, TypeOK, CloseInv, RunInv, ThreadInv,
       DrainInv, OnceInv, CloseStop, feedVars, handleVars, tableVars, watchVars
  <2>6. QED
    BY <2>1, <2>2, <2>3, <2>4, <2>5 DEF WatchInv, RunInv
<1>3. CASE CloseDrop
  <2>1. TypeOK'
    BY <1>3, BoundsAssumption, RunsAssumption DEF WatchInv, TypeOK, CloseDrop, feedVars,
       handleVars, watchVars,
       Handlers, Watches, Calls
  <2>2. CloseInv'
    BY <1>3, RunsAssumption DEF WatchInv, TypeOK, CloseInv, Swept, RunInv, ThreadInv,
       CloseDrop, feedVars, handleVars, watchVars
  <2>3. ASSUME NEW s \in Runs PROVE ThreadInv(s)'
    BY <1>3, <2>1, <2>3, RunsAssumption DEF WatchInv, TypeOK, CloseInv, RunInv, ThreadInv,
       Swept, Alive, Watches, Calls, Handlers, CloseDrop, feedVars, handleVars, watchVars
  <2>4. ASSUME NEW s \in Runs PROVE DrainInv(s)'
    BY <1>3, <2>1, <2>4, RunsAssumption, BoundsAssumption DEF WatchInv, TypeOK, CloseInv,
       RunInv, ThreadInv, DrainInv, Drained, CloseDrop, feedVars, handleVars, watchVars
  <2>5. ASSUME NEW s \in Runs PROVE OnceInv(s)'
    BY <1>3, <2>1, <2>5, RunsAssumption DEF WatchInv, TypeOK, CloseInv, RunInv, ThreadInv,
       DrainInv, OnceInv, CloseDrop, feedVars, handleVars, watchVars
  <2>6. QED
    BY <2>1, <2>2, <2>3, <2>4, <2>5 DEF WatchInv, RunInv
<1>4. CASE ControllerClose
  <2>1. TypeOK'
    BY <1>4, BoundsAssumption, RunsAssumption DEF WatchInv, TypeOK, ControllerClose,
       handleVars, tableVars, watchVars,
       Handlers, Watches, Calls
  <2>2. CloseInv'
    BY <1>4, RunsAssumption DEF WatchInv, TypeOK, CloseInv, Swept, RunInv, ThreadInv,
       ControllerClose, handleVars, tableVars, watchVars
  <2>3. ASSUME NEW s \in Runs PROVE ThreadInv(s)'
    BY <1>4, <2>1, <2>3, RunsAssumption DEF WatchInv, TypeOK, CloseInv, RunInv, ThreadInv,
       Swept, Alive, Watches, Calls, Handlers, ControllerClose, handleVars, tableVars,
       watchVars
  <2>4. ASSUME NEW s \in Runs PROVE DrainInv(s)'
    BY <1>4, <2>1, <2>4, RunsAssumption, BoundsAssumption DEF WatchInv, TypeOK, CloseInv,
       RunInv, ThreadInv, DrainInv, Drained, ControllerClose, handleVars, tableVars, watchVars
  <2>5. ASSUME NEW s \in Runs PROVE OnceInv(s)'
    BY <1>4, <2>1, <2>5, RunsAssumption DEF WatchInv, TypeOK, CloseInv, RunInv, ThreadInv,
       DrainInv, OnceInv, ControllerClose, handleVars, tableVars, watchVars
  <2>6. QED
    BY <2>1, <2>2, <2>3, <2>4, <2>5 DEF WatchInv, RunInv
<1>5. CASE UNCHANGED vars
  <2>1. TypeOK'
    BY <1>5, BoundsAssumption, RunsAssumption DEF WatchInv, TypeOK, vars, feedVars,
       handleVars, tableVars, watchVars, closeVars,
       Handlers, Watches, Calls
  <2>2. CloseInv'
    BY <1>5, RunsAssumption DEF WatchInv, TypeOK, CloseInv, Swept, RunInv, ThreadInv, vars,
       feedVars, handleVars, tableVars, watchVars, closeVars
  <2>3. ASSUME NEW s \in Runs PROVE ThreadInv(s)'
    BY <1>5, <2>1, <2>3, RunsAssumption DEF WatchInv, TypeOK, CloseInv, RunInv, ThreadInv,
       Swept, Alive, Watches, Calls, Handlers, vars, feedVars, handleVars, tableVars,
       watchVars, closeVars
  <2>4. ASSUME NEW s \in Runs PROVE DrainInv(s)'
    BY <1>5, <2>1, <2>4, RunsAssumption, BoundsAssumption DEF WatchInv, TypeOK, CloseInv,
       RunInv, ThreadInv, DrainInv, Drained, vars, feedVars, handleVars, tableVars, watchVars,
       closeVars
  <2>5. ASSUME NEW s \in Runs PROVE OnceInv(s)'
    BY <1>5, <2>1, <2>5, RunsAssumption DEF WatchInv, TypeOK, CloseInv, RunInv, ThreadInv,
       DrainInv, OnceInv, vars, feedVars, handleVars, tableVars, watchVars, closeVars
  <2>6. QED
    BY <2>1, <2>2, <2>3, <2>4, <2>5 DEF WatchInv, RunInv
<1>6. QED
  BY <1>1, <1>2, <1>3, <1>4, <1>5

LEMMA WatchPreserved == WatchInv /\ [Next]_vars => WatchInv'
BY PreservedByFeed, PreservedByHandler, PreservedByWatcher, PreservedByJoin, PreservedByUnload
   DEF Next, HandlerStep, WatcherStep, HostReturns, FeedStep, ManagerStep

LEMMA WatchInvariant == Spec => []WatchInv
BY WatchInit, WatchPreserved, PTL DEF Spec

-----------------------------------------------------------------------------
(* Every variable keeps its type; no run gets a second completion attempt *)
(* and no cursor runs ahead of what a run may produce.                    *)
THEOREM TypeSafety == Spec => []TypeOK
<1>1. WatchInv => TypeOK
  BY DEF WatchInv
<1>2. QED
  BY <1>1, WatchInvariant, PTL

(* close() joins only threads that run or ran, and after its sweep there is *)
(* no watcher, of any run, whose stop event is not set.                     *)
THEOREM SweepSafety == Spec => []SweepReachesAll
<1>1. WatchInv => SweepReachesAll
  BY DEF WatchInv, TypeOK, RunInv, ThreadInv, SweepReachesAll, Swept
<1>2. QED
  BY <1>1, WatchInvariant, PTL

(* _watchers lists exactly the watchers that live or are being started. *)
THEOREM TableSafety == Spec => []TableIsExact
<1>1. WatchInv => TableIsExact
  BY DEF WatchInv, RunInv, ThreadInv, TableIsExact
<1>2. QED
  BY <1>1, WatchInvariant, PTL

(* A notice is set to its final text, and a completion injected, only when  *)
(* the run is over and its watcher has read every event, although unload    *)
(* cancels runs whose output still comes.                                   *)
THEOREM DrainSafety == Spec => []FinalEditDrained
<1>1. WatchInv => FinalEditDrained
  BY DEF WatchInv, RunInv, DrainInv, Drained, FinalEditDrained
<1>2. QED
  BY <1>1, WatchInvariant, PTL

(* At most one completion attempt per run, after the final edit. *)
THEOREM OnceSafety == Spec => []CompletionOnce
<1>1. WatchInv => CompletionOnce
  BY DEF WatchInv, RunInv, OnceInv, CompletionOnce
<1>2. QED
  BY <1>1, WatchInvariant, PTL

-----------------------------------------------------------------------------
(* What one step may do to the host calls of an unloading plugin. *)
GateHolds ==
    unloading => \A r \in Runs :
        /\ watch'[r] \in Calls => watch[r] = watch'[r]
        /\ handler'[r] = "posting" => handler[r] = "posting"

LEMMA StepsHoldGate == WatchInv /\ [Next]_vars => [GateHolds]_vars
<1>1. SUFFICES ASSUME WatchInv, [Next]_vars, unloading, NEW s \in Runs
               PROVE  /\ watch'[s] \in Calls => watch[s] = watch'[s]
                      /\ handler'[s] = "posting" => handler[s] = "posting"
  BY DEF GateHolds
<1>2. watch \in [Runs -> Watches] /\ handler \in [Runs -> Handlers]
  BY <1>1 DEF WatchInv, TypeOK
<1>3. ASSUME NEW r \in Runs, WatcherStep(r) \/ EditReturns(r) \/ FinalEditReturns(r) \/ InjectReturns(r)
      PROVE  (watch'[s] \in Calls => watch[s] = watch'[s]) /\ handler' = handler
  BY <1>1, <1>2, <1>3 DEF WatcherStep, TestStop, Poll, AfterPage, Edit, Wait, Finish, Complete,
     Leave,
     EditReturns, FinalEditReturns, InjectReturns, Goto, Still, Admits, Calls, handleVars
<1>4. ASSUME NEW r \in Runs, HandlerStep(r) \/ PostNotice(r)
      PROVE  /\ watch'[s] \in Calls => watch[s] = watch'[s]
             /\ handler'[s] = "posting" => handler[s] = "posting"
  BY <1>1, <1>2, <1>4 DEF HandlerStep, AdmitNotice, Insert, StartWatcher, PostNotice, Calls,
     watchVars
<1>5. ASSUME NEW r \in Runs, FeedStep(r) \/ CloseJoin(r) PROVE watch' = watch /\ handler' = handler
  BY <1>5 DEF FeedStep, EventArrives, EventsExpire, RunEnds, RunPruned, RunEvicted,
     RowCatchesUp, CloseJoin, watchVars,
     handleVars
<1>6. ASSUME CloseGate \/ CloseStop \/ CloseDrop \/ ControllerClose \/ UNCHANGED vars
      PROVE  watch' = watch /\ handler' = handler
  BY <1>6 DEF CloseGate, CloseStop, CloseDrop, ControllerClose, vars, watchVars, handleVars
<1>7. QED
  BY <1>1, <1>3, <1>4, <1>5, <1>6 DEF Next, HostReturns, ManagerStep

(* After unload has set _unloading, no watcher and no harness_prompt begins *)
(* a post, an edit or an injection: what runs then was admitted before.     *)
THEOREM GateSafety == Spec => NothingAdmittedAfterUnload
<1>1. WatchInv /\ [Next]_vars => [GateHolds]_vars
  BY StepsHoldGate
<1>2. QED
  BY <1>1, WatchInvariant, PTL DEF Spec, NothingAdmittedAfterUnload, GateHolds

-----------------------------------------------------------------------------
(* ProgressManager implements HostDelivery. *)

(* A notice is edited only where there is one, and nothing expires that has *)
(* not been there, so that a run read to its end stays read to its end.     *)
NoticeInv == \A r \in Runs :
    /\ oldest[r] <= total[r]
    /\ watch[r] \in {"editing", "finalEditing"} => message[r]
    /\ shown[r] # "nothing" => message[r] /\ watch[r] # "none"
    /\ handler[r] \in {"returned", "posting"} => ~message[r]

Over    == {r \in Runs : Drained(r)}
Told    == {r \in Runs : injected[r] > 0}
Hosted  == [r \in Runs |-> HostCall(r)]
Noticed == [r \in Runs |-> Notice(r)]

LEMMA NoticeInit == Init => NoticeInv
BY DEF Init, NoticeInv

(* What the steps of a watcher leave alone. *)
LEMMA WatchersStill ==
  ASSUME NEW r \in Runs, WatcherStep(r) \/ EditReturns(r) \/ FinalEditReturns(r) \/ InjectReturns(r)
  PROVE  /\ UNCHANGED <<feedVars, handleVars, closeVars, stopped>>
         /\ Poll(r) \/ UNCHANGED <<cursor, faults>>
         /\ EditReturns(r) \/ FinalEditReturns(r) \/ shown' = shown
         /\ InjectReturns(r) \/ injected' = injected
         /\ \E pc \in Watches : watch' = [watch EXCEPT ![r] = pc]
BY DEF WatcherStep, TestStop, Poll, AfterPage, Edit, EditReturns, Wait, Finish, FinalEditReturns,
   Complete, InjectReturns, Leave, Goto, Still, Watches, Calls

(* What the steps of a handler leave alone. *)
LEMMA HandlersStill ==
  ASSUME NEW r \in Runs, HandlerStep(r) \/ PostNotice(r)
  PROVE  /\ UNCHANGED <<feedVars, key, injects, cursor, faults, shown, injected, stopped, closeVars>>
         /\ StartWatcher(r) \/ watch' = watch
         /\ PostNotice(r) \/ message' = message
BY DEF HandlerStep, AdmitNotice, PostNotice, Insert, StartWatcher, handleVars, watchVars

LEMMA FeedStill ==
  ASSUME NEW r \in Runs, FeedStep(r)
  PROVE  UNCHANGED <<handleVars, tableVars, watchVars, stopped, closeVars>>
BY DEF FeedStep, EventArrives, EventsExpire, RunEnds, RunPruned, RunEvicted,
     RowCatchesUp

LEMMA ManagerStill ==
  ASSUME ManagerStep \/ CloseGate
  PROVE  /\ UNCHANGED <<total, oldest, open, handleVars, watchVars>>
         /\ CloseGate \/ unloading' = unloading
BY DEF ManagerStep, CloseGate, CloseStop, CloseJoin, CloseDrop, ControllerClose, feedVars, closeVars

LEMMA NoticeStep ==
  ASSUME WatchInv, NoticeInv, [Next]_vars
  PROVE  NoticeInv'
<1> USE DEF WatchInv, TypeOK, NoticeInv
<1>1. ASSUME NEW r \in Runs, WatcherStep(r) \/ EditReturns(r) \/ FinalEditReturns(r) \/ InjectReturns(r)
      PROVE  NoticeInv'
  <2>1. UNCHANGED <<total, oldest, message, handler>>
    BY <1>1, WatchersStill DEF feedVars, handleVars
  <2>2. ASSUME NEW q \in Runs, q # r
        PROVE  UNCHANGED <<watch[q], shown[q]>>
    BY <1>1, <2>2, WatchersStill DEF EditReturns, FinalEditReturns
  <2>3. watch'[r] \in {"editing", "finalEditing"} => message[r]
    BY <1>1 DEF WatcherStep, TestStop, Poll, AfterPage, Edit, EditReturns, Wait, Finish,
       FinalEditReturns, Complete, InjectReturns, Leave, Goto
  <2>4. watch[r] # "none" /\ watch'[r] # "none"
    BY <1>1 DEF WatcherStep, TestStop, Poll, AfterPage, Edit, EditReturns, Wait, Finish,
       FinalEditReturns, Complete, InjectReturns, Leave, Goto
  <2>5. shown'[r] # "nothing" => message[r]
    BY <1>1, WatchersStill DEF EditReturns, FinalEditReturns
  <2>6. QED
    BY <2>1, <2>2, <2>3, <2>4, <2>5
<1>2. ASSUME NEW r \in Runs, HandlerStep(r) \/ PostNotice(r)
      PROVE  NoticeInv'
  <2>1. CASE StartWatcher(r)
    BY <1>2, <2>1, HandlersStill DEF StartWatcher, feedVars
  <2>2. CASE PostNotice(r)
    <3>1. watch[r] = "none" /\ shown[r] = "nothing"
      BY <2>2 DEF PostNotice, RunInv, ThreadInv
    <3>2. \A q \in Runs \ {r} : message'[q] = message[q]
      BY <2>2 DEF PostNotice
    <3>3. QED
      BY <1>2, <2>2, <3>1, <3>2, HandlersStill DEF StartWatcher, PostNotice, feedVars, watchVars
  <2>3. CASE ~StartWatcher(r) /\ ~PostNotice(r)
    BY <1>2, <2>3, HandlersStill DEF HandlerStep, AdmitNotice, Insert, feedVars
  <2>4. QED
    BY <2>1, <2>2, <2>3
<1>3. ASSUME NEW r \in Runs, FeedStep(r)
      PROVE  NoticeInv'
  <2>1. UNCHANGED <<watch, shown, message, handler>>
    BY <1>3, FeedStill DEF handleVars, watchVars
  <2>2. \A q \in Runs : total[q] \in Nat /\ oldest[q] \in Nat
    BY BoundsAssumption
  <2>3. \A q \in Runs : oldest'[q] <= total'[q]
    BY <1>3, <2>2 DEF FeedStep, EventArrives, EventsExpire, RunEnds, RunPruned, RunEvicted,
     RowCatchesUp
  <2>4. QED
    BY <2>1, <2>3
<1>4. CASE ManagerStep \/ CloseGate
  BY <1>4, ManagerStill DEF handleVars, watchVars
<1>5. CASE UNCHANGED vars
  BY <1>5 DEF vars, feedVars, handleVars, watchVars
<1>6. QED
  BY <1>1, <1>2, <1>3, <1>4, <1>5 DEF Next, HostReturns

LEMMA NoticeAlways == Spec => [](WatchInv /\ NoticeInv)
<1>1. WatchInv /\ NoticeInv /\ [Next]_vars => NoticeInv'
  BY NoticeStep
<1>2. QED
  BY <1>1, NoticeInit, WatchInvariant, PTL DEF Spec

(* What a step does to one run's calls and notice, seen over all runs. *)
LEMMA OneRunSeen ==
  ASSUME NEW r \in Runs,
         \A q \in Runs \ {r} : UNCHANGED <<HostCall(q), Notice(q)>>
  PROVE  /\ Hosted' = [Hosted EXCEPT ![r] = HostCall(r)']
         /\ Noticed' = [Noticed EXCEPT ![r] = Notice(r)']
BY DEF Hosted, Noticed

LEMMA NothingSeen ==
  ASSUME UNCHANGED <<unloading, Over, Told>>,
         \A q \in Runs : UNCHANGED <<HostCall(q), Notice(q)>>
  PROVE  UNCHANGED Delivery!vars
BY DEF Delivery!vars, Over, Told, Drained

(* The run's output, and what is kept of it. *)
LEMMA FeedSeen ==
  ASSUME WatchInv, NEW r \in Runs, FeedStep(r)
  PROVE  Delivery!Ends(r) \/ UNCHANGED Delivery!vars
<1> USE DEF WatchInv, TypeOK
<1>1. /\ UNCHANGED <<unloading, Told>>
      /\ \A q \in Runs : UNCHANGED <<HostCall(q), Notice(q)>>
  BY FeedStill DEF handleVars, watchVars, closeVars, HostCall, Notice, Told
<1>2. Over' = Over \/ Over' = Over \union {r}
  <2>1. cursor' = cursor
    BY FeedStill DEF watchVars
  <2>2. CASE RunEnds(r)
    BY <2>1, <2>2 DEF RunEnds, Over, Drained
  <2>3. CASE EventArrives(r)
    BY <2>1, <2>3 DEF EventArrives, Over, Drained
  <2>4. CASE EventsExpire(r) \/ RunPruned(r) \/ RowCatchesUp(r)
    BY <2>1, <2>4 DEF EventsExpire, RunPruned, RowCatchesUp, Over, Drained
  <2>5. CASE RunEvicted(r)
    <3>1. \A q \in Runs : cursor[q] \in Nat /\ total[q] \in Nat
      BY BoundsAssumption
    <3>2. /\ open' = open /\ total'[r] \in 0..total[r]
          /\ \A q \in Runs \ {r} : total'[q] = total[q]
      BY <2>5 DEF RunEvicted
    <3>3. Drained(r) => Drained(r)'
      BY <2>1, <3>1, <3>2 DEF Drained
    <3>4. QED
      BY <2>1, <3>2, <3>3 DEF Over, Drained
  <2>6. QED
    BY <2>2, <2>3, <2>4, <2>5 DEF FeedStep
<1>3. CASE Over' = Over
  BY <1>1, <1>3, NothingSeen
<1>4. CASE Over' = Over \union {r}
  <2>1. UNCHANGED <<Hosted, Noticed>>
    BY <1>1 DEF Hosted, Noticed
  <2>2. QED
    BY <1>1, <1>4, <2>1 DEF Delivery!Ends, Over, Drained, Told, Hosted, Noticed
<1>5. QED
  BY <1>2, <1>3, <1>4

(* harness_prompt: the notice is admitted and posted before there is a watcher. *)
LEMMA HandlerSeen ==
  ASSUME WatchInv, NoticeInv, NEW r \in Runs, HandlerStep(r) \/ PostNotice(r)
  PROVE  \/ Delivery!Begin(r) \/ Delivery!Pass(r) \/ Delivery!Return(r)
         \/ UNCHANGED Delivery!vars
<1> USE DEF WatchInv, TypeOK, Handlers
<1>1. UNCHANGED <<unloading, Over, Told>>
  BY HandlersStill DEF feedVars, closeVars, Over, Told, Drained
<1>2. \A q \in Runs \ {r} : UNCHANGED <<HostCall(q), Notice(q)>>
  <2>1. ASSUME NEW q \in Runs, q # r PROVE UNCHANGED <<watch[q], handler[q], message[q], shown[q]>>
    BY <2>1, HandlersStill DEF HandlerStep, AdmitNotice, PostNotice, Insert, StartWatcher
  <2>2. QED
    BY <2>1 DEF HostCall, Notice
<1>3. /\ Hosted' = [Hosted EXCEPT ![r] = HostCall(r)']
      /\ Noticed' = [Noticed EXCEPT ![r] = Notice(r)']
      /\ Hosted[r] = HostCall(r) /\ Noticed[r] = Notice(r)
  BY <1>2, OneRunSeen DEF Hosted, Noticed
<1>4. CASE AdmitNotice(r)
  <2>1. /\ watch[r] = "none" /\ injected[r] = 0 /\ shown[r] = "nothing"
        /\ HostCall(r) = "none" /\ Notice(r) = "due"
    BY <1>4 DEF AdmitNotice, RunInv, ThreadInv, OnceInv, NoticeInv, HostCall, Notice
  <2>2. CASE ~unloading
    <3>1. HostCall(r)' = "post" /\ Notice(r)' = "due"
      BY <1>4, <2>2 DEF AdmitNotice, HostCall, Notice
    <3>2. Noticed' = Noticed
      BY <1>3, <2>1, <3>1 DEF Noticed
    <3>3. Delivery!May(r, "post")
      BY <1>3, <2>1 DEF Delivery!May, Noticed
    <3>4. r \notin Told
      BY <2>1 DEF Told
    <3>5. QED
      BY <1>1, <1>3, <2>1, <2>2, <3>1, <3>2, <3>3, <3>4
         DEF Delivery!Begin, Over, Told, Hosted, Noticed, Drained
  <2>3. CASE unloading
    <3>1. HostCall(r)' = "none" /\ Notice(r)' = "without"
      <4>1. watch' = watch /\ message' = message /\ handler'[r] = "answered"
        BY <1>4, <2>3 DEF AdmitNotice, watchVars
      <4>2. ~message[r]
        BY <1>4 DEF AdmitNotice, RunInv, ThreadInv, NoticeInv
      <4>3. QED
        BY <2>1, <4>1, <4>2 DEF HostCall, Notice
    <3>2. Hosted' = Hosted
      BY <1>3, <2>1, <3>1 DEF Hosted
    <3>3. QED
      BY <1>1, <1>3, <2>1, <2>3, <3>1, <3>2 DEF Delivery!Pass, Over, Told, Hosted, Noticed, Drained
  <2>4. QED
    BY <2>2, <2>3
<1>5. CASE PostNotice(r)
  <2>1. watch[r] = "none" /\ shown[r] = "nothing" /\ HostCall(r) = "post"
    BY <1>5 DEF PostNotice, RunInv, ThreadInv, NoticeInv, HostCall
  <2>2. /\ HostCall(r)' = "none"
        /\ Notice(r)' \in {"posted", "without"}
    BY <1>5, <2>1 DEF PostNotice, HostCall, Notice, watchVars
  <2>3. QED
    BY <1>1, <1>3, <2>1, <2>2
       DEF Delivery!Return, Delivery!Shows, Over, Told, Hosted, Noticed, Drained
<1>6. CASE Insert(r) \/ StartWatcher(r)
  <2>1. UNCHANGED <<HostCall(r), Notice(r)>>
    BY <1>6 DEF Insert, StartWatcher, RunInv, ThreadInv, HostCall, Notice, watchVars
  <2>2. QED
    BY <1>1, <1>2, <2>1, NothingSeen
<1>7. QED
  BY <1>4, <1>5, <1>6 DEF HandlerStep

(* A poll reads on; what it has read to the end it does not leave again. *)
LEMMA PollsEnd ==
  ASSUME WatchInv, NoticeInv, NEW r \in Runs, Poll(r)
  PROVE  Over' = Over \/ Over' = Over \union {r}
<1> USE DEF WatchInv, TypeOK
<1>1. UNCHANGED <<open, total>>
  BY DEF Poll, Still, feedVars
<1>2. \A q \in Runs \ {r} : cursor'[q] = cursor[q]
  BY DEF Poll
<1>3. Drained(r) => Drained(r)'
  <2>1. /\ total[r] \in Nat /\ oldest[r] \in Nat /\ cursor[r] \in Nat /\ PageLimit \in Nat
        /\ oldest[r] <= total[r]
    BY BoundsAssumption DEF NoticeInv
  <2>2. ASSUME cursor[r] >= total[r] PROVE cursor'[r] >= total[r]
    BY <2>1, <2>2 DEF Poll, Delivered, Lowest, Unanswered
  <2>3. QED
    BY <1>1, <2>2 DEF Drained
<1>4. QED
  BY <1>1, <1>2, <1>3 DEF Over, Drained

(* A watcher: edits while the run goes on, then the final edit and the *)
(* completion, of a run read to its end because the gate is open.       *)
LEMMA WatcherSeen ==
  ASSUME WatchInv, NoticeInv, NEW r \in Runs,
         WatcherStep(r) \/ EditReturns(r) \/ FinalEditReturns(r) \/ InjectReturns(r)
  PROVE  \/ Delivery!Begin(r) \/ Delivery!Return(r) \/ Delivery!Ends(r)
         \/ UNCHANGED Delivery!vars
<1> USE DEF WatchInv, TypeOK
<1>1. UNCHANGED <<unloading, handler, message>>
  BY WatchersStill DEF handleVars, closeVars
<1>2. \A q \in Runs \ {r} : UNCHANGED <<HostCall(q), Notice(q)>>
  <2>1. ASSUME NEW q \in Runs, q # r PROVE UNCHANGED <<watch[q], handler[q], message[q], shown[q]>>
    BY <1>1, <2>1, WatchersStill DEF EditReturns, FinalEditReturns
  <2>2. QED
    BY <2>1 DEF HostCall, Notice
<1>3. /\ Hosted' = [Hosted EXCEPT ![r] = HostCall(r)']
      /\ Noticed' = [Noticed EXCEPT ![r] = Notice(r)']
      /\ Hosted[r] = HostCall(r) /\ Noticed[r] = Notice(r)
  BY <1>2, OneRunSeen DEF Hosted, Noticed
<1>4. handler[r] = "answered"
  BY DEF WatcherStep, TestStop, Poll, Edit, EditReturns, Wait, Finish, FinalEditReturns, Complete,
     InjectReturns, Leave, RunInv, ThreadInv
<1>5. ~InjectReturns(r) => Told' = Told
  BY WatchersStill DEF Told
<1>6. ~Poll(r) => Over' = Over
  BY WatchersStill DEF Over, Drained, feedVars
<1>7. CASE Poll(r)
  <2>1. UNCHANGED <<HostCall(r), Notice(r)>>
    BY <1>1, <1>7 DEF Poll, AfterPage, Goto, HostCall, Notice
  <2>2. Told' = Told
    BY <1>5, <1>7 DEF Poll, InjectReturns
  <2>3. CASE Over' = Over
    BY <1>1, <1>2, <2>1, <2>2, <2>3, NothingSeen
  <2>4. CASE Over' = Over \union {r}
    <3>1. UNCHANGED <<Hosted, Noticed>>
      BY <1>2, <2>1 DEF Hosted, Noticed
    <3>2. QED
      BY <1>1, <2>2, <2>4, <3>1 DEF Delivery!Ends, Over, Drained, Told, Hosted, Noticed
  <2>5. QED
    BY <1>7, <2>3, <2>4, PollsEnd
<1>8. ASSUME watch[r] \in {"edit", "finish", "complete"}, HostCall(r)' # "none", Notice(r)' = Notice(r),
             ~unloading, injected[r] = 0, Over' = Over, Told' = Told,
             NEW c \in {"edit", "final", "inject"}, HostCall(r)' = c, Delivery!May(r, c)
      PROVE  Delivery!Begin(r)
  <2>1. HostCall(r) = "none" /\ r \notin Told
    BY <1>4, <1>8 DEF HostCall, Told
  <2>2. Noticed' = Noticed
    BY <1>3, <1>8 DEF Noticed
  <2>3. QED
    BY <1>1, <1>3, <1>8, <2>1, <2>2 DEF Delivery!Begin, Over, Told, Hosted, Noticed, Drained
<1>9. CASE Edit(r)
  <2>1. shown' = shown /\ injected[r] = 0 /\ shown[r] # "final" /\ watch[r] = "edit"
    BY <1>9 DEF Edit, RunInv, OnceInv, DrainInv
  <2>2. CASE message[r] /\ Admits(r)
    <3>1. HostCall(r)' = "edit" /\ Notice(r)' = Notice(r) /\ Notice(r) \in {"posted", "running"}
      BY <1>1, <1>4, <1>9, <2>1, <2>2 DEF Edit, Goto, HostCall, Notice
    <3>2. Delivery!May(r, "edit")
      BY <1>3, <3>1 DEF Delivery!May, Noticed
    <3>3. ~Poll(r) /\ ~InjectReturns(r)
      BY <2>1 DEF Poll, InjectReturns
    <3>4. QED
      BY <1>5, <1>6, <1>8, <2>1, <2>2, <3>1, <3>2, <3>3 DEF Admits
  <2>3. CASE ~(message[r] /\ Admits(r))
    <3>1. UNCHANGED <<HostCall(r), Notice(r)>>
      BY <1>1, <1>9, <2>1, <2>3 DEF Edit, Goto, HostCall, Notice
    <3>2. ~Poll(r) /\ ~InjectReturns(r)
      BY <2>1 DEF Poll, InjectReturns
    <3>3. QED
      BY <1>1, <1>2, <1>5, <1>6, <3>1, <3>2, NothingSeen
  <2>4. QED
    BY <2>2, <2>3
<1>10. CASE Finish(r)
  <2>1. shown' = shown /\ injected[r] = 0 /\ shown[r] # "final" /\ watch[r] = "finish"
    BY <1>10 DEF Finish, RunInv, OnceInv, DrainInv
  <2>2. ~Poll(r) /\ ~InjectReturns(r)
    BY <2>1 DEF Poll, InjectReturns
  <2>3. CASE message[r] /\ Admits(r)
    <3>1. HostCall(r)' = "final" /\ Notice(r)' = Notice(r) /\ Notice(r) \in {"posted", "running"}
      BY <1>1, <1>4, <1>10, <2>1, <2>3 DEF Finish, Goto, HostCall, Notice
    <3>2. r \in Over
      BY <2>1, <2>3 DEF Over, RunInv, DrainInv, CloseInv, Admits
    <3>3. Delivery!May(r, "final")
      BY <1>3, <3>1, <3>2 DEF Delivery!May, Noticed, Over, Drained
    <3>4. QED
      BY <1>5, <1>6, <1>8, <2>1, <2>2, <2>3, <3>1, <3>3 DEF Admits
  <2>4. CASE ~(message[r] /\ Admits(r))
    <3>1. UNCHANGED <<HostCall(r), Notice(r)>>
      BY <1>1, <1>10, <2>1, <2>4 DEF Finish, Goto, HostCall, Notice
    <3>2. QED
      BY <1>1, <1>2, <1>5, <1>6, <2>2, <3>1, NothingSeen
  <2>5. QED
    BY <2>3, <2>4
<1>11. CASE Complete(r)
  <2>1. shown' = shown /\ injected[r] = 0 /\ watch[r] = "complete"
    BY <1>11 DEF Complete, RunInv, OnceInv
  <2>2. ~Poll(r) /\ ~InjectReturns(r)
    BY <2>1 DEF Poll, InjectReturns
  <2>3. CASE key[r] /\ Admits(r) /\ injects
    <3>1. HostCall(r)' = "inject" /\ Notice(r)' = Notice(r)
      BY <1>1, <1>4, <1>11, <2>1, <2>3 DEF Complete, Goto, HostCall, Notice
    <3>2. Notice(r) \in {"without", "final"}
      BY <1>4, <2>1, <2>3 DEF Notice, RunInv, OnceInv, Admits
    <3>3. r \in Over
      BY <2>1, <2>3 DEF Over, RunInv, DrainInv, CloseInv, Admits
    <3>4. Delivery!May(r, "inject")
      BY <1>3, <3>2, <3>3 DEF Delivery!May, Noticed, Over, Drained
    <3>5. QED
      BY <1>5, <1>6, <1>8, <2>1, <2>2, <2>3, <3>1, <3>4 DEF Admits
  <2>4. CASE ~(key[r] /\ Admits(r) /\ injects)
    <3>1. UNCHANGED <<HostCall(r), Notice(r)>>
      BY <1>1, <1>11, <2>1, <2>4 DEF Complete, Goto, HostCall, Notice
    <3>2. QED
      BY <1>1, <1>2, <1>5, <1>6, <2>2, <3>1, NothingSeen
  <2>5. QED
    BY <2>3, <2>4
<1>12. CASE EditReturns(r) \/ FinalEditReturns(r)
  <2>1. CASE EditReturns(r)
    <3>1. /\ message[r] /\ HostCall(r) = "edit" /\ HostCall(r)' = "none" /\ Notice(r)' = "running"
          /\ ~Poll(r) /\ ~InjectReturns(r)
      BY <1>1, <1>4, <2>1 DEF EditReturns, Goto, HostCall, Notice, NoticeInv, Poll, InjectReturns
    <3>2. QED
      BY <1>1, <1>3, <1>5, <1>6, <3>1
         DEF Delivery!Return, Delivery!Shows, Over, Told, Hosted, Noticed, Drained
  <2>2. CASE FinalEditReturns(r)
    <3>1. /\ message[r] /\ HostCall(r) = "final" /\ HostCall(r)' = "none" /\ Notice(r)' = "final"
          /\ ~Poll(r) /\ ~InjectReturns(r)
      BY <1>1, <1>4, <2>2 DEF FinalEditReturns, Goto, HostCall, Notice, NoticeInv, Poll, InjectReturns
    <3>2. QED
      BY <1>1, <1>3, <1>5, <1>6, <3>1
         DEF Delivery!Return, Delivery!Shows, Over, Told, Hosted, Noticed, Drained
  <2>3. QED
    BY <1>12, <2>1, <2>2
<1>13. CASE InjectReturns(r)
  <2>1. /\ HostCall(r) = "inject" /\ HostCall(r)' = "none" /\ Notice(r)' = Notice(r)
        /\ ~Poll(r)
    BY <1>1, <1>4, <1>13 DEF InjectReturns, Goto, HostCall, Notice, Poll
  <2>2. Noticed' = Noticed
    BY <1>3, <2>1 DEF Noticed
  <2>3. Told' = Told \union {r}
    <3>1. injected[r] \in Nat
      OBVIOUS
    <3>2. injected' = [injected EXCEPT ![r] = injected[r] + 1]
      BY <1>13 DEF InjectReturns
    <3>3. QED
      BY <3>1, <3>2 DEF Told
  <2>4. QED
    BY <1>1, <1>3, <1>6, <2>1, <2>2, <2>3
       DEF Delivery!Return, Over, Told, Hosted, Noticed, Drained
<1>14. CASE TestStop(r) \/ Wait(r) \/ Leave(r)
  <2>1. UNCHANGED <<HostCall(r), Notice(r)>> /\ ~Poll(r) /\ ~InjectReturns(r)
    BY <1>1, <1>14 DEF TestStop, Wait, Leave, Goto, HostCall, Notice, Poll, InjectReturns
  <2>2. QED
    BY <1>1, <1>2, <1>5, <1>6, <2>1, NothingSeen
<1>15. QED
  BY <1>7, <1>9, <1>10, <1>11, <1>12, <1>13, <1>14 DEF WatcherStep

LEMMA ManagerSeen ==
  ASSUME WatchInv, ManagerStep \/ CloseGate
  PROVE  Delivery!Shut \/ UNCHANGED Delivery!vars
<1>1. /\ UNCHANGED <<Over, Told>>
      /\ \A q \in Runs : UNCHANGED <<HostCall(q), Notice(q)>>
  BY ManagerStill DEF handleVars, watchVars, HostCall, Notice, Over, Drained, Told
<1>2. CASE unloading' = unloading
  BY <1>1, <1>2, NothingSeen
<1>3. CASE CloseGate
  <2>1. ~unloading /\ unloading' = TRUE
    BY <1>3 DEF CloseGate, WatchInv, CloseInv
  <2>2. UNCHANGED <<Hosted, Noticed>>
    BY <1>1 DEF Hosted, Noticed
  <2>3. QED
    BY <1>1, <2>1, <2>2 DEF Delivery!Shut, Over, Drained, Told, Hosted, Noticed
<1>4. QED
  BY <1>2, <1>3, ManagerStill

LEMMA DeliveryStep ==
  ASSUME WatchInv, NoticeInv, [Next]_vars
  PROVE  [Delivery!Next]_Delivery!vars
<1>1. ASSUME NEW r \in Runs, HandlerStep(r) \/ PostNotice(r)
      PROVE  [Delivery!Next]_Delivery!vars
  BY <1>1, HandlerSeen DEF Delivery!Next
<1>2. ASSUME NEW r \in Runs, WatcherStep(r) \/ EditReturns(r) \/ FinalEditReturns(r) \/ InjectReturns(r)
      PROVE  [Delivery!Next]_Delivery!vars
  BY <1>2, WatcherSeen DEF Delivery!Next
<1>3. ASSUME NEW r \in Runs, FeedStep(r)
      PROVE  [Delivery!Next]_Delivery!vars
  BY <1>3, FeedSeen DEF Delivery!Next
<1>4. CASE ManagerStep \/ CloseGate
  BY <1>4, ManagerSeen DEF Delivery!Next
<1>5. CASE UNCHANGED vars
  <2>1. /\ UNCHANGED <<unloading, Over, Told>>
        /\ \A q \in Runs : UNCHANGED <<HostCall(q), Notice(q)>>
    BY <1>5 DEF vars, feedVars, handleVars, watchVars, closeVars, HostCall, Notice, Over, Drained, Told
  <2>2. QED
    BY <2>1, NothingSeen
<1>6. QED
  BY <1>1, <1>2, <1>3, <1>4, <1>5 DEF Next, HostReturns

LEMMA DeliveryInit == Init => Delivery!Init
<1>1. ASSUME Init PROVE Delivery!Init
  <2>1. \A r \in Runs : HostCall(r) = "none" /\ Notice(r) = "due" /\ ~Drained(r) /\ ~(injected[r] > 0)
    BY <1>1 DEF Init, HostCall, Notice, Drained
  <2>2. {r \in Runs : ~open[r] /\ cursor[r] >= total[r]} = {} /\ {r \in Runs : injected[r] > 0} = {}
    BY <2>1 DEF Drained
  <2>3. ~unloading
    BY <1>1 DEF Init
  <2>4. QED
    BY <2>1, <2>2, <2>3 DEF Delivery!Init
<1>2. QED
  BY <1>1

(* For any number of watched runs, any events and any unload, what is done *)
(* to the host is what HostDelivery allows.                                *)
THEOREM DeliveryRefinement == Spec => DeliverySpec
<1>1. WatchInv /\ NoticeInv /\ [Next]_vars => [Delivery!Next]_Delivery!vars
  BY DeliveryStep
<1>2. QED
  BY DeliveryInit, NoticeAlways, <1>1, PTL DEF Spec, DeliverySpec, Delivery!Spec

-----------------------------------------------------------------------------
(* Liveness of a stopped watcher: its loop is over, and what is left of it   *)
(* is a bounded number of steps, its own but for a host call it may be in.   *)

(* Only close() stops a watcher. *)
StopInv == \A r \in Runs : stopped[r] => Swept

LEMMA StopAlways == Spec => [](WatchInv /\ StopInv)
<1>1. Init => StopInv
  BY DEF Init, StopInv
<1>2. WatchInv /\ StopInv /\ [Next]_vars => StopInv'
  <2> SUFFICES ASSUME WatchInv, StopInv, [Next]_vars PROVE StopInv'
    OBVIOUS
  <2>1. CASE UNCHANGED <<stopped, closer>>
    BY <2>1 DEF StopInv, Swept
  <2>2. CASE ManagerStep \/ CloseGate
    BY <2>2 DEF WatchInv, TypeOK, StopInv, Swept, ManagerStep, CloseGate, CloseStop, CloseJoin, CloseDrop,
       ControllerClose
  <2>3. ASSUME NEW r \in Runs, HandlerStep(r) \/ WatcherStep(r) \/ HostReturns(r) \/ FeedStep(r)
        PROVE  UNCHANGED <<stopped, closer>>
    BY <2>3, WatchersStill, HandlersStill, FeedStill DEF HostReturns, closeVars
  <2>4. QED
    BY <2>1, <2>2, <2>3 DEF Next, vars, closeVars
<1>3. QED
  BY <1>1, <1>2, WatchInvariant, PTL DEF Spec

(* A watcher outside a host call can go on, to leave only when the lock is free. *)
WatcherReady(r) == Alive(r) /\ watch[r] \notin Calls /\ (watch[r] = "leave" => lock = Free)

(* What no prover here can compute: that these guards are all ENABLED asks.  *)
(* ThreadsGoOn, which TLC checks, says it among other things.                *)
GuardsEnable ==
    /\ \A r \in Runs : /\ lock = r => ENABLED <<HandlerStep(r)>>_vars
                       /\ WatcherReady(r) => ENABLED <<WatcherStep(r)>>_vars
    /\ lock = Free /\ closer \in {"gated", "joining", "dropped"} => ENABLED <<ManagerStep>>_vars

LEMMA GuardsAreWeaker == ThreadsGoOn => GuardsEnable
BY DEF ThreadsGoOn, GuardsEnable, WatcherReady

(* How many steps a stopped watcher has before it at most. *)
LeaveLeft(at) ==
    CASE at = "poll" -> 4
      [] at \in {"edit", "editing", "finish", "finalEditing"} -> 3
      [] at \in {"loop", "wait", "complete", "injecting"} -> 2
      [] at = "leave" -> 1
      [] at = "exited" -> 0
      [] OTHER -> 5
Leaves(r, n) == stopped[r] /\ LeaveLeft(watch[r]) <= n

LEMMA LeaveBounded ==
  ASSUME NEW at \in Watches
  PROVE  /\ LeaveLeft(at) \in 0..5
         /\ LeaveLeft(at) = 5 <=> at = "none"
         /\ LeaveLeft(at) = 0 <=> at = "exited"
<1>1. LeaveLeft(at) \in 0..5
  BY DEF Watches, Calls, LeaveLeft
<1>2. LeaveLeft(at) = 5 <=> at = "none"
  BY DEF Watches, Calls, LeaveLeft
<1>3. LeaveLeft(at) = 0 <=> at = "exited"
  BY DEF Watches, Calls, LeaveLeft
<1>4. QED
  BY <1>1, <1>2, <1>3

(* Every step of a stopped watcher, and every host call that returns to it, *)
(* leads it on; nothing else moves it.                                       *)
LEMMA StoppedAdvances ==
  ASSUME WatchInv, Next, NEW r \in Runs, stopped[r], Alive(r)
  PROVE  /\ stopped'[r]
         /\ watch'[r] = watch[r] \/ LeaveLeft(watch'[r]) < LeaveLeft(watch[r])
         /\ WatcherStep(r) => LeaveLeft(watch'[r]) < LeaveLeft(watch[r])
<1> USE DEF WatchInv, TypeOK
<1>1. ~Admits(r)
  BY DEF Admits
<1>2. ASSUME WatcherStep(r) \/ EditReturns(r) \/ FinalEditReturns(r) \/ InjectReturns(r)
      PROVE  LeaveLeft(watch'[r]) < LeaveLeft(watch[r])
  <2>1. \/ watch[r] = "loop" /\ watch'[r] = "leave"
        \/ watch[r] = "poll" /\ watch'[r] \in {"loop", "wait", "edit", "finish"}
        \/ watch[r] = "edit" /\ watch'[r] = "wait"
        \/ watch[r] = "editing" /\ watch'[r] = "wait"
        \/ watch[r] = "wait" /\ watch'[r] = "leave"
        \/ watch[r] = "finish" /\ watch'[r] = "complete"
        \/ watch[r] = "finalEditing" /\ watch'[r] = "complete"
        \/ watch[r] = "complete" /\ watch'[r] = "leave"
        \/ watch[r] = "injecting" /\ watch'[r] = "leave"
        \/ watch[r] = "leave" /\ watch'[r] = "exited"
    BY <1>1, <1>2 DEF WatcherStep, TestStop, Poll, AfterPage, Edit, EditReturns, Wait, Finish,
       FinalEditReturns, Complete, InjectReturns, Leave, Goto
  <2>2. QED
    BY <2>1 DEF LeaveLeft
<1>3. ASSUME NEW q \in Runs, q # r,
             WatcherStep(q) \/ EditReturns(q) \/ FinalEditReturns(q) \/ InjectReturns(q)
      PROVE  watch'[r] = watch[r]
  BY <1>3, WatchersStill
<1>4. ASSUME NEW q \in Runs, HandlerStep(q) \/ PostNotice(q)
      PROVE  watch'[r] = watch[r]
  <2>1. CASE StartWatcher(q)
    <3>1. q # r
      BY <2>1 DEF StartWatcher, RunInv, ThreadInv, Alive
    <3>2. QED
      BY <2>1, <3>1 DEF StartWatcher
  <2>2. CASE ~StartWatcher(q)
    BY <1>4, <2>2, HandlersStill
  <2>3. QED
    BY <2>1, <2>2
<1>5. ASSUME NEW q \in Runs, FeedStep(q)
      PROVE  watch' = watch
  BY <1>5, FeedStill DEF watchVars
<1>6. ASSUME ManagerStep \/ CloseGate
      PROVE  watch' = watch
  BY <1>6, ManagerStill DEF watchVars
<1>7. stopped'[r]
  <2>1. ASSUME ManagerStep \/ CloseGate PROVE stopped'[r]
    BY <2>1 DEF ManagerStep, CloseGate, CloseStop, CloseJoin, CloseDrop, ControllerClose
  <2>2. ASSUME NEW q \in Runs, HandlerStep(q) \/ WatcherStep(q) \/ HostReturns(q) \/ FeedStep(q)
        PROVE  stopped' = stopped
    BY <2>2, WatchersStill, HandlersStill, FeedStill DEF HostReturns
  <2>3. QED
    BY <2>1, <2>2 DEF Next
<1>8. QED
  BY <1>2, <1>3, <1>4, <1>5, <1>6, <1>7 DEF Next, HostReturns

Falls(r, n, m) == Leaves(r, n) ~> Leaves(r, m) \/ [](watch[r] \in Calls)

LEMMA WatcherFalls ==
  ASSUME NEW r \in Runs, NEW n \in 1..4, NEW m \in 0..3, n = m + 1
  PROVE  Spec /\ []GuardsEnable /\ RunFairness(r) => Falls(r, n, m)
<1> DEFINE I == WatchInv /\ StopInv
           P == Leaves(r, n)
           Q == Leaves(r, m)
           C == watch[r] \in Calls
<1>1. I => watch[r] \in Watches /\ LeaveLeft(watch[r]) \in 0..5
  BY LeaveBounded DEF WatchInv, TypeOK
<1>2. I /\ P /\ ~Q => Alive(r)
  BY <1>1, LeaveBounded DEF Leaves, Alive
<1>3. ASSUME I, P, ~Q, Next
      PROVE  /\ P' /\ (watch'[r] = watch[r] \/ Q')
             /\ WatcherStep(r) => Q'
  <2>1. WatchInv'
    BY <1>3, WatchPreserved
  <2>2. LeaveLeft(watch'[r]) \in 0..5
    BY <2>1, LeaveBounded DEF WatchInv, TypeOK
  <2>3. QED
    BY <1>1, <1>2, <1>3, <2>2, StoppedAdvances DEF Leaves
<1>4. I /\ P /\ ~Q /\ [Next]_vars => (P /\ C)' \/ (P /\ ~C)' \/ Q'
  BY <1>3 DEF vars, watchVars, Leaves
<1>5. I /\ P /\ ~Q /\ C /\ [Next]_vars => C' \/ Q'
  BY <1>3 DEF vars, watchVars
<1>6. I /\ P /\ ~Q /\ ~C /\ [Next]_vars => (~C)' \/ Q'
  BY <1>3 DEF vars, watchVars
<1>7. I /\ P /\ ~Q /\ <<Next /\ WatcherStep(r)>>_vars => Q'
  BY <1>3
<1>8. I /\ P /\ ~Q /\ ~C /\ GuardsEnable => ENABLED <<WatcherStep(r)>>_vars
  <2>1. I /\ P => lock = Free
    BY DEF WatchInv, CloseInv, StopInv, Leaves
  <2>2. QED
    BY <1>2, <2>1 DEF GuardsEnable, WatcherReady
<1>9. QED
  BY StopAlways, <1>4, <1>5, <1>6, <1>7, <1>8, PTL DEF Spec, RunFairness, Falls

(* A stopped watcher ends, whatever its run, the other watchers and unload   *)
(* do, unless a host call it is in never returns.                            *)
THEOREM LeaveLiveness == FairSpec /\ []GuardsEnable => StoppedWatchersLeave
<1>1. ASSUME NEW r \in Runs
      PROVE  Spec /\ []GuardsEnable /\ RunFairness(r) =>
                (Alive(r) /\ stopped[r] ~> watch[r] = "exited" \/ [](watch[r] \in Calls))
  <2>1. Spec /\ []GuardsEnable /\ RunFairness(r) =>
          Falls(r, 4, 3) /\ Falls(r, 3, 2) /\ Falls(r, 2, 1) /\ Falls(r, 1, 0)
    BY WatcherFalls
  <2>2. WatchInv /\ Alive(r) /\ stopped[r] => Leaves(r, 4)
    BY LeaveBounded DEF WatchInv, TypeOK, Alive, Leaves
  <2>3. WatchInv /\ Leaves(r, 0) => watch[r] = "exited"
    BY LeaveBounded DEF WatchInv, TypeOK, Leaves
  <2>4. QED
    BY WatchInvariant, <2>1, <2>2, <2>3, PTL DEF Falls
<1>2. FairSpec => Spec /\ \A r \in Runs : RunFairness(r)
  BY PTL DEF FairSpec
<1>3. QED
  BY <1>1, <1>2 DEF StoppedWatchersLeave

-----------------------------------------------------------------------------
(* Liveness of the completion.  An ended run is read in as many pages as it  *)
(* takes, so what is left to its watcher is a number with no bound but       *)
(* MaxEvents, and the proof is an induction over it.  An induction needs a   *)
(* set of numbers, and TLA+ has no set of the n for which a temporal formula *)
(* holds; the theorem therefore names one for each run: in every behaviour   *)
(* there are such sets, and with them in hand AllNumbers applies.            *)

(* A run that is over has an outcome, and a watcher with a session key and a *)
(* host that takes completions does not leave without its attempt.           *)
OutcomeInv == \A r \in Runs :
    /\ ~open[r] => state[r] # "running"
    /\ watch[r] \in {"leave", "exited"} /\ key[r] /\ injects => injected[r] = 1 \/ unloading

LEMMA OutcomeInit == Init => OutcomeInv
BY DEF Init, OutcomeInv

LEMMA PagesMove ==
  ASSUME WatchInv, NoticeInv, NEW r \in Runs, ~Unanswered(r)
  PROVE  /\ total[r] \in 0..MaxEvents /\ cursor[r] \in 0..total[r] /\ oldest[r] \in 0..total[r]
         /\ Delivered(r) \in cursor[r]..total[r]
         /\ cursor[r] < Delivered(r) \/ Delivered(r) = total[r]
<1>1. /\ total[r] \in 0..MaxEvents /\ cursor[r] \in Nat /\ cursor[r] <= total[r]
      /\ oldest[r] \in Nat /\ oldest[r] <= total[r]
  BY BoundsAssumption DEF WatchInv, TypeOK, NoticeInv, Unanswered
<1>2. PageLimit \in Nat \ {0} /\ MaxEvents \in Nat
  BY BoundsAssumption
<1>3. QED
  BY <1>1, <1>2 DEF Delivered, Lowest

LEMMA OutcomeStep ==
  ASSUME WatchInv, NoticeInv, OutcomeInv, [Next]_vars
  PROVE  OutcomeInv'
<1> USE DEF WatchInv, TypeOK
<1>1. ASSUME NEW r \in Runs, WatcherStep(r) \/ EditReturns(r) \/ FinalEditReturns(r) \/ InjectReturns(r)
      PROVE  OutcomeInv'
  <2>1. UNCHANGED <<open, state, key, injects, unloading>>
    BY <1>1, WatchersStill DEF feedVars, handleVars, closeVars
  <2>2. \A q \in Runs \ {r} : UNCHANGED <<watch[q], injected[q]>>
    BY <1>1, WatchersStill DEF InjectReturns
  <2>3. watch'[r] \in {"leave", "exited"} /\ key[r] /\ injects => injected'[r] = 1 \/ unloading
    <3>1. CASE InjectReturns(r)
      <4>1. injected[r] = 0
        BY <3>1 DEF InjectReturns, RunInv, OnceInv
      <4>2. QED
        BY <3>1, <4>1 DEF InjectReturns
    <3>2. CASE ~InjectReturns(r)
      <4>1. stopped[r] => unloading
        BY DEF RunInv, ThreadInv
      <4>2. injected' = injected
        BY <1>1, <3>2, WatchersStill
      <4>3. watch'[r] \in {"leave", "exited"} =>
                watch[r] = "leave" \/ stopped[r] \/ ~key[r] \/ ~injects \/ unloading
        BY <1>1, <3>2 DEF WatcherStep, TestStop, Poll, AfterPage, Edit, EditReturns, Wait, Finish,
           FinalEditReturns, Complete, Leave, Goto, Admits
      <4>4. QED
        BY <4>1, <4>2, <4>3 DEF OutcomeInv
    <3>3. QED
      BY <3>1, <3>2
  <2>4. QED
    BY <2>1, <2>2, <2>3 DEF OutcomeInv
<1>2. ASSUME NEW r \in Runs, HandlerStep(r) \/ PostNotice(r)
      PROVE  OutcomeInv'
  <2>1. UNCHANGED <<feedVars, key, injects, injected, unloading>>
    BY <1>2, HandlersStill DEF closeVars
  <2>2. \A q \in Runs : watch'[q] \in {"leave", "exited"} => watch'[q] = watch[q]
    BY <1>2, HandlersStill DEF StartWatcher
  <2>3. QED
    BY <2>1, <2>2 DEF OutcomeInv, feedVars
<1>3. ASSUME NEW r \in Runs, FeedStep(r)
      PROVE  OutcomeInv'
  <2>1. UNCHANGED <<key, injects, watch, injected, unloading>>
    BY <1>3, FeedStill DEF handleVars, watchVars, closeVars
  <2>2. \A q \in Runs : ~open'[q] => state'[q] # "running"
    BY <1>3 DEF FeedStep, EventArrives, EventsExpire, RunEnds, RunPruned, RunEvicted,
       RowCatchesUp, OutcomeInv
  <2>3. QED
    BY <2>1, <2>2 DEF OutcomeInv
<1>4. CASE ManagerStep \/ CloseGate
  <2>1. UNCHANGED <<open, key, injects, watch, injected>> /\ (unloading => unloading')
    BY <1>4, ManagerStill DEF handleVars, watchVars, CloseGate
  <2>2. \A q \in Runs : state'[q] = "running" => state[q] = "running"
    BY <1>4 DEF ManagerStep, CloseGate, CloseStop, CloseJoin, CloseDrop, ControllerClose, feedVars
  <2>3. QED
    BY <2>1, <2>2 DEF OutcomeInv
<1>5. CASE UNCHANGED vars
  BY <1>5 DEF vars, feedVars, handleVars, watchVars, closeVars, OutcomeInv
<1>6. QED
  BY <1>1, <1>2, <1>3, <1>4, <1>5 DEF Next, HostReturns

LEMMA OutcomeAlways == Spec => [](WatchInv /\ NoticeInv /\ OutcomeInv)
BY OutcomeInit, OutcomeStep, NoticeAlways, PTL DEF Spec

(* What is left to a watcher whose run is over: two steps for each event it *)
(* has not read, three for each read of the store that may yet fail, and    *)
(* those that lead from where it is to the attempt.                         *)
AttemptLeft(at) ==
    CASE at = "edit" -> 9
      [] at = "editing" -> 8
      [] at = "wait" -> 7
      [] at = "loop" -> 6
      [] at = "poll" -> 5
      [] at = "finish" -> 4
      [] at = "finalEditing" -> 3
      [] at = "complete" -> 2
      [] at = "injecting" -> 1
      [] OTHER -> 10
Owed(r)      == 2 * (total[r] - cursor[r]) + 3 * (MaxFaults - faults[r]) + AttemptLeft(watch[r])
Settled(r)   == injected[r] = 1 \/ unloading \/ Lost(r)
Awaits(r)    == Alive(r) /\ ~open[r] /\ key[r] /\ injects /\ ~Settled(r)
MostOwed     == 2 * MaxEvents + 3 * MaxFaults + 9
Awaited(r, n) == Awaits(r) /\ Owed(r) <= n

Reaches(r, n)   == Awaited(r, n) ~> Settled(r) \/ [](watch[r] \in Calls)
ComesDown(r, n) == Awaited(r, n + 1) ~> Awaited(r, n) \/ Settled(r) \/ [](watch[r] \in Calls)

EndInv == WatchInv /\ NoticeInv /\ OutcomeInv

LEMMA OwedIsBounded ==
  ASSUME EndInv, NEW r \in Runs, Awaits(r)
  PROVE  AttemptLeft(watch[r]) \in 1..9 /\ Owed(r) \in 1..MostOwed
<1>1. watch[r] \in Watches \ {"none", "exited"} /\ watch[r] # "leave"
  BY DEF EndInv, WatchInv, TypeOK, OutcomeInv, Awaits, Settled, Alive
<1>2. AttemptLeft(watch[r]) \in 1..9
  BY <1>1 DEF AttemptLeft, Watches, Calls
<1>3. total[r] \in 0..MaxEvents /\ cursor[r] \in 0..total[r] /\ MaxEvents \in Nat
  BY PagesMove, BoundsAssumption DEF EndInv, Awaits, Settled, Lost
<1>4. faults[r] \in 0..MaxFaults /\ MaxFaults \in Nat
  BY BoundsAssumption DEF EndInv, WatchInv, TypeOK
<1>5. QED
  BY <1>2, <1>3, <1>4 DEF Owed, MostOwed

(* Every step of such a watcher, and every host call that returns to it,     *)
(* brings it nearer; nothing else moves it, or gives it more to read; that    *)
(* the store takes over with fewer events brings it nearer too.               *)
LEMMA WatcherGetsNearer ==
  ASSUME EndInv, Next, NEW r \in Runs, Awaits(r)
  PROVE  \/ Settled(r)'
         \/ Awaits(r)' /\ Owed(r)' < Owed(r)
         \/ Awaits(r)' /\ watch'[r] = watch[r] /\ Owed(r)' = Owed(r) /\ ~WatcherStep(r)
<1> USE DEF EndInv, WatchInv, TypeOK
<1>1. /\ total[r] \in Nat /\ cursor[r] \in Nat /\ oldest[r] \in Nat /\ oldest[r] <= total[r]
      /\ Delivered(r) \in cursor[r]..total[r]
      /\ cursor[r] < Delivered(r) \/ Delivered(r) = total[r]
      /\ faults[r] \in Nat /\ MaxFaults \in Nat /\ faults[r] <= MaxFaults
  BY PagesMove, BoundsAssumption DEF Awaits, Settled, Lost
<1>2. /\ ~stopped[r] /\ state[r] # "running" /\ key[r] /\ injects /\ ~unloading
      /\ tier[r] # "stale" /\ ~Unanswered(r)
  BY DEF RunInv, ThreadInv, OutcomeInv, Awaits, Settled, Lost
<1>3. ASSUME NEW q \in Runs, WatcherStep(q) \/ EditReturns(q) \/ FinalEditReturns(q) \/ InjectReturns(q)
      PROVE  UNCHANGED <<total, open, tier, key, injects, unloading>>
  BY <1>3, WatchersStill DEF feedVars, handleVars, closeVars
<1>4. ASSUME WatcherStep(r) \/ EditReturns(r) \/ FinalEditReturns(r) \/ InjectReturns(r)
      PROVE  Settled(r)' \/ (Awaits(r)' /\ Owed(r)' < Owed(r))
  <2>1. CASE InjectReturns(r)
    BY <1>2, <2>1 DEF InjectReturns, RunInv, OnceInv, Settled, Awaits
  <2>2. CASE ~InjectReturns(r)
    <3>1. injected' = injected
      BY <1>4, <2>2, WatchersStill
    <3>2. watch[r] # "leave"
      BY DEF OutcomeInv, Awaits, Settled
    <3>3. \/ /\ UNCHANGED <<cursor, faults>>
             /\ \/ watch[r] = "loop" /\ watch'[r] = "poll"
                \/ watch[r] = "poll" /\ watch'[r] = "finish"
                \/ watch[r] = "edit" /\ watch'[r] \in {"editing", "wait"}
                \/ watch[r] = "editing" /\ watch'[r] = "wait"
                \/ watch[r] = "wait" /\ watch'[r] = "loop"
                \/ watch[r] = "finish" /\ watch'[r] \in {"finalEditing", "complete"}
                \/ watch[r] = "finalEditing" /\ watch'[r] = "complete"
                \/ watch[r] = "complete" /\ watch'[r] = "injecting"
          \/ /\ watch[r] = "poll" /\ watch'[r] \in {"loop", "finish"}
             /\ cursor'[r] \in Nat /\ cursor'[r] > cursor[r] /\ cursor'[r] <= total[r]
             /\ faults' = faults
          \/ /\ watch[r] = "poll" /\ watch'[r] = "wait"
             /\ cursor' = cursor /\ faults'[r] = faults[r] + 1 /\ faults[r] < MaxFaults
      <4>1. CASE Poll(r)
        <5> DEFINE Fails == /\ watch[r] = "poll" /\ watch'[r] = "wait"
                            /\ cursor' = cursor /\ faults'[r] = faults[r] + 1 /\ faults[r] < MaxFaults
        <5>1. CASE Fails
          BY <5>1
        <5>2. CASE cursor[r] < oldest[r] /\ ~Fails
          BY <1>1, <1>2, <4>1, <5>2 DEF Poll, Goto
        <5>3. CASE cursor[r] >= oldest[r] /\ ~Fails
          <6>1. /\ cursor' = [cursor EXCEPT ![r] = Delivered(r)] /\ watch[r] = "poll" /\ faults' = faults
                /\ watch'[r] = IF Delivered(r) < total[r] THEN "loop" ELSE "finish"
            BY <1>1, <1>2, <4>1, <5>3 DEF Poll, Goto, AfterPage, Says
          <6>2. cursor'[r] = Delivered(r)
            BY <6>1
          <6>3. CASE Delivered(r) = cursor[r]
            <7>1. cursor' = cursor /\ watch'[r] = "finish"
              BY <1>1, <6>1, <6>3
            <7>2. QED
              BY <6>1, <7>1
          <6>4. QED
            BY <1>1, <6>1, <6>2, <6>3
        <5>4. QED
          BY <1>1, <5>1, <5>2, <5>3
      <4>2. CASE ~Poll(r)
        BY <1>2, <1>4, <2>2, <3>2, <4>2, WatchersStill DEF WatcherStep, TestStop, Edit, EditReturns, Wait,
           Finish, FinalEditReturns, Complete, Leave, Goto, Admits
      <4>3. QED
        BY <4>1, <4>2
    <3>4. Awaits(r)'
      <4>1. watch'[r] \notin {"none", "exited"}
        BY <3>3
      <4>2. cursor'[r] \in Nat /\ cursor'[r] <= total[r]
        BY <1>1, <1>2, <3>3 DEF Unanswered
      <4>3. UNCHANGED <<total, open, tier, key, injects, unloading>>
        BY <1>3, <1>4
      <4>4. ~Lost(r)'
        BY <1>1, <1>2, <4>2, <4>3 DEF Lost, Unanswered
      <4>5. QED
        BY <1>2, <3>1, <4>1, <4>3, <4>4 DEF Awaits, Settled, Alive
    <3>5. Owed(r)' < Owed(r)
      BY <1>1, <1>3, <1>4, <3>3 DEF Owed, AttemptLeft
    <3>6. QED
      BY <3>4, <3>5
  <2>3. QED
    BY <2>1, <2>2
<1>5. ASSUME watch'[r] = watch[r], cursor'[r] = cursor[r], injected'[r] = injected[r],
             faults'[r] = faults[r], total'[r] = total[r], ~open'[r], key' = key, injects' = injects
      PROVE  Settled(r)' \/ (Awaits(r)' /\ watch'[r] = watch[r] /\ Owed(r)' = Owed(r))
  BY <1>5 DEF Awaits, Settled, Alive, Owed
<1>6. ASSUME NEW q \in Runs, q # r,
             WatcherStep(q) \/ EditReturns(q) \/ FinalEditReturns(q) \/ InjectReturns(q)
      PROVE  Settled(r)' \/ (Awaits(r)' /\ watch'[r] = watch[r] /\ Owed(r)' = Owed(r))
  <2>1. UNCHANGED <<watch[r], cursor[r], faults[r], injected[r]>>
    BY <1>6, WatchersStill DEF Poll, InjectReturns
  <2>2. QED
    BY <1>3, <1>5, <1>6, <2>1 DEF Awaits
<1>7. ASSUME NEW q \in Runs, HandlerStep(q) \/ PostNotice(q)
      PROVE  Settled(r)' \/ (Awaits(r)' /\ watch'[r] = watch[r] /\ Owed(r)' = Owed(r))
  <2>1. watch'[r] = watch[r]
    <3>1. CASE StartWatcher(q)
      <4>1. q # r
        BY <3>1 DEF StartWatcher, RunInv, ThreadInv, Awaits, Alive
      <4>2. QED
        BY <3>1, <4>1 DEF StartWatcher
    <3>2. QED
      BY <1>7, <3>1, HandlersStill
  <2>2. QED
    BY <1>5, <1>7, <2>1, HandlersStill DEF Awaits, feedVars
<1>8. ASSUME NEW q \in Runs, FeedStep(q)
      PROVE  \/ Settled(r)' \/ (Awaits(r)' /\ Owed(r)' < Owed(r))
             \/ (Awaits(r)' /\ watch'[r] = watch[r] /\ Owed(r)' = Owed(r))
  <2>1. UNCHANGED <<watch, cursor, faults, injected, key, injects>>
    BY <1>8, FeedStill DEF handleVars, watchVars
  <2>2. CASE total'[r] = total[r]
    <3>1. ~open'[r]
      BY <1>8 DEF FeedStep, EventArrives, EventsExpire, RunEnds, RunPruned, RunEvicted,
         RowCatchesUp, Awaits
    <3>2. QED
      BY <1>5, <2>1, <2>2, <3>1
  <2>3. CASE total'[r] # total[r]
    <3>1. total'[r] \in 0..total[r] /\ ~open'[r]
      BY <1>8, <2>3 DEF FeedStep, EventArrives, EventsExpire, RunEnds, RunPruned, RunEvicted,
         RowCatchesUp, Awaits
    <3>2. AttemptLeft(watch[r]) \in Int
      BY OwedIsBounded
    <3>3. Owed(r)' < Owed(r)
      BY <1>1, <2>1, <2>3, <3>1, <3>2 DEF Owed
    <3>4. QED
      BY <2>1, <3>1, <3>3 DEF Awaits, Settled, Alive
  <2>4. QED
    BY <2>2, <2>3
<1>9. ASSUME ManagerStep \/ CloseGate
      PROVE  Settled(r)' \/ (Awaits(r)' /\ watch'[r] = watch[r] /\ Owed(r)' = Owed(r))
  BY <1>5, <1>9, ManagerStill DEF Awaits, handleVars, watchVars
<1>10. QED
  BY <1>4, <1>6, <1>7, <1>8, <1>9 DEF Next, HostReturns

LEMMA WatcherComesDown ==
  ASSUME NEW r \in Runs, NEW n \in Nat
  PROVE  Spec /\ []GuardsEnable /\ RunFairness(r) => ComesDown(r, n)
<1> DEFINE P == Awaited(r, n + 1)
           Q == Awaited(r, n) \/ Settled(r)
           C == watch[r] \in Calls
<1>1. ASSUME EndInv, P, ~Q, Next
      PROVE  Q' \/ (P' /\ watch'[r] = watch[r] /\ ~WatcherStep(r))
  <2>1. Owed(r) \in Int /\ (EndInv' /\ Awaits(r)' => Owed(r)' \in Int)
    <3>1. ASSUME EndInv', Awaits(r)' PROVE Owed(r)' \in Int
      <4>1. /\ total'[r] \in 0..MaxEvents /\ cursor'[r] \in 0..MaxEvents
            /\ watch'[r] \in Watches
        BY <3>1 DEF EndInv, WatchInv, TypeOK
      <4>2. AttemptLeft(watch'[r]) \in Int
        BY <4>1 DEF AttemptLeft
      <4>3. QED
        BY <3>1, <4>1, <4>2, BoundsAssumption DEF Owed, EndInv, WatchInv, TypeOK
    <3>2. QED
      BY <1>1, <3>1, OwedIsBounded DEF Awaited
  <2>2. EndInv'
    BY <1>1, WatchPreserved, NoticeStep, OutcomeStep DEF EndInv
  <2>3. QED
    BY <1>1, <2>1, <2>2, WatcherGetsNearer DEF Awaited
<1>2. EndInv /\ P /\ ~Q /\ [Next]_vars => P' \/ Q'
  BY <1>1 DEF vars, feedVars, handleVars, watchVars, closeVars, Awaited, Awaits, Alive, Settled, Lost,
     Unanswered, Owed
<1>3. EndInv /\ P /\ ~Q /\ C /\ [Next]_vars => C' \/ Q'
  BY <1>1 DEF vars, watchVars
<1>4. EndInv /\ P /\ ~Q /\ ~C /\ [Next]_vars => (~C)' \/ Q'
  BY <1>1 DEF vars, watchVars
<1>5. EndInv /\ P /\ ~Q /\ <<Next /\ WatcherStep(r)>>_vars => Q'
  BY <1>1
<1>6. EndInv /\ P /\ ~Q /\ ~C /\ GuardsEnable => ENABLED <<WatcherStep(r)>>_vars
  <2>1. EndInv /\ P /\ ~Q => Alive(r) /\ watch[r] # "leave"
    BY DEF EndInv, OutcomeInv, Awaited, Awaits, Settled
  <2>2. QED
    BY <2>1 DEF GuardsEnable, WatcherReady
<1>7. Spec => []EndInv
  BY OutcomeAlways DEF EndInv
<1>8. QED
  BY <1>2, <1>3, <1>4, <1>5, <1>6, <1>7, PTL DEF Spec, RunFairness, ComesDown

LEMMA NothingOwed ==
  ASSUME NEW r \in Runs
  PROVE  Spec => Reaches(r, 0)
<1>1. EndInv => ~Awaited(r, 0)
  BY OwedIsBounded DEF Awaited
<1>2. QED
  BY <1>1, OutcomeAlways, PTL DEF EndInv, Reaches

LEMMA OneMoreOwed ==
  ASSUME NEW r \in Runs, NEW n \in Nat
  PROVE  Reaches(r, n) /\ ComesDown(r, n) => Reaches(r, n + 1)
BY PTL DEF Reaches, ComesDown

(* README.md: a run that ends while it is watched is read to its end, edited *)
(* if it has a notice, and followed by one completion attempt if it has a    *)
(* session and the host takes completions, however many events, pages,       *)
(* expiries and failed reads of the store it takes, unless the               *)
(* plugin is unloaded first, the run lost to it, or a host call never returns. *)
THEOREM CompletionLiveness ==
  /\ FairSpec /\ []GuardsEnable
  /\ \A r \in Runs : \E S \in SUBSET Nat : \A n \in Nat : n \in S <=> Reaches(r, n)
  => CompletionDelivered
<1>1. ASSUME NEW r \in Runs, Spec, []GuardsEnable, RunFairness(r),
             NEW S \in SUBSET Nat, \A n \in Nat : n \in S <=> Reaches(r, n)
      PROVE  Reaches(r, MostOwed)
  <2>1. 0 \in S
    BY <1>1, NothingOwed
  <2>2. ASSUME NEW n \in Nat, n \in S PROVE n + 1 \in S
    <3>1. Reaches(r, n) /\ ComesDown(r, n)
      BY <1>1, <2>2, WatcherComesDown
    <3>2. Reaches(r, n + 1)
      BY <3>1, OneMoreOwed
    <3>3. QED
      BY <1>1, <3>2
  <2>3. S = Nat
    BY <2>1, <2>2, AllNumbers
  <2>4. QED
    BY <1>1, <2>3, BoundsAssumption DEF MostOwed
<1>2. ASSUME NEW r \in Runs
      PROVE  Reaches(r, MostOwed) /\ []EndInv =>
               (Alive(r) /\ ~open[r] /\ key[r] /\ injects ~>
                 injected[r] = 1 \/ unloading \/ Lost(r) \/ [](watch[r] \in Calls))
  <2>1. EndInv /\ Awaits(r) => Awaited(r, MostOwed)
    BY OwedIsBounded, BoundsAssumption DEF Awaited
  <2>2. Alive(r) /\ ~open[r] /\ key[r] /\ injects => Awaits(r) \/ injected[r] = 1 \/ unloading \/ Lost(r)
    BY DEF Awaits, Settled
  <2>3. Settled(r) => injected[r] = 1 \/ unloading \/ Lost(r)
    BY DEF Settled
  <2>4. QED
    BY <2>1, <2>2, <2>3, PTL DEF Reaches
<1>3. FairSpec => Spec /\ []EndInv /\ \A r \in Runs : RunFairness(r)
  BY OutcomeAlways, PTL DEF FairSpec, EndInv
<1>4. QED
  BY <1>1, <1>2, <1>3 DEF CompletionDelivered

-----------------------------------------------------------------------------
(* Liveness of close().  First it needs the lock, which one of any number of *)
(* handlers may hold, then it joins any number of watchers: one induction    *)
(* through the runs, over the set of those from which the lock comes free,   *)
(* and one over the number of joins, with the sets named as before.          *)

Gated         == closer = "gated"
Unlocked      == Gated /\ lock = Free
LockedBy(T)   == Gated /\ lock \in T
Joining(n)    == closer = "joining" /\ Cardinality(joins) <= n

Clears(T)     == LockedBy(T) ~> Unlocked
Joins(n)      == Joining(n) ~> closer = "dropped"
JoinsOne(n)   == Joining(n + 1) ~> Joining(n) \/ closer = "dropped"

(* Once unloading is set nobody takes the lock for longer than one step, who *)
(* had it gives it up, and close() goes from one of its places to the next.  *)
LEMMA UnloadMoves ==
  ASSUME WatchInv, [Next]_vars
  PROVE  /\ Unlocked => Unlocked' \/ (closer = "joining")'
         /\ Gated /\ lock # Free => Gated' /\ lock' \in {lock, Free}
         /\ closer = "joining" => \/ closer' = "joining" /\ joins' \in SUBSET joins
                                  \/ closer' = "dropped"
         /\ closer = "dropped" => closer' \in {"dropped", "closed"}
<1> USE DEF WatchInv, TypeOK, CloseInv, Unlocked, Gated
<1>1. ASSUME NEW r \in Runs, HandlerStep(r) \/ WatcherStep(r) \/ HostReturns(r) \/ FeedStep(r)
      PROVE  UNCHANGED <<closer, joins>> /\ (Gated => lock' \in {lock, Free})
  <2>1. UNCHANGED closeVars
    BY <1>1, WatchersStill, HandlersStill, FeedStill DEF HostReturns
  <2>2. ASSUME Gated PROVE lock' \in {lock, Free}
    <3>1. HandlerStep(r) => lock' \in {lock, Free}
      BY <2>2 DEF HandlerStep, AdmitNotice, Insert, StartWatcher, tableVars
    <3>2. WatcherStep(r) \/ HostReturns(r) => lock' = lock
      BY DEF WatcherStep, TestStop, Poll, Edit, Wait, Finish, Complete, Leave, HostReturns, PostNotice,
         EditReturns, FinalEditReturns, InjectReturns, Still, tableVars
    <3>3. FeedStep(r) => lock' = lock
      BY FeedStill DEF tableVars
    <3>4. QED
      BY <1>1, <3>1, <3>2, <3>3
  <2>3. QED
    BY <2>1, <2>2 DEF closeVars
<1>2. CASE ManagerStep \/ CloseGate
  BY <1>2 DEF ManagerStep, CloseGate, CloseStop, CloseJoin, CloseDrop, ControllerClose, tableVars
<1>3. CASE UNCHANGED vars
  BY <1>3 DEF vars, tableVars, closeVars
<1>4. QED
  BY <1>1, <1>2, <1>3 DEF Next

LEMMA HolderReleases ==
  ASSUME NEW r \in Runs
  PROVE  Spec /\ []GuardsEnable /\ RunFairness(r) => (Gated /\ lock = r ~> Unlocked)
<1> DEFINE P == Gated /\ lock = r
<1>1. r # Free
  BY RunsAssumption
<1>2. WatchInv /\ P /\ [Next]_vars => P' \/ Unlocked'
  BY <1>1, UnloadMoves DEF Unlocked, Gated
<1>3. WatchInv /\ P /\ <<Next /\ HandlerStep(r)>>_vars => Unlocked'
  <2>1. ASSUME WatchInv, P, HandlerStep(r), Next PROVE Unlocked'
    <3>1. StartWatcher(r)
      BY <2>1 DEF WatchInv, RunInv, ThreadInv, HandlerStep, AdmitNotice, Insert
    <3>2. QED
      BY <2>1, <3>1 DEF StartWatcher, Unlocked, Gated, closeVars
  <2>2. QED
    BY <2>1
<1>4. P /\ GuardsEnable => ENABLED <<HandlerStep(r)>>_vars
  BY <1>1 DEF GuardsEnable
<1>5. QED
  BY WatchInvariant, <1>2, <1>3, <1>4, PTL DEF Spec, RunFairness

LEMMA ClearsOneMore ==
  ASSUME NEW T \in SUBSET Runs, NEW r \in Runs
  PROVE  Clears(T) /\ (Gated /\ lock = r ~> Unlocked) => Clears(T \union {r})
<1>1. LockedBy(T \union {r}) => LockedBy(T) \/ (Gated /\ lock = r)
  BY DEF LockedBy
<1>2. QED
  BY <1>1, PTL DEF Clears

LEMMA NoneHolds == Clears({})
<1>1. ~LockedBy({})
  BY DEF LockedBy
<1>2. QED
  BY <1>1, PTL DEF Clears

LEMMA JoinsAreFinite ==
  ASSUME WatchInv
  PROVE  IsFiniteSet(joins) /\ Cardinality(joins) \in 0..Cardinality(Runs) /\ Cardinality(Runs) \in Nat
<1>1. joins \in SUBSET Runs
  BY DEF WatchInv, TypeOK
<1>2. QED
  BY <1>1, RunsAssumption, FS_Subset, FS_CardinalityType

LEMMA CloserJoinsOne ==
  ASSUME NEW n \in Nat
  PROVE  FairSpec /\ []GuardsEnable => JoinsOne(n)
<1> DEFINE P == Joining(n + 1)
           Q == Joining(n) \/ closer = "dropped"
<1>1. WatchInv /\ P /\ [Next]_vars => P' \/ Q'
  <2>1. ASSUME WatchInv, P, [Next]_vars PROVE P' \/ Q'
    <3>1. CASE closer' = "joining" /\ joins' \in SUBSET joins
      <4>1. Cardinality(joins') <= Cardinality(joins) /\ Cardinality(joins') \in Nat
        BY <2>1, <3>1, JoinsAreFinite, FS_Subset, FS_CardinalityType
      <4>2. QED
        BY <2>1, <3>1, <4>1, JoinsAreFinite DEF Joining
    <3>2. QED
      BY <2>1, <3>1, UnloadMoves DEF Joining
  <2>2. QED
    BY <2>1
<1>2. WatchInv /\ P /\ <<ManagerStep>>_vars => Q'
  <2>1. ASSUME WatchInv, P, ManagerStep PROVE Q'
    <3>1. ASSUME NEW r \in Runs, CloseJoin(r) PROVE Joining(n)'
      <4>1. closer' = "joining" /\ Cardinality(joins') = Cardinality(joins) - 1
        BY <2>1, <3>1, JoinsAreFinite, FS_RemoveElement DEF CloseJoin
      <4>2. Cardinality(joins) <= n + 1 /\ Cardinality(joins) \in Nat
        BY <2>1, JoinsAreFinite DEF Joining
      <4>3. QED
        BY <4>1, <4>2 DEF Joining
    <3>2. QED
      BY <2>1, <3>1 DEF ManagerStep, CloseStop, CloseDrop, ControllerClose, Joining
  <2>2. QED
    BY <2>1
<1>3. WatchInv /\ P /\ GuardsEnable => ENABLED <<ManagerStep>>_vars
  BY DEF WatchInv, CloseInv, Swept, GuardsEnable, Joining
<1>4. QED
  BY WatchInvariant, <1>1, <1>2, <1>3, PTL DEF FairSpec, Spec, JoinsOne

LEMMA NoneToJoin == FairSpec /\ []GuardsEnable => Joins(0)
<1> DEFINE P == Joining(0)
           Q == closer = "dropped"
<1>1. WatchInv /\ P => closer = "joining" /\ joins = {}
  BY JoinsAreFinite, FS_EmptySet DEF Joining
<1>2. WatchInv /\ P /\ [Next]_vars => P' \/ Q'
  <2>1. Cardinality({}) = 0
    BY FS_EmptySet
  <2>2. QED
    BY <1>1, <2>1, UnloadMoves DEF Joining
<1>3. WatchInv /\ P /\ <<ManagerStep>>_vars => Q'
  BY <1>1 DEF ManagerStep, CloseStop, CloseJoin, CloseDrop, ControllerClose
<1>4. WatchInv /\ P /\ GuardsEnable => ENABLED <<ManagerStep>>_vars
  BY DEF WatchInv, CloseInv, Swept, GuardsEnable, Joining
<1>5. QED
  BY WatchInvariant, <1>2, <1>3, <1>4, PTL DEF FairSpec, Spec, Joins

LEMMA JoinsOneMore ==
  ASSUME NEW n \in Nat
  PROVE  Joins(n) /\ JoinsOne(n) => Joins(n + 1)
BY PTL DEF Joins, JoinsOne

(* close() returns, whichever handlers hold the lock when it comes and       *)
(* whatever hangs in the host calls of the watchers it joins.                *)
THEOREM CloseLiveness ==
  /\ FairSpec /\ []GuardsEnable
  /\ \E S \in SUBSET SUBSET Runs : \A T \in SUBSET Runs : T \in S <=> Clears(T)
  /\ \E S \in SUBSET Nat : \A n \in Nat : n \in S <=> Joins(n)
  => CloseReturns
<1>1. FairSpec => Spec /\ \A r \in Runs : RunFairness(r)
  BY PTL DEF FairSpec
<1>2. ASSUME FairSpec, []GuardsEnable,
             NEW S \in SUBSET SUBSET Runs, \A T \in SUBSET Runs : T \in S <=> Clears(T)
      PROVE  Clears(Runs)
  <2>1. {} \in S
    BY <1>2, NoneHolds
  <2>2. ASSUME NEW T \in SUBSET Runs, NEW r \in Runs \ T, T \in S PROVE T \union {r} \in S
    <3>1. Gated /\ lock = r ~> Unlocked
      BY <1>2, <1>1, HolderReleases
    <3>2. Clears(T \union {r})
      BY <1>2, <2>2, <3>1, ClearsOneMore
    <3>3. QED
      BY <1>2, <3>2
  <2>3. Runs \in S
    BY <2>1, <2>2, RunsAssumption, AllElements
  <2>4. QED
    BY <1>2, <2>3
<1>3. ASSUME FairSpec, []GuardsEnable, NEW S \in SUBSET Nat, \A n \in Nat : n \in S <=> Joins(n)
      PROVE  Joins(Cardinality(Runs))
  <2>1. 0 \in S
    BY <1>3, NoneToJoin
  <2>2. ASSUME NEW n \in Nat, n \in S PROVE n + 1 \in S
    <3>1. Joins(n) /\ JoinsOne(n)
      BY <1>3, <2>2, CloserJoinsOne
    <3>2. Joins(n + 1)
      BY <3>1, JoinsOneMore
    <3>3. QED
      BY <1>3, <3>2
  <2>3. S = Nat
    BY <2>1, <2>2, AllNumbers
  <2>4. QED
    BY <1>3, <2>3, RunsAssumption, FS_CardinalityType
<1>4. FairSpec /\ []GuardsEnable => (Unlocked ~> closer = "joining")
  <2>1. WatchInv /\ Unlocked /\ [Next]_vars => Unlocked' \/ (closer = "joining")'
    BY UnloadMoves
  <2>2. Unlocked /\ <<ManagerStep>>_vars => (closer = "joining")'
    BY DEF Unlocked, Gated, ManagerStep, CloseStop, CloseJoin, CloseDrop, ControllerClose
  <2>3. Unlocked /\ GuardsEnable => ENABLED <<ManagerStep>>_vars
    BY DEF Unlocked, Gated, GuardsEnable
  <2>4. QED
    BY WatchInvariant, <2>1, <2>2, <2>3, PTL DEF FairSpec, Spec
<1>5. FairSpec /\ []GuardsEnable => (closer = "dropped" ~> closer = "closed")
  <2>1. WatchInv /\ closer = "dropped" /\ [Next]_vars => (closer = "dropped")' \/ (closer = "closed")'
    BY UnloadMoves
  <2>2. closer = "dropped" /\ <<ManagerStep>>_vars => (closer = "closed")'
    BY DEF ManagerStep, CloseStop, CloseJoin, CloseDrop, ControllerClose
  <2>3. WatchInv /\ closer = "dropped" /\ GuardsEnable => ENABLED <<ManagerStep>>_vars
    BY DEF WatchInv, CloseInv, Swept, GuardsEnable
  <2>4. QED
    BY WatchInvariant, <2>1, <2>2, <2>3, PTL DEF FairSpec, Spec
<1>6. WatchInv /\ closer = "gated" => LockedBy(Runs) \/ Unlocked
  BY DEF WatchInv, TypeOK, LockedBy, Unlocked, Gated
<1>7. WatchInv /\ closer = "joining" => Joining(Cardinality(Runs))
  BY JoinsAreFinite DEF Joining
<1>8. FairSpec /\ []GuardsEnable /\ Clears(Runs) /\ Joins(Cardinality(Runs)) => CloseReturns
  BY WatchInvariant, <1>4, <1>5, <1>6, <1>7, PTL DEF FairSpec, Clears, Joins, CloseReturns
<1>9. QED
  BY <1>2, <1>3, <1>8

=============================================================================
