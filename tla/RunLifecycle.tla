---------------------------- MODULE RunLifecycle ----------------------------
(***************************************************************************)
(* The life of harness runs in controller.py and store.py: the prompt call *)
(* that spawns a child and registers it, the collector thread that follows *)
(* the child, close_now at unload, and the run rows kept in SQLite across  *)
(* restarts of Hermes.                                                     *)
(*                                                                         *)
(* Every thread is a program counter; a step ends where another thread can *)
(* see or change shared state: a lock is released, a SQLite transaction    *)
(* commits, a child process is polled.  Events are abstracted to the fact  *)
(* that one was appended (EventLog models them).                           *)
(*                                                                         *)
(* A definition headed "Slip:" is a plausible mistake in the definition    *)
(* that follows it.  Nothing uses it; it is there to be put in that        *)
(* definition's place, to see that the properties notice.                  *)
(***************************************************************************)
EXTENDS Integers, FiniteSets

CONSTANTS
    Runs,          \* run identifiers (uuid4 values)
    MaxRuns,       \* max_runs of the controller and of its store
    MaxInstances,  \* bound: controllers opened on one data directory
    MaxFaults,     \* bound: store failures and thread-start failures
    MayUnload,     \* whether the plugin may be unloaded
    MayCrash,      \* whether the Hermes process may die
    NoRun          \* the closer works on no run

ASSUME RunsAssumption == IsFiniteSet(Runs) /\ NoRun \notin Runs
ASSUME LimitsAssumption ==
    /\ MaxRuns \in Nat \ {0}
    /\ MaxInstances \in Nat \ {0}
    /\ MaxFaults \in Nat
    /\ MayUnload \in BOOLEAN
    /\ MayCrash \in BOOLEAN

VARIABLES
    phase,      \* of the current controller: up, closing, closed, crashed
    inst,       \* number of the current controller
    home,       \* home[r]: the controller that was asked for run r, or 0
    caller,     \* caller[r]: where the prompt call of r is
    proc,       \* proc[r]: the child: none, alive, killed (alive still, but sent
                \* SIGKILL), or its exit status
    runs,       \* the records held in the _runs dictionaries
    runOrder,   \* their insertion order, as pairs <<earlier, later>>
    state,      \* state[r]: RunRecord.state
    collector,  \* collector[r]: where the thread of _collect_prompt is
    snap,       \* snap[r]: state copied for the next write of r's own threads
    row,        \* row[r]: the state column of r's row, or absent
    rowOrder,   \* order of updated_at, as pairs <<earlier, later>>
    closer,     \* where close_now is
    target,     \* the record close_now works on
    todo,       \* records close_now has still to terminate
    joins,      \* records whose threads close_now has still to join
    closeSnap,  \* state copied by close_now for its next write
    faults      \* failures injected so far

callVars  == <<home, caller>>
dictVars  == <<runs, runOrder>>
rowVars   == <<row, rowOrder>>
closeVars == <<closer, target, todo, joins, closeSnap>>
lifeVars  == <<phase, inst>>
vars == <<lifeVars, callVars, proc, dictVars, state, collector, snap, rowVars,
          closeVars, faults>>

-----------------------------------------------------------------------------
Outcomes   == {"completed", "failed", "cancelled"}
RunStates  == {"none", "running", "lost"} \union Outcomes
RowStates  == {"absent", "running", "interrupted"} \union Outcomes
Settled    == {"launched", "unlaunched", "refused", "dead"}
CallerPCs  == {"idle", "called", "spawned", "registered", "summarised",
               "stored", "threaded", "rejected", "unregistered"} \union Settled
Collectors == {"none", "reading", "waiting", "recorded", "persisting", "done", "dead"}
Closers    == {"idle", "next", "cancel", "kill", "snapshot", "persist", "returned", "raised"}

(* Every state the variables may take. *)
TypeOK ==
    /\ phase \in {"up", "closing", "closed", "crashed"}
    /\ inst \in 1..MaxInstances
    /\ home \in [Runs -> 0..MaxInstances]
    /\ caller \in [Runs -> CallerPCs]
    /\ proc \in [Runs -> {"none", "alive", "killed", "zero", "nonzero"}]
    /\ runs \subseteq Runs
    /\ runOrder \subseteq Runs \X Runs
    /\ state \in [Runs -> RunStates]
    /\ collector \in [Runs -> Collectors]
    /\ snap \in [Runs -> RunStates]
    /\ row \in [Runs -> RowStates]
    /\ rowOrder \subseteq Runs \X Runs
    /\ closer \in Closers
    /\ target \in Runs \union {NoRun}
    /\ todo \subseteq Runs
    /\ joins \subseteq Runs
    /\ closeSnap \in RunStates
    /\ faults \in 0..MaxFaults

Init ==
    /\ phase = "up" /\ inst = 1
    /\ home = [r \in Runs |-> 0]
    /\ caller = [r \in Runs |-> "idle"]
    /\ proc = [r \in Runs |-> "none"]
    /\ runs = {} /\ runOrder = {}
    /\ state = [r \in Runs |-> "none"]
    /\ collector = [r \in Runs |-> "none"]
    /\ snap = [r \in Runs |-> "none"]
    /\ row = [r \in Runs |-> "absent"]
    /\ rowOrder = {}
    /\ closer = "idle" /\ target = NoRun
    /\ todo = {} /\ joins = {} /\ closeSnap = "none"
    /\ faults = 0

-----------------------------------------------------------------------------
(* Orders kept as sets of pairs <<earlier, later>>. *)
Forget(order, q)    == {e \in order : e[1] # q /\ e[2] # q}
MoveLast(order, S, q) == Forget(order, q) \union ((S \ {q}) \X {q})
First(order, S)     == {q \in S : \A p \in S : <<p, q>> \notin order}

(* The dictionary of controller i, and the rows of the store. *)
Dict(i) == {q \in runs : home[q] = i}
Rows    == {q \in Runs : row[q] # "absent"}

(* What _store_run may evict from memory, and _prune_runs_for_capacity from the store. *)
\* Slip: the oldest record goes, whether it runs or not.
RemovableAny(i) == Dict(i)
Removable(i) == {q \in Dict(i) : state[q] # "running"}
\* Slip: the oldest row goes, whether its run is active or not.
PrunableAny  == Rows
Prunable     == {q \in Rows : row[q] # "running"}

MemoryFull(i) == Cardinality(Dict(i)) >= MaxRuns
\* Slip: only the rows of the current controller are counted.
StoreFullOwn  == Cardinality({q \in Rows : home[q] = inst}) >= MaxRuns
StoreFull     == Cardinality(Rows) >= MaxRuns

(* The state _collect_prompt gives a record whose child has exited. *)
\* Slip: the exit status is not looked at.
OutcomeBlind(r) == IF state[r] = "cancelled" THEN "cancelled" ELSE "completed"
\* Slip: a cancellation is forgotten.
OutcomeForgets(r) == IF proc[r] = "zero" THEN "completed" ELSE "failed"
\* Slip: the exit status is stored where the state belongs.
OutcomeRaw(r) == IF state[r] = "cancelled" THEN "cancelled" ELSE proc[r]
Outcome(r) ==
    IF state[r] = "cancelled" THEN "cancelled"
    ELSE IF proc[r] = "zero" THEN "completed" ELSE "failed"

(* Exit statuses a child may leave: it may handle SIGTERM and exit 0.  Until *)
(* it has left one, poll() returns None: sent SIGKILL or not, it is live.    *)
Exits     == {"zero", "nonzero"}
LiveChild == {"alive", "killed"}

(* What _terminate_popen may leave of a live child.  Both of its waits end   *)
(* after a second, and that the second ran out, after SIGKILL, is suppressed. *)
\* Slip: SIGTERM without the SIGKILL after it; the child may ignore it.
KilledByTerm == Exits \union {"alive"}
Killed       == Exits \union {"killed"}

Fault == faults < MaxFaults /\ faults' = faults + 1

-----------------------------------------------------------------------------
(* HarnessController.prompt and _store_run. *)

Call(r) ==
    /\ phase = "up" /\ caller[r] = "idle"
    /\ home' = [home EXCEPT ![r] = inst]
    /\ caller' = [caller EXCEPT ![r] = "called"]
    /\ state' = [state EXCEPT ![r] = "running"]
    /\ UNCHANGED <<lifeVars, proc, dictVars, collector, snap, rowVars, closeVars, faults>>

(* await asyncio.to_thread(_spawn_process, ...): nothing here looks at the phase. *)
Spawn(r) ==
    /\ caller[r] = "called"
    /\ \/ /\ proc' = [proc EXCEPT ![r] = "alive"]
          /\ caller' = [caller EXCEPT ![r] = "spawned"]
       \/ /\ caller' = [caller EXCEPT ![r] = "refused"]
          /\ proc' = proc
    /\ UNCHANGED <<lifeVars, home, dictVars, state, collector, snap, rowVars, closeVars, faults>>

(* One critical section of _runs_lock.  The dictionary never exceeds       *)
(* MaxRuns (CapacityRespected), so its while loop evicts at most one run.  *)
Register(r) ==
    /\ caller[r] = "spawned"
    /\ \/ /\ ~MemoryFull(home[r])
          /\ runs' = runs \union {r}
          /\ runOrder' = MoveLast(runOrder, runs, r)
       \/ \E old \in First(runOrder, Removable(home[r])) :
          /\ MemoryFull(home[r])
          /\ runs' = (runs \ {old}) \union {r}
          /\ runOrder' = MoveLast(Forget(runOrder, old), runs \ {old}, r)
    /\ caller' = [caller EXCEPT ![r] = "registered"]
    /\ UNCHANGED <<lifeVars, home, proc, state, collector, snap, rowVars, closeVars, faults>>

(* _terminate_process on a record no other thread works for: poll, mark, kill. *)
\* Slip: the record is marked and its child forgotten.
TerminatedNot(r) == state' = [state EXCEPT ![r] = "cancelled"] /\ proc' = proc
Terminated(r) ==
    IF proc[r] \in LiveChild
    THEN /\ state' = [state EXCEPT ![r] = "cancelled"]
         /\ \E x \in Killed : proc' = [proc EXCEPT ![r] = x]
    ELSE UNCHANGED <<state, proc>>

(* The dictionary is full of running runs: the child is terminated under the *)
(* lock and prompt raises.                                                   *)
RefuseFull(r) ==
    /\ caller[r] = "spawned"
    /\ MemoryFull(home[r]) /\ Removable(home[r]) = {}
    /\ Terminated(r)
    /\ caller' = [caller EXCEPT ![r] = "refused"]
    /\ UNCHANGED <<lifeVars, home, dictVars, collector, snap, rowVars, closeVars, faults>>

(* _run_summary reads the record, outside any lock, before store.create writes it. *)
Summarise(r) ==
    /\ caller[r] = "registered"
    /\ snap' = [snap EXCEPT ![r] = state[r]]
    /\ caller' = [caller EXCEPT ![r] = "summarised"]
    /\ UNCHANGED <<lifeVars, home, proc, dictVars, state, collector, rowVars, closeVars, faults>>

(* RunStore.create, one IMMEDIATE transaction that prunes and inserts.  The *)
(* rows never exceed MaxRuns either, so it deletes at most one.             *)
StoreCreate(r) ==
    /\ caller[r] = "summarised"
    /\ \/ /\ ~StoreFull
          /\ row' = [row EXCEPT ![r] = snap[r]]
          /\ rowOrder' = MoveLast(rowOrder, Rows, r)
       \/ \E old \in First(rowOrder, Prunable) :
          /\ StoreFull
          /\ row' = [row EXCEPT ![old] = "absent", ![r] = snap[r]]
          /\ rowOrder' = MoveLast(Forget(rowOrder, old), Rows \ {old}, r)
    /\ caller' = [caller EXCEPT ![r] = "stored"]
    /\ snap' = [snap EXCEPT ![r] = "none"]
    /\ UNCHANGED <<lifeVars, home, proc, dictVars, state, collector, closeVars, faults>>

\* Slip: create waits for a row to free instead of refusing.
StoreRejectsFaults(r) ==
    /\ caller[r] = "summarised"
    /\ Fault
    /\ caller' = [caller EXCEPT ![r] = "rejected"]
    /\ snap' = [snap EXCEPT ![r] = "none"]
    /\ UNCHANGED <<lifeVars, home, proc, dictVars, state, collector, rowVars, closeVars>>
(* store.create raises: no row can be pruned, or the store fails. *)
StoreRejects(r) ==
    /\ caller[r] = "summarised"
    /\ \/ StoreFull /\ Prunable = {} /\ faults' = faults
       \/ Fault
    /\ caller' = [caller EXCEPT ![r] = "rejected"]
    /\ snap' = [snap EXCEPT ![r] = "none"]
    /\ UNCHANGED <<lifeVars, home, proc, dictVars, state, collector, rowVars, closeVars>>

(* The handler of _store_run: drop the record, then terminate its child. *)
Unregister(r) ==
    /\ caller[r] = "rejected"
    /\ runs' = runs \ {r}
    /\ runOrder' = Forget(runOrder, r)
    /\ caller' = [caller EXCEPT ![r] = "unregistered"]
    /\ UNCHANGED <<lifeVars, home, proc, state, collector, snap, rowVars, closeVars, faults>>

Abandon(r) ==
    /\ caller[r] = "unregistered"
    /\ Terminated(r)
    /\ caller' = [caller EXCEPT ![r] = "refused"]
    /\ UNCHANGED <<lifeVars, home, dictVars, collector, snap, rowVars, closeVars, faults>>

(* record.thread is assigned before the thread is started. *)
MakeThread(r) ==
    /\ caller[r] = "stored"
    /\ caller' = [caller EXCEPT ![r] = "threaded"]
    /\ UNCHANGED <<lifeVars, home, proc, dictVars, state, collector, snap, rowVars, closeVars, faults>>

StartThread(r) ==
    /\ caller[r] = "threaded"
    /\ \/ /\ caller' = [caller EXCEPT ![r] = "launched"]
          /\ collector' = [collector EXCEPT ![r] = "reading"]
          /\ faults' = faults
       \/ /\ Fault
          /\ caller' = [caller EXCEPT ![r] = "unlaunched"]
          /\ collector' = collector
    /\ UNCHANGED <<lifeVars, home, proc, dictVars, state, snap, rowVars, closeVars>>

-----------------------------------------------------------------------------
(* The child process, which the controller only observes. *)

ChildExit(r) ==
    /\ proc[r] \in LiveChild
    /\ \E x \in Exits : proc' = [proc EXCEPT ![r] = x]
    /\ UNCHANGED <<lifeVars, callVars, dictVars, state, collector, snap, rowVars, closeVars, faults>>

-----------------------------------------------------------------------------
(* _collect_prompt, one thread per launched run. *)

(* store.append touches updated_at of the run's row, if it still has one. *)
CollectEvent(r) ==
    /\ collector[r] = "reading" /\ r \in Rows
    /\ rowOrder' = MoveLast(rowOrder, Rows, r)
    /\ UNCHANGED <<lifeVars, callVars, proc, dictVars, state, collector, snap, row, closeVars, faults>>

(* readline returns nothing.  The child may have closed its output and live on. *)
ReadEof(r) ==
    /\ collector[r] = "reading"
    /\ collector' = [collector EXCEPT ![r] = "waiting"]
    /\ UNCHANGED <<lifeVars, callVars, proc, dictVars, state, snap, rowVars, closeVars, faults>>

\* Slip: a cancelled run is left to whoever cancelled it.
FinishUncancelled(r) ==
    /\ collector[r] = "waiting" /\ proc[r] \in Exits
    /\ state[r] # "cancelled"
    /\ state' = [state EXCEPT ![r] = Outcome(r)]
    /\ collector' = [collector EXCEPT ![r] = "recorded"]
    /\ UNCHANGED <<lifeVars, callVars, proc, dictVars, snap, rowVars, closeVars, faults>>
(* process.wait() returned: the outcome is decided under the record's lock. *)
Finish(r) ==
    /\ collector[r] = "waiting" /\ proc[r] \in Exits
    /\ state' = [state EXCEPT ![r] = Outcome(r)]
    /\ collector' = [collector EXCEPT ![r] = "recorded"]
    /\ UNCHANGED <<lifeVars, callVars, proc, dictVars, snap, rowVars, closeVars, faults>>

\* Slip: the except clause does not persist the failure.
CollectorRaisesSilently(r) ==
    /\ collector[r] = "reading"
    /\ state' = [state EXCEPT ![r] = "failed"]
    /\ collector' = [collector EXCEPT ![r] = "done"]
    /\ UNCHANGED <<lifeVars, callVars, proc, dictVars, snap, rowVars, closeVars, faults>>
(* The except clause: a line json.loads rejects with anything but a          *)
(* JSONDecodeError ends the loop, whatever the child does, cancelled or not. *)
CollectorRaises(r) ==
    /\ collector[r] = "reading"
    /\ state' = [state EXCEPT ![r] = "failed"]
    /\ collector' = [collector EXCEPT ![r] = "recorded"]
    /\ UNCHANGED <<lifeVars, callVars, proc, dictVars, snap, rowVars, closeVars, faults>>

(* _persist_run_state copies the fields under the record's lock ... *)
Snapshot(r) ==
    /\ collector[r] = "recorded"
    /\ snap' = [snap EXCEPT ![r] = state[r]]
    /\ collector' = [collector EXCEPT ![r] = "persisting"]
    /\ UNCHANGED <<lifeVars, callVars, proc, dictVars, state, rowVars, closeVars, faults>>

\* Slip: the row is replaced, whether it is there or not (INSERT OR REPLACE).
UpdatedUpserts(r, s) ==
    \/ /\ row' = [row EXCEPT ![r] = s]
       /\ rowOrder' = MoveLast(rowOrder, Rows, r)
       /\ faults' = faults
    \/ /\ Fault
       /\ UNCHANGED rowVars
(* ... and calls store.update outside it.  A run without a row and a store  *)
(* failure both raise in update; both are logged and swallowed.             *)
Updated(r, s) ==
    \/ /\ r \in Rows
       /\ row' = [row EXCEPT ![r] = s]
       /\ rowOrder' = MoveLast(rowOrder, Rows, r)
       /\ faults' = faults
    \/ /\ r \notin Rows
       /\ UNCHANGED <<rowVars, faults>>
    \/ /\ Fault
       /\ UNCHANGED rowVars

Persist(r) ==
    /\ collector[r] = "persisting"
    /\ Updated(r, snap[r])
    /\ snap' = [snap EXCEPT ![r] = "none"]
    /\ collector' = [collector EXCEPT ![r] = "done"]
    /\ UNCHANGED <<lifeVars, callVars, proc, dictVars, state, closeVars>>

-----------------------------------------------------------------------------
(* close_now, called by the plugin's unload hook or by shutdown().  Its part *)
(* for control commands touches none of this state.  It goes through the     *)
(* records in the order of the dictionary; here the order is arbitrary.      *)

Close ==
    /\ MayUnload /\ phase = "up"
    /\ phase' = "closing"
    /\ closer' = "next"
    /\ todo' = Dict(inst)
    /\ joins' = Dict(inst)
    /\ UNCHANGED <<inst, callVars, proc, dictVars, state, collector, snap, rowVars,
                   target, closeSnap, faults>>

(* The next record: process.poll() decides whether it is cancelled. *)
ClosePoll(r) ==
    /\ closer = "next" /\ r \in todo
    /\ target' = r
    /\ todo' = todo \ {r}
    /\ closer' = IF proc[r] \in LiveChild THEN "cancel" ELSE "snapshot"
    /\ UNCHANGED <<lifeVars, callVars, proc, dictVars, state, collector, snap, rowVars,
                   joins, closeSnap, faults>>

(* record.state is overwritten without another look at it. *)
CloseCancel ==
    /\ closer = "cancel"
    /\ state' = [state EXCEPT ![target] = "cancelled"]
    /\ closer' = "kill"
    /\ UNCHANGED <<lifeVars, callVars, proc, dictVars, collector, snap, rowVars,
                   target, todo, joins, closeSnap, faults>>

(* _terminate_popen polls once more: SIGTERM to the group, SIGKILL after a second. *)
CloseKill ==
    /\ closer = "kill"
    /\ IF proc[target] \in LiveChild
       THEN \E x \in Killed : proc' = [proc EXCEPT ![target] = x]
       ELSE proc' = proc
    /\ closer' = "snapshot"
    /\ UNCHANGED <<lifeVars, callVars, dictVars, state, collector, snap, rowVars,
                   target, todo, joins, closeSnap, faults>>

CloseSnapshot ==
    /\ closer = "snapshot"
    /\ closeSnap' = state[target]
    /\ closer' = "persist"
    /\ UNCHANGED <<lifeVars, callVars, proc, dictVars, state, collector, snap, rowVars,
                   target, todo, joins, faults>>

ClosePersist ==
    /\ closer = "persist"
    /\ Updated(target, closeSnap)
    /\ closer' = "next"
    /\ target' = NoRun
    /\ closeSnap' = "none"
    /\ UNCHANGED <<lifeVars, callVars, proc, dictVars, state, collector, snap, todo, joins>>

(* Thread.join(timeout=2.0) raises on a thread that was assigned and not     *)
(* started; it is skipped when there is none, and otherwise returns, with    *)
(* the thread ended or not.                                                  *)
Unstarted(r) == caller[r] \in {"threaded", "unlaunched"}

\* Slip: join without a timeout.
CloseJoinPatient(r) ==
    /\ closer = "next" /\ todo = {} /\ r \in joins
    /\ collector[r] \in {"none", "done"}
    /\ joins' = joins \ {r}
    /\ UNCHANGED <<lifeVars, callVars, proc, dictVars, state, collector, snap, rowVars,
                   closer, target, todo, closeSnap, faults>>
CloseJoin(r) ==
    /\ closer = "next" /\ todo = {} /\ r \in joins
    /\ IF Unstarted(r)
       THEN closer' = "raised" /\ phase' = "closed" /\ joins' = {}
       ELSE joins' = joins \ {r} /\ UNCHANGED <<closer, phase>>
    /\ UNCHANGED <<inst, callVars, proc, dictVars, state, collector, snap, rowVars,
                   target, todo, closeSnap, faults>>

CloseReturn ==
    /\ closer = "next" /\ todo = {} /\ joins = {}
    /\ closer' = "returned" /\ phase' = "closed"
    /\ UNCHANGED <<inst, callVars, proc, dictVars, state, collector, snap, rowVars,
                   target, todo, joins, closeSnap, faults>>

-----------------------------------------------------------------------------
(* Hermes dies, or exits after an unload: every thread and record is gone.   *)
(* The children have sessions of their own and live on; SQLite keeps the     *)
(* rows of committed transactions.                                           *)
Crash ==
    /\ MayCrash /\ phase # "crashed"
    /\ phase' = "crashed"
    /\ caller' = [r \in Runs |-> IF home[r] = 0 THEN "idle" ELSE "dead"]
    /\ collector' = [r \in Runs |-> IF collector[r] = "none" THEN "none" ELSE "dead"]
    /\ state' = [r \in Runs |-> IF home[r] = 0 THEN "none" ELSE "lost"]
    /\ snap' = [r \in Runs |-> "none"]
    /\ runs' = {} /\ runOrder' = {}
    /\ closer' = "idle" /\ target' = NoRun
    /\ todo' = {} /\ joins' = {} /\ closeSnap' = "none"
    /\ UNCHANGED <<inst, home, proc, rowVars, faults>>

(* _recover_interrupted: one UPDATE gives its rows the same, newest updated_at. *)
Recovered == [q \in Runs |-> IF row[q] = "running" THEN "interrupted" ELSE row[q]]
RecoveredOrder ==
    LET touched == {q \in Rows : row[q] = "running"}
        kept    == Rows \ touched
    IN  {e \in rowOrder : e[1] \in kept /\ e[2] \in kept} \union (kept \X touched)

(* A new controller opens the store: after a crash, or in the Hermes process *)
(* that unloaded the last one, where threads of the old one may still run.   *)
Open ==
    /\ phase \in {"closed", "crashed"} /\ inst < MaxInstances
    /\ phase' = "up"
    /\ inst' = inst + 1
    /\ row' = Recovered
    /\ rowOrder' = RecoveredOrder
    /\ closer' = "idle"
    /\ UNCHANGED <<callVars, proc, dictVars, state, collector, snap, target, todo,
                   joins, closeSnap, faults>>

-----------------------------------------------------------------------------
CallerStep(r) ==
    \/ Spawn(r) \/ Register(r) \/ RefuseFull(r) \/ Summarise(r) \/ StoreCreate(r)
    \/ StoreRejects(r) \/ Unregister(r) \/ Abandon(r) \/ MakeThread(r) \/ StartThread(r)

(* The collector's own steps; what it reads, and when, is up to the child. *)
CollectorStep(r) == Finish(r) \/ Snapshot(r) \/ Persist(r)
ReadStep(r)      == CollectEvent(r) \/ ReadEof(r) \/ CollectorRaises(r)

CloserStep ==
    \/ \E r \in Runs : ClosePoll(r) \/ CloseJoin(r)
    \/ CloseCancel \/ CloseKill \/ CloseSnapshot \/ ClosePersist \/ CloseReturn

Next ==
    \/ \E r \in Runs : Call(r) \/ CallerStep(r) \/ ChildExit(r) \/ CollectorStep(r) \/ ReadStep(r)
    \/ Close \/ CloserStep \/ Crash \/ Open

Spec == Init /\ [][Next]_vars

(* A thread that can take a step takes one: none of these steps waits for a *)
(* child, for output, for a caller or for the operator.                     *)
ThreadFairness(r) == WF_vars(CallerStep(r)) /\ WF_vars(CollectorStep(r))
Fairness == (\A r \in Runs : ThreadFairness(r)) /\ WF_vars(CloserStep)

FairSpec == Spec /\ Fairness

-----------------------------------------------------------------------------
(* Neither the dictionary of a controller (_store_run) nor the runs table    *)
(* (_prune_runs_for_capacity) outgrows max_runs, whichever callers, of this  *)
(* controller or of one unloaded before, interleave.                         *)
CapacityRespected ==
    /\ \A i \in 1..MaxInstances : Cardinality(Dict(i)) <= MaxRuns
    /\ Cardinality(Rows) <= MaxRuns

Stored == {"stored", "threaded", "launched", "unlaunched"}

(* A run that is still running keeps its place: neither eviction from memory *)
(* nor pruning of the store takes it, and its row says running, though the   *)
(* two tiers choose their victims by different orders and at other times.    *)
ActiveRunsRetained ==
    \A r \in Runs : caller[r] \in Stored /\ state[r] = "running" =>
        /\ r \in runs
        /\ home[r] = inst => row[r] = "running"

(* A prompt that raised because of a limit or a store failure leaves nothing *)
(* behind: no record, no row and no child but one that was sent SIGKILL and  *)
(* outlives the wait for it (_store_run's two error paths).                  *)
RefusedLeavesNothing ==
    \A r \in Runs : caller[r] = "refused" =>
        proc[r] # "alive" /\ r \notin runs /\ row[r] = "absent"

(* What the store reports of a finished run was true: completed only if the  *)
(* child exited 0, though the outcome goes through the record and a copy of  *)
(* it; interrupted only if a later controller opened the store.              *)
OutcomeIsEarned ==
    \A r \in Runs :
        /\ row[r] = "completed" => proc[r] = "zero"
        /\ row[r] = "interrupted" => home[r] < inst

(* While the plugin is loaded and the store does not fail, a run whose       *)
(* collector ended has the state in its row that its record has, so that the *)
(* answer does not depend on whether memory still holds the run.             *)
SettledRowAgrees ==
    \A r \in Runs :
        phase = "up" /\ home[r] = inst /\ collector[r] = "done" /\ faults = 0 =>
            row[r] \in {"absent", state[r]}

(* While the plugin is loaded, a launched run whose child lives can be found *)
(* by close_now, unless its collector raised and gave it up as failed.       *)
LiveChildIsSupervised ==
    \A r \in Runs :
        phase = "up" /\ home[r] = inst /\ caller[r] \in Stored /\ proc[r] \in LiveChild =>
            r \in runs \/ state[r] = "failed"

(* close_now leaves behind it every captured run's child dead, or sent the   *)
(* SIGKILL it cannot refuse, whatever the collectors do meanwhile: it passes *)
(* over none, and rests for none on a SIGTERM.                               *)
SweptRunsAreDead ==
    \A r \in joins \ todo :
        r # target \/ closer \in {"snapshot", "persist"} => proc[r] # "alive"

(* A run cancelled while its child lived is not called completed ever after, *)
(* by its record, by its row or after a restart, although the child may      *)
(* answer SIGTERM with an exit status of 0 and the collector, close_now and  *)
(* their copies of the state write in any order.  (A run that completed      *)
(* between close_now's poll and its cancellation is no such run: its row may *)
(* well go from cancelled to completed.)                                     *)
CancelledNeverCompleted ==
    \A r \in Runs :
        [](state[r] = "cancelled" /\ proc[r] \in LiveChild =>
            [](state[r] # "completed" /\ row[r] # "completed"))

(* Outside an unload, a row that holds an outcome never goes back to running *)
(* or to interrupted, late writers of an unloaded controller included.       *)
OutcomesStick ==
    [][phase = "up" => \A r \in Runs :
        row[r] \in Outcomes => row'[r] \in Outcomes \union {"absent"}]_vars

(* The rows, under every interleaving of callers, collectors, close_now and  *)
(* the threads it leaves behind, keep the promises of RunLedger: no running  *)
(* run gives way, a run that left the table stays away, the loaded           *)
(* controller's own outcomes are written once, and recovery misses none.     *)
Standing(r) ==
    IF row[r] # "absent" THEN row[r]
    ELSE IF caller[r] = "idle" THEN "none"
    ELSE IF caller[r] \in {"called", "spawned", "registered", "summarised"} THEN "asked"
    ELSE "gone"
Ledger == INSTANCE RunLedger WITH
    entry <- [r \in Runs |-> Standing(r)],
    open  <- phase = "up",
    mine  <- {r \in Runs : home[r] = inst}
LedgerSpec == Ledger!Spec

(* No thread is ever stuck on what others hold or have left: a prompt under   *)
(* way, the collector of a child that exited and close_now can take a step,   *)
(* whatever is full, failing, terminated or unloaded meanwhile.               *)
Underway(r)  == caller[r] \notin Settled \union {"idle"}
Recording(r) == \/ collector[r] \in {"recorded", "persisting"}
                \/ collector[r] = "waiting" /\ proc[r] \in Exits
Closing      == closer \notin {"idle", "returned", "raised"}
ThreadsGoOn ==
    /\ \A r \in Runs : /\ Underway(r)  => ENABLED <<CallerStep(r)>>_vars
                       /\ Recording(r) => ENABLED <<CollectorStep(r)>>_vars
    /\ Closing => ENABLED <<CloserStep>>_vars

(* Every prompt call is answered, with a run or with an error. *)
PromptSettles ==
    \A r \in Runs : caller[r] = "called" ~> caller[r] \in Settled

(* close_now ends, however many readers hang: it joins them with a timeout. *)
CloseCompletes == closer # "idle" ~> closer \in {"returned", "raised", "idle"}

(* A child that exits after its output ended has its outcome persisted (or   *)
(* the attempt made), unless Hermes dies first.                              *)
ExitIsRecorded ==
    \A r \in Runs :
        collector[r] = "waiting" /\ proc[r] \in Exits ~> collector[r] \in {"done", "dead"}

-----------------------------------------------------------------------------
(* Claims of the documentation and of messages that the code breaks.         *)

(* README.md, Safety boundaries: prompt processes are terminated on plugin   *)
(* unload.  A prompt between _spawn_process and _store_run is not seen: its  *)
(* child is not even sent a signal.                                          *)
UnloadTerminates ==
    closer = "returned" => \A r \in Runs : home[r] = inst => proc[r] # "alive"

(* The error of an interrupted run says that Hermes stopped before the run   *)
(* completed.  A run that completed, and was recorded, is called interrupted *)
(* after a clean unload: close_now wrote the state it had copied before.     *)
InterruptedMeansUnfinished ==
    \A r \in Runs :
        row[r] = "interrupted" => ~(state[r] = "completed" /\ collector[r] = "done")

=============================================================================
