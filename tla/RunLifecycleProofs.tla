------------------------- MODULE RunLifecycleProofs -------------------------
(***************************************************************************)
(* Proofs about RunLifecycle for every set of runs, every max_runs, any    *)
(* number of restarts and faults.                                          *)
(***************************************************************************)
EXTENDS RunLifecycle, FiniteSetTheorems, TLAPS

Live    == {"running"} \union Outcomes
Absent  == {"idle", "dead"}
Working == {"cancel", "kill", "snapshot", "persist"}

(* A record has a state exactly while its caller or its threads can use it. *)
HomeInv == \A r \in Runs :
    /\ home[r] <= inst
    /\ caller[r] = "idle" => state[r] = "none"
    /\ caller[r] \notin Absent => state[r] \in Live

(* Who is in a dictionary, and who must be. *)
DictInv == \A r \in Runs :
    /\ r \in runs => caller[r] \notin Absent \union {"called", "spawned", "unregistered", "refused"}
    /\ caller[r] \in {"registered", "summarised"} \union Stored /\ state[r] = "running" => r \in runs

(* A collector exists only for a launched run; past its loop it has left running. *)
ThreadInv == \A r \in Runs :
    /\ collector[r] \notin {"none", "dead"} => caller[r] = "launched"
    /\ collector[r] \in {"recorded", "persisting", "done"} => state[r] # "running"

(* A copy of the state waiting to be written may be old, but says running if *)
(* the record still does.                                                    *)
CopyInv == \A r \in Runs :
    /\ caller[r] = "summarised" \/ collector[r] = "persisting" => snap[r] \in Live
    /\ caller[r] = "summarised" /\ state[r] = "running" => snap[r] = "running"

CloserInv ==
    /\ \A r \in todo : caller[r] \notin Absent
    /\ closer \in Working => target \in Runs /\ caller[target] \notin Absent
    /\ closer = "persist" => /\ closeSnap \in Live
                             /\ state[target] = "running" => closeSnap = "running"

Control == TypeOK /\ HomeInv /\ DictInv /\ ThreadInv /\ CopyInv /\ CloserInv

LEMMA ControlInit == Init => Control
<1>1. SUFFICES ASSUME Init PROVE Control
  OBVIOUS
<1>2. TypeOK
  BY <1>1, LimitsAssumption DEF Init, TypeOK, CallerPCs, RunStates, RowStates, Collectors, Closers
<1>3. QED
  BY <1>1, <1>2, LimitsAssumption DEF Init, Control, HomeInv, DictInv, ThreadInv, CopyInv, CloserInv,
     Absent, Stored, Working

LEMMA ControlCaller ==
  ASSUME Control, NEW r \in Runs, Call(r) \/ CallerStep(r)
  PROVE  Control'
<1> USE DEF Control, TypeOK, HomeInv, DictInv, ThreadInv, CopyInv, CloserInv, Absent, Stored, Live,
        Working, Outcomes, RunStates, RowStates, CallerPCs, Settled, Collectors, Closers, Exits, LiveChild, Killed,
        lifeVars, callVars, dictVars, rowVars, closeVars, Fault
<1>1. CASE Call(r)
  BY <1>1 DEF Call
<1>2. CASE Spawn(r)
  BY <1>2 DEF Spawn
<1>3. CASE Register(r)
  <2>1. runs' \subseteq Runs /\ runOrder' \subseteq Runs \X Runs
    BY <1>3 DEF Register, First, Removable, Dict, MoveLast, Forget
  <2>2. TypeOK'
    BY <1>3, <2>1 DEF Register
  <2>3. HomeInv' /\ ThreadInv' /\ CopyInv' /\ CloserInv'
    BY <1>3 DEF Register
  <2>4. DictInv'
    <3>1. ASSUME NEW q \in Runs
          PROVE  /\ q \in runs' => q \in runs \/ q = r
                 /\ q \in runs /\ state[q] = "running" => q \in runs'
                 /\ r \in runs'
      BY <1>3 DEF Register, First, Removable, Dict
    <3>2. caller' = [caller EXCEPT ![r] = "registered"] /\ state' = state
      BY <1>3 DEF Register
    <3>3. QED
      BY <3>1, <3>2
  <2>5. QED
    BY <2>2, <2>3, <2>4
<1>4. CASE RefuseFull(r)
  BY <1>4 DEF RefuseFull, Terminated
<1>5. CASE Summarise(r)
  BY <1>5 DEF Summarise
<1>6. CASE StoreCreate(r)
  <2>1. TypeOK'
    <3>1. row' \in [Runs -> RowStates]
      <4>1. snap[r] \in RowStates
        BY <1>6 DEF StoreCreate
      <4>2. CASE row' = [row EXCEPT ![r] = snap[r]]
        BY <4>1, <4>2
      <4>3. CASE \E old \in Runs : row' = [row EXCEPT ![old] = "absent", ![r] = snap[r]]
        BY <4>1, <4>3
      <4>4. QED
        BY <1>6, <4>2, <4>3 DEF StoreCreate, First, Prunable, Rows
    <3>2. rowOrder' \subseteq Runs \X Runs
      BY <1>6, SMTT(30) DEF StoreCreate, First, Prunable, Rows, MoveLast, Forget
    <3>3. QED
      BY <1>6, <3>1, <3>2 DEF StoreCreate
  <2>2. HomeInv' /\ DictInv' /\ ThreadInv' /\ CopyInv' /\ CloserInv'
    BY <1>6 DEF StoreCreate
  <2>3. QED
    BY <2>1, <2>2
<1>7. CASE StoreRejects(r)
  BY <1>7, LimitsAssumption DEF StoreRejects
<1>8. CASE Unregister(r)
  BY <1>8 DEF Unregister, Forget
<1>9. CASE Abandon(r)
  BY <1>9 DEF Abandon, Terminated
<1>10. CASE MakeThread(r)
  BY <1>10 DEF MakeThread
<1>11. CASE StartThread(r)
  BY <1>11, LimitsAssumption DEF StartThread
<1> QED
  BY <1>1, <1>2, <1>3, <1>4, <1>5, <1>6, <1>7, <1>8, <1>9, <1>10, <1>11 DEF CallerStep

LEMMA ControlChild ==
  ASSUME Control, NEW r \in Runs, ChildExit(r) \/ CollectorStep(r) \/ ReadStep(r)
  PROVE  Control'
<1> USE DEF Control, TypeOK, HomeInv, DictInv, ThreadInv, CopyInv, CloserInv, Absent, Stored, Live,
        Working, Outcomes, RunStates, RowStates, CallerPCs, Settled, Collectors, Closers, Exits, LiveChild, Killed,
        lifeVars, callVars, dictVars, rowVars, closeVars
<1>1. CASE ChildExit(r)
  BY <1>1 DEF ChildExit
<1>2. CASE CollectEvent(r)
  BY <1>2 DEF CollectEvent, Rows, MoveLast, Forget
<1>3. CASE ReadEof(r)
  BY <1>3 DEF ReadEof
<1>4. CASE Finish(r)
  BY <1>4 DEF Finish, Outcome
<1>5. CASE CollectorRaises(r)
  BY <1>5 DEF CollectorRaises
<1>6. CASE Snapshot(r)
  BY <1>6 DEF Snapshot
<1>7. CASE Persist(r)
  BY <1>7, LimitsAssumption DEF Persist, Updated, Fault, Rows, MoveLast, Forget
<1> QED
  BY <1>1, <1>2, <1>3, <1>4, <1>5, <1>6, <1>7 DEF CollectorStep, ReadStep

LEMMA ControlCloser ==
  ASSUME Control, Close \/ CloserStep
  PROVE  Control'
<1> USE DEF Control, TypeOK, HomeInv, DictInv, ThreadInv, CopyInv, CloserInv, Absent, Stored, Live,
        Working, Outcomes, RunStates, RowStates, CallerPCs, Settled, Collectors, Closers, Exits, LiveChild, Killed,
        lifeVars, callVars, dictVars, rowVars, closeVars
<1>1. CASE Close
  BY <1>1 DEF Close, Dict
<1>2. ASSUME NEW r \in Runs, ClosePoll(r) PROVE Control'
  BY <1>2 DEF ClosePoll
<1>3. ASSUME NEW r \in Runs, CloseJoin(r) PROVE Control'
  BY <1>3 DEF CloseJoin
<1>4. CASE CloseCancel
  BY <1>4 DEF CloseCancel
<1>5. CASE CloseKill
  BY <1>5 DEF CloseKill
<1>6. CASE CloseSnapshot
  BY <1>6 DEF CloseSnapshot
<1>7. CASE ClosePersist
  BY <1>7, LimitsAssumption DEF ClosePersist, Updated, Fault, Rows, MoveLast, Forget
<1>8. CASE CloseReturn
  BY <1>8 DEF CloseReturn
<1> QED
  BY <1>1, <1>2, <1>3, <1>4, <1>5, <1>6, <1>7, <1>8 DEF CloserStep

LEMMA ControlLife ==
  ASSUME Control, Crash \/ Open
  PROVE  Control'
<1> USE DEF Control, TypeOK, HomeInv, DictInv, ThreadInv, CopyInv, CloserInv, Absent, Stored, Live,
        Working, Outcomes, RunStates, RowStates, CallerPCs, Settled, Collectors, Closers, Exits, LiveChild, Killed,
        lifeVars, callVars, dictVars, rowVars, closeVars
<1>1. CASE Crash
  BY <1>1 DEF Crash
<1>2. CASE Open
  BY <1>2, LimitsAssumption DEF Open, Recovered, RecoveredOrder, Rows
<1> QED
  BY <1>1, <1>2

LEMMA ControlStep == Control /\ [Next]_vars => Control'
<1>1. SUFFICES ASSUME Control, [Next]_vars PROVE Control'
  OBVIOUS
<1>2. CASE UNCHANGED vars
  BY <1>1, <1>2 DEF vars, lifeVars, callVars, dictVars, rowVars, closeVars, Control, TypeOK,
     HomeInv, DictInv, ThreadInv, CopyInv, CloserInv
<1>3. QED
  BY <1>1, <1>2, ControlCaller, ControlChild, ControlCloser, ControlLife DEF Next

(* Every variable of RunLifecycle keeps its type, the copies that wait to be *)
(* written and the target of close_now included.                             *)
THEOREM TypeSafety == Spec => []TypeOK
<1>1. Control => TypeOK
  BY DEF Control
<1>2. QED
  BY ControlInit, ControlStep, <1>1, PTL DEF Spec

-----------------------------------------------------------------------------
(* Capacity. *)

(* A set bounded by n stays so when it shrinks, ... *)
LEMMA Shrink ==
  ASSUME NEW S, IsFiniteSet(S), NEW n \in Nat, Cardinality(S) <= n, NEW T, T \subseteq S
  PROVE  Cardinality(T) <= n
BY FS_Subset, FS_CardinalityType

(* ... and when one element takes the place of another, or a free place. *)
LEMMA Replace ==
  ASSUME NEW S, IsFiniteSet(S), NEW n \in Nat, Cardinality(S) <= n,
         NEW x, NEW y, x \in S \/ Cardinality(S) < n,
         NEW T, T \subseteq (S \ {x}) \union {y}
  PROVE  Cardinality(T) <= n
<1>1. /\ IsFiniteSet(S \ {x})
      /\ Cardinality(S \ {x}) = IF x \in S THEN Cardinality(S) - 1 ELSE Cardinality(S)
  BY FS_RemoveElement
<1>2. Cardinality(S) \in Nat /\ Cardinality(S \ {x}) \in Nat
  BY <1>1, FS_CardinalityType
<1>3. /\ IsFiniteSet((S \ {x}) \union {y})
      /\ Cardinality((S \ {x}) \union {y}) <= Cardinality(S \ {x}) + 1
  <2>1. /\ IsFiniteSet((S \ {x}) \union {y})
        /\ Cardinality((S \ {x}) \union {y}) =
             IF y \in S \ {x} THEN Cardinality(S \ {x}) ELSE Cardinality(S \ {x}) + 1
    BY <1>1, FS_AddElement
  <2>2. QED
    BY <1>2, <2>1
<1>4. Cardinality((S \ {x}) \union {y}) \in Nat
  BY <1>3, FS_CardinalityType
<1>5. Cardinality((S \ {x}) \union {y}) <= n
  BY <1>1, <1>2, <1>3, <1>4
<1>6. QED
  BY <1>3, <1>5, Shrink

LEMMA FiniteParts ==
  ASSUME Control
  PROVE  IsFiniteSet(Rows) /\ \A i : IsFiniteSet(Dict(i))
<1>1. Rows \subseteq Runs
  BY DEF Rows
<1>2. ASSUME NEW i PROVE Dict(i) \subseteq Runs
  BY DEF Control, TypeOK, Dict
<1>3. IsFiniteSet(Rows)
  BY <1>1, RunsAssumption, FS_Subset
<1>4. ASSUME NEW i PROVE IsFiniteSet(Dict(i))
  BY <1>2, RunsAssumption, FS_Subset
<1>5. QED
  BY <1>3, <1>4

LEMMA CapacityInit == Init => CapacityRespected
<1>1. SUFFICES ASSUME Init PROVE CapacityRespected
  OBVIOUS
<1>2. Rows = {} /\ \A i \in 1..MaxInstances : Dict(i) = {}
  BY <1>1 DEF Init, Rows, Dict
<1>3. QED
  BY <1>2, FS_EmptySet, LimitsAssumption DEF CapacityRespected

(* A step that adds no row and no record keeps to the limits. *)
LEMMA CapacityShrinks ==
  ASSUME Control, CapacityRespected, Rows' \subseteq Rows,
         \A i \in 1..MaxInstances : Dict(i)' \subseteq Dict(i)
  PROVE  CapacityRespected'
BY FiniteParts, Shrink, LimitsAssumption DEF CapacityRespected

LEMMA CapacityRegister ==
  ASSUME Control, CapacityRespected, NEW r \in Runs, Register(r)
  PROVE  CapacityRespected'
<1>1. Rows' = Rows
  BY DEF Register, rowVars, Rows
<1>2. ASSUME NEW i \in 1..MaxInstances PROVE Cardinality(Dict(i)') <= MaxRuns
  <2>1. CASE i # home[r]
    <3>1. runs' \subseteq runs \union {r} /\ home' = home
      BY DEF Register
    <3>2. Dict(i)' \subseteq Dict(i)
      BY <2>1, <3>1 DEF Dict
    <3>3. QED
      BY <3>2, FiniteParts, Shrink, LimitsAssumption DEF CapacityRespected
  <2>2. CASE i = home[r]
    <3>1. PICK old : /\ old \in Dict(i) \/ Cardinality(Dict(i)) < MaxRuns
                     /\ Dict(i)' \subseteq (Dict(i) \ {old}) \union {r}
      <4>1. CASE ~MemoryFull(i)
        <5>1. Cardinality(Dict(i)) < MaxRuns
          BY <4>1, FiniteParts, FS_CardinalityType, LimitsAssumption DEF MemoryFull
        <5>2. r \notin Dict(i)
          BY DEF Control, DictInv, Register, Dict
        <5>3. Dict(i)' \subseteq (Dict(i) \ {r}) \union {r}
          BY <2>2, <4>1, <5>2 DEF Register, Dict
        <5>4. QED
          BY <5>1, <5>3
      <4>2. CASE MemoryFull(i)
        BY <2>2, <4>2 DEF Register, Dict, First, Removable
      <4>3. QED
        BY <4>1, <4>2
    <3>2. Cardinality(Dict(i)) <= MaxRuns
      BY DEF CapacityRespected
    <3>3. QED
      BY <3>1, <3>2, FiniteParts, Replace, LimitsAssumption
  <2>3. QED
    BY <2>1, <2>2
<1>3. QED
  BY <1>1, <1>2 DEF CapacityRespected

LEMMA CapacityStoreCreate ==
  ASSUME Control, CapacityRespected, NEW r \in Runs, StoreCreate(r)
  PROVE  CapacityRespected'
<1>1. \A i \in 1..MaxInstances : Dict(i)' = Dict(i)
  BY DEF StoreCreate, dictVars, Dict
<1>2. PICK old : /\ old \in Rows \/ Cardinality(Rows) < MaxRuns
                 /\ Rows' \subseteq (Rows \ {old}) \union {r}
  <2>1. CASE ~StoreFull
    <3>1. Cardinality(Rows) < MaxRuns
      BY <2>1, FiniteParts, FS_CardinalityType, LimitsAssumption DEF StoreFull
    <3>2. Rows' \subseteq (Rows \ {r}) \union {r}
      BY <2>1 DEF StoreCreate, Rows, Control, TypeOK
    <3>3. QED
      BY <3>1, <3>2
  <2>2. CASE StoreFull
    BY <2>2, ZenonT(60) DEF StoreCreate, Rows, First, Prunable, Control, TypeOK
  <2>3. QED
    BY <2>1, <2>2
<1>3. Cardinality(Rows') <= MaxRuns
  BY <1>2, FiniteParts, Replace, LimitsAssumption DEF CapacityRespected
<1>4. QED
  BY <1>1, <1>3 DEF CapacityRespected

LEMMA CapacityStep == Control /\ CapacityRespected /\ [Next]_vars => CapacityRespected'
<1>1. SUFFICES ASSUME Control, CapacityRespected, [Next]_vars PROVE CapacityRespected'
  OBVIOUS
<1> DEFINE Shrinks == Rows' \subseteq Rows /\ \A i \in 1..MaxInstances : Dict(i)' \subseteq Dict(i)
<1>2. ASSUME NEW r \in Runs, Call(r) PROVE Shrinks
  <2>1. r \notin runs
    BY <1>1, <1>2 DEF Control, DictInv, Call, Absent
  <2>2. QED
    BY <1>1, <1>2, <2>1 DEF Call, dictVars, rowVars, Rows, Dict, Control, TypeOK
<1>3. ASSUME NEW r \in Runs, CallerStep(r), ~Register(r), ~StoreCreate(r) PROVE Shrinks
  BY <1>1, <1>3 DEF CallerStep, Spawn, RefuseFull, Summarise, StoreRejects, Unregister, Abandon,
     MakeThread, StartThread, dictVars, rowVars, Rows, Dict
<1>4. ASSUME NEW r \in Runs, ChildExit(r) \/ ReadStep(r) \/ Finish(r) \/ Snapshot(r) PROVE Shrinks
  BY <1>1, <1>4 DEF ChildExit, ReadStep, CollectEvent, ReadEof, CollectorRaises, Finish, Snapshot,
     callVars, dictVars, rowVars, Rows, Dict
<1>5. ASSUME NEW r \in Runs, NEW s, Updated(r, s), UNCHANGED <<home, runs>> PROVE Shrinks
  <2>1. \A q \in Runs : row[q] = "absent" => row'[q] = "absent"
    BY <1>1, <1>5 DEF Updated, rowVars, Rows, Control, TypeOK
  <2>2. QED
    BY <1>5, <2>1 DEF Rows, Dict
<1>6. ASSUME Close \/ CloserStep, ~ClosePersist PROVE Shrinks
  BY <1>1, <1>6 DEF Close, CloserStep, ClosePoll, CloseJoin, CloseCancel, CloseKill, CloseSnapshot,
     CloseReturn, callVars, dictVars, rowVars, Rows, Dict
<1>7. ASSUME Crash \/ Open PROVE Shrinks
  BY <1>1, <1>7 DEF Crash, Open, Recovered, callVars, dictVars, rowVars, Rows, Dict
<1>8. CASE UNCHANGED vars
  BY <1>8, CapacityShrinks, <1>1 DEF vars, callVars, dictVars, rowVars, Rows, Dict
<1>9. ASSUME NEW r \in Runs, Persist(r) PROVE Shrinks
  BY <1>5, <1>9 DEF Persist, callVars, dictVars
<1>10. ASSUME ClosePersist PROVE Shrinks
  <2>1. target \in Runs
    BY <1>1, <1>10 DEF ClosePersist, Control, CloserInv, Working
  <2>2. QED
    BY <1>5, <1>10, <2>1 DEF ClosePersist, callVars, dictVars
<1>11. QED
  BY <1>1, <1>2, <1>3, <1>4, <1>6, <1>7, <1>8, <1>9, <1>10, CapacityShrinks, CapacityRegister,
     CapacityStoreCreate DEF Next, CollectorStep

(* At no time does a controller hold more records, or the store more rows,   *)
(* than max_runs: _store_run and _prune_runs_for_capacity, under any         *)
(* interleaving of callers, collectors, unloads and restarts.                *)
THEOREM CapacitySafety == Spec => []CapacityRespected
<1>1. Init => Control /\ CapacityRespected
  BY ControlInit, CapacityInit
<1>2. Control /\ CapacityRespected /\ [Next]_vars => (Control /\ CapacityRespected)'
  BY ControlStep, CapacityStep
<1>3. QED
  BY <1>1, <1>2, PTL DEF Spec

-----------------------------------------------------------------------------
(* Active runs. *)

Retained(r) ==
    caller[r] \in Stored /\ state[r] = "running" =>
        r \in runs /\ (home[r] = inst => row[r] = "running")

LEMMA RetainedCaller ==
  ASSUME Control, ActiveRunsRetained, NEW r \in Runs, Call(r) \/ CallerStep(r), NEW q \in Runs
  PROVE  Retained(q)'
<1>1. Retained(q)
  BY DEF ActiveRunsRetained, Retained
<1> USE <1>1 DEF Control, TypeOK, HomeInv, DictInv, CopyInv, Absent, Stored, Live, Outcomes, Retained,
        lifeVars, callVars, dictVars, rowVars
<1>2. CASE Call(r)
  BY <1>2 DEF Call
<1>3. CASE Spawn(r) \/ Summarise(r) \/ StoreRejects(r) \/ Unregister(r) \/ MakeThread(r) \/ StartThread(r)
  BY <1>3 DEF Spawn, Summarise, StoreRejects, Unregister, MakeThread, StartThread
<1>4. CASE RefuseFull(r) \/ Abandon(r)
  BY <1>4 DEF RefuseFull, Abandon, Terminated
<1>5. CASE Register(r)
  <2>1. q \in runs /\ state[q] = "running" => q \in runs'
    BY <1>5 DEF Register, First, Removable, Dict
  <2>2. caller' = [caller EXCEPT ![r] = "registered"] /\ UNCHANGED <<state, row, home, inst>>
    BY <1>5 DEF Register
  <2>3. QED
    BY <2>1, <2>2
<1>6. CASE StoreCreate(r)
  <2>1. q # r /\ row[q] = "running" => row'[q] = "running"
    BY <1>6, ZenonT(60) DEF StoreCreate, First, Prunable, Rows
  <2>2. state[r] = "running" => row'[r] = "running"
    <3>1. state[r] = "running" => snap[r] = "running"
      BY <1>6 DEF StoreCreate
    <3>2. \E old \in Runs : \/ row' = [row EXCEPT ![r] = snap[r]]
                           \/ row' = [row EXCEPT ![old] = "absent", ![r] = snap[r]]
      BY <1>6 DEF StoreCreate, First, Prunable, Rows
    <3>3. QED
      BY <3>1, <3>2
  <2>3. /\ caller[r] = "summarised" /\ caller' = [caller EXCEPT ![r] = "stored"]
        /\ UNCHANGED <<state, runs, home, inst>>
    BY <1>6 DEF StoreCreate
  <2>4. QED
    BY <2>1, <2>2, <2>3
<1> QED
  BY <1>2, <1>3, <1>4, <1>5, <1>6 DEF CallerStep

(* A store.update leaves running what it must: nobody writes an outcome for  *)
(* a record that is still running.                                           *)
LEMMA RetainedUpdate ==
  ASSUME Control, NEW r \in Runs, NEW s, state[r] = "running" => s = "running",
         Updated(r, s), UNCHANGED <<inst, caller, home, runs, state>>,
         NEW q \in Runs, Retained(q)
  PROVE  Retained(q)'
<1>1. state[q] = "running" /\ row[q] = "running" => row'[q] = "running"
  BY DEF Updated, rowVars, Control, TypeOK
<1>2. QED
  BY <1>1 DEF Retained

LEMMA RetainedOther ==
  ASSUME Control, ActiveRunsRetained, NEW q \in Runs,
         \/ \E r \in Runs : ChildExit(r) \/ CollectorStep(r) \/ ReadStep(r)
         \/ Close \/ CloserStep \/ Crash \/ Open \/ UNCHANGED vars
  PROVE  Retained(q)'
<1>1. Retained(q)
  BY DEF ActiveRunsRetained, Retained
<1> USE <1>1
<1>2. ASSUME NEW r \in Runs, ChildExit(r) \/ CollectEvent(r) \/ ReadEof(r) \/ Snapshot(r)
      PROVE  Retained(q)'
  BY <1>2 DEF ChildExit, CollectEvent, ReadEof, Snapshot, Retained, lifeVars, callVars, dictVars, rowVars
<1>3. ASSUME NEW r \in Runs, Finish(r) \/ CollectorRaises(r) PROVE Retained(q)'
  <2>1. state'[r] # "running"
    BY <1>3 DEF Finish, CollectorRaises, Outcome, Control, TypeOK
  <2>2. q # r => state'[q] = state[q]
    BY <1>3 DEF Finish, CollectorRaises, Control, TypeOK
  <2>3. QED
    BY <1>3, <2>1, <2>2 DEF Finish, CollectorRaises, Retained, lifeVars, callVars, dictVars, rowVars
<1>4. ASSUME NEW r \in Runs, Persist(r) PROVE Retained(q)'
  <2>1. state[r] # "running"
    BY <1>4 DEF Persist, Control, ThreadInv
  <2>2. QED
    BY <1>4, <2>1, RetainedUpdate DEF Persist, lifeVars, callVars, dictVars
<1>5. CASE Close \/ CloseKill \/ CloseSnapshot \/ CloseReturn \/ UNCHANGED vars
  BY <1>5 DEF Close, CloseKill, CloseSnapshot, CloseReturn, vars, Retained, lifeVars, callVars,
     dictVars, rowVars
<1>6. ASSUME NEW r \in Runs, ClosePoll(r) \/ CloseJoin(r) PROVE Retained(q)'
  BY <1>6 DEF ClosePoll, CloseJoin, Retained, lifeVars, callVars, dictVars, rowVars
<1>7. CASE CloseCancel
  <2>1. state'[q] = "running" => state[q] = "running"
    BY <1>7 DEF CloseCancel, Control, TypeOK
  <2>2. QED
    BY <1>7, <2>1 DEF CloseCancel, Retained, lifeVars, callVars, dictVars, rowVars
<1>8. CASE ClosePersist
  <2>1. target \in Runs /\ (state[target] = "running" => closeSnap = "running")
    BY <1>8 DEF ClosePersist, Control, CloserInv, Working
  <2>2. QED
    BY <1>8, <2>1, RetainedUpdate DEF ClosePersist, lifeVars, callVars, dictVars
<1>9. CASE Crash
  BY <1>9 DEF Crash, Retained, Stored
<1>10. CASE Open
  BY <1>10, LimitsAssumption DEF Open, Retained, Control, TypeOK, HomeInv, lifeVars, callVars, dictVars
<1> QED
  BY <1>2, <1>3, <1>4, <1>5, <1>6, <1>7, <1>8, <1>9, <1>10 DEF CollectorStep, ReadStep, CloserStep

LEMMA RetainedStep == Control /\ ActiveRunsRetained /\ [Next]_vars => ActiveRunsRetained'
<1>1. SUFFICES ASSUME Control, ActiveRunsRetained, [Next]_vars, NEW q \in Runs PROVE Retained(q)'
  BY DEF ActiveRunsRetained, Retained
<1>2. QED
  BY <1>1, RetainedCaller, RetainedOther DEF Next

(* No eviction and no pruning ever takes an active run, and until a later    *)
(* controller opens the store its row says running.                          *)
THEOREM ActiveRunsSafety == Spec => []ActiveRunsRetained
<1>1. Init => Control /\ ActiveRunsRetained
  BY ControlInit DEF Init, ActiveRunsRetained, Stored
<1>2. Control /\ ActiveRunsRetained /\ [Next]_vars => (Control /\ ActiveRunsRetained)'
  BY ControlStep, RetainedStep
<1>3. QED
  BY <1>1, <1>2, PTL DEF Spec

-----------------------------------------------------------------------------
(* What rows, records and children say of one another.  Outcomed adds to     *)
(* Control the facts that tie a row to its child and to the controller that  *)
(* wrote it; none of them would survive a step without the others.           *)

Unstored == {"idle", "called", "spawned", "registered", "summarised", "rejected",
             "unregistered", "refused"}
Unspawned == {"idle", "called"}

(* A child exists only after its prompt spawned it, a row only after its *)
(* prompt stored it, and a refused prompt has neither.                    *)
BirthInv == \A r \in Runs :
    /\ home[r] = 0 => caller[r] = "idle"
    /\ caller[r] \in Unspawned => proc[r] = "none"
    /\ caller[r] \in Unstored => row[r] = "absent"
    /\ caller[r] = "refused" => proc[r] # "alive"

(* Completed means exit status 0 in the record, in every copy of its state  *)
(* that waits to be written, and in the row.                                *)
EarnInv ==
    /\ \A r \in Runs :
        /\ state[r] = "completed" => proc[r] = "zero"
        /\ snap[r] = "completed" => proc[r] = "zero"
        /\ row[r] = "completed" => proc[r] = "zero"
        /\ row[r] = "interrupted" => home[r] < inst
    /\ closer = "persist" /\ closeSnap = "completed" => proc[target] = "zero"

(* close_now works only while its controller is closing.  What it captured *)
(* was spawned; what it is done with is dead or was sent SIGKILL.          *)
SweepInv ==
    /\ phase = "up" => closer = "idle"
    /\ closer \in Working \union {"next"} => phase = "closing"
    /\ closer \notin Working => target = NoRun
    /\ \A r \in joins : caller[r] \notin Unspawned
    /\ SweptRunsAreDead

(* While the plugin is loaded only a run's own threads write its state, so *)
(* that the copy they persist is the state the record keeps.               *)
AgreeInv == \A r \in Runs :
    /\ collector[r] = "persisting" => snap[r] \in Outcomes
    /\ phase = "up" /\ home[r] = inst =>
        /\ caller[r] = "called" => state[r] = "running"
        /\ state[r] = "cancelled" => caller[r] = "refused"
        /\ collector[r] = "persisting" => snap[r] = state[r]
        /\ collector[r] = "done" /\ faults = 0 => row[r] \in {"absent", state[r]}

Outcomed == BirthInv /\ EarnInv /\ SweepInv /\ AgreeInv

LEMMA OutcomedInit == Init => Outcomed
BY LimitsAssumption DEF Init, Outcomed, BirthInv, EarnInv, SweepInv, AgreeInv, SweptRunsAreDead,
   Unstored, Unspawned, Working, Outcomes

(* The only actions that write a row, and what they write. *)
LEMMA RowsWritten ==
  ASSUME Control, Next, NEW q \in Runs, row'[q] # row[q], row'[q] # "absent"
  PROVE  \/ StoreCreate(q) /\ row'[q] = snap[q]
         \/ Persist(q) /\ row[q] # "absent" /\ row'[q] = snap[q]
         \/ /\ ClosePersist /\ row[q] # "absent" /\ q = target
            /\ row'[q] = closeSnap
         \/ Open /\ row[q] = "running" /\ row'[q] = "interrupted"
<1>0. row \in [Runs -> RowStates]
  BY DEF Control, TypeOK
<1>1. ASSUME NEW r \in Runs, StoreCreate(r)
      PROVE  q = r /\ row'[q] = snap[q]
  <2>1. CASE row' = [row EXCEPT ![r] = snap[r]]
    BY <1>0, <2>1
  <2>2. ASSUME NEW old \in Runs, row' = [row EXCEPT ![old] = "absent", ![r] = snap[r]]
        PROVE  q = r /\ row'[q] = snap[q]
    BY <1>0, <2>2
  <2>3. QED
    BY <1>1, <2>1, <2>2 DEF StoreCreate, First, Prunable, Rows
<1>2. ASSUME NEW r \in Runs, NEW s, Updated(r, s)
      PROVE  q = r /\ row[q] # "absent" /\ row'[q] = s
  BY <1>0, <1>2 DEF Updated, Rows, rowVars
<1>3. ASSUME NEW r \in Runs, Call(r) \/ (CallerStep(r) /\ ~StoreCreate(r))
      PROVE  FALSE
  BY <1>3 DEF Call, CallerStep, Spawn, Register, RefuseFull, Summarise, StoreRejects, Unregister,
     Abandon, MakeThread, StartThread, rowVars
<1>4. ASSUME NEW r \in Runs, ChildExit(r) \/ ReadStep(r) \/ Finish(r) \/ Snapshot(r)
      PROVE  FALSE
  BY <1>4 DEF ChildExit, ReadStep, CollectEvent, ReadEof, CollectorRaises, Finish, Snapshot, rowVars
<1>5. ASSUME NEW r \in Runs, Persist(r)
      PROVE  q = r /\ row[q] # "absent" /\ row'[q] = snap[q]
  BY <1>2, <1>5 DEF Persist
<1>6. ASSUME Close \/ CloserStep \/ Crash, ~ClosePersist
      PROVE  FALSE
  BY <1>6 DEF Close, CloserStep, ClosePoll, CloseJoin, CloseCancel, CloseKill, CloseSnapshot,
     CloseReturn, Crash, rowVars
<1>7. ASSUME ClosePersist
      PROVE  q = target /\ row[q] # "absent" /\ row'[q] = closeSnap
  BY <1>2, <1>7 DEF ClosePersist, Control, CloserInv, Working
<1>8. ASSUME Open
      PROVE  row[q] = "running" /\ row'[q] = "interrupted"
  BY <1>8 DEF Open, Recovered
<1>9. QED
  BY <1>1, <1>3, <1>4, <1>5, <1>6, <1>7, <1>8 DEF Next, CollectorStep

(* A child comes to life only in Spawn, and one that exited keeps its status; *)
(* one that was sent SIGKILL stays so until it exits.                         *)
LEMMA ChildrenStay ==
  ASSUME Control, Next, NEW q \in Runs
  PROVE  \/ proc'[q] = proc[q]
         \/ proc[q] \in LiveChild /\ proc'[q] \in Killed
         \/ Spawn(q) /\ proc'[q] = "alive"
<1> USE DEF Control, TypeOK, Exits, Killed
<1>1. ASSUME NEW r \in Runs, Spawn(r)
      PROVE  proc'[q] = proc[q] \/ (q = r /\ proc'[q] = "alive")
  BY <1>1 DEF Spawn
<1>2. ASSUME NEW r \in Runs, ChildExit(r) \/ RefuseFull(r) \/ Abandon(r)
      PROVE  proc'[q] = proc[q] \/ (proc[q] \in LiveChild /\ proc'[q] \in Killed)
  BY <1>2 DEF ChildExit, RefuseFull, Abandon, Terminated
<1>3. ASSUME NEW r \in Runs, Call(r) \/ Register(r) \/ Summarise(r) \/ StoreCreate(r) \/ StoreRejects(r)
                             \/ Unregister(r) \/ MakeThread(r) \/ StartThread(r)
      PROVE  proc' = proc
  BY <1>3 DEF Call, Register, Summarise, StoreCreate, StoreRejects, Unregister, MakeThread, StartThread
<1>4. ASSUME NEW r \in Runs, ReadStep(r) \/ CollectorStep(r)
      PROVE  proc' = proc
  BY <1>4 DEF ReadStep, CollectEvent, ReadEof, CollectorRaises, CollectorStep, Finish, Snapshot, Persist
<1>5. ASSUME CloseKill
      PROVE  proc'[q] = proc[q] \/ (proc[q] \in LiveChild /\ proc'[q] \in Killed)
  BY <1>5 DEF CloseKill
<1>6. ASSUME Close \/ CloserStep \/ Crash \/ Open, ~CloseKill
      PROVE  proc' = proc
  BY <1>6 DEF Close, CloserStep, ClosePoll, CloseJoin, CloseCancel, CloseSnapshot, ClosePersist,
     CloseReturn, Crash, Open
<1>7. QED
  BY <1>1, <1>2, <1>3, <1>4, <1>5, <1>6 DEF Next, CallerStep

(* Where a prompt call goes: it leaves Unspawned only by Spawn, Unstored only *)
(* by StoreCreate or with Hermes, and never comes back to either.             *)
LEMMA CallersMove ==
  ASSUME Control, BirthInv, Next, NEW q \in Runs
  PROVE  /\ home'[q] = 0 => home[q] = 0
         /\ caller'[q] \in Unspawned => caller[q] \in Unspawned
         /\ caller'[q] \in Unstored => caller[q] \in Unstored /\ ~StoreCreate(q)
         /\ caller'[q] = "idle" => caller[q] = "idle"
         /\ home[q] = 0 => home'[q] = 0 \/ caller'[q] = "called"
         /\ home[q] = 0 /\ home'[q] = 0 => caller'[q] = "idle"
         /\ Spawn(q) => caller'[q] \in {"spawned", "refused"}
<1> USE DEF Control, TypeOK, BirthInv, Unspawned, Unstored
<1>1. ASSUME NEW r \in Runs, Call(r)
      PROVE  /\ caller[r] = "idle" /\ caller' = [caller EXCEPT ![r] = "called"]
             /\ home' = [home EXCEPT ![r] = inst] /\ inst # 0
  BY <1>1, LimitsAssumption DEF Call
<1>2. ASSUME NEW r \in Runs, CallerStep(r)
      PROVE  /\ home' = home
             /\ caller' = [caller EXCEPT ![r] = caller'[r]]
             /\ caller[r] \notin {"idle"} /\ caller'[r] \notin Unspawned
             /\ caller'[r] \in Unstored => caller[r] \in Unstored /\ ~StoreCreate(r)
             /\ Spawn(r) => caller'[r] \in {"spawned", "refused"}
  BY <1>2 DEF CallerStep, Spawn, Register, RefuseFull, Summarise, StoreCreate, StoreRejects, Unregister,
     Abandon, MakeThread, StartThread
<1>3. ASSUME \/ \E r \in Runs : ChildExit(r) \/ CollectorStep(r) \/ ReadStep(r)
             \/ Close \/ CloserStep \/ Open
      PROVE  UNCHANGED <<home, caller>>
  BY <1>3 DEF ChildExit, CollectorStep, Finish, Snapshot, Persist, ReadStep, CollectEvent, ReadEof,
     CollectorRaises, Close, CloserStep, ClosePoll, CloseJoin, CloseCancel, CloseKill, CloseSnapshot,
     ClosePersist, CloseReturn, Open, callVars
<1>4. ASSUME Crash
      PROVE  home' = home /\ caller' = [r \in Runs |-> IF home[r] = 0 THEN "idle" ELSE "dead"]
  BY <1>4 DEF Crash
<1>5. ASSUME StoreCreate(q) \/ Spawn(q)
      PROVE  CallerStep(q)
  BY <1>5 DEF CallerStep
<1>6. QED
  BY <1>1, <1>2, <1>3, <1>4, <1>5 DEF Next

LEMMA BirthStep ==
  ASSUME Control, BirthInv, Next
  PROVE  BirthInv'
<1>1. SUFFICES ASSUME NEW q \in Runs
               PROVE  /\ home'[q] = 0 => caller'[q] = "idle"
                      /\ caller'[q] \in Unspawned => proc'[q] = "none"
                      /\ caller'[q] \in Unstored => row'[q] = "absent"
                      /\ caller'[q] = "refused" => proc'[q] # "alive"
  BY DEF BirthInv
<1>2. home'[q] = 0 => caller'[q] = "idle"
  BY CallersMove DEF BirthInv
<1>3. caller'[q] \in Unspawned => proc'[q] = "none"
  BY CallersMove, ChildrenStay DEF BirthInv, Unspawned, LiveChild
<1>4. caller'[q] \in Unstored => row'[q] = "absent"
  BY CallersMove, RowsWritten DEF BirthInv
<1>5. caller'[q] = "refused" => proc'[q] # "alive"
  <2>1. CASE caller[q] = "refused"
    <3>1. ~Spawn(q)
      BY <2>1 DEF Spawn
    <3>2. QED
      BY <2>1, <3>1, ChildrenStay DEF BirthInv, Exits, Killed
  <2>2. ASSUME caller[q] # "refused", caller'[q] = "refused"
        PROVE  proc'[q] # "alive"
    <3>1. Spawn(q) \/ RefuseFull(q) \/ Abandon(q)
      <4>1. ASSUME NEW r \in Runs, Call(r) \/ Register(r) \/ Summarise(r) \/ StoreCreate(r)
                     \/ StoreRejects(r) \/ Unregister(r) \/ MakeThread(r) \/ StartThread(r)
            PROVE  FALSE
        BY <2>2, <4>1 DEF Call, Register, Summarise, StoreCreate, StoreRejects, Unregister, MakeThread,
           StartThread, Control, TypeOK
      <4>2. ASSUME NEW r \in Runs, Spawn(r) \/ RefuseFull(r) \/ Abandon(r)
            PROVE  r = q
        BY <2>2, <4>2 DEF Spawn, RefuseFull, Abandon, Control, TypeOK
      <4>3. ASSUME \/ \E r \in Runs : ChildExit(r) \/ CollectorStep(r) \/ ReadStep(r)
                   \/ Close \/ CloserStep \/ Open
            PROVE  FALSE
        BY <2>2, <4>3 DEF ChildExit, CollectorStep, Finish, Snapshot, Persist, ReadStep, CollectEvent,
           ReadEof, CollectorRaises, Close, CloserStep, ClosePoll, CloseJoin, CloseCancel, CloseKill,
           CloseSnapshot, ClosePersist, CloseReturn, Open, callVars
      <4>4. ASSUME Crash PROVE FALSE
        BY <2>2, <4>4 DEF Crash
      <4>5. QED
        BY <4>1, <4>2, <4>3, <4>4 DEF Next, CallerStep
    <3>2. CASE Spawn(q)
      <4>1. caller[q] = "called" /\ proc[q] = "none"
        BY <3>2 DEF Spawn, BirthInv, Unspawned
      <4>2. proc' = proc
        BY <2>2, <3>2 DEF Spawn, Control, TypeOK
      <4>3. QED
        BY <4>1, <4>2
    <3>3. CASE RefuseFull(q) \/ Abandon(q)
      BY <3>3 DEF RefuseFull, Abandon, Terminated, LiveChild, Killed, Exits, Control, TypeOK
    <3>4. QED
      BY <3>1, <3>2, <3>3
  <2>3. QED
    BY <2>1, <2>2
<1>6. QED
  BY <1>2, <1>3, <1>4, <1>5

(* The state of a record changes to completed only where the exit status was *)
(* looked at, and to cancelled only for a child found alive.                 *)
LEMMA StatesMove ==
  ASSUME Control, Next, NEW q \in Runs
  PROVE  \/ state'[q] = state[q]
         \/ Call(q) /\ state'[q] = "running"
         \/ Finish(q) /\ state'[q] = Outcome(q)
         \/ CollectorRaises(q) /\ state'[q] = "failed"
         \/ (RefuseFull(q) \/ Abandon(q)) /\ state'[q] = "cancelled" /\ caller'[q] = "refused"
         \/ CloseCancel /\ state'[q] = "cancelled"
         \/ Crash /\ state'[q] \in {"none", "lost"}
<1> USE DEF Control, TypeOK
<1>1. ASSUME NEW r \in Runs, Call(r)
      PROVE  state'[q] = state[q] \/ (q = r /\ state'[q] = "running")
  BY <1>1 DEF Call
<1>2. ASSUME NEW r \in Runs, RefuseFull(r) \/ Abandon(r)
      PROVE  state'[q] = state[q] \/ (q = r /\ state'[q] = "cancelled" /\ caller'[q] = "refused")
  BY <1>2 DEF RefuseFull, Abandon, Terminated
<1>3. ASSUME NEW r \in Runs, CallerStep(r), ~RefuseFull(r), ~Abandon(r)
      PROVE  state' = state
  BY <1>3 DEF CallerStep, Spawn, Register, Summarise, StoreCreate, StoreRejects, Unregister,
     MakeThread, StartThread
<1>4. ASSUME NEW r \in Runs, Finish(r)
      PROVE  state'[q] = state[q] \/ (q = r /\ state'[q] = Outcome(q))
  BY <1>4 DEF Finish
<1>5. ASSUME NEW r \in Runs, CollectorRaises(r)
      PROVE  state'[q] = state[q] \/ (q = r /\ state'[q] = "failed")
  BY <1>5 DEF CollectorRaises
<1>6. ASSUME NEW r \in Runs, ChildExit(r) \/ CollectEvent(r) \/ ReadEof(r) \/ Snapshot(r) \/ Persist(r)
      PROVE  state' = state
  BY <1>6 DEF ChildExit, CollectEvent, ReadEof, Snapshot, Persist
<1>7. ASSUME CloseCancel
      PROVE  state'[q] = state[q] \/ state'[q] = "cancelled"
  BY <1>7 DEF CloseCancel
<1>8. ASSUME Close \/ CloserStep \/ Open, ~CloseCancel
      PROVE  state' = state
  BY <1>8 DEF Close, CloserStep, ClosePoll, CloseJoin, CloseKill, CloseSnapshot, ClosePersist,
     CloseReturn, Open
<1>9. ASSUME Crash
      PROVE  state'[q] \in {"none", "lost"}
  BY <1>9 DEF Crash
<1>10. QED
  BY <1>1, <1>2, <1>3, <1>4, <1>5, <1>6, <1>7, <1>8, <1>9 DEF Next, CollectorStep, ReadStep

(* A copy of a run's state is taken by its caller or by its collector. *)
LEMMA CopiesMove ==
  ASSUME Control, Next, NEW q \in Runs
  PROVE  \/ snap'[q] = snap[q]
         \/ snap'[q] = "none" /\ (StoreCreate(q) \/ StoreRejects(q) \/ Persist(q) \/ Crash)
         \/ snap'[q] = state[q] /\ (Summarise(q) \/ Snapshot(q))
<1> USE DEF Control, TypeOK
<1>1. ASSUME NEW r \in Runs, Call(r) \/ Spawn(r) \/ Register(r) \/ RefuseFull(r) \/ Unregister(r)
                             \/ Abandon(r) \/ MakeThread(r) \/ StartThread(r)
      PROVE  snap' = snap
  BY <1>1 DEF Call, Spawn, Register, RefuseFull, Unregister, Abandon, MakeThread, StartThread
<1>2. ASSUME NEW r \in Runs, StoreCreate(r) \/ StoreRejects(r) \/ Persist(r)
      PROVE  snap'[q] = snap[q] \/ (q = r /\ snap'[q] = "none")
  BY <1>2 DEF StoreCreate, StoreRejects, Persist
<1>3. ASSUME NEW r \in Runs, Summarise(r) \/ Snapshot(r)
      PROVE  snap'[q] = snap[q] \/ (q = r /\ snap'[q] = state[q])
  BY <1>3 DEF Summarise, Snapshot
<1>4. ASSUME NEW r \in Runs, ChildExit(r) \/ ReadStep(r) \/ Finish(r)
      PROVE  snap' = snap
  BY <1>4 DEF ChildExit, ReadStep, CollectEvent, ReadEof, CollectorRaises, Finish
<1>5. ASSUME Close \/ CloserStep \/ Open
      PROVE  snap' = snap
  BY <1>5 DEF Close, CloserStep, ClosePoll, CloseJoin, CloseCancel, CloseKill, CloseSnapshot,
     ClosePersist, CloseReturn, Open
<1>6. ASSUME Crash PROVE snap'[q] = "none"
  BY <1>6 DEF Crash
<1>7. QED
  BY <1>1, <1>2, <1>3, <1>4, <1>5, <1>6 DEF Next, CallerStep, CollectorStep

(* The copy of close_now is taken from its target and lasts to its write. *)
LEMMA CloserCopies ==
  ASSUME Control, Next, closer' = "persist"
  PROVE  \/ closer = "persist" /\ closeSnap' = closeSnap /\ target' = target
         \/ CloseSnapshot /\ closeSnap' = state[target] /\ target' = target
<1>1. CASE \E r \in Runs : Call(r) \/ CallerStep(r) \/ ChildExit(r) \/ CollectorStep(r) \/ ReadStep(r)
  <2>1. UNCHANGED closeVars
    BY <1>1 DEF Call, CallerStep, Spawn, Register, RefuseFull, Summarise, StoreCreate, StoreRejects,
       Unregister, Abandon, MakeThread, StartThread, ChildExit, CollectorStep, Finish, Snapshot,
       Persist, ReadStep, CollectEvent, ReadEof, CollectorRaises
  <2>2. QED
    BY <2>1 DEF closeVars
<1>2. CASE Close \/ CloserStep \/ Crash \/ Open
  BY <1>2 DEF Close, CloserStep, ClosePoll, CloseJoin, CloseCancel, CloseKill, CloseSnapshot,
     ClosePersist, CloseReturn, Crash, Open
<1>3. QED
  BY <1>1, <1>2 DEF Next

(* An exit status 0 is final: only a child that was never spawned is spawned. *)
LEMMA ZeroIsFinal ==
  ASSUME Control, BirthInv, Next, NEW q \in Runs, proc[q] = "zero"
  PROVE  proc'[q] = "zero"
<1>1. ~Spawn(q)
  BY DEF Spawn, BirthInv, Unspawned
<1>2. QED
  BY <1>1, ChildrenStay DEF LiveChild

LEMMA EarnStep ==
  ASSUME Control, BirthInv, EarnInv, Next
  PROVE  EarnInv'
<1>1. ASSUME NEW q \in Runs, state'[q] = "completed" PROVE proc'[q] = "zero"
  <2>1. CASE state[q] = "completed"
    BY <2>1, ZeroIsFinal DEF EarnInv
  <2>2. CASE Finish(q) /\ state'[q] = Outcome(q)
    BY <1>1, <2>2 DEF Finish, Outcome
  <2>3. QED
    BY <1>1, <2>1, <2>2, StatesMove
<1>2. ASSUME NEW q \in Runs, snap'[q] = "completed" PROVE proc'[q] = "zero"
  BY <1>2, CopiesMove, ZeroIsFinal DEF EarnInv
<1>3. ASSUME closer' = "persist", closeSnap' = "completed" PROVE proc'[target'] = "zero"
  <2>1. target' \in Runs /\ target' = target
    BY <1>3, CloserCopies DEF CloseSnapshot, Control, CloserInv, Working
  <2>2. proc[target] = "zero"
    BY <1>3, <2>1, CloserCopies DEF EarnInv
  <2>3. QED
    BY <2>1, <2>2, ZeroIsFinal
<1>4. ASSUME NEW q \in Runs, row'[q] = "completed" PROVE proc'[q] = "zero"
  <2>1. proc[q] = "zero"
    BY <1>4, RowsWritten DEF EarnInv, ClosePersist
  <2>2. QED
    BY <2>1, ZeroIsFinal
<1>5. ASSUME NEW q \in Runs, row'[q] = "interrupted" PROVE home'[q] < inst'
  <2>1. inst \in Nat /\ inst' \in Nat /\ home[q] \in Nat /\ inst <= inst' /\ home[q] <= inst
    <3>1. inst' = inst \/ inst' = inst + 1
      BY DEF Next, Call, CallerStep, Spawn, Register, RefuseFull, Summarise, StoreCreate, StoreRejects,
         Unregister, Abandon, MakeThread, StartThread, ChildExit, CollectorStep, Finish, Snapshot,
         Persist, ReadStep, CollectEvent, ReadEof, CollectorRaises, Close, CloserStep, ClosePoll,
         CloseJoin, CloseCancel, CloseKill, CloseSnapshot, ClosePersist, CloseReturn, Crash, Open,
         lifeVars
    <3>2. QED
      BY <3>1, LimitsAssumption DEF Control, TypeOK, HomeInv
  <2>2. CASE row[q] = "interrupted"
    <3>1. caller[q] # "idle"
      BY <2>2 DEF BirthInv, Unstored
    <3>2. home'[q] = home[q]
      <4>1. ASSUME NEW r \in Runs, Call(r) PROVE home'[q] = home[q]
        BY <3>1, <4>1 DEF Call, Control, TypeOK
      <4>2. ASSUME ~\E r \in Runs : Call(r) PROVE home' = home
        BY <4>2 DEF Next, CallerStep, Spawn, Register, RefuseFull, Summarise, StoreCreate,
           StoreRejects, Unregister, Abandon, MakeThread, StartThread, ChildExit, CollectorStep,
           Finish, Snapshot, Persist, ReadStep, CollectEvent, ReadEof, CollectorRaises, Close,
           CloserStep, ClosePoll, CloseJoin, CloseCancel, CloseKill, CloseSnapshot, ClosePersist,
           CloseReturn, Crash, Open, callVars
      <4>3. QED
        BY <4>1, <4>2
    <3>3. QED
      BY <2>1, <2>2, <3>2 DEF EarnInv
  <2>3. CASE row[q] # "interrupted"
    <3>1. snap[q] # "interrupted" /\ closeSnap # "interrupted"
      BY DEF Control, TypeOK, RunStates, Outcomes
    <3>2. Open
      BY <1>5, <2>3, <3>1, RowsWritten
    <3>3. inst' = inst + 1 /\ home' = home
      BY <3>2 DEF Open, callVars
    <3>4. QED
      BY <2>1, <3>3
  <2>4. QED
    BY <2>2, <2>3
<1>6. QED
  BY <1>1, <1>2, <1>3, <1>4, <1>5 DEF EarnInv

(* Only close_now, a crash and a new controller change where close_now is. *)
LEMMA OthersLeaveCloser ==
  ASSUME \E r \in Runs : Call(r) \/ CallerStep(r) \/ ChildExit(r) \/ CollectorStep(r) \/ ReadStep(r)
  PROVE  UNCHANGED <<phase, inst, closer, target, todo, joins, closeSnap>>
BY DEF Call, CallerStep, Spawn, Register, RefuseFull, Summarise, StoreCreate, StoreRejects, Unregister,
   Abandon, MakeThread, StartThread, ChildExit, CollectorStep, Finish, Snapshot, Persist, ReadStep,
   CollectEvent, ReadEof, CollectorRaises, lifeVars, closeVars

LEMMA SweepStep ==
  ASSUME Control, BirthInv, SweepInv, Next
  PROVE  SweepInv'
<1> DEFINE Others ==
      \E r \in Runs : Call(r) \/ CallerStep(r) \/ ChildExit(r) \/ CollectorStep(r) \/ ReadStep(r)
<1>1. Others => UNCHANGED <<phase, inst, closer, target, todo, joins, closeSnap>>
  BY OthersLeaveCloser
<1>2. Others \/ Close \/ CloserStep \/ Crash \/ Open
  BY DEF Next
<1> HIDE DEF Others
<1>3. phase' = "up" => closer' = "idle"
  BY <1>1, <1>2 DEF SweepInv, Close, CloserStep, ClosePoll, CloseJoin, CloseCancel, CloseKill,
     CloseSnapshot, ClosePersist, CloseReturn, Crash, Open, lifeVars
<1>4. closer' \notin Working => target' = NoRun
  <2>1. CASE Others
    BY <1>1, <2>1 DEF SweepInv
  <2>2. ASSUME NEW r \in Runs, ClosePoll(r) \/ CloseJoin(r)
        PROVE  closer' \notin Working => target' = NoRun
    BY <2>2 DEF SweepInv, Working, ClosePoll, CloseJoin
  <2>3. CASE CloseCancel \/ CloseKill \/ CloseSnapshot \/ ClosePersist \/ CloseReturn
    BY <2>3 DEF Working, SweepInv, CloseCancel, CloseKill, CloseSnapshot, ClosePersist, CloseReturn
  <2>4. CASE Close \/ Crash \/ Open
    BY <2>4 DEF SweepInv, Working, Close, Crash, Open
  <2>5. QED
    BY <1>2, <2>1, <2>2, <2>3, <2>4 DEF CloserStep
<1>5. ASSUME NEW q \in joins' PROVE caller'[q] \notin Unspawned
  <2>1. q \in joins \/ (Close /\ q \in Dict(inst))
    BY <1>1, <1>2, <1>5 DEF Close, CloserStep, ClosePoll, CloseJoin, CloseCancel, CloseKill,
       CloseSnapshot, ClosePersist, CloseReturn, Crash, Open
  <2>2. q \in Runs /\ caller[q] \notin Unspawned
    BY <2>1 DEF SweepInv, Control, TypeOK, Dict, DictInv, Absent, Unspawned
  <2>3. QED
    BY <2>2, CallersMove
<1>6. SweptRunsAreDead'
  <2>1. SUFFICES ASSUME NEW q \in joins', q \notin todo',
                        q # target' \/ closer' \in {"snapshot", "persist"}
                 PROVE  proc'[q] # "alive"
    BY DEF SweptRunsAreDead
  <2>2. q \in joins
    BY <1>1, <1>2, <2>1 DEF Close, CloserStep, ClosePoll, CloseJoin, CloseCancel, CloseKill,
       CloseSnapshot, ClosePersist, CloseReturn, Crash, Open
  <2>3. q \in Runs /\ ~Spawn(q)
    BY <2>2 DEF SweepInv, Control, TypeOK, Spawn, Unspawned
  <2>4. ASSUME proc[q] # "alive" PROVE proc'[q] # "alive"
    BY <2>3, <2>4, ChildrenStay DEF Exits, Killed
  <2>5. CASE Others
    BY <1>1, <2>1, <2>2, <2>4, <2>5 DEF SweepInv, SweptRunsAreDead
  <2>6. ASSUME NEW r \in Runs, ClosePoll(r) PROVE proc'[q] # "alive"
    <3>1. CASE q = r
      BY <2>1, <2>4, <2>6, <3>1 DEF ClosePoll, LiveChild
    <3>2. CASE q # r
      <4>1. target = NoRun /\ q # target /\ q \notin todo
        BY <2>1, <2>3, <2>6, <3>2, RunsAssumption DEF ClosePoll, SweepInv, Working
      <4>2. QED
        BY <2>2, <2>4, <4>1 DEF SweepInv, SweptRunsAreDead
    <3>3. QED
      BY <3>1, <3>2
  <2>7. CASE CloseKill
    <3>1. CASE q = target
      BY <2>3, <2>7, <3>1 DEF CloseKill, LiveChild, Killed, Exits, Control, TypeOK
    <3>2. CASE q # target
      BY <2>1, <2>2, <2>4, <2>7, <3>2 DEF CloseKill, SweepInv, SweptRunsAreDead
    <3>3. QED
      BY <3>1, <3>2
  <2>8. CASE ClosePersist
    <3>1. q # target \/ closer \in {"snapshot", "persist"}
      BY <2>8 DEF ClosePersist
    <3>2. q \notin todo
      BY <2>1, <2>8 DEF ClosePersist
    <3>3. QED
      BY <2>2, <2>4, <3>1, <3>2 DEF SweepInv, SweptRunsAreDead
  <2>9. CASE CloseCancel \/ CloseSnapshot \/ CloseReturn \/ \E r \in Runs : CloseJoin(r)
    <3>1. target' = target /\ todo' = todo
      BY <2>9 DEF CloseCancel, CloseSnapshot, CloseReturn, CloseJoin
    <3>2. q # target \/ closer \in {"snapshot", "persist"}
      BY <2>1, <2>9, <3>1 DEF CloseCancel, CloseSnapshot, CloseReturn, CloseJoin
    <3>3. QED
      BY <2>1, <2>2, <2>4, <3>1, <3>2 DEF SweepInv, SweptRunsAreDead
  <2>10. CASE Close
    BY <2>1, <2>10 DEF Close
  <2>11. CASE Crash
    BY <2>1, <2>11 DEF Crash
  <2>12. CASE Open
    <3>1. target' = target /\ todo' = todo /\ closer' = "idle"
      BY <2>12 DEF Open
    <3>2. QED
      BY <2>1, <2>2, <2>4, <3>1 DEF SweepInv, SweptRunsAreDead
  <2>13. QED
    BY <1>2, <2>5, <2>6, <2>7, <2>8, <2>9, <2>10, <2>11, <2>12 DEF CloserStep
<1>7. closer' \in Working \union {"next"} => phase' = "closing"
  <2>1. CASE Others
    BY <1>1, <2>1 DEF SweepInv
  <2>2. ASSUME NEW r \in Runs, ClosePoll(r) \/ CloseJoin(r)
        PROVE  closer' \in Working \union {"next"} => phase' = "closing"
    BY <2>2 DEF SweepInv, Working, ClosePoll, CloseJoin, lifeVars
  <2>3. CASE CloseCancel \/ CloseKill \/ CloseSnapshot \/ ClosePersist \/ CloseReturn
    BY <2>3 DEF Working, SweepInv, CloseCancel, CloseKill, CloseSnapshot, ClosePersist, CloseReturn,
       lifeVars
  <2>4. CASE Close \/ Crash \/ Open
    BY <2>4 DEF Working, Close, Crash, Open
  <2>5. QED
    BY <1>2, <2>1, <2>2, <2>3, <2>4 DEF CloserStep
<1>8. QED
  BY <1>3, <1>4, <1>5, <1>6, <1>7 DEF SweepInv

(* A run of the controller that is up after a step was one of it before. *)
LEMMA OwnRuns ==
  ASSUME Control, BirthInv, SweepInv, Next, NEW q \in Runs,
         phase' = "up", home'[q] = inst', ~Call(q)
  PROVE  phase = "up" /\ home[q] = inst /\ ~ClosePersist /\ ~CloseCancel /\ ~Crash /\ ~Open
<1>1. ~Open
  <2>1. ASSUME Open PROVE FALSE
    <3>1. inst' = inst + 1 /\ home' = home
      BY <2>1 DEF Open, callVars
    <3>2. home[q] <= inst /\ home[q] \in Nat /\ inst \in Nat
      BY LimitsAssumption DEF Control, TypeOK, HomeInv
    <3>3. QED
      BY <3>1, <3>2
  <2>2. QED
    BY <2>1
<1>2. /\ ~Crash /\ ~Close /\ phase' = phase /\ inst' = inst
      /\ home'[q] = home[q]
  <2>1. ASSUME NEW r \in Runs, Call(r) PROVE phase' = phase /\ inst' = inst /\ home'[q] = home[q]
    BY <2>1 DEF Call, lifeVars, Control, TypeOK
  <2>2. ASSUME NEW r \in Runs, CallerStep(r) \/ ChildExit(r) \/ CollectorStep(r) \/ ReadStep(r)
        PROVE  phase' = phase /\ inst' = inst /\ home' = home
    BY <2>2 DEF CallerStep, Spawn, Register, RefuseFull, Summarise, StoreCreate, StoreRejects,
       Unregister, Abandon, MakeThread, StartThread, ChildExit, CollectorStep, Finish, Snapshot,
       Persist, ReadStep, CollectEvent, ReadEof, CollectorRaises, lifeVars, callVars
  <2>3. ASSUME CloserStep PROVE phase' = phase /\ inst' = inst /\ home' = home
    BY <2>3 DEF CloserStep, ClosePoll, CloseJoin, CloseCancel, CloseKill, CloseSnapshot, ClosePersist,
       CloseReturn, lifeVars, callVars
  <2>4. ~Crash /\ ~Close
    BY DEF Crash, Close
  <2>5. ASSUME NEW r \in Runs, Call(r) \/ CallerStep(r) \/ ChildExit(r) \/ CollectorStep(r) \/ ReadStep(r)
        PROVE  phase' = phase /\ inst' = inst /\ home'[q] = home[q]
    BY <2>1, <2>2, <2>5
  <2>6. QED
    BY <1>1, <2>3, <2>4, <2>5 DEF Next
<1>3. ~ClosePersist /\ ~CloseCancel
  BY <1>2 DEF ClosePersist, CloseCancel, SweepInv
<1>4. QED
  BY <1>1, <1>2, <1>3

(* A collector moves forward, and only by its own actions or with Hermes. *)
LEMMA CollectorsMove ==
  ASSUME Control, Next, NEW q \in Runs, collector'[q] # collector[q]
  PROVE  \/ caller[q] = "threaded" /\ collector'[q] = "reading"
         \/ ReadEof(q) /\ collector'[q] = "waiting"
         \/ (Finish(q) \/ CollectorRaises(q)) /\ collector'[q] = "recorded"
         \/ Snapshot(q) /\ collector'[q] = "persisting"
         \/ Persist(q) /\ collector'[q] = "done"
         \/ Crash /\ collector'[q] \in {"none", "dead"}
<1> USE DEF Control, TypeOK
<1>1. ASSUME NEW r \in Runs, Call(r) \/ CallerStep(r)
      PROVE  caller[q] = "threaded" /\ collector'[q] = "reading"
  BY <1>1 DEF Call, CallerStep, Spawn, Register, RefuseFull, Summarise, StoreCreate, StoreRejects,
     Unregister, Abandon, MakeThread, StartThread
<1>2. ASSUME NEW r \in Runs, ReadEof(r) PROVE q = r /\ collector'[q] = "waiting"
  BY <1>2 DEF ReadEof
<1>3. ASSUME NEW r \in Runs, Finish(r) \/ CollectorRaises(r) PROVE q = r /\ collector'[q] = "recorded"
  BY <1>3 DEF Finish, CollectorRaises
<1>4. ASSUME NEW r \in Runs, Snapshot(r) PROVE q = r /\ collector'[q] = "persisting"
  BY <1>4 DEF Snapshot
<1>5. ASSUME NEW r \in Runs, Persist(r) PROVE q = r /\ collector'[q] = "done"
  BY <1>5 DEF Persist
<1>6. ASSUME \/ \E r \in Runs : ChildExit(r) \/ CollectEvent(r)
             \/ Close \/ CloserStep \/ Open
      PROVE  FALSE
  BY <1>6 DEF ChildExit, CollectEvent, Close, CloserStep, ClosePoll, CloseJoin, CloseCancel, CloseKill,
     CloseSnapshot, ClosePersist, CloseReturn, Open
<1>7. ASSUME Crash PROVE collector'[q] \in {"none", "dead"}
  BY <1>7 DEF Crash
<1>8. QED
  BY <1>1, <1>2, <1>3, <1>4, <1>5, <1>6, <1>7 DEF Next, CollectorStep, ReadStep

(* A prompt that was refused makes no step of its own any more. *)
LEMMA RefusedStays ==
  ASSUME Control, Next, ~Crash, NEW q \in Runs, caller[q] = "refused"
  PROVE  caller'[q] = "refused"
<1>1. ASSUME NEW r \in Runs, Call(r) \/ CallerStep(r)
      PROVE  caller'[q] = caller[q]
  BY <1>1 DEF Call, CallerStep, Spawn, Register, RefuseFull, Summarise, StoreCreate, StoreRejects,
     Unregister, Abandon, MakeThread, StartThread, Control, TypeOK
<1>2. ASSUME \/ \E r \in Runs : ChildExit(r) \/ CollectorStep(r) \/ ReadStep(r)
             \/ Close \/ CloserStep \/ Open
      PROVE  caller' = caller
  BY <1>2 DEF ChildExit, CollectorStep, Finish, Snapshot, Persist, ReadStep, CollectEvent,
     ReadEof, CollectorRaises, Close, CloserStep, ClosePoll, CloseJoin, CloseCancel, CloseKill,
     CloseSnapshot, ClosePersist, CloseReturn, Open, callVars
<1>3. QED
  BY <1>1, <1>2 DEF Next

LEMMA AgreeStep ==
  ASSUME Control, BirthInv, SweepInv, AgreeInv, Next
  PROVE  AgreeInv'
<1>1. SUFFICES ASSUME NEW q \in Runs
               PROVE  /\ collector'[q] = "persisting" => snap'[q] \in Outcomes
                      /\ phase' = "up" /\ home'[q] = inst' =>
                          /\ caller'[q] = "called" => state'[q] = "running"
                          /\ state'[q] = "cancelled" => caller'[q] = "refused"
                          /\ collector'[q] = "persisting" => snap'[q] = state'[q]
                          /\ collector'[q] = "done" /\ faults' = 0 => row'[q] \in {"absent", state'[q]}
  BY DEF AgreeInv
<1>2. collector[q] \in {"persisting", "done"} =>
          /\ caller[q] = "launched"
          /\ ~Call(q) /\ ~CallerStep(q) /\ ~Finish(q) /\ ~CollectorRaises(q) /\ ~Snapshot(q)
          /\ ~Summarise(q) /\ ~StoreCreate(q) /\ ~StoreRejects(q) /\ ~RefuseFull(q) /\ ~Abandon(q)
  BY DEF Control, ThreadInv, Call, CallerStep, Spawn, Register, RefuseFull, Summarise, StoreCreate,
     StoreRejects, Unregister, Abandon, MakeThread, StartThread, Finish, CollectorRaises, Snapshot
<1>3. ASSUME collector'[q] = "persisting"
      PROVE  \/ /\ collector[q] = "persisting" /\ snap'[q] = snap[q]
             \/ /\ Snapshot(q) /\ snap'[q] = state[q] /\ state'[q] = state[q]
                /\ collector[q] = "recorded"
  <2>1. CASE collector[q] = "persisting"
    <3>1. ~Persist(q) /\ ~Crash
      BY <1>3 DEF Persist, Crash, Control, TypeOK
    <3>2. QED
      BY <1>2, <2>1, <3>1, CopiesMove
  <2>2. CASE collector[q] # "persisting"
    <3>1. Snapshot(q)
      BY <1>3, <2>2, CollectorsMove
    <3>2. QED
      BY <3>1 DEF Snapshot, Control, TypeOK
  <2>3. QED
    BY <2>1, <2>2
<1>4. collector'[q] = "persisting" => snap'[q] \in Outcomes
  <2>1. collector[q] = "recorded" => state[q] \in Outcomes
    BY DEF Control, ThreadInv, HomeInv, Live, Absent
  <2>2. QED
    BY <1>3, <2>1 DEF AgreeInv
<1>5. CASE Call(q)
  <2>1. caller[q] = "idle" /\ state'[q] = "running" /\ collector' = collector
    BY <1>5 DEF Call, Control, TypeOK
  <2>2. collector[q] \notin {"persisting", "done"}
    BY <2>1 DEF Control, ThreadInv
  <2>3. QED
    BY <1>4, <2>1, <2>2
<1>6. ASSUME ~Call(q), phase' = "up", home'[q] = inst'
      PROVE  /\ caller'[q] = "called" => state'[q] = "running"
             /\ state'[q] = "cancelled" => caller'[q] = "refused"
             /\ collector'[q] = "persisting" => snap'[q] = state'[q]
             /\ collector'[q] = "done" /\ faults' = 0 => row'[q] \in {"absent", state'[q]}
  <2>1. phase = "up" /\ home[q] = inst /\ ~ClosePersist /\ ~CloseCancel /\ ~Crash /\ ~Open
    BY <1>6, OwnRuns
  <2>2. ASSUME caller'[q] = "called" PROVE state'[q] = "running"
    <3>1. caller[q] = "called"
      <4>1. ASSUME NEW r \in Runs, Call(r) \/ CallerStep(r)
            PROVE  caller[q] = "called"
        BY <1>6, <2>2, <4>1 DEF Call, CallerStep, Spawn, Register, RefuseFull, Summarise, StoreCreate,
           StoreRejects, Unregister, Abandon, MakeThread, StartThread, Control, TypeOK
      <4>2. ASSUME \/ \E r \in Runs : ChildExit(r) \/ CollectorStep(r) \/ ReadStep(r)
                   \/ Close \/ CloserStep
            PROVE  caller' = caller
        BY <4>2 DEF ChildExit, CollectorStep, Finish, Snapshot, Persist, ReadStep, CollectEvent,
           ReadEof, CollectorRaises, Close, CloserStep, ClosePoll, CloseJoin, CloseCancel, CloseKill,
           CloseSnapshot, ClosePersist, CloseReturn, callVars
      <4>3. QED
        BY <2>1, <2>2, <4>1, <4>2 DEF Next
    <3>2. ~Finish(q) /\ ~CollectorRaises(q) /\ ~RefuseFull(q) /\ ~Abandon(q)
      BY <3>1 DEF Finish, CollectorRaises, RefuseFull, Abandon, Control, ThreadInv
    <3>3. QED
      BY <1>6, <2>1, <3>1, <3>2, StatesMove DEF AgreeInv
  <2>3. ASSUME state'[q] = "cancelled" PROVE caller'[q] = "refused"
    <3>1. CASE state[q] = "cancelled"
      <4>1. caller[q] = "refused"
        BY <2>1, <3>1 DEF AgreeInv
      <4>2. QED
        BY <2>1, <4>1, RefusedStays
    <3>2. CASE state[q] # "cancelled"
      <4>1. ~(Finish(q) /\ state'[q] = Outcome(q))
        BY <2>3, <3>2 DEF Outcome
      <4>2. QED
        BY <1>6, <2>1, <2>3, <3>2, <4>1, StatesMove
    <3>3. QED
      BY <3>1, <3>2
  <2>4. ASSUME collector[q] \in {"persisting", "done"} PROVE state'[q] = state[q]
    BY <1>2, <2>1, <2>4, StatesMove
  <2>5. ASSUME collector'[q] = "persisting" PROVE snap'[q] = state'[q]
    BY <1>3, <2>1, <2>4, <2>5 DEF AgreeInv
  <2>6. ASSUME collector'[q] = "done", faults' = 0 PROVE row'[q] \in {"absent", state'[q]}
    <3>1. faults = 0
      <4>1. faults' = faults \/ Fault
        BY DEF Next, Call, CallerStep, Spawn, Register, RefuseFull, Summarise, StoreCreate,
           StoreRejects, Unregister, Abandon, MakeThread, StartThread, ChildExit, CollectorStep,
           Finish, Snapshot, Persist, ReadStep, CollectEvent, ReadEof, CollectorRaises, Close,
           CloserStep, ClosePoll, CloseJoin, CloseCancel, CloseKill, CloseSnapshot, ClosePersist,
           CloseReturn, Crash, Open, Updated
      <4>2. QED
        BY <2>6, <4>1, LimitsAssumption DEF Fault, Control, TypeOK
    <3>2. CASE collector[q] = "done"
      <4>1. row[q] \in {"absent", state[q]} /\ state'[q] = state[q]
        BY <2>1, <2>4, <3>1, <3>2 DEF AgreeInv
      <4>2. ~StoreCreate(q) /\ ~Persist(q)
        BY <1>2, <3>2 DEF Persist
      <4>3. row'[q] = row[q] \/ row'[q] = "absent"
        BY <2>1, <4>2, RowsWritten
      <4>4. QED
        BY <4>1, <4>3
    <3>3. CASE collector[q] # "done"
      <4>1. Persist(q)
        BY <2>1, <2>6, <3>3, CollectorsMove
      <4>2. snap[q] = state[q] /\ state' = state
        BY <2>1, <4>1 DEF Persist, AgreeInv
      <4>3. ~Fault
        BY <2>6, <3>1, LimitsAssumption DEF Fault
      <4>4. CASE q \in Rows /\ row' = [row EXCEPT ![q] = snap[q]]
        BY <4>2, <4>4 DEF Control, TypeOK
      <4>5. CASE q \notin Rows /\ row' = row
        BY <4>5 DEF Rows
      <4>6. QED
        BY <4>1, <4>3, <4>4, <4>5 DEF Persist, Updated, rowVars
    <3>4. QED
      BY <3>2, <3>3
  <2>7. QED
    BY <2>2, <2>3, <2>5, <2>6
<1>7. QED
  BY <1>4, <1>5, <1>6

LEMMA OutcomedStep == Control /\ Outcomed /\ [Next]_vars => Outcomed'
<1>1. CASE UNCHANGED vars
  BY <1>1 DEF vars, lifeVars, callVars, dictVars, rowVars, closeVars, Outcomed, BirthInv, EarnInv,
     SweepInv, AgreeInv, SweptRunsAreDead
<1>2. CASE Control /\ Outcomed /\ Next
  BY <1>2, BirthStep, EarnStep, SweepStep, AgreeStep DEF Outcomed
<1>3. QED
  BY <1>1, <1>2

LEMMA OutcomedAlways == Spec => [](Control /\ Outcomed)
<1>1. Control /\ Outcomed /\ [Next]_vars => (Control /\ Outcomed)'
  BY ControlStep, OutcomedStep
<1>2. QED
  BY ControlInit, OutcomedInit, <1>1, PTL DEF Spec

-----------------------------------------------------------------------------
(* Whatever the interleaving of prompts, collectors, an unload and crashes,  *)
(* a row says completed only of a child that exited 0, and interrupted only  *)
(* of a run of an earlier controller.                                        *)
THEOREM OutcomeSafety == Spec => []OutcomeIsEarned
<1>1. Control /\ Outcomed => OutcomeIsEarned
  BY DEF Outcomed, EarnInv, OutcomeIsEarned
<1>2. QED
  BY OutcomedAlways, <1>1, PTL

(* A prompt that raised in _store_run or before leaves no record, no row and *)
(* no child that lives without having been sent SIGKILL, with any number of  *)
(* other prompts in flight.                                                  *)
THEOREM RefusalSafety == Spec => []RefusedLeavesNothing
<1>1. Control /\ Outcomed => RefusedLeavesNothing
  BY DEF Outcomed, BirthInv, Unstored, Control, DictInv, RefusedLeavesNothing
<1>2. QED
  BY OutcomedAlways, <1>1, PTL

(* What close_now has done with is dead or was sent SIGKILL. *)
THEOREM SweepSafety == Spec => []SweptRunsAreDead
<1>1. Outcomed => SweptRunsAreDead
  BY DEF Outcomed, SweepInv
<1>2. QED
  BY OutcomedAlways, <1>1, PTL

(* Memory and store agree on a run that ended, as long as the plugin is *)
(* loaded and the store has not failed.                                 *)
THEOREM AgreementSafety == Spec => []SettledRowAgrees
<1>1. Outcomed => SettledRowAgrees
  BY DEF Outcomed, AgreeInv, SettledRowAgrees
<1>2. QED
  BY OutcomedAlways, <1>1, PTL

(* close_now can find every child that a stored run of the loaded plugin *)
(* has alive, the ones whose collector gave up excepted.                 *)
THEOREM SupervisionSafety == Spec => []LiveChildIsSupervised
<1>1. Control /\ Outcomed => LiveChildIsSupervised
  BY DEF Outcomed, EarnInv, AgreeInv, Control, DictInv, HomeInv, Stored, Absent, Live, Outcomes,
     LiveChild, LiveChildIsSupervised
<1>2. QED
  BY OutcomedAlways, <1>1, PTL

(* A run that was cancelled before it completed: nothing that is or waits to *)
(* be written calls it completed, and its collector can decide nothing else. *)
NeverCompletes(r) ==
    /\ row[r] # "completed" /\ snap[r] # "completed"
    /\ closer = "persist" /\ target = r => closeSnap # "completed"
    /\ state[r] \in {"cancelled", "failed", "lost"}
    /\ state[r] # "cancelled" => /\ caller[r] \in {"launched", "dead"}
                                /\ collector[r] \notin {"reading", "waiting"}

LEMMA NeverCompletesStep ==
  ASSUME Control, BirthInv, Next, NEW q \in Runs, NeverCompletes(q)
  PROVE  NeverCompletes(q)'
<1>1. state[q] # "completed" /\ caller[q] # "idle" /\ home[q] # 0
  BY DEF NeverCompletes, BirthInv, Control, HomeInv
<1>2. row'[q] # "completed"
  BY RowsWritten DEF NeverCompletes, ClosePersist
<1>3. snap'[q] # "completed"
  BY <1>1, CopiesMove DEF NeverCompletes
<1>4. closer' = "persist" /\ target' = q => closeSnap' # "completed"
  BY <1>1, CloserCopies DEF NeverCompletes
<1>5. CASE Crash
  BY <1>1, <1>2, <1>3, <1>4, <1>5 DEF Crash, NeverCompletes
<1>6. CASE ~Crash
  <2>1. /\ state'[q] \in {"cancelled", "failed", "lost"}
        /\ state'[q] # "cancelled" => state'[q] = state[q] \/ CollectorRaises(q)
    <3>1. ~Call(q)
      BY <1>1 DEF Call
    <3>2. Finish(q) => Outcome(q) = "cancelled"
      BY DEF Finish, Outcome, NeverCompletes
    <3>3. QED
      BY <1>6, <3>1, <3>2, StatesMove DEF NeverCompletes
  <2>2. ASSUME state'[q] # "cancelled", CollectorRaises(q)
        PROVE  caller'[q] \in {"launched", "dead"} /\ collector'[q] \notin {"reading", "waiting"}
    BY <2>2 DEF CollectorRaises, callVars, Control, TypeOK, ThreadInv
  <2>3. ASSUME state'[q] # "cancelled", state'[q] = state[q]
        PROVE  caller'[q] \in {"launched", "dead"} /\ collector'[q] \notin {"reading", "waiting"}
    <3>1. caller[q] \in {"launched", "dead"} /\ collector[q] \notin {"reading", "waiting"}
      BY <2>3 DEF NeverCompletes
    <3>2. caller'[q] = caller[q]
      <4>1. ASSUME NEW r \in Runs, Call(r) \/ CallerStep(r)
            PROVE  caller'[q] = caller[q]
        BY <3>1, <4>1 DEF Call, CallerStep, Spawn, Register, RefuseFull, Summarise, StoreCreate,
           StoreRejects, Unregister, Abandon, MakeThread, StartThread, Control, TypeOK
      <4>2. ASSUME \/ \E r \in Runs : ChildExit(r) \/ CollectorStep(r) \/ ReadStep(r)
                   \/ Close \/ CloserStep \/ Open
            PROVE  caller' = caller
        BY <4>2 DEF ChildExit, CollectorStep, Finish, Snapshot, Persist, ReadStep, CollectEvent,
           ReadEof, CollectorRaises, Close, CloserStep, ClosePoll, CloseJoin, CloseCancel, CloseKill,
           CloseSnapshot, ClosePersist, CloseReturn, Open, callVars
      <4>3. QED
        BY <1>6, <4>1, <4>2 DEF Next
    <3>3. collector'[q] \notin {"reading", "waiting"}
      BY <1>6, <3>1, CollectorsMove DEF ReadEof
    <3>4. QED
      BY <3>1, <3>2, <3>3
  <2>4. QED
    BY <1>2, <1>3, <1>4, <2>1, <2>2, <2>3 DEF NeverCompletes
<1>7. QED
  BY <1>5, <1>6

(* A run cancelled while its child lived is called completed at no later     *)
(* time, by its record or by its row, whatever its child answers, whatever   *)
(* order the collector, close_now and their copies write in, and through any *)
(* number of restarts.                                                       *)
THEOREM CancelledSafety == Spec => CancelledNeverCompleted
<1> SUFFICES ASSUME NEW r \in Runs
             PROVE  Spec => [](state[r] = "cancelled" /\ proc[r] \in LiveChild =>
                                [](state[r] # "completed" /\ row[r] # "completed"))
  BY DEF CancelledNeverCompleted
<1>1. Control /\ Outcomed /\ state[r] = "cancelled" /\ proc[r] \in LiveChild => NeverCompletes(r)
  BY DEF NeverCompletes, Outcomed, EarnInv, LiveChild
<1>2. Control /\ Outcomed /\ NeverCompletes(r) /\ [Next]_vars => NeverCompletes(r)'
  <2>1. CASE UNCHANGED vars
    BY <2>1 DEF vars, lifeVars, callVars, dictVars, rowVars, closeVars, NeverCompletes
  <2>2. QED
    BY <2>1, NeverCompletesStep DEF Outcomed
<1>3. NeverCompletes(r) => state[r] # "completed" /\ row[r] # "completed"
  BY DEF NeverCompletes
<1>4. QED
  BY OutcomedAlways, <1>1, <1>2, <1>3, PTL DEF Spec

(* While a controller is up, no thread of it or of one unloaded before takes *)
(* an outcome out of a row: a collector writes outcomes only, and a prompt   *)
(* writes the row it creates.                                                *)
THEOREM OutcomeStickiness == Spec => OutcomesStick
<1>1. ASSUME Control, Outcomed, Next, phase = "up", NEW q \in Runs, row[q] \in Outcomes
      PROVE  row'[q] \in Outcomes \union {"absent"}
  <2>1. ~ClosePersist /\ ~Open
    BY <1>1 DEF ClosePersist, Open, Outcomed, SweepInv
  <2>2. ~StoreCreate(q)
    BY <1>1 DEF StoreCreate, Outcomed, BirthInv, Unstored, Outcomes
  <2>3. Persist(q) => snap[q] \in Outcomes
    BY <1>1 DEF Persist, Outcomed, AgreeInv
  <2>4. QED
    BY <1>1, <2>1, <2>2, <2>3, RowsWritten
<1>2. Control /\ Outcomed /\ [Next]_vars =>
        [phase = "up" => \A r \in Runs :
            row[r] \in Outcomes => row'[r] \in Outcomes \union {"absent"}]_vars
  BY <1>1
<1>3. QED
  BY OutcomedAlways, <1>2, PTL DEF Spec, OutcomesStick

=============================================================================
