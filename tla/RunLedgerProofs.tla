-------------------------- MODULE RunLedgerProofs --------------------------
(***************************************************************************)
(* What RunLifecycle promises over time, for every set of runs, every      *)
(* max_runs, any number of restarts and faults: its rows implement         *)
(* RunLedger, prompts are answered, exits recorded, and close_now returns. *)
(***************************************************************************)
EXTENDS RunLifecycleProofs, Numbers

Fresh == {"called", "spawned", "registered", "summarised"}

(* What a row will say first, and when it says it is over.  A record nobody *)
(* follows yet can only be cancelled, and only by close_now.                *)
LedgerInv == \A r \in Runs :
    /\ caller[r] = "idle" => home[r] = 0
    /\ caller[r] \in Fresh => state[r] \in {"running", "cancelled"}
    /\ caller[r] = "summarised" => snap[r] \in {"running", "cancelled"}
    /\ phase = "up" /\ home[r] = inst =>
        /\ caller[r] \in Fresh => state[r] = "running"
        /\ caller[r] = "summarised" => snap[r] = "running"
        /\ row[r] \in Outcomes => collector[r] = "done"

LEMMA LedgerInvInit == Init => LedgerInv
BY LimitsAssumption DEF Init, LedgerInv, Fresh, Outcomes

(* A prompt is on its way only if it was before, or has just been called. *)
LEMMA FreshCallers ==
  ASSUME Control, Next, NEW q \in Runs, caller'[q] \in Fresh
  PROVE  /\ Call(q) \/ caller[q] \in Fresh
         /\ Call(q) => caller'[q] = "called"
         /\ ~RefuseFull(q) /\ ~Abandon(q) /\ ~Crash
         /\ caller'[q] = "summarised" =>
                Summarise(q) \/ (caller[q] = "summarised" /\ ~Summarise(q))
<1> USE DEF Control, TypeOK, Fresh
<1>1. ASSUME NEW r \in Runs, Call(r)
      PROVE  (q = r /\ caller'[q] = "called") \/ caller'[q] = caller[q]
  BY <1>1 DEF Call
<1>2. ASSUME NEW r \in Runs, CallerStep(r)
      PROVE  \/ caller'[q] = caller[q]
             \/ /\ q = r /\ caller[q] \in Fresh
                /\ caller'[q] = "summarised" => Summarise(q)
  BY <1>2 DEF CallerStep, Spawn, Register, RefuseFull, Summarise, StoreCreate, StoreRejects, Unregister,
     Abandon, MakeThread, StartThread
<1>3. ASSUME \/ \E r \in Runs : ChildExit(r) \/ CollectorStep(r) \/ ReadStep(r)
             \/ Close \/ CloserStep \/ Open
      PROVE  caller' = caller
  BY <1>3 DEF ChildExit, CollectorStep, Finish, Snapshot, Persist, ReadStep, CollectEvent, ReadEof,
     CollectorRaises, Close, CloserStep, ClosePoll, CloseJoin, CloseCancel, CloseKill, CloseSnapshot,
     ClosePersist, CloseReturn, Open, callVars
<1>4. ~Crash
  BY DEF Crash
<1>5. ~RefuseFull(q) /\ ~Abandon(q)
  BY DEF RefuseFull, Abandon
<1>6. Call(q) => caller'[q] = "called"
  BY DEF Call
<1>7. Call(q) \/ caller[q] \in Fresh
  BY <1>1, <1>2, <1>3, <1>4 DEF Next
<1>8. caller'[q] = "summarised" => Summarise(q) \/ (caller[q] = "summarised" /\ ~Summarise(q))
  BY <1>1, <1>2, <1>3, <1>4 DEF Next
<1>9. QED
  BY <1>4, <1>5, <1>6, <1>7, <1>8

LEMMA LedgerInvStep ==
  ASSUME Control, Outcomed, LedgerInv, Next
  PROVE  LedgerInv'
<1>1. SUFFICES ASSUME NEW q \in Runs
               PROVE  /\ caller'[q] = "idle" => home'[q] = 0
                      /\ caller'[q] \in Fresh => state'[q] \in {"running", "cancelled"}
                      /\ caller'[q] = "summarised" => snap'[q] \in {"running", "cancelled"}
                      /\ phase' = "up" /\ home'[q] = inst' =>
                          /\ caller'[q] \in Fresh => state'[q] = "running"
                          /\ caller'[q] = "summarised" => snap'[q] = "running"
                          /\ row'[q] \in Outcomes => collector'[q] = "done"
  BY DEF LedgerInv
<1>2. caller'[q] = "idle" => home'[q] = 0
  BY CallersMove DEF LedgerInv, Outcomed
<1>3. ASSUME caller'[q] \in Fresh
      PROVE  \/ Call(q) /\ state'[q] = "running"
             \/ /\ caller[q] \in Fresh
                /\ state'[q] = state[q] \/ (CloseCancel /\ state'[q] = "cancelled")
  <2>1. CASE Call(q)
    BY <2>1 DEF Call, Control, TypeOK
  <2>2. CASE ~Call(q)
    <3>1. caller[q] \in Fresh /\ ~RefuseFull(q) /\ ~Abandon(q) /\ ~Crash
      BY <1>3, <2>2, FreshCallers
    <3>2. ~Finish(q) /\ ~CollectorRaises(q)
      BY <3>1 DEF Finish, CollectorRaises, Fresh, Control, ThreadInv
    <3>3. QED
      BY <2>2, <3>1, <3>2, StatesMove
  <2>3. QED
    BY <2>1, <2>2
<1>4. ASSUME caller'[q] = "summarised"
      PROVE  /\ ~Call(q)
             /\ \/ Summarise(q) /\ snap'[q] = state[q] /\ state'[q] = state[q]
                \/ caller[q] = "summarised" /\ snap'[q] = snap[q]
  <2>1. caller'[q] \in Fresh
    BY <1>4 DEF Fresh
  <2>2. ~Call(q) /\ ~Crash
    BY <1>4, <2>1, FreshCallers
  <2>3. CASE Summarise(q)
    BY <2>2, <2>3 DEF Summarise, Control, TypeOK
  <2>4. CASE ~Summarise(q)
    <3>1. caller[q] = "summarised"
      BY <1>4, <2>1, <2>4, FreshCallers
    <3>2. ~StoreCreate(q) /\ ~StoreRejects(q)
      BY <1>4 DEF StoreCreate, StoreRejects, Control, TypeOK
    <3>3. ~Persist(q) /\ ~Snapshot(q)
      BY <3>1 DEF Persist, Snapshot, Control, ThreadInv
    <3>4. QED
      BY <2>2, <2>4, <3>1, <3>2, <3>3, CopiesMove
  <2>5. QED
    BY <2>3, <2>4
<1>5. caller'[q] \in Fresh => state'[q] \in {"running", "cancelled"}
  BY <1>3 DEF LedgerInv
<1>6. caller'[q] = "summarised" => snap'[q] \in {"running", "cancelled"}
  BY <1>4 DEF LedgerInv, Summarise, Fresh
<1>7. ASSUME phase' = "up", home'[q] = inst'
      PROVE  /\ caller'[q] \in Fresh => state'[q] = "running"
             /\ caller'[q] = "summarised" => snap'[q] = "running"
             /\ row'[q] \in Outcomes => collector'[q] = "done"
  <2>1. CASE Call(q)
    <3>1. caller[q] = "idle" /\ row[q] = "absent" /\ row' = row
      BY <2>1 DEF Call, Outcomed, BirthInv, Unstored, rowVars
    <3>2. state'[q] = "running"
      BY <2>1 DEF Call, Control, TypeOK
    <3>3. QED
      BY <1>4, <2>1, <3>1, <3>2 DEF Outcomes
  <2>2. CASE ~Call(q)
    <3>1. phase = "up" /\ home[q] = inst /\ ~ClosePersist /\ ~CloseCancel /\ ~Crash /\ ~Open
      BY <1>7, <2>2, OwnRuns DEF Outcomed
    <3>2. caller'[q] \in Fresh => state'[q] = "running"
      BY <1>3, <2>2, <3>1 DEF LedgerInv
    <3>3. caller'[q] = "summarised" => snap'[q] = "running"
      BY <1>4, <3>1 DEF LedgerInv, Summarise, Fresh
    <3>4. ASSUME row'[q] \in Outcomes PROVE collector'[q] = "done"
      <4>1. CASE row'[q] = row[q]
        <5>1. collector[q] = "done"
          BY <3>1, <3>4, <4>1 DEF LedgerInv
        <5>2. caller[q] = "launched"
          BY <5>1 DEF Control, ThreadInv
        <5>3. ASSUME collector'[q] # collector[q] PROVE FALSE
          <6>1. ~ReadEof(q) /\ ~Finish(q) /\ ~CollectorRaises(q) /\ ~Snapshot(q) /\ ~Persist(q)
            BY <5>1 DEF ReadEof, Finish, CollectorRaises, Snapshot, Persist
          <6>2. collector'[q] = "reading"
            BY <3>1, <5>3, <6>1, CollectorsMove
          <6>3. QED
            BY <5>1, <5>2, <6>2 DEF Next, Call, CallerStep, Spawn, Register, RefuseFull, Summarise,
               StoreCreate, StoreRejects, Unregister, Abandon, MakeThread, StartThread, ChildExit,
               CollectorStep, Finish, Snapshot, Persist, ReadStep, CollectEvent, ReadEof,
               CollectorRaises, Close, CloserStep, ClosePoll, CloseJoin, CloseCancel, CloseKill,
               CloseSnapshot, ClosePersist, CloseReturn, Crash, Open, Control, TypeOK
        <5>4. QED
          BY <5>1, <5>3
      <4>2. CASE StoreCreate(q) /\ row'[q] = snap[q]
        <5>1. snap[q] = "running"
          BY <3>1, <4>2 DEF StoreCreate, LedgerInv
        <5>2. QED
          BY <3>4, <4>2, <5>1 DEF Outcomes
      <4>3. CASE Persist(q)
        BY <4>3 DEF Persist, Control, TypeOK
      <4>4. row'[q] # "absent"
        BY <3>4 DEF Outcomes
      <4>5. QED
        BY <3>1, <4>1, <4>2, <4>3, <4>4, RowsWritten
    <3>5. QED
      BY <3>2, <3>3, <3>4
  <2>3. QED
    BY <2>1, <2>2
<1>8. QED
  BY <1>2, <1>5, <1>6, <1>7

LEMMA LedgerInvAlways == Spec => [](Control /\ Outcomed /\ LedgerInv)
<1>1. LedgerInv /\ UNCHANGED vars => LedgerInv'
  BY DEF LedgerInv, vars, lifeVars, callVars, rowVars
<1>2. Control /\ Outcomed /\ LedgerInv /\ [Next]_vars => LedgerInv'
  BY <1>1, LedgerInvStep
<1>3. QED
  BY OutcomedAlways, LedgerInvInit, <1>2, PTL DEF Spec

-----------------------------------------------------------------------------
(* The steps.  What a run is to a reader depends on its row and its caller. *)
Entries == [r \in Runs |-> Standing(r)]

(* The instance names a copy of Cardinality's definition. *)
LEMMA SameCardinality == \A S : Ledger!Cardinality(S) = Cardinality(S)
BY DEF Ledger!Cardinality, Cardinality

(* A run with a row is what the row says; the rows are what the table holds. *)
LEMMA RowsAreHeld ==
  ASSUME Control
  PROVE  /\ \A r \in Runs : row[r] # "absent" <=> Standing(r) \in Ledger!Shown
         /\ Ledger!Held = Rows
<1>1. ASSUME NEW r \in Runs PROVE row[r] # "absent" <=> Standing(r) \in Ledger!Shown
  BY DEF Control, TypeOK, RowStates, Outcomes, Standing, Ledger!Shown, Ledger!Outcomes
<1>2. QED
  BY <1>1 DEF Rows, Ledger!Held

(* A step that keeps the rows and every caller on its side of the store is *)
(* not seen.                                                               *)
LEMMA Unseen ==
  ASSUME UNCHANGED <<row, phase, inst, home>>,
         \A q \in Runs : /\ caller[q] = "idle" <=> caller'[q] = "idle"
                         /\ caller[q] \in Fresh <=> caller'[q] \in Fresh
  PROVE  UNCHANGED Ledger!vars
<1>1. \A q \in Runs : Standing(q)' = Standing(q)
  BY DEF Standing, Fresh
<1>2. QED
  BY <1>1 DEF Ledger!vars

(* One run's standing changes; nothing else does. *)
LEMMA OneSeen ==
  ASSUME Control, NEW r \in Runs, NEW c, row' = row, caller' = [caller EXCEPT ![r] = c]
  PROVE  Entries' = [Entries EXCEPT ![r] = Standing(r)']
<1>1. \A q \in Runs \ {r} : Standing(q)' = Standing(q)
  BY DEF Control, TypeOK, Standing
<1>2. QED
  BY <1>1 DEF Entries

LEMMA CallsAsk ==
  ASSUME Control, Outcomed, LedgerInv, NEW r \in Runs, Call(r)
  PROVE  Ledger!Ask(r)
<1>1. row[r] = "absent" /\ caller[r] = "idle" /\ row' = row /\ UNCHANGED lifeVars /\ phase = "up"
  BY DEF Call, Outcomed, BirthInv, Unstored, rowVars
<1>2. Standing(r) = "none" /\ Standing(r)' = "asked"
  BY <1>1 DEF Call, Standing, Control, TypeOK
<1>3. Entries' = [Entries EXCEPT ![r] = "asked"]
  BY <1>1, <1>2, OneSeen DEF Call
<1>4. {q \in Runs : home[q] = inst}' = {q \in Runs : home[q] = inst} \union {r}
  BY <1>1 DEF Call, Control, TypeOK, lifeVars
<1>5. QED
  BY <1>1, <1>2, <1>3, <1>4 DEF Ledger!Ask, Entries, lifeVars

(* A prompt that comes to nothing before it has a row. *)
LEMMA FailuresGiveUp ==
  ASSUME Control, Outcomed, NEW r \in Runs, caller[r] \in Fresh,
         NEW c \in {"refused", "rejected"}, caller' = [caller EXCEPT ![r] = c],
         UNCHANGED <<row, lifeVars, home>>
  PROVE  Ledger!GiveUp(r)
<1>1. row[r] = "absent"
  BY DEF Outcomed, BirthInv, Unstored, Fresh
<1>2. Standing(r) = "asked" /\ Standing(r)' = "gone"
  BY <1>1 DEF Standing, Fresh, Control, TypeOK
<1>3. Entries' = [Entries EXCEPT ![r] = "gone"]
  BY <1>2, OneSeen
<1>4. QED
  BY <1>2, <1>3 DEF Ledger!GiveUp, Entries, lifeVars

(* store.create: the row it deletes belongs to a prompt that is past it. *)
LEMMA CreatesRecord ==
  ASSUME Control, Outcomed, LedgerInv, NEW r \in Runs, StoreCreate(r)
  PROVE  Ledger!Record(r)
<1> DEFINE s == snap[r]
<1>1. /\ caller[r] = "summarised" /\ row[r] = "absent"
      /\ caller' = [caller EXCEPT ![r] = "stored"]
      /\ UNCHANGED <<phase, inst, home>>
  BY DEF StoreCreate, Outcomed, BirthInv, Unstored, lifeVars
<1>2. Standing(r) = "asked"
  BY <1>1 DEF Standing
<1>3. s \in {"running", "cancelled"} /\ (Ledger!Own(r) => s = "running")
  BY <1>1 DEF LedgerInv, Ledger!Own
<1>4. ASSUME row' = [row EXCEPT ![r] = s]
      PROVE  Entries' = [Entries EXCEPT ![r] = s]
  <2>1. Standing(r)' = s
    BY <1>3, <1>4 DEF Standing, Control, TypeOK
  <2>2. \A q \in Runs \ {r} : Standing(q)' = Standing(q)
    BY <1>1, <1>4 DEF Standing, Control, TypeOK
  <2>3. QED
    BY <2>1, <2>2 DEF Entries
<1>5. ASSUME NEW old \in Prunable, row' = [row EXCEPT ![old] = "absent", ![r] = s]
      PROVE  /\ old \in Ledger!Held /\ Standing(old) # "running"
             /\ Entries' = [Entries EXCEPT ![old] = "gone", ![r] = s]
  <2>1. old \in Runs /\ row[old] \notin {"absent", "running"} /\ old # r
    BY <1>1, <1>5 DEF Prunable, Rows
  <2>2. old \in Ledger!Held /\ Standing(old) # "running"
    BY <2>1, RowsAreHeld DEF Rows, Standing
  <2>3. Standing(r)' = s
    BY <1>3, <1>5, <2>1 DEF Standing, Control, TypeOK
  <2>4. caller[old] \notin Unstored
    BY <2>1 DEF Outcomed, BirthInv
  <2>5. Standing(old)' = "gone"
    BY <1>1, <1>5, <2>1, <2>4 DEF Standing, Unstored, Control, TypeOK
  <2>6. \A q \in Runs \ {r, old} : Standing(q)' = Standing(q)
    BY <1>1, <1>5 DEF Standing, Control, TypeOK
  <2>7. QED
    BY <2>1, <2>2, <2>3, <2>5, <2>6 DEF Entries
<1>6. Ledger!Held = Rows
  BY RowsAreHeld
<1>10. /\ [q \in Runs |-> Standing(q)][r] = "asked"
       /\ UNCHANGED <<phase = "up", {q \in Runs : home[q] = inst}>>
       /\ Entries = [q \in Runs |-> Standing(q)]
       /\ Entries' = [q \in Runs |-> Standing(q)]'
       /\ \A q \in Runs : Entries[q] = Standing(q)
  BY <1>1, <1>2 DEF Entries
<1> HIDE DEF s
<1>7. CASE ~StoreFull /\ row' = [row EXCEPT ![r] = s]
  <2>1. Cardinality(Ledger!Held) < MaxRuns
    <3>1. Cardinality(Rows) \in Nat /\ MaxRuns \in Nat
      BY LimitsAssumption, RunsAssumption, FS_Subset, FS_CardinalityType DEF Rows
    <3>2. QED
      BY <1>6, <1>7, <3>1 DEF StoreFull
  <2>2. QED
    BY <1>3, <1>4, <1>7, <1>10, <2>1, SameCardinality DEF Ledger!Record
<1>8. ASSUME StoreFull, NEW old \in Prunable, row' = [row EXCEPT ![old] = "absent", ![r] = s]
      PROVE  Ledger!Record(r)
  <2>1. Cardinality(Ledger!Held) >= MaxRuns
    BY <1>6, <1>8 DEF StoreFull
  <2>2. old \in Runs
    BY DEF Prunable, Rows
  <2>3. QED
    BY <1>3, <1>5, <1>8, <1>10, <2>1, SameCardinality DEF Ledger!Record
<1>9. QED
  BY <1>7, <1>8 DEF StoreCreate, First, s

(* store.update of an outcome or of a late copy, over a row that is there; *)
(* without a row, or when the store fails, nothing is seen.                *)
LEMMA UpdatesSeen ==
  ASSUME Control, NEW r \in Runs, NEW s, Updated(r, s), s # "absent",
         UNCHANGED <<caller, home, lifeVars>>
  PROVE  \/ UNCHANGED Ledger!vars
         \/ /\ r \in Ledger!Held /\ Standing(r) = row[r]
            /\ Entries' = [Entries EXCEPT ![r] = s]
<1>1. CASE row' = row
  BY <1>1, Unseen DEF lifeVars
<1>2. CASE r \in Rows /\ row' = [row EXCEPT ![r] = s]
  <2>1. r \in Ledger!Held /\ Standing(r) = row[r]
    BY <1>2, RowsAreHeld DEF Rows, Standing
  <2>2. Standing(r)' = s
    BY <1>2 DEF Standing, Control, TypeOK
  <2>3. \A q \in Runs \ {r} : Standing(q)' = Standing(q)
    BY <1>2 DEF Standing, Control, TypeOK
  <2>4. QED
    BY <2>1, <2>2, <2>3 DEF Entries
<1>3. QED
  BY <1>1, <1>2 DEF Updated, rowVars

LEMMA OutcomesSettle ==
  ASSUME Control, Outcomed, LedgerInv, NEW r \in Runs, Persist(r)
  PROVE  Ledger!Settle(r) \/ Ledger!LateWrite(r) \/ UNCHANGED Ledger!vars
<1>1. snap[r] \in Outcomes /\ collector[r] = "persisting" /\ Updated(r, snap[r])
  BY DEF Persist, Outcomed, AgreeInv
<1>2. UNCHANGED <<caller, home, lifeVars>>
  BY DEF Persist, callVars
<1>3. CASE UNCHANGED Ledger!vars
  BY <1>3
<1>4. CASE /\ r \in Ledger!Held /\ Standing(r) = row[r]
           /\ Entries' = [Entries EXCEPT ![r] = snap[r]]
  <2>1. /\ UNCHANGED <<phase = "up", {q \in Runs : home[q] = inst}>>
        /\ Entries[r] = Standing(r)
    BY <1>2 DEF Entries, lifeVars
  <2>2. CASE ~Ledger!Own(r)
    BY <1>1, <1>4, <2>1, <2>2 DEF Ledger!LateWrite, Ledger!Outcomes, Outcomes, Entries
  <2>3. CASE Ledger!Own(r)
    <3>1. phase = "up" /\ home[r] = inst
      BY <2>3 DEF Ledger!Own
    <3>2. row[r] # "interrupted"
      BY <3>1, LimitsAssumption DEF Outcomed, EarnInv, Control, TypeOK
    <3>3. row[r] \notin Outcomes
      BY <1>1, <3>1 DEF LedgerInv
    <3>4. row[r] # "absent"
      BY <1>4, RowsAreHeld DEF Rows
    <3>5. Standing(r) = "running"
      BY <1>4, <3>2, <3>3, <3>4 DEF Control, TypeOK, RowStates
    <3>6. QED
      BY <1>1, <1>4, <2>1, <2>3, <3>5 DEF Ledger!Settle, Ledger!Outcomes, Outcomes, Entries
  <2>4. QED
    BY <2>2, <2>3
<1>5. QED
  BY <1>1, <1>2, <1>3, <1>4, UpdatesSeen DEF Outcomes

LEMMA CopiesWriteLate ==
  ASSUME Control, Outcomed, ClosePersist
  PROVE  Ledger!LateWrite(target) \/ UNCHANGED Ledger!vars
<1>1. /\ target \in Runs /\ closeSnap \in {"running"} \union Outcomes
      /\ Updated(target, closeSnap) /\ phase # "up"
  BY DEF ClosePersist, Control, CloserInv, Working, Live, Outcomed, SweepInv
<1>2. UNCHANGED <<caller, home, lifeVars>>
  BY DEF ClosePersist, callVars
<1>3. CASE UNCHANGED Ledger!vars
  BY <1>3
<1>4. CASE target \in Ledger!Held /\ Entries' = [Entries EXCEPT ![target] = closeSnap]
  <2>1. UNCHANGED <<phase = "up", {q \in Runs : home[q] = inst}>>
    BY <1>2 DEF lifeVars
  <2>2. ~Ledger!Own(target)
    BY <1>1 DEF Ledger!Own
  <2>3. QED
    BY <1>1, <1>4, <2>1, <2>2 DEF Ledger!LateWrite, Ledger!Outcomes, Outcomes, Entries
<1>5. QED
  BY <1>1, <1>2, <1>3, <1>4, UpdatesSeen DEF Outcomes

LEMMA CrashDies ==
  ASSUME Control, Outcomed, LedgerInv, Crash
  PROVE  Ledger!Die
<1>1. /\ phase' = "crashed" /\ UNCHANGED <<inst, home, row>>
      /\ caller' = [r \in Runs |-> IF home[r] = 0 THEN "idle" ELSE "dead"]
  BY DEF Crash, rowVars
<1>2. ASSUME NEW r \in Runs
      PROVE  Standing(r)' = IF Standing(r) = "asked" THEN "gone" ELSE Standing(r)
  <2>1. home[r] = 0 <=> caller[r] = "idle"
    BY DEF LedgerInv, Outcomed, BirthInv
  <2>2. row[r] # "asked"
    BY DEF Control, TypeOK, RowStates, Outcomes
  <2>3. QED
    BY <1>1, <2>1, <2>2 DEF Standing
<1>3. QED
  BY <1>1, <1>2 DEF Ledger!Die

LEMMA OpenReopens ==
  ASSUME Control, Open
  PROVE  Ledger!Reopen
<1>1. /\ phase # "up" /\ phase' = "up" /\ inst' = inst + 1 /\ home' = home /\ caller' = caller
      /\ row' = Recovered
  BY DEF Open, callVars
<1>2. ASSUME NEW r \in Runs
      PROVE  Standing(r)' = IF Standing(r) = "running" THEN "interrupted" ELSE Standing(r)
  BY <1>1 DEF Standing, Recovered, Control, TypeOK
<1>3. {q \in Runs : home[q] = inst}' = {}
  BY <1>1, LimitsAssumption DEF Control, TypeOK, HomeInv
<1>4. QED
  BY <1>1, <1>2, <1>3 DEF Ledger!Reopen

LEMMA CloseUnloads ==
  ASSUME Close
  PROVE  Ledger!Unload
<1>1. /\ phase = "up" /\ phase' = "closing" /\ UNCHANGED <<inst, home, caller, row>>
  BY DEF Close, callVars, rowVars
<1>2. \A q \in Runs : Standing(q)' = Standing(q)
  BY <1>1 DEF Standing
<1>3. QED
  BY <1>1, <1>2 DEF Ledger!Unload

(* The rest of a prompt call. *)
LEMMA CallersSeen ==
  ASSUME Control, Outcomed, LedgerInv, NEW r \in Runs, CallerStep(r)
  PROVE  Ledger!Record(r) \/ Ledger!GiveUp(r) \/ UNCHANGED Ledger!vars
<1>1. CASE StoreCreate(r)
  BY <1>1, CreatesRecord
<1>2. CASE /\ caller[r] \in Fresh /\ UNCHANGED <<row, lifeVars, home>>
           /\ \E c \in {"refused", "rejected"} : caller' = [caller EXCEPT ![r] = c]
  BY <1>2, FailuresGiveUp
<1>3. CASE /\ UNCHANGED <<row, lifeVars, home>>
           /\ \E c \in CallerPCs : /\ caller' = [caller EXCEPT ![r] = c]
                                   /\ caller[r] \in Fresh <=> c \in Fresh
                                   /\ caller[r] # "idle" /\ c # "idle"
  BY <1>3, Unseen DEF Control, TypeOK, lifeVars
<1>4. Spawn(r) => <1>2!1 \/ <1>3!1
  BY DEF Spawn, Fresh, CallerPCs, Settled, rowVars
<1>5. RefuseFull(r) \/ StoreRejects(r) => <1>2!1
  BY DEF RefuseFull, StoreRejects, Fresh, rowVars
<1>6. Register(r) \/ Summarise(r) \/ Unregister(r) \/ Abandon(r) \/ MakeThread(r) \/ StartThread(r)
        => <1>3!1
  BY DEF Register, Summarise, Unregister, Abandon, MakeThread, StartThread, Fresh, CallerPCs, Settled,
     rowVars
<1>7. QED
  BY <1>1, <1>2, <1>3, <1>4, <1>5, <1>6 DEF CallerStep

LEMMA LedgerStep ==
  ASSUME Control, Outcomed, LedgerInv, [Next]_vars
  PROVE  [Ledger!Next]_Ledger!vars
<1>1. CASE UNCHANGED vars
  BY <1>1, Unseen DEF vars, lifeVars, callVars, rowVars
<1>2. ASSUME NEW r \in Runs, Call(r) \/ CallerStep(r)
      PROVE  [Ledger!Next]_Ledger!vars
  BY <1>2, CallsAsk, CallersSeen DEF Ledger!Next
<1>3. ASSUME NEW r \in Runs, ChildExit(r) \/ ReadStep(r) \/ Finish(r) \/ Snapshot(r)
      PROVE  UNCHANGED Ledger!vars
  <2>1. UNCHANGED <<row, phase, inst, home, caller>>
    BY <1>3 DEF ChildExit, ReadStep, CollectEvent, ReadEof, CollectorRaises, Finish, Snapshot,
       lifeVars, callVars, rowVars
  <2>2. QED
    BY <2>1, Unseen
<1>4. ASSUME NEW r \in Runs, Persist(r)
      PROVE  [Ledger!Next]_Ledger!vars
  BY <1>4, OutcomesSettle DEF Ledger!Next
<1>5. CASE CloserStep
  <2>1. CASE ClosePersist
    <3>1. target \in Runs
      BY <2>1 DEF ClosePersist, Control, CloserInv, Working
    <3>2. QED
      BY <2>1, <3>1, CopiesWriteLate DEF Ledger!Next
  <2>2. CASE ~ClosePersist
    <3>1. UNCHANGED <<row, inst, home, caller>> /\ phase # "up" /\ phase' # "up"
      BY <1>5, <2>2 DEF CloserStep, ClosePoll, CloseJoin, CloseCancel, CloseKill, CloseSnapshot,
         CloseReturn, lifeVars, callVars, rowVars, Outcomed, SweepInv, Working
    <3>2. \A q \in Runs : Standing(q)' = Standing(q)
      BY <3>1 DEF Standing
    <3>3. UNCHANGED Ledger!vars
      BY <3>1, <3>2 DEF Ledger!vars
    <3>4. QED
      BY <3>3
  <2>3. QED
    BY <2>1, <2>2
<1>6. CASE Close \/ Crash \/ Open
  BY <1>6, CloseUnloads, CrashDies, OpenReopens DEF Ledger!Next
<1>7. QED
  BY <1>1, <1>2, <1>3, <1>4, <1>5, <1>6 DEF Next, CollectorStep

LEMMA LedgerInit == Init => Ledger!Init
<1>1. ASSUME Init PROVE Ledger!Init
  <2>1. phase = "up" /\ \A r \in Runs : Standing(r) = "none" /\ home[r] = 0 /\ inst = 1
    BY <1>1 DEF Init, Standing
  <2>2. {r \in Runs : home[r] = inst} = {}
    BY <2>1
  <2>3. QED
    BY <2>1, <2>2 DEF Ledger!Init
<1>2. QED
  BY <1>1

(* Whatever prompts, collectors, unloads, threads left behind and crashes do *)
(* to the rows, a reader sees a RunLedger.                                    *)
THEOREM LedgerRefinement == Spec => LedgerSpec
<1>1. Control /\ Outcomed /\ LedgerInv /\ [Next]_vars => [Ledger!Next]_Ledger!vars
  BY LedgerStep
<1>2. QED
  BY LedgerInit, LedgerInvAlways, <1>1, PTL DEF Spec, LedgerSpec, Ledger!Spec

-----------------------------------------------------------------------------
(* Liveness of the threads whose steps are finitely many.  The two orders   *)
(* always have an oldest element to give up, so that no prompt waits.       *)

Founded(order) == \A S \in SUBSET Runs : S # {} => First(order, S) # {}
OrderInv == Founded(runOrder) /\ Founded(rowOrder)

LEMMA FewerFounded ==
  ASSUME NEW order, NEW fewer \in SUBSET order, Founded(order)
  PROVE  Founded(fewer)
BY DEF Founded, First

LEMMA ForgetFounded ==
  ASSUME NEW order, NEW q, Founded(order)
  PROVE  Founded(Forget(order, q))
<1>1. Forget(order, q) \in SUBSET order
  BY DEF Forget
<1>2. QED
  BY <1>1, FewerFounded

LEMMA MoveFounded ==
  ASSUME NEW order, NEW S, NEW q, Founded(order)
  PROVE  Founded(MoveLast(order, S, q))
<1>1. SUFFICES ASSUME NEW T \in SUBSET Runs, T # {}
               PROVE  \E x \in T : \A p \in T : <<p, x>> \notin MoveLast(order, S, q)
  BY DEF Founded, First
<1>2. CASE T \ {q} # {}
  <2>1. PICK x \in T \ {q} : \A p \in T \ {q} : <<p, x>> \notin order
    BY <1>2 DEF Founded, First
  <2>2. ASSUME NEW p \in T PROVE <<p, x>> \notin MoveLast(order, S, q)
    BY <2>1 DEF MoveLast, Forget
  <2>3. QED
    BY <2>1, <2>2
<1>3. CASE T \ {q} = {}
  <2>1. T = {q}
    BY <1>1, <1>3
  <2>2. <<q, q>> \notin MoveLast(order, S, q)
    BY DEF MoveLast, Forget
  <2>3. QED
    BY <2>1, <2>2
<1>4. QED
  BY <1>2, <1>3

LEMMA RecoverFounded ==
  ASSUME Founded(rowOrder)
  PROVE  Founded(RecoveredOrder)
<1> DEFINE touched == {q \in Rows : row[q] = "running"}
           kept    == Rows \ touched
<1>1. RecoveredOrder = {e \in rowOrder : e[1] \in kept /\ e[2] \in kept} \union (kept \X touched)
  BY DEF RecoveredOrder
<1> HIDE DEF touched
<1>2. SUFFICES ASSUME NEW T \in SUBSET Runs, T # {}
               PROVE  \E x \in T : \A p \in T : <<p, x>> \notin RecoveredOrder
  BY DEF Founded, First
<1>3. CASE T \cap kept # {}
  <2>1. PICK x \in T \cap kept : \A p \in T \cap kept : <<p, x>> \notin rowOrder
    BY <1>3 DEF Founded, First
  <2>2. ASSUME NEW p \in T PROVE <<p, x>> \notin RecoveredOrder
    BY <1>1, <2>1
  <2>3. QED
    BY <2>1, <2>2
<1>4. CASE T \cap kept = {}
  BY <1>1, <1>2, <1>4
<1>5. QED
  BY <1>3, <1>4

LEMMA OrderInit == Init => OrderInv
BY DEF Init, OrderInv, Founded, First

LEMMA OrderStep == OrderInv /\ [Next]_vars => OrderInv'
<1> SUFFICES ASSUME OrderInv, [Next]_vars PROVE OrderInv'
  OBVIOUS
<1>1. CASE UNCHANGED <<runOrder, rowOrder>>
  BY <1>1 DEF OrderInv, Founded, First
<1>2. ASSUME NEW order, NEW S, NEW q,
             \/ runOrder' = MoveLast(runOrder, S, q) /\ rowOrder' = rowOrder
             \/ runOrder' = MoveLast(Forget(runOrder, order), S, q) /\ rowOrder' = rowOrder
             \/ runOrder' = Forget(runOrder, q) /\ rowOrder' = rowOrder
             \/ rowOrder' = MoveLast(rowOrder, S, q) /\ runOrder' = runOrder
             \/ rowOrder' = MoveLast(Forget(rowOrder, order), S, q) /\ runOrder' = runOrder
      PROVE  OrderInv'
  <2>1. /\ Founded(MoveLast(runOrder, S, q)) /\ Founded(MoveLast(Forget(runOrder, order), S, q))
        /\ Founded(MoveLast(rowOrder, S, q)) /\ Founded(MoveLast(Forget(rowOrder, order), S, q))
        /\ Founded(Forget(runOrder, q))
    BY MoveFounded, ForgetFounded DEF OrderInv
  <2>2. QED
    BY <1>2, <2>1 DEF OrderInv, Founded, First
<1>3. ASSUME NEW r \in Runs, Register(r) \/ Unregister(r) \/ StoreCreate(r) \/ CollectEvent(r)
      PROVE  OrderInv'
  BY <1>2, <1>3 DEF Register, Unregister, StoreCreate, CollectEvent, dictVars, rowVars
<1>4. ASSUME NEW r, NEW s, Updated(r, s), UNCHANGED runOrder
      PROVE  OrderInv'
  BY <1>1, <1>2, <1>4 DEF Updated, rowVars
<1>5. ASSUME NEW r \in Runs, Persist(r)
      PROVE  OrderInv'
  BY <1>4, <1>5 DEF Persist, dictVars
<1>6. CASE ClosePersist
  BY <1>4, <1>6 DEF ClosePersist, dictVars
<1>7. CASE Open
  <2>1. runOrder' = runOrder /\ rowOrder' = RecoveredOrder
    BY <1>7 DEF Open, dictVars
  <2>2. Founded(RecoveredOrder)
    BY RecoverFounded DEF OrderInv
  <2>3. QED
    BY <2>1, <2>2 DEF OrderInv, Founded, First
<1>8. CASE Crash
  <2>1. runOrder' = {} /\ rowOrder' = rowOrder
    BY <1>8 DEF Crash, rowVars
  <2>2. QED
    BY <2>1 DEF OrderInv, Founded, First
<1>9. ASSUME NEW r \in Runs,
             \/ Call(r) \/ Spawn(r) \/ RefuseFull(r) \/ Summarise(r) \/ StoreRejects(r) \/ Abandon(r)
             \/ MakeThread(r) \/ StartThread(r) \/ ChildExit(r) \/ Finish(r) \/ Snapshot(r)
             \/ ReadEof(r) \/ CollectorRaises(r) \/ ClosePoll(r) \/ CloseJoin(r)
      PROVE  OrderInv'
  BY <1>1, <1>9 DEF Call, Spawn, RefuseFull, Summarise, StoreRejects, Abandon, MakeThread, StartThread,
     ChildExit, Finish, Snapshot, ReadEof, CollectorRaises, ClosePoll, CloseJoin, dictVars, rowVars
<1>10. CASE Close \/ CloseCancel \/ CloseKill \/ CloseSnapshot \/ CloseReturn \/ UNCHANGED vars
  BY <1>1, <1>10 DEF Close, CloseCancel, CloseKill, CloseSnapshot, CloseReturn, vars, dictVars, rowVars
<1>11. QED
  BY <1>3, <1>5, <1>6, <1>7, <1>8, <1>9, <1>10 DEF Next, CallerStep, CollectorStep, ReadStep, CloserStep

LEMMA LiveAlways == Spec => [](Control /\ Outcomed /\ OrderInv)
BY OutcomedAlways, OrderInit, OrderStep, PTL DEF Spec

(* A prompt under way finds room, or something to evict, or nothing it may   *)
(* evict and then its error path.                                            *)
CallerReady(r) ==
    /\ Underway(r)
    /\ caller[r] = "spawned" /\ MemoryFull(home[r]) =>
        Removable(home[r]) = {} \/ First(runOrder, Removable(home[r])) # {}
    /\ caller[r] = "summarised" /\ StoreFull =>
        Prunable = {} \/ First(rowOrder, Prunable) # {}

(* close_now, under way, works on a run, and all it has still to do is runs. *)
CloserReady ==
    /\ Closing
    /\ todo \subseteq Runs /\ joins \subseteq Runs
    /\ closer \in Working => target \in Runs

(* What no prover here can compute: that these guards are all ENABLED asks.  *)
(* ThreadsGoOn, which TLC checks, says it of every prompt and every unload   *)
(* under way, ready or not.                                                  *)
GuardsEnable ==
    /\ \A r \in Runs : /\ CallerReady(r) => ENABLED <<CallerStep(r)>>_vars
                       /\ Recording(r) => ENABLED <<CollectorStep(r)>>_vars
    /\ CloserReady => ENABLED <<CloserStep>>_vars

LEMMA GuardsAreWeaker == ThreadsGoOn => GuardsEnable
BY DEF ThreadsGoOn, GuardsEnable, CallerReady, CloserReady

LEMMA PromptIsReady ==
  ASSUME Control, OrderInv, NEW r \in Runs, Underway(r)
  PROVE  CallerReady(r)
<1>1. Removable(home[r]) \in SUBSET Runs /\ Prunable \in SUBSET Runs
  BY DEF Control, TypeOK, Removable, Dict, Prunable, Rows
<1>2. QED
  BY <1>1 DEF CallerReady, OrderInv, Founded

(* How many steps a prompt has before it at most. *)
StepsLeft(r) ==
    CASE caller[r] = "called" -> 6
      [] caller[r] = "spawned" -> 5
      [] caller[r] = "registered" -> 4
      [] caller[r] = "summarised" -> 3
      [] caller[r] \in {"stored", "rejected"} -> 2
      [] caller[r] \in {"threaded", "unregistered"} -> 1
      [] caller[r] \in Settled -> 0
      [] OTHER -> 7

LEMMA PromptAdvances ==
  ASSUME Control, BirthInv, Next, NEW r \in Runs, caller[r] # "idle"
  PROVE  /\ StepsLeft(r) \in 0..6
         /\ StepsLeft(r)' \in 0..StepsLeft(r)
         /\ StepsLeft(r) = 0 <=> ~Underway(r)
         /\ CallerStep(r) => StepsLeft(r)' < StepsLeft(r)
<1> USE DEF Control, TypeOK, CallerPCs, Settled, StepsLeft
<1>1. StepsLeft(r) \in 0..6 /\ (StepsLeft(r) = 0 <=> ~Underway(r))
  BY DEF Underway
<1>2. ASSUME CallerStep(r) PROVE StepsLeft(r)' \in 0..StepsLeft(r) /\ StepsLeft(r)' < StepsLeft(r)
  BY <1>2 DEF CallerStep, Spawn, Register, RefuseFull, Summarise, StoreCreate, StoreRejects, Unregister,
     Abandon, MakeThread, StartThread
<1>3. CASE caller'[r] = caller[r]
  BY <1>1, <1>2, <1>3
<1>4. ASSUME NEW q \in Runs, q # r, Call(q) \/ CallerStep(q)
      PROVE  caller'[r] = caller[r]
  BY <1>4 DEF Call, CallerStep, Spawn, Register, RefuseFull, Summarise, StoreCreate, StoreRejects,
     Unregister, Abandon, MakeThread, StartThread
<1>5. ~Call(r)
  BY DEF Call
<1>6. ASSUME \/ \E q \in Runs : ChildExit(q) \/ CollectorStep(q) \/ ReadStep(q)
             \/ Close \/ CloserStep \/ Open
      PROVE  caller'[r] = caller[r]
  BY <1>6 DEF ChildExit, CollectorStep, Finish, Snapshot, Persist, ReadStep, CollectEvent, ReadEof,
     CollectorRaises, Close, CloserStep, ClosePoll, CloseJoin, CloseCancel, CloseKill, CloseSnapshot,
     ClosePersist, CloseReturn, Open, callVars
<1>7. ASSUME Crash PROVE StepsLeft(r)' = 0
  BY <1>7 DEF Crash, BirthInv
<1>8. CASE Crash
  BY <1>1, <1>2, <1>7, <1>8
<1>9. QED
  BY <1>1, <1>2, <1>3, <1>4, <1>5, <1>6, <1>8 DEF Next

Falls(r, n, m) == StepsLeft(r) <= n ~> StepsLeft(r) <= m

LEMMA PromptFalls ==
  ASSUME NEW r \in Runs, NEW n \in 1..6, NEW m \in 0..5, n = m + 1
  PROVE  Spec /\ []GuardsEnable /\ ThreadFairness(r) => Falls(r, n, m)
<1> DEFINE I == Control /\ Outcomed /\ OrderInv
           P == StepsLeft(r) <= n
           Q == StepsLeft(r) <= m
<1>1. I /\ P => caller[r] # "idle"
  BY DEF StepsLeft, Settled
<1>2. I /\ P /\ [Next]_vars => P'
  <2>1. CASE UNCHANGED vars
    BY <2>1 DEF vars, callVars, StepsLeft
  <2>2. ASSUME I, P, Next PROVE P'
    BY <1>1, <2>2, PromptAdvances DEF Outcomed
  <2>3. QED
    BY <2>1, <2>2
<1>3. I /\ P /\ ~Q /\ <<Next /\ CallerStep(r)>>_vars => Q'
  BY <1>1, PromptAdvances DEF Outcomed
<1>4. I /\ P /\ ~Q /\ GuardsEnable => ENABLED <<CallerStep(r)>>_vars
  <2>1. I /\ P /\ ~Q => Underway(r)
    BY <1>1 DEF StepsLeft, Settled, Underway
  <2>2. QED
    BY <2>1, PromptIsReady DEF GuardsEnable
<1>5. QED
  BY LiveAlways, <1>2, <1>3, <1>4, PTL DEF Spec, ThreadFairness, Falls

(* Every prompt call is answered, by a run or an error, under fairness of its *)
(* own thread alone: no lock holder, child, limit or store failure keeps it.  *)
THEOREM PromptLiveness == FairSpec /\ []GuardsEnable => PromptSettles
<1>1. ASSUME NEW r \in Runs
      PROVE  Spec /\ []GuardsEnable /\ ThreadFairness(r) => (caller[r] = "called" ~> caller[r] \in Settled)
  <2>1. Spec /\ []GuardsEnable /\ ThreadFairness(r) =>
          /\ Falls(r, 6, 5) /\ Falls(r, 5, 4) /\ Falls(r, 4, 3)
          /\ Falls(r, 3, 2) /\ Falls(r, 2, 1) /\ Falls(r, 1, 0)
    BY PromptFalls
  <2>2. caller[r] = "called" => StepsLeft(r) <= 6
    BY DEF StepsLeft
  <2>3. Control /\ Outcomed /\ OrderInv /\ StepsLeft(r) <= 0 => caller[r] \in Settled
    BY DEF Control, TypeOK, CallerPCs, StepsLeft, Settled
  <2>4. QED
    BY LiveAlways, <2>1, <2>2, <2>3, PTL DEF Falls
<1>2. FairSpec => Spec /\ \A r \in Runs : ThreadFairness(r)
  BY PTL DEF FairSpec, Fairness
<1>3. QED
  BY <1>1, <1>2 DEF PromptSettles

(* The collector of a child that exited has three steps left, all its own. *)
Exited(r) == collector[r] = "waiting" /\ proc[r] \in Exits
Ended(r)  == collector[r] \in {"done", "dead"}

LEMMA CollectorAdvances ==
  ASSUME Control, BirthInv, [Next]_vars, NEW r \in Runs
  PROVE  /\ Exited(r) => Exited(r)' \/ collector'[r] = "recorded" \/ Ended(r)'
         /\ collector[r] = "recorded" => collector'[r] \in {"recorded", "persisting"} \/ Ended(r)'
         /\ collector[r] = "persisting" => collector'[r] = "persisting" \/ Ended(r)'
<1> USE DEF Exited, Ended
<1>1. CASE UNCHANGED vars
  BY <1>1 DEF vars
<1>2. ASSUME Next, collector'[r] = collector[r]
      PROVE  Exited(r) => Exited(r)'
  <2>1. proc[r] \in Exits => proc'[r] \in Exits
    <3>1. Spawn(r) /\ BirthInv => proc[r] \notin Exits
      BY DEF Spawn, BirthInv, Unspawned, Exits
    <3>2. QED
      BY <1>2, <3>1, ChildrenStay DEF Exits, LiveChild
  <2>2. QED
    BY <1>2, <2>1
<1>3. ASSUME Next, collector'[r] # collector[r], collector[r] \in {"waiting", "recorded", "persisting"}
      PROVE  \/ Ended(r)'
             \/ collector[r] = "waiting" /\ collector'[r] = "recorded"
             \/ collector[r] = "recorded" /\ collector'[r] = "persisting"
  <2>1. caller[r] = "launched"
    BY <1>3 DEF Control, ThreadInv
  <2>2. ~ReadEof(r) /\ ~CollectorRaises(r)
    BY <1>3 DEF ReadEof, CollectorRaises
  <2>3. Crash => collector'[r] = "dead"
    BY <1>3 DEF Crash
  <2>4. QED
    BY <1>3, <2>1, <2>2, <2>3, CollectorsMove DEF Finish, Snapshot
<1>4. QED
  BY <1>1, <1>2, <1>3

LEMMA CollectorMoves ==
  ASSUME Control, NEW r \in Runs, CollectorStep(r)
  PROVE  /\ Exited(r) => collector'[r] = "recorded"
         /\ collector[r] = "recorded" => collector'[r] = "persisting"
         /\ collector[r] = "persisting" => Ended(r)'
BY DEF Control, TypeOK, CollectorStep, Finish, Snapshot, Persist, Exited, Ended

(* A child that exits after its output ended has its outcome persisted, or  *)
(* the attempt made, though close_now or a crash may come at any moment.    *)
THEOREM ExitLiveness == FairSpec /\ []GuardsEnable => ExitIsRecorded
<1>1. ASSUME NEW r \in Runs
      PROVE  Spec /\ []GuardsEnable /\ ThreadFairness(r) => (Exited(r) ~> Ended(r))
  <2> DEFINE I == Control /\ Outcomed /\ OrderInv
             A == Exited(r)
             B == collector[r] = "recorded"
             C == collector[r] = "persisting"
             D == Ended(r)
  <2>1. /\ I /\ A /\ [Next]_vars => A' \/ B' \/ D'
        /\ I /\ B /\ [Next]_vars => B' \/ C' \/ D'
        /\ I /\ C /\ [Next]_vars => C' \/ D'
    BY CollectorAdvances DEF Outcomed
  <2>2. /\ I /\ A /\ <<Next /\ CollectorStep(r)>>_vars => B'
        /\ I /\ B /\ <<Next /\ CollectorStep(r)>>_vars => C'
        /\ I /\ C /\ <<Next /\ CollectorStep(r)>>_vars => D'
    BY CollectorMoves
  <2>3. GuardsEnable /\ (A \/ B \/ C) => ENABLED <<CollectorStep(r)>>_vars
    BY DEF GuardsEnable, Recording, Exited
  <2>4. QED
    BY LiveAlways, <2>1, <2>2, <2>3, PTL DEF Spec, ThreadFairness
<1>2. FairSpec => Spec /\ \A r \in Runs : ThreadFairness(r)
  BY PTL DEF FairSpec, Fairness
<1>3. QED
  BY <1>1, <1>2 DEF ExitIsRecorded, Exited, Ended

-----------------------------------------------------------------------------
(* close_now ends.  What is left to it is a number that each of its steps    *)
(* makes smaller; the number depends on how many records it captured, so     *)
(* the proof is an induction over it.  An induction needs a set of numbers,  *)
(* and TLA+ has no set of the n for which a temporal formula holds; the      *)
(* theorem therefore names one: in every behaviour there is such a set, and  *)
(* with it in hand AllNumbers applies.                                       *)

(* Five steps for each record still to terminate, one for each thread still *)
(* to join, and those left for the record it works on.                      *)
Stage ==
    CASE closer = "cancel" -> 5
      [] closer = "kill" -> 4
      [] closer = "snapshot" -> 3
      [] closer = "persist" -> 2
      [] OTHER -> 1
Work == 5 * Cardinality(todo) + Cardinality(joins) + Stage

Left(n)         == Closing /\ Work <= n
CloseReaches(n) == Left(n) ~> ~Closing
CloseFalls(n)   == Left(n + 1) ~> (Left(n) \/ ~Closing)

LEMMA WorkIsFinite ==
  ASSUME Control
  PROVE  /\ IsFiniteSet(todo) /\ IsFiniteSet(joins)
         /\ Cardinality(todo) \in 0..Cardinality(Runs) /\ Cardinality(joins) \in 0..Cardinality(Runs)
         /\ Cardinality(Runs) \in Nat /\ Stage \in 1..5
         /\ Work \in 1..(6 * Cardinality(Runs) + 5)
<1>1. todo \in SUBSET Runs /\ joins \in SUBSET Runs
  BY DEF Control, TypeOK
<1>2. /\ IsFiniteSet(todo) /\ IsFiniteSet(joins)
      /\ Cardinality(todo) <= Cardinality(Runs) /\ Cardinality(joins) <= Cardinality(Runs)
  BY <1>1, RunsAssumption, FS_Subset
<1>3. Cardinality(todo) \in Nat /\ Cardinality(joins) \in Nat /\ Cardinality(Runs) \in Nat
  BY <1>2, RunsAssumption, FS_CardinalityType
<1>4. Stage \in 1..5
  BY DEF Stage
<1>5. QED
  BY <1>2, <1>3, <1>4 DEF Work

LEMMA CloserAdvances ==
  ASSUME Control, Closing, CloserStep
  PROVE  ~Closing' \/ (Work' \in Int /\ Work' < Work)
<1>1. /\ Cardinality(todo) \in Nat /\ Cardinality(joins) \in Nat /\ Stage \in Nat
      /\ IsFiniteSet(todo) /\ IsFiniteSet(joins)
  BY WorkIsFinite
<1>2. ASSUME NEW r \in Runs, ClosePoll(r) PROVE Work' \in Int /\ Work' < Work
  <2>1. Cardinality(todo') = Cardinality(todo) - 1 /\ joins' = joins
    BY <1>1, <1>2, FS_RemoveElement DEF ClosePoll
  <2>2. Stage = 1 /\ Stage' \in 1..5
    BY <1>2 DEF ClosePoll, Stage
  <2>3. QED
    BY <1>1, <2>1, <2>2 DEF Work
<1>3. ASSUME NEW r \in Runs, CloseJoin(r) PROVE ~Closing' \/ (Work' \in Int /\ Work' < Work)
  <2>1. CASE Unstarted(r)
    BY <1>3, <2>1 DEF CloseJoin, Closing
  <2>2. CASE ~Unstarted(r)
    <3>1. joins' = joins \ {r} /\ r \in joins /\ todo' = todo /\ closer' = closer
      BY <1>3, <2>2 DEF CloseJoin
    <3>2. Cardinality(joins') = Cardinality(joins) - 1 /\ Stage' = Stage
      BY <1>1, <3>1, FS_RemoveElement DEF Stage
    <3>3. QED
      BY <1>1, <3>1, <3>2 DEF Work
  <2>3. QED
    BY <2>1, <2>2
<1>4. CASE CloseCancel \/ CloseKill \/ CloseSnapshot \/ ClosePersist
  <2>1. todo' = todo /\ joins' = joins /\ Stage' \in Nat /\ Stage' < Stage
    BY <1>4 DEF CloseCancel, CloseKill, CloseSnapshot, ClosePersist, Stage
  <2>2. QED
    BY <1>1, <2>1 DEF Work
<1>5. CloseReturn => ~Closing'
  BY DEF CloseReturn, Closing
<1>6. QED
  BY <1>2, <1>3, <1>4, <1>5 DEF CloserStep

(* The others leave it alone, but for a crash, which ends it. *)
LEMMA CloserUndisturbed ==
  ASSUME Control, SweepInv, Closing, [Next]_vars
  PROVE  CloserStep \/ ~Closing' \/ (Closing' /\ Work' = Work)
<1>1. ~Close /\ ~Open
  BY DEF SweepInv, Closing, Control, TypeOK, Closers, Working, Close, Open
<1>2. Crash => ~Closing'
  BY DEF Crash, Closing
<1>3. CASE UNCHANGED <<closer, todo, joins>>
  BY <1>3 DEF Closing, Work, Stage
<1>4. QED
  BY <1>1, <1>2, <1>3, OthersLeaveCloser DEF Next, vars, closeVars

LEMMA CloseGetsDone ==
  ASSUME NEW n \in Nat
  PROVE  FairSpec /\ []GuardsEnable => CloseFalls(n)
<1> DEFINE I == Control /\ Outcomed /\ OrderInv
<1>1. I /\ Left(n + 1) /\ [Next]_vars => Left(n + 1)' \/ (~Closing)'
  BY CloserAdvances, CloserUndisturbed, WorkIsFinite DEF Left, Outcomed
<1>2. I /\ Left(n + 1) /\ <<CloserStep>>_vars => Left(n)' \/ (~Closing)'
  BY CloserAdvances, WorkIsFinite DEF Left
<1>3. I /\ GuardsEnable /\ Left(n + 1) => ENABLED <<CloserStep>>_vars
  <2>1. I /\ Left(n + 1) => CloserReady
    BY DEF Control, TypeOK, CloserInv, Left, CloserReady
  <2>2. QED
    BY <2>1 DEF GuardsEnable
<1>4. QED
  BY LiveAlways, <1>1, <1>2, <1>3, PTL DEF FairSpec, Spec, Fairness, CloseFalls

LEMMA CloseNoneLeft == FairSpec => CloseReaches(0)
<1>1. Control => ~Left(0)
  BY WorkIsFinite DEF Left
<1>2. FairSpec => []Control
  BY LiveAlways, PTL DEF FairSpec
<1>3. QED
  BY <1>1, <1>2, PTL DEF CloseReaches

LEMMA CloseOneMore ==
  ASSUME NEW n \in Nat
  PROVE  CloseReaches(n) /\ CloseFalls(n) => CloseReaches(n + 1)
BY PTL DEF CloseReaches, CloseFalls

(* close_now ends, whatever number of records it captured, whether children *)
(* handle SIGTERM, collectors hang, updates fail, or a join raises.         *)
THEOREM CloseLiveness ==
  FairSpec /\ []GuardsEnable /\ (\E S \in SUBSET Nat : \A n \in Nat : n \in S <=> CloseReaches(n))
    => CloseCompletes
<1> DEFINE K == 6 * Cardinality(Runs) + 5
<1>1. K \in Nat
  BY RunsAssumption, FS_CardinalityType
<1> HIDE DEF K
<1>2. ASSUME FairSpec, []GuardsEnable, NEW S \in SUBSET Nat, \A n \in Nat : n \in S <=> CloseReaches(n)
      PROVE  CloseReaches(K)
  <2>1. 0 \in S
    BY <1>2, CloseNoneLeft
  <2>2. ASSUME NEW n \in Nat, n \in S PROVE n + 1 \in S
    <3>1. CloseReaches(n) /\ CloseFalls(n)
      BY <1>2, <2>2, CloseGetsDone
    <3>2. CloseReaches(n + 1)
      BY <3>1, CloseOneMore
    <3>3. QED
      BY <1>2, <3>2
  <2>3. S = Nat
    BY <2>1, <2>2, AllNumbers
  <2>4. QED
    BY <1>1, <1>2, <2>3
<1>3. Control /\ Closing => Left(K)
  BY WorkIsFinite DEF Left, K
<1>4. FairSpec => []Control
  BY LiveAlways, PTL DEF FairSpec
<1>5. closer # "idle" => Closing \/ closer \in {"returned", "raised", "idle"}
  BY DEF Closing
<1>6. ~Closing => closer \in {"returned", "raised", "idle"}
  BY DEF Closing
<1>7. CloseReaches(K) /\ []Control => CloseCompletes
  BY <1>3, <1>5, <1>6, PTL DEF CloseReaches, CloseCompletes
<1>8. QED
  BY <1>2, <1>4, <1>7

=============================================================================
