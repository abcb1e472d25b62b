------------------------- MODULE EventStreamProofs -------------------------
(***************************************************************************)
(* Both tiers of EventLog, and the change from one to the other under a    *)
(* reader, implement CursorStream as long as no append fails, the record   *)
(* is kept while its collector runs, and Hermes lives: step by step, and   *)
(* in what must happen in the end.                                         *)
(***************************************************************************)
EXTENDS EventLogProofs

Calm == MaxFaults = 0 /\ ~MayForgetLive /\ ~MayCrash

(* The store answers only when the collector has ended, so that its two      *)
(* SELECTs see the same rows, or none if the run was pruned in between, and  *)
(* its numbers are those of the buffer.                                      *)
StreamInv ==
    /\ collector # "dead"
    /\ ~held \/ ~stored => collector = "ended"
    /\ ~stored => rows = <<>>
    /\ cursor <= total
    /\ reader = "rows" /\ stored => diskOldest <= cursor /\ cursor <= diskTotal

LEMMA StreamInit == Init => StreamInv
BY DEF Init, StreamInv

(* Outside of appends both tiers number alike. *)
LEMMA SettledStore ==
  ASSUME Calm, LogInv, StreamInv, ~held, stored
  PROVE  /\ diskTotal = total
         /\ \A j \in 1..Len(rows) : rows[j].event = rows[j].cursor
<1>1. faults = 0 /\ total \in Nat /\ diskTotal \in Nat
  BY SizesAssumption DEF Calm, LogInv, TypeOK
<1>2. collector = "ended"
  BY DEF StreamInv
<1>3. QED
  BY <1>1, <1>2 DEF LogInv, PaceInv, StoreFollows

-----------------------------------------------------------------------------
(* The answers. *)

(* A cursor that expired: the reader moves on. *)
LEMMA ExpiredSkips ==
  ASSUME LogInv, NEW oldest \in Nat, NEW newest, oldest <= total,
         Expired(oldest, newest), total' = total
  PROVE  Stream!Skip /\ cursor' = oldest
<1>1. cursor \in Nat /\ total \in Nat
  BY SizesAssumption DEF LogInv, TypeOK
<1>2. cursor' = oldest /\ cursor < oldest /\ page' = <<>> /\ asked' = oldest
  BY DEF Expired
<1>3. cursor' \in (cursor + 1)..total
  BY <1>1, <1>2
<1>4. QED
  BY <1>2, <1>3 DEF Stream!Skip

(* A page of the buffer. *)
LEMMA MemoryDelivers ==
  ASSUME LogInv, base <= cursor, cursor <= base + Len(events), total' = total,
         Answer(PageOf(cursor)), cursor' = cursor + Len(PageOf(cursor))
  PROVE  Stream!Deliver /\ cursor' <= total
<1> DEFINE p == PageOf(cursor)
           n == Len(p)
<1>1. /\ cursor \in Nat /\ total \in Nat /\ base \in Nat /\ Len(events) \in Nat
      /\ PageLimit \in Nat \ {0} /\ base + Len(events) = total /\ events \in Seq(Nat)
  <2>1. cursor \in Nat /\ total \in Nat /\ base \in Nat /\ events \in Seq(Nat)
    BY DEF LogInv, TypeOK
  <2>2. base + Len(events) = total
    BY DEF LogInv, MemoryInv, MemoryWindow
  <2>3. QED
    BY <2>1, <2>2, SizesAssumption
<1>2. /\ p \in Seq(Nat) /\ n \in Nat
      /\ \A j \in 1..n : p[j] = cursor + (j - 1)
  BY MemoryPage
<1>3. n = Lowest(PageLimit, total - cursor)
  <2> DEFINE d == cursor - base
             m == Lowest(d + PageLimit, Len(events))
  <2>1. d \in Nat /\ d <= Len(events) /\ total - cursor = Len(events) - d
    BY <1>1
  <2>2. m \in Nat /\ m >= d /\ m <= Len(events) /\ m - d = Lowest(PageLimit, Len(events) - d)
    BY <1>1, <2>1 DEF Lowest
  <2>3. p = SubSeq(events, d + 1, m)
    BY <1>1 DEF PageOf
  <2> HIDE DEF d, m
  <2>4. Len(SubSeq(events, d + 1, m)) = m - d
    BY <1>1, <2>1, <2>2
  <2>5. QED
    BY <2>1, <2>2, <2>3, <2>4
<1>4. n \in 0..PageLimit /\ n <= total - cursor /\ (n = 0 => cursor = total)
  BY <1>1, <1>2, <1>3 DEF Lowest
<1>5. page' = [j \in 1..n |-> cursor + j - 1]
  <2>1. page' = p
    BY DEF Answer
  <2>2. p = [j \in 1..n |-> p[j]]
    BY <1>2
  <2>3. \A j \in 1..n : cursor + j - 1 = cursor + (j - 1)
    BY <1>1, <1>2
  <2> HIDE DEF p, n
  <2>4. QED
    BY <1>2, <2>1, <2>2, <2>3
<1>6. asked' = cursor /\ cursor' = cursor + n
  BY DEF Answer
<1> HIDE DEF p, n
<1>7. Stream!Deliver
  BY <1>4, <1>5, <1>6 DEF Stream!Deliver
<1>8. QED
  BY <1>1, <1>2, <1>4, <1>6, <1>7

(* No rows are left of a run that was pruned: an answer without events. *)
LEMMA PrunedDelivers ==
  ASSUME LogInv, StreamInv, ReadRows, ~stored
  PROVE  Stream!Deliver /\ cursor' = cursor
<1>1. rows = <<>> /\ Len(rows) = 0 /\ reader = "rows" /\ ~held /\ total' = total
  BY DEF StreamInv, ReadRows, recordVars, LogInv, ReaderInv
<1>2. PICK n \in 0..Len(rows) :
        /\ Answer([j \in DOMAIN Stretch(n) |-> Stretch(n)[j].event])
        /\ cursor' = NextCursor(Stretch(n))
  BY DEF ReadRows, Stretch
<1>3. Stretch(n) = <<>>
  <2>1. n = 0 /\ PageLimit \in Nat
    BY <1>1, SizesAssumption
  <2>2. Lowest(n + PageLimit, Len(rows)) = 0
    BY <1>1, <2>1 DEF Lowest
  <2>3. QED
    BY <1>1, <2>1, <2>2 DEF Stretch
<1>4. page' = [j \in 1..0 |-> cursor + j - 1] /\ asked' = cursor
  <2>1. DOMAIN Stretch(n) = {} /\ 1..0 = {}
    BY <1>3
  <2>2. [j \in DOMAIN Stretch(n) |-> Stretch(n)[j].event] = [j \in 1..0 |-> cursor + j - 1]
    BY <2>1
  <2>3. QED
    BY <1>2, <2>2 DEF Answer
<1>5. cursor' = cursor /\ cursor \in Nat /\ total \in Nat /\ cursor <= total
  BY <1>2, <1>3, SizesAssumption DEF NextCursor, LogInv, TypeOK, StreamInv
<1>6. 0 \in 0..PageLimit /\ 0 <= total - cursor /\ cursor' = cursor + 0 /\ ~Kept
  BY <1>1, <1>5, SizesAssumption DEF Kept
<1>7. QED
  BY <1>1, <1>4, <1>5, <1>6 DEF Stream!Deliver

(* So is the error that tells of a run that is gone. *)
LEMMA RefusedDelivers ==
  ASSUME LogInv, StreamInv, ~Kept, Refused, total' = total
  PROVE  Stream!Deliver /\ cursor' = cursor
<1>1. cursor' = cursor /\ cursor \in Nat /\ total \in Nat /\ cursor <= total
  BY SizesAssumption DEF Refused, LogInv, TypeOK, StreamInv
<1>2. page' = <<>> /\ asked' = cursor
  BY DEF Refused
<1>3. page' = [j \in 1..0 |-> cursor + j - 1]
  BY <1>2
<1>4. 0 \in 0..PageLimit /\ 0 <= total - cursor /\ cursor' = cursor + 0
  BY <1>1, SizesAssumption
<1>5. QED
  BY <1>1, <1>2, <1>3, <1>4 DEF Stream!Deliver

(* A page of the rows, for a cursor between the run's columns. *)
LEMMA StoreDelivers ==
  ASSUME Calm, LogInv, StreamInv, ReadRows, stored
  PROVE  Stream!Deliver /\ cursor' <= total
<1>1. PICK n \in 0..Len(rows) :
        /\ \A j \in 1..Len(rows) : rows[j].cursor < cursor <=> j <= n
        /\ Answer([j \in DOMAIN Stretch(n) |-> Stretch(n)[j].event])
        /\ cursor' = NextCursor(Stretch(n))
  BY DEF ReadRows, Stretch
<1>2. /\ reader = "rows" /\ ~held /\ total' = total
      /\ diskOldest <= cursor /\ cursor <= diskTotal
  BY DEF ReadRows, recordVars, LogInv, ReaderInv, StreamInv
<1>3. /\ diskTotal = total
      /\ \A j \in 1..Len(rows) : rows[j].event = rows[j].cursor
  BY <1>2, SettledStore
<1>4. /\ cursor \in Nat /\ total \in Nat /\ diskOldest \in Nat /\ Len(rows) \in Nat
      /\ PageLimit \in Nat \ {0} /\ rows \in Seq(Rows)
      /\ diskOldest + Len(rows) = total
      /\ \A j \in 1..Len(rows) : rows[j].cursor = diskOldest + j - 1
  <2>1. cursor \in Nat /\ total \in Nat /\ diskOldest \in Nat /\ rows \in Seq(Rows)
    BY SizesAssumption DEF LogInv, TypeOK, Rows
  <2>2. Len(rows) \in Nat
    BY <2>1
  <2>3. diskOldest + Len(rows) = total /\ \A j \in 1..Len(rows) : rows[j].cursor = diskOldest + j - 1
    BY <1>3 DEF LogInv, StoreInv, StoreWindow
  <2>4. QED
    BY <2>1, <2>2, <2>3, SizesAssumption
<1>5. \A j \in 1..Len(rows) : rows[j].cursor = diskOldest + (j - 1) /\ rows[j].cursor \in Nat
  BY <1>4, SizesHaveEnds
<1>6. n = cursor - diskOldest /\ n \in Nat
  <2>1. n \in Nat /\ n <= Len(rows)
    BY <1>4
  <2>2. CASE n = 0 /\ Len(rows) = 0
    BY <1>2, <1>3, <1>4, <2>2
  <2>3. CASE n = 0 /\ Len(rows) > 0
    <3>1. 1 \in 1..Len(rows) /\ ~(rows[1].cursor < cursor)
      BY <1>1, <1>4, <2>3
    <3>2. rows[1].cursor = diskOldest
      BY <1>4, <1>5, <3>1
    <3>3. QED
      BY <1>2, <1>4, <2>3, <3>1, <3>2
  <2>4. CASE n > 0 /\ n = Len(rows)
    <3>1. n \in 1..Len(rows) /\ rows[n].cursor < cursor
      BY <1>1, <2>1, <2>4
    <3>2. rows[n].cursor = diskOldest + (n - 1)
      BY <1>5, <3>1
    <3>3. QED
      BY <1>2, <1>3, <1>4, <2>1, <2>4, <3>1, <3>2
  <2>5. CASE n > 0 /\ n < Len(rows)
    <3>1. n \in 1..Len(rows) /\ rows[n].cursor < cursor
      BY <1>1, <2>1, <2>5
    <3>2. n + 1 \in 1..Len(rows) /\ ~(rows[n + 1].cursor < cursor)
      BY <1>1, <1>4, <2>1, <2>5
    <3>3. rows[n].cursor = diskOldest + (n - 1)
      BY <1>5, <3>1
    <3>4. rows[n + 1].cursor = diskOldest + n
      BY <1>4, <1>5, <2>1, <3>2
    <3>5. QED
      BY <1>4, <2>1, <3>1, <3>2, <3>3, <3>4
  <2>6. QED
    BY <1>4, <2>1, <2>2, <2>3, <2>4, <2>5
<1> DEFINE s == Stretch(n)
           k == Len(s)
<1>7. /\ s \in Seq(Rows)
      /\ \A j \in 1..k : n + j \in 1..Len(rows) /\ s[j] = rows[n + j]
  BY <1>1, StorePage
<1>8. k = Lowest(PageLimit, total - cursor) /\ k \in Nat
  <2> DEFINE m == Lowest(n + PageLimit, Len(rows))
  <2>1. total - cursor = Len(rows) - n /\ n <= Len(rows)
    BY <1>1, <1>4, <1>6
  <2>2. m \in Nat /\ m >= n /\ m <= Len(rows) /\ m - n = Lowest(PageLimit, Len(rows) - n)
    BY <1>4, <1>6, <2>1 DEF Lowest
  <2>3. s = SubSeq(rows, n + 1, m)
    BY DEF Stretch
  <2> HIDE DEF m, s
  <2>4. Len(SubSeq(rows, n + 1, m)) = m - n
    <3>1. m \in Nat /\ n \in Nat /\ n <= m /\ (n + 1) \in Int
      BY <1>4, <1>6, <2>1, <2>2
    <3>2. QED
      BY <3>1, SMTT(30)
  <2>5. k = m - n
    BY <2>3, <2>4
  <2> HIDE DEF k
  <2>6. m - n \in Nat
    BY <1>4, <1>6, <2>2
  <2>7. QED
    BY <2>1, <2>2, <2>5, <2>6
<1>9. k \in 0..PageLimit /\ k <= total - cursor /\ (k = 0 => cursor = total)
  BY <1>2, <1>3, <1>4, <1>8 DEF Lowest
<1> HIDE DEF s, k
<1>10. \A j \in 1..k : s[j].event = cursor + j - 1 /\ s[j].cursor = cursor + j - 1
  <2> TAKE j \in 1..k
  <2>1. n + j \in 1..Len(rows) /\ s[j] = rows[n + j]
    BY <1>7
  <2>2. rows[n + j].cursor = diskOldest + ((n + j) - 1) /\ rows[n + j].event = rows[n + j].cursor
    BY <1>3, <1>5, <2>1
  <2>3. j \in Nat
    BY <1>8
  <2>4. diskOldest + ((n + j) - 1) = cursor + j - 1
    BY <1>4, <1>6, <2>3
  <2>5. QED
    BY <2>1, <2>2, <2>4
<1>11. DOMAIN s = 1..k
  BY <1>7 DEF k
<1>12. page' = [j \in 1..k |-> cursor + j - 1] /\ asked' = cursor
  <2>1. page' = [j \in DOMAIN s |-> s[j].event] /\ asked' = cursor
    BY <1>1 DEF Answer, s
  <2>2. QED
    BY <1>10, <1>11, <2>1
<1>13. cursor' = cursor + k
  <2>1. cursor' = IF s = <<>> THEN cursor ELSE s[k].cursor + 1
    BY <1>1 DEF NextCursor, s, k
  <2>2. s = <<>> <=> k = 0
    BY <1>7 DEF k
  <2>3. k # 0 => k \in 1..k
    BY <1>8
  <2>4. QED
    BY <1>4, <1>8, <1>10, <2>1, <2>2, <2>3
<1>14. Stream!Deliver
  BY <1>2, <1>9, <1>12, <1>13 DEF Stream!Deliver
<1>15. QED
  BY <1>4, <1>8, <1>9, <1>13, <1>14

-----------------------------------------------------------------------------
(* The steps. *)

LEMMA StreamStep ==
  ASSUME Calm, LogInv, StreamInv, [Next]_vars
  PROVE  StreamInv' /\ [Stream!Next]_(Stream!vars)
<1>1. /\ cursor \in Nat /\ total \in Nat /\ base \in Nat /\ Len(events) \in Nat
      /\ diskOldest \in Nat /\ diskTotal \in Nat /\ Len(rows) \in Nat
      /\ base + Len(events) = total /\ diskOldest + Len(rows) = diskTotal
  <2>1. events \in Seq(Nat) /\ rows \in Seq(Rows)
    BY DEF LogInv, TypeOK, Rows
  <2>2. Len(events) \in Nat /\ Len(rows) \in Nat
    BY <2>1
  <2>3. cursor \in Nat /\ total \in Nat /\ base \in Nat /\ diskOldest \in Nat /\ diskTotal \in Nat
    BY SizesAssumption DEF LogInv, TypeOK
  <2>4. QED
    BY <2>2, <2>3 DEF LogInv, MemoryInv, MemoryWindow, StoreInv, StoreWindow
<1>2. reader \in {"store", "rows"} => ~held /\ collector = "ended" /\ (stored => diskTotal = total)
  BY SettledStore DEF LogInv, ReaderInv, StreamInv
<1>3. ASSUME NEW l \in Lines, AppendMemory(l) PROVE StreamInv' /\ Stream!Emit
  <2>1. /\ total' = total + 1 /\ collector = "reading" /\ collector' = "appending"
        /\ UNCHANGED <<held, stored, cursor, asked, page, reader, rows, diskOldest, diskTotal>>
    BY <1>3 DEF AppendMemory, keepVars, diskVars, readVars, answerVars
  <2>2. held /\ stored /\ Kept /\ Kept' = Kept
    BY <2>1 DEF StreamInv, Kept
  <2>3. QED
    BY <1>1, <2>1, <2>2 DEF StreamInv, Stream!Emit
<1>4. ASSUME CollectorStep \/ Ends \/ UNCHANGED vars
      PROVE  StreamInv' /\ UNCHANGED <<Kept, total, cursor, asked, page>>
  <2>1. /\ UNCHANGED <<total, cursor, asked, page, reader, held, stored>>
        /\ UNCHANGED <<rows, diskOldest, diskTotal>> \/ collector = "appending"
    BY <1>4 DEF CollectorStep, AppendStore, AppendFails, Ends, vars, recordVars, keepVars, diskVars,
       readVars, answerVars
  <2>2. collector' # "dead" /\ (~held' \/ ~stored' => collector' = "ended")
    BY <1>4, <2>1 DEF CollectorStep, AppendStore, AppendFails, Ends, vars, StreamInv, Calm
  <2>3. ~stored' => rows' = <<>>
    BY <2>1 DEF StreamInv
  <2>4. reader' = "rows" /\ stored' => diskOldest' <= cursor' /\ cursor' <= diskTotal'
    BY <1>2, <2>1 DEF StreamInv
  <2>5. QED
    BY <2>1, <2>2, <2>3, <2>4 DEF StreamInv, Kept
<1>9. ASSUME Forget \/ Prune
      PROVE  StreamInv' /\ UNCHANGED <<total, cursor, asked, page>> /\ (Kept' = Kept \/ (Kept /\ Kept' = FALSE))
  <2>1. /\ UNCHANGED <<total, cursor, asked, page, reader, collector>>
        /\ collector = "ended" /\ (stored' => UNCHANGED <<diskOldest, diskTotal, rows, stored>>)
        /\ (~stored' => rows' = <<>>)
    BY <1>9 DEF Forget, Prune, Calm, StreamInv, recordVars, diskVars, readVars, answerVars
  <2>2. Kept /\ held' \in BOOLEAN /\ stored' \in BOOLEAN
    BY <1>9 DEF Forget, Prune, Kept, LogInv, TypeOK
  <2>3. QED
    BY <2>1, <2>2 DEF StreamInv, Kept
<1>5. ~Crash
  BY DEF Crash, Calm
<1>6. ASSUME Lookup PROVE StreamInv' /\ UNCHANGED <<Kept, total, cursor, asked, page>>
  BY <1>6 DEF Lookup, StreamInv, Kept, recordVars, keepVars, diskVars, answerVars
<1>7. ASSUME ReadMemory \/ ReadColumns \/ ReadRows
      PROVE  /\ StreamInv' /\ Kept' = Kept
             /\ Stream!Skip \/ Stream!Deliver \/ UNCHANGED <<total, cursor, asked, page>>
  <2>1. UNCHANGED <<total, collector, held, stored, rows, diskOldest, diskTotal, Kept>>
    BY <1>7 DEF ReadMemory, ReadColumns, ReadRows, Kept, recordVars, keepVars, diskVars
  <2>2. ASSUME UNCHANGED answerVars, reader' = "idle"
        PROVE  StreamInv' /\ UNCHANGED <<total, cursor, asked, page>>
    BY <2>1, <2>2 DEF StreamInv, answerVars
  <2>3. ASSUME cursor' <= total, reader' = "idle" PROVE StreamInv'
    BY <2>1, <2>3 DEF StreamInv
  <2>4. CASE ReadMemory
    <3>1. reader' = "idle"
      BY <2>4 DEF ReadMemory
    <3>2. CASE Expired(base, base + Len(events))
      <4>1. Stream!Skip /\ cursor' = base
        BY <1>1, <2>1, <3>2, ExpiredSkips
      <4>2. QED
        BY <1>1, <2>1, <2>3, <3>1, <4>1
    <3>3. ~Beyond(base + Len(events))
      <4>1. cursor <= total
        BY DEF StreamInv
      <4>2. ~(cursor > base + Len(events))
        BY <1>1, <4>1
      <4>3. QED
        BY <4>2 DEF Beyond
    <3>4. CASE /\ base <= cursor /\ cursor <= base + Len(events) /\ Answer(PageOf(cursor))
               /\ cursor' = cursor + Len(PageOf(cursor))
      BY <2>1, <2>3, <3>1, <3>4, MemoryDelivers
    <3>5. QED
      BY <2>1, <2>4, <3>2, <3>3, <3>4 DEF ReadMemory
  <2>5. CASE ReadColumns
    <3>1. stored => diskTotal = total
      BY <1>2, <2>5 DEF ReadColumns
    <3>6. CASE ~stored /\ Refused /\ reader' = "idle"
      <4>1. ~Kept
        BY <1>2, <2>5, <3>6 DEF ReadColumns, Kept
      <4>2. Stream!Deliver /\ cursor' = cursor
        BY <2>1, <3>6, <4>1, RefusedDelivers
      <4>3. QED
        BY <1>1, <2>1, <2>3, <3>6, <4>2 DEF StreamInv
    <3>2. CASE stored /\ Expired(diskOldest, diskTotal) /\ reader' = "idle"
      <4>1. Stream!Skip /\ cursor' = diskOldest
        BY <1>1, <2>1, <3>1, <3>2, ExpiredSkips
      <4>2. QED
        BY <1>1, <2>1, <2>3, <3>1, <3>2, <4>1
    <3>3. stored => ~Beyond(diskTotal)
      <4>1. cursor <= total
        BY DEF StreamInv
      <4>2. stored => ~(cursor > diskTotal)
        BY <1>1, <3>1, <4>1
      <4>3. QED
        BY <4>2 DEF Beyond
    <3>4. CASE /\ diskOldest <= cursor /\ cursor <= diskTotal
               /\ reader' = "rows" /\ UNCHANGED answerVars
      BY <2>1, <3>4 DEF StreamInv, answerVars
    <3>5. QED
      BY <2>1, <2>5, <3>2, <3>3, <3>4, <3>6 DEF ReadColumns
  <2>6. CASE ReadRows
    <3>1. reader' = "idle"
      BY <2>6 DEF ReadRows
    <3>2. Stream!Deliver /\ cursor' <= total
      BY <2>6, StoreDelivers, PrunedDelivers DEF StreamInv
    <3>3. QED
      BY <2>1, <2>3, <3>1, <3>2
  <2>7. QED
    BY <1>7, <2>4, <2>5, <2>6
<1>8. QED
  BY <1>3, <1>4, <1>5, <1>6, <1>7, <1>9
     DEF Next, ReaderStep, Stream!Next, Stream!Answer, Stream!LetGo, Stream!vars, Stream!seen

LEMMA StreamInitially == Init => Stream!Init
BY DEF Init, Stream!Init, Kept

(* controller.py and store.py keep README.md's promise: as long as appends   *)
(* succeed, whatever the limits and however long the output, a reader that   *)
(* follows next_cursor over both tiers sees one stream of events, cursors    *)
(* 0, 1, 2, ..., with nothing left out of an answer while either tier has    *)
(* the run.                                                                  *)
THEOREM StreamRefinement ==
  ASSUME Calm
  PROVE  Spec => Stream!Spec
<1>1. LogInv /\ StreamInv /\ [Next]_vars => StreamInv' /\ [Stream!Next]_(Stream!vars)
  BY StreamStep
<1>2. QED
  BY <1>1, StreamInit, StreamInitially, LogInvariant, PTL DEF Spec, Stream!Spec

-----------------------------------------------------------------------------
(* What a reader moves past. *)

(* The reader moves past an event only when the event is in the answer, or  *)
(* older than all the tier that answers has kept.                           *)
LEMMA CursorMoves ==
  ASSUME Calm, LogInv, StreamInv, Next
  PROVE  \/ cursor' = cursor
         \/ Stream!Deliver
         \/ reader = "memory" /\ cursor' = base
         \/ reader = "store" /\ ~held /\ stored /\ cursor' = diskOldest
<1>1. ASSUME \/ \E l \in Lines : AppendMemory(l)
             \/ CollectorStep \/ Ends \/ Forget \/ Prune \/ Crash \/ Lookup
      PROVE  cursor' = cursor
  BY <1>1 DEF AppendMemory, CollectorStep, AppendStore, AppendFails, Ends, Forget, Prune, Crash, Lookup,
     readVars, answerVars
<1>2. ASSUME ReadMemory PROVE cursor' = cursor \/ Stream!Deliver \/ (reader = "memory" /\ cursor' = base)
  <2>1. reader = "memory" /\ total' = total
    BY <1>2 DEF ReadMemory, recordVars
  <2>2. CASE /\ base <= cursor /\ cursor <= base + Len(events) /\ Answer(PageOf(cursor))
             /\ cursor' = cursor + Len(PageOf(cursor))
    BY <2>1, <2>2, MemoryDelivers
  <2>3. QED
    BY <1>2, <2>1, <2>2 DEF ReadMemory, Expired, Beyond, Refused
<1>3. ASSUME ReadColumns PROVE cursor' = cursor \/ (reader = "store" /\ ~held /\ stored /\ cursor' = diskOldest)
  BY <1>3 DEF ReadColumns, Expired, Beyond, Refused, answerVars, LogInv, ReaderInv
<1>4. ASSUME ReadRows PROVE Stream!Deliver
  BY <1>4, StoreDelivers, PrunedDelivers DEF LogInv, TypeOK
<1>5. QED
  BY <1>1, <1>2, <1>3, <1>4 DEF Next, ReaderStep

LEMMA SkippedEvents ==
  ASSUME Calm, LogInv, StreamInv, Next, NEW e \in cursor..(cursor' - 1)
  PROVE  \/ e \in Range(page')
         \/ IF reader = "memory" THEN e \notin Range(events)
                                 ELSE \A j \in 1..Len(rows) : rows[j].event # e
<1>1. /\ cursor \in Nat /\ base \in Nat /\ diskOldest \in Nat
      /\ events \in Seq(Nat) /\ Len(rows) \in Nat
  BY DEF LogInv, TypeOK
<1>2. CASE cursor' = cursor
  BY <1>1, <1>2
<1>3. CASE Stream!Deliver
  <2>1. PICK n \in 0..PageLimit : /\ page' = [j \in 1..n |-> cursor + j - 1]
                                  /\ cursor' = cursor + n
    BY <1>3 DEF Stream!Deliver
  <2>2. n \in Nat
    BY <2>1, SizesAssumption
  <2>3. /\ e \in Nat /\ (e - cursor) + 1 \in 1..n
        /\ cursor + ((e - cursor) + 1) - 1 = e
    BY <1>1, <2>1, <2>2
  <2>4. DOMAIN page' = 1..n /\ page'[(e - cursor) + 1] = cursor + ((e - cursor) + 1) - 1
    BY <2>1, <2>3
  <2>5. QED
    BY <2>3, <2>4 DEF Range
<1>4. CASE reader = "memory" /\ cursor' = base
  <2>1. e \in Nat /\ e < base
    BY <1>1, <1>4
  <2>2. ASSUME NEW j \in DOMAIN events PROVE events[j] # e
    <3>1. j \in Nat /\ j >= 1 /\ j \in 1..Len(events)
      BY <1>1
    <3>2. events[j] = base + j - 1
      BY <3>1 DEF LogInv, MemoryInv, MemoryWindow
    <3>3. QED
      BY <1>1, <2>1, <3>1, <3>2
  <2>3. QED
    BY <1>4, <2>2 DEF Range
<1>5. CASE reader = "store" /\ ~held /\ stored /\ cursor' = diskOldest
  <2>1. e \in Nat /\ e < diskOldest
    BY <1>1, <1>5
  <2>2. ASSUME NEW j \in 1..Len(rows) PROVE rows[j].event # e
    <3>1. rows[j].event = diskOldest + j - 1
      BY <1>5, SettledStore DEF LogInv, StoreInv, StoreWindow
    <3>2. j \in Nat /\ j >= 1
      BY <1>1
    <3>3. QED
      BY <1>1, <2>1, <3>1, <3>2
  <2>3. QED
    BY <1>5, <2>2
<1>6. QED
  BY <1>2, <1>3, <1>4, <1>5, CursorMoves

(* Expiry costs a reader nothing that the tier it asked could still give it, *)
(* for any limits of the two tiers and any size of a page.                   *)
THEOREM SkipSafety ==
  ASSUME Calm
  PROVE  Spec => SkipsOnlyExpired
<1>1. LogInv /\ StreamInv /\ [Next]_vars => StreamInv'
  BY StreamStep
<1>2. LogInv /\ StreamInv /\ [Next]_vars =>
        [\A e \in cursor..(cursor' - 1) :
            \/ e \in Range(page')
            \/ IF reader = "memory" THEN e \notin Range(events)
                                    ELSE \A j \in 1..Len(rows) : rows[j].event # e]_vars
  BY SkippedEvents
<1>3. QED
  BY <1>1, <1>2, StreamInit, LogInvariant, PTL DEF Spec, SkipsOnlyExpired

-----------------------------------------------------------------------------
(* The reader keeps reading. *)

(* The rows before a cursor come first, so that ReadRows finds its own. *)
ReaderReady ==
    reader = "rows" =>
        \E n \in 0..Len(rows) : \A j \in 1..Len(rows) : rows[j].cursor < cursor <=> j <= n

LEMMA ReaderIsReady == LogInv => ReaderReady
<1>1. SUFFICES ASSUME LogInv PROVE ReaderReady
  OBVIOUS
<1>2. cursor \in Nat /\ diskOldest \in Nat /\ rows \in Seq(Rows)
  BY <1>1 DEF LogInv, TypeOK, Rows
<1>3. Len(rows) \in Nat /\ \A j \in 1..Len(rows) : rows[j].cursor = diskOldest + j - 1
  BY <1>1, <1>2 DEF LogInv, StoreInv, StoreWindow
<1> DEFINE n == IF cursor <= diskOldest THEN 0
                ELSE Lowest(cursor - diskOldest, Len(rows))
<1>4. n \in 0..Len(rows) /\ \A j \in 1..Len(rows) : rows[j].cursor < cursor <=> j <= n
  BY <1>2, <1>3 DEF Lowest
<1>5. QED
  BY <1>4 DEF ReaderReady

(* What no prover here can compute: that the guards are all ENABLED asks, and *)
(* what a step that changes the answer says.  ReaderGoesOn, which TLC checks, *)
(* says it of the reader without its guard.                                   *)
GuardsEnable ==
    /\ ReaderReady => ENABLED <<ReaderStep>>_vars
    /\ ENABLED <<Stream!Inform>>_(Stream!seen) => News

LEMMA GuardsAreWeaker == ReaderGoesOn => GuardsEnable
BY DEF ReaderGoesOn, GuardsEnable

Told == <<Stream!Inform>>_(Stream!seen)

(* With news, an answer that delivers or skips is not the one before. *)
LEMMA NewsIsTold ==
  ASSUME LogInv, News, Stream!Deliver \/ Stream!Skip
  PROVE  Told
<1>1. cursor \in Nat /\ total \in Nat
  BY SizesAssumption DEF LogInv, TypeOK
<1>2. ASSUME Stream!Skip PROVE cursor' # cursor
  BY <1>1, <1>2 DEF Stream!Skip
<1>3. ASSUME Stream!Deliver PROVE cursor' # cursor \/ page' # page \/ asked' # asked
  <2>1. PICK n \in 0..PageLimit :
          /\ n <= total - cursor
          /\ n = 0 /\ Kept => cursor = total
          /\ page' = [j \in 1..n |-> cursor + j - 1]
          /\ asked' = cursor
          /\ cursor' = cursor + n
    BY <1>3 DEF Stream!Deliver
  <2>2. n \in Nat
    BY <2>1, SizesAssumption
  <2>3. CASE n = 0
    <3>1. page' = <<>>
      <4>1. page' = [j \in 1..0 |-> cursor + j - 1]
        BY <2>1, <2>3
      <4>2. QED
        BY <4>1
    <3>2. page # <<>> \/ asked # cursor
      BY <1>1, <2>1, <2>3 DEF News
    <3>3. QED
      BY <2>1, <3>1, <3>2
  <2>4. CASE n > 0
    BY <1>1, <2>1, <2>2, <2>4
  <2>5. QED
    BY <2>2, <2>3, <2>4
<1>4. QED
  BY <1>2, <1>3 DEF Told, News, Stream!Inform, Stream!Answer, Stream!seen

(* A look at a tier that ends the reader's turn tells it the news. *)
LEMMA LooksTell ==
  ASSUME Calm, LogInv, StreamInv, News
  PROVE  /\ ReadMemory => Told
         /\ ReadColumns => reader' = "rows" \/ Told
         /\ ReadRows => Told
<1>1. /\ cursor \in Nat /\ total \in Nat /\ base \in Nat /\ Len(events) \in Nat
      /\ base + Len(events) = total /\ cursor <= total
      /\ diskOldest \in Nat /\ Len(rows) \in Nat /\ diskOldest + Len(rows) = diskTotal
  <2>1. events \in Seq(Nat) /\ rows \in Seq(Rows)
    BY DEF LogInv, TypeOK, Rows
  <2>2. Len(events) \in Nat /\ Len(rows) \in Nat
    BY <2>1
  <2>3. cursor \in Nat /\ total \in Nat /\ base \in Nat /\ diskOldest \in Nat
    BY SizesAssumption DEF LogInv, TypeOK
  <2>4. QED
    BY <2>2, <2>3 DEF LogInv, MemoryInv, MemoryWindow, StoreInv, StoreWindow, StreamInv
<1>2. ASSUME ReadMemory PROVE Told
  <2>1. total' = total
    BY <1>2 DEF ReadMemory, recordVars
  <2>2. CASE Expired(base, base + Len(events))
    BY <1>1, <2>1, <2>2, ExpiredSkips, NewsIsTold 
  <2>3. ~Beyond(base + Len(events))
    BY <1>1 DEF Beyond
  <2>4. CASE /\ base <= cursor /\ cursor <= base + Len(events) /\ Answer(PageOf(cursor))
             /\ cursor' = cursor + Len(PageOf(cursor))
    BY <2>1, <2>4, MemoryDelivers, NewsIsTold
  <2>5. QED
    BY <1>2, <2>2, <2>3, <2>4 DEF ReadMemory
<1>3. ASSUME ReadColumns PROVE reader' = "rows" \/ Told
  <2>1. total' = total /\ ~held
    BY <1>3 DEF ReadColumns, recordVars, LogInv, ReaderInv
  <2>2. diskTotal = total
    BY <2>1, SettledStore DEF News, Kept
  <2>5. stored
    BY <2>1 DEF News, Kept
  <2>3. CASE Expired(diskOldest, diskTotal)
    BY <1>1, <2>1, <2>2, <2>3, ExpiredSkips, NewsIsTold
  <2>4. ~Beyond(diskTotal)
    BY <1>1, <2>2 DEF Beyond
  <2>6. QED
    BY <1>3, <2>3, <2>4, <2>5 DEF ReadColumns
<1>4. ASSUME ReadRows PROVE Told
  BY <1>4, StoreDelivers, PrunedDelivers, NewsIsTold DEF LogInv, TypeOK
<1>5. QED
  BY <1>2, <1>3, <1>4

(* Only the reader moves itself. *)
LEMMA OthersLeaveReader ==
  ASSUME Calm, Next, ~ReaderStep
  PROVE  reader' = reader
BY DEF Next, AppendMemory, CollectorStep, AppendStore, AppendFails, Ends, Forget, Prune, Crash, Calm,
   readVars

LEMMA ReaderAdvances ==
  ASSUME Calm, LogInv, StreamInv, ReaderStep
  PROVE  /\ reader = "idle" => reader' = "memory" \/ reader' = "store"
         /\ reader = "memory" /\ News => Told
         /\ reader = "store" /\ News => reader' = "rows" \/ Told
         /\ reader = "rows" /\ News => Told
<1>1. /\ reader = "idle" => Lookup
      /\ reader = "memory" => ReadMemory
      /\ reader = "store" => ReadColumns
      /\ reader = "rows" => ReadRows
  BY DEF ReaderStep, Lookup, ReadMemory, ReadColumns, ReadRows
<1>2. Lookup => reader' = "memory" \/ reader' = "store"
  BY DEF Lookup
<1>3. QED
  BY <1>1, <1>2, LooksTell

(* The whole of StreamSpec: the two tiers also answer whenever CursorStream  *)
(* must.  As long as there is news the reader goes round: it looks up the    *)
(* tier, asks it, and an answer, if not of the first SELECT, is the news.    *)
THEOREM StreamLiveness ==
  ASSUME Calm
  PROVE  FairSpec /\ []GuardsEnable => StreamSpec
<1> DEFINE I == LogInv /\ StreamInv
           D == Told
<1>1. I /\ [Next]_vars => StreamInv'
  BY StreamStep
<1>2. /\ I /\ reader = "idle" /\ [Next]_vars =>
           (reader = "idle")' \/ (reader = "memory")' \/ (reader = "store")'
      /\ I /\ News /\ reader = "memory" /\ [Next]_vars => (reader = "memory")' \/ D
      /\ I /\ News /\ reader = "store" /\ [Next]_vars =>
           (reader = "store")' \/ (reader = "rows")' \/ D
      /\ I /\ News /\ reader = "rows" /\ [Next]_vars => (reader = "rows")' \/ D
  <2>1. UNCHANGED vars => reader' = reader
    BY DEF vars, readVars
  <2>2. QED
    BY <2>1, OthersLeaveReader, ReaderAdvances
<1>3. /\ I /\ reader = "idle" /\ <<ReaderStep>>_vars =>
           (reader = "memory")' \/ (reader = "store")'
      /\ I /\ News /\ reader = "memory" /\ <<ReaderStep>>_vars => D
      /\ I /\ News /\ reader = "store" /\ <<ReaderStep>>_vars => (reader = "rows")' \/ D
      /\ I /\ News /\ reader = "rows" /\ <<ReaderStep>>_vars => D
  BY ReaderAdvances
<1>4. I => reader = "idle" \/ reader = "memory" \/ reader = "store" \/ reader = "rows"
  BY DEF LogInv, TypeOK
<1>5. Spec => []I
  BY <1>1, StreamInit, LogInvariant, PTL DEF Spec
<1>6. Spec => Stream!Spec
  BY StreamRefinement
<1>7. FairSpec /\ []GuardsEnable => WF_(Stream!seen)(Stream!Inform)
  BY <1>2, <1>3, <1>4, <1>5, ReaderIsReady, PTL DEF FairSpec, Spec, GuardsEnable, Told
<1>8. FairSpec => Spec
  BY PTL DEF FairSpec
<1>9. QED
  BY <1>6, <1>7, <1>8, PTL DEF StreamSpec, Stream!FairSpec

-----------------------------------------------------------------------------
(* The reader gets to the end, whatever failed before.  What is left to read *)
(* is a number that each round of the reader makes smaller, so the proof is  *)
(* an induction over it.  An induction needs a set of numbers, and TLA+ has  *)
(* no set of the n for which a temporal formula holds; the theorem therefore *)
(* names one: in every behaviour there is such a set, and with it in hand    *)
(* AllNumbers applies.                                                       *)

Newest    == IF held THEN total ELSE diskTotal
Quiet     == collector \in {"ended", "dead"}
Gone      == collector = "dead"
Behind(n) == Quiet /\ (~Kept \/ Newest - cursor <= n)
Sees      == reader = "rows" /\ diskOldest <= cursor

Drained    == ~Kept \/ cursor >= Newest
Reaches(n) == Behind(n) ~> Drained
Falls(n)   == Behind(n + 1) ~> Behind(n)

LEMMA LogNumbers ==
  ASSUME LogInv
  PROVE  /\ cursor \in Nat /\ total \in Nat /\ diskTotal \in Nat /\ diskOldest \in Nat /\ base \in Nat
         /\ faults \in Nat /\ Len(events) \in Nat /\ Len(rows) \in Nat
         /\ base + Len(events) = total /\ diskOldest + Len(rows) = diskTotal
         /\ Newest \in Nat /\ (stored => diskTotal <= total) /\ (Kept => Newest <= total)
         /\ events \in Seq(Nat) /\ rows \in Seq(Rows) /\ PageLimit \in Nat \ {0}
<1>1. /\ cursor \in Nat /\ total \in Nat /\ diskTotal \in Nat /\ diskOldest \in Nat /\ base \in Nat
      /\ faults \in Nat /\ events \in Seq(Nat) /\ rows \in Seq(Rows) /\ PageLimit \in Nat \ {0}
  <2>1. TypeOK
    BY DEF LogInv
  <2>2. total \in Nat /\ faults \in Nat /\ PageLimit \in Nat \ {0}
    BY <2>1, SizesAssumption DEF TypeOK
  <2>3. /\ cursor \in Nat /\ diskTotal \in Nat /\ diskOldest \in Nat /\ base \in Nat
        /\ events \in Seq(Nat) /\ rows \in Seq(Rows)
    BY <2>1 DEF TypeOK, Rows
  <2>4. QED
    BY <2>2, <2>3
<1>2. Len(events) \in Nat /\ Len(rows) \in Nat
  BY <1>1
<1>3. base + Len(events) = total /\ diskOldest + Len(rows) = diskTotal
  BY DEF LogInv, MemoryInv, MemoryWindow, StoreInv, StoreWindow
<1>4. stored => diskTotal <= total
  BY <1>1 DEF LogInv, PaceInv, StoreFollows
<1>5. QED
  BY <1>1, <1>2, <1>3, <1>4 DEF Newest, Kept

(* A page of the buffer that is asked for an event the buffer has holds one. *)
LEMMA MemoryPageHasOne ==
  ASSUME LogInv, base <= cursor, cursor < base + Len(events)
  PROVE  Len(PageOf(cursor)) \in Nat \ {0}
<1>1. /\ events \in Seq(Nat) /\ base \in Nat /\ cursor \in Nat /\ PageLimit \in Nat \ {0} /\ Len(events) \in Nat
  BY LogNumbers
<1> DEFINE m == cursor - base + 1
           n == Lowest(cursor - base + PageLimit, Len(events))
<1>2. m \in 1..n /\ n \in Nat /\ n <= Len(events)
  BY <1>1 DEF Lowest
<1> HIDE DEF m, n
<1>3. Len(SubSeq(events, m, n)) = (n - m) + 1
  BY <1>1, <1>2
<1>4. QED
  BY <1>2, <1>3 DEF PageOf, m, n

(* The rows from a cursor on: an answer moves the reader if it holds a row,  *)
(* and it does if the cursor is one of the rows.                             *)
LEMMA RowsMove ==
  ASSUME LogInv, ReadRows
  PROVE  /\ cursor' \in Nat /\ cursor' >= cursor
         /\ diskOldest <= cursor /\ cursor < diskTotal => cursor' > cursor
<1>1. PICK n \in 0..Len(rows) :
        /\ \A j \in 1..Len(rows) : rows[j].cursor < cursor <=> j <= n
        /\ cursor' = NextCursor(Stretch(n))
  BY DEF ReadRows, Stretch
<1>2. /\ Stretch(n) \in Seq(Rows)
      /\ \A j \in 1..Len(Stretch(n)) :
            n + j \in 1..Len(rows) /\ Stretch(n)[j] = rows[n + j] /\ rows[n + j].cursor >= cursor
  BY <1>1, StorePage
<1>3. CASE Stretch(n) # <<>>
  <2>1. Len(Stretch(n)) \in 1..Len(Stretch(n))
    BY <1>2, <1>3
  <2>2. Stretch(n)[Len(Stretch(n))] \in Rows
    BY <1>2, <2>1
  <2>3. Stretch(n)[Len(Stretch(n))].cursor \in Nat /\ Stretch(n)[Len(Stretch(n))].cursor >= cursor
    BY <1>2, <2>1, <2>2, SizesHaveEnds
  <2>4. cursor' = Stretch(n)[Len(Stretch(n))].cursor + 1
    BY <1>1, <1>3 DEF NextCursor
  <2>5. cursor \in Nat
    BY LogNumbers
  <2>6. QED
    BY <2>3, <2>4, <2>5
<1>4. CASE Stretch(n) = <<>>
  <2>1. cursor' = cursor
    BY <1>1, <1>4 DEF NextCursor
  <2>2. ASSUME diskOldest <= cursor, cursor < diskTotal PROVE FALSE
    <3> DEFINE k == (cursor - diskOldest) + 1
    <3>1. k \in 1..Len(rows) /\ rows[k].cursor = cursor
      <4> HIDE DEF k
      <4>1. /\ cursor \in Nat /\ diskOldest \in Nat /\ Len(rows) \in Nat
            /\ diskOldest + Len(rows) = diskTotal
        BY LogNumbers
      <4>2. k = (cursor - diskOldest) + 1
        BY DEF k
      <4>3. k \in 1..Len(rows) /\ diskOldest + k - 1 = cursor
        BY <2>2, <4>1, <4>2
      <4>4. QED
        BY <4>3 DEF LogInv, StoreInv, StoreWindow
    <3> HIDE DEF k
    <3>2. ~(k <= n)
      <4>1. ~(rows[k].cursor < cursor)
        <5>1. cursor \in Nat
          BY LogNumbers
        <5>2. QED
          BY <3>1, <5>1
      <4>2. QED
        BY <1>1, <3>1, <4>1
    <3>3. n + 1 \in 1..Len(rows) /\ n \in Nat
      BY <1>1, <3>1, <3>2, LogNumbers
    <3> DEFINE m == Lowest(n + PageLimit, Len(rows))
    <3>4. m \in (n + 1)..Len(rows)
      <4>1. PageLimit \in Nat \ {0} /\ Len(rows) \in Nat
        BY LogNumbers
      <4>2. QED
        BY <3>3, <4>1 DEF Lowest
    <3> HIDE DEF m
    <3>5. Len(SubSeq(rows, n + 1, m)) = (m - (n + 1)) + 1
      BY <3>3, <3>4, LogNumbers
    <3>6. Stretch(n) = SubSeq(rows, n + 1, m)
      BY DEF Stretch, m
    <3>7. Len(Stretch(n)) > 0
      BY <3>3, <3>4, <3>5, <3>6, LogNumbers
    <3>8. QED
      BY <1>4, <3>7
  <2>3. QED
    BY <2>1, <2>2, LogNumbers
<1>5. QED
  BY <1>3, <1>4

(* Each step of the reader, while there is something to read. *)
LEMMA ReaderProgress ==
  ASSUME LogInv, ReaderStep
  PROVE  /\ cursor' \in Int /\ cursor' >= cursor
         /\ UNCHANGED <<held, stored, total, diskTotal, diskOldest, collector>>
         /\ reader = "idle" => reader' \in {"memory", "store"}
         /\ reader = "memory" /\ Kept /\ cursor < Newest => cursor' > cursor
         /\ reader = "store" /\ Kept /\ cursor < Newest => cursor' > cursor \/ Sees'
         /\ reader = "rows" => reader' = "idle"
         /\ Sees /\ cursor < Newest => cursor' > cursor
<1>1. UNCHANGED <<held, stored, total, diskTotal, diskOldest, collector>>
  BY DEF ReaderStep, Lookup, ReadMemory, ReadColumns, ReadRows, recordVars, keepVars, diskVars
<1>2. CASE Lookup
  BY <1>1, <1>2, LogNumbers DEF Lookup, answerVars, Sees
<1>3. CASE ReadMemory
  <2>1. Kept /\ cursor < Newest => cursor < total
    BY <1>3, LogNumbers DEF ReadMemory
  <2>2. CASE Expired(base, base + Len(events))
    BY <1>1, <1>3, <2>2, LogNumbers DEF Expired, ReadMemory, Sees
  <2>3. CASE Beyond(base + Len(events))
    BY <1>1, <1>3, <2>1, <2>3, LogNumbers DEF Beyond, Refused, ReadMemory, Sees
  <2>4. CASE /\ base <= cursor /\ cursor <= base + Len(events)
             /\ cursor' = cursor + Len(PageOf(cursor))
    <3>1. Len(PageOf(cursor)) \in Nat /\ (cursor < total => Len(PageOf(cursor)) > 0)
      BY <2>4, MemoryPage, MemoryPageHasOne, LogNumbers
    <3>2. cursor' \in Int /\ cursor' >= cursor /\ (cursor < total => cursor' > cursor)
      <4>1. cursor \in Nat
        BY LogNumbers
      <4>2. QED
        BY <2>4, <3>1, <4>1
    <3>3. QED
      BY <1>1, <1>3, <2>1, <3>2 DEF ReadMemory, Sees
  <2>5. QED
    BY <1>3, <2>2, <2>3, <2>4 DEF ReadMemory
<1>4. CASE ReadColumns
  <2>1. reader = "store" /\ ~held /\ Newest = diskTotal
    BY <1>4 DEF ReadColumns, LogInv, ReaderInv, Newest
  <2>2. CASE Expired(diskOldest, diskTotal)
    BY <1>1, <2>1, <2>2, LogNumbers DEF Expired, Sees
  <2>3. CASE Beyond(diskTotal)
    BY <1>1, <2>1, <2>3, LogNumbers DEF Beyond, Refused, Sees
  <2>4. CASE diskOldest <= cursor /\ reader' = "rows" /\ UNCHANGED answerVars
    BY <1>1, <2>1, <2>4, LogNumbers DEF answerVars, Sees
  <2>6. CASE ~stored /\ Refused
    BY <1>1, <2>1, <2>6, LogNumbers DEF Refused, Kept, Sees
  <2>5. QED
    BY <1>4, <2>2, <2>3, <2>4, <2>6 DEF ReadColumns
<1>5. CASE ReadRows
  <2>1. reader = "rows" /\ reader' = "idle" /\ ~held /\ Newest = diskTotal
    BY <1>5 DEF ReadRows, LogInv, ReaderInv, Newest
  <2>2. QED
    BY <1>1, <1>5, <2>1, RowsMove, LogNumbers DEF Sees
<1>6. QED
  BY <1>2, <1>3, <1>4, <1>5 DEF ReaderStep

(* What the others do once no more events come. *)
LEMMA QuietStep ==
  ASSUME LogInv, Quiet, [Next]_vars
  PROVE  /\ Quiet' /\ (Gone => Gone') /\ cursor' \in Int /\ cursor' >= cursor
         /\ Newest' \in Int /\ (Kept' => Newest' <= Newest) /\ (~Kept => ~Kept')
         /\ reader = "rows" /\ Kept' => diskOldest' = diskOldest
         /\ ReaderStep \/ UNCHANGED <<reader, cursor>> \/ (Gone' /\ ~Gone)
<1>1. CASE ReaderStep
  BY <1>1, ReaderProgress, LogNumbers DEF Quiet, Gone, Newest, Kept
<1>2. CASE Forget \/ Ends
  BY <1>2, LogNumbers DEF Forget, Ends, Quiet, Gone, Newest, Kept, recordVars, keepVars, diskVars,
     readVars, answerVars
<1>3. CASE Crash
  BY <1>3, LogNumbers DEF Crash, Quiet, Gone, Newest, Kept, recordVars, diskVars, answerVars
<1>4. CASE UNCHANGED vars
  BY <1>4, LogNumbers DEF Quiet, Gone, Newest, Kept, vars, recordVars, keepVars, diskVars,
     readVars, answerVars
<1>5. ~(\E l \in Lines : AppendMemory(l)) /\ ~CollectorStep
  BY DEF Quiet, AppendMemory, CollectorStep, AppendStore, AppendFails
<1>6. CASE Prune
  <2>1. reader = "rows" => ~held
    BY DEF LogInv, ReaderInv
  <2>2. QED
    BY <1>6, <2>1, LogNumbers DEF Prune, Quiet, Gone, Newest, Kept, recordVars, readVars, answerVars
<1>7. QED
  BY <1>1, <1>2, <1>3, <1>4, <1>5, <1>6 DEF Next

(* The reader's round, while it is n + 1 events behind at most: it looks up *)
(* the tier, asks it, and either gets nearer, or learns from the run's      *)
(* columns that its cursor is there, and then the rows bring it nearer.     *)
(* Rows it asks for at a cursor that has expired may bring it nowhere, and  *)
(* send it round again; so does a crash, which happens once.  If the run is *)
(* let go of, it is owed nothing more.                                      *)
LEMMA RoundGetsNearer ==
  ASSUME NEW n \in Nat
  PROVE  FairSpec /\ []GuardsEnable => Falls(n)
<1> DEFINE W == Behind(n + 1)
           D == Behind(n)
           X == Gone' /\ ~Gone
           Idle   == reader = "idle"
           Memory == reader = "memory"
           Store  == reader = "store"
           Stale  == reader = "rows" /\ ~Sees
<1>1. /\ LogInv /\ W /\ [Next]_vars => W'
      /\ LogInv /\ W /\ Gone /\ [Next]_vars => Gone'
  <2>1. LogInv => cursor \in Nat /\ Newest \in Nat
    BY LogNumbers
  <2>2. QED
    BY <2>1, QuietStep DEF Behind
<1>2. ASSUME LogInv, W, ~D PROVE Kept /\ cursor < Newest /\ (cursor' \in Int /\ cursor' > cursor /\ [Next]_vars => D')
  <2>1. cursor \in Nat /\ Newest \in Nat
    BY <1>2, LogNumbers
  <2>2. QED
    BY <1>2, <2>1, QuietStep DEF Behind
<1>3. /\ LogInv /\ W /\ ~D /\ Idle   /\ [Next]_vars => Idle' \/ Memory' \/ Store' \/ X
      /\ LogInv /\ W /\ ~D /\ Memory /\ [Next]_vars => Memory' \/ D' \/ X
      /\ LogInv /\ W /\ ~D /\ Store  /\ [Next]_vars => Store' \/ Sees' \/ D' \/ X
      /\ LogInv /\ W /\ ~D /\ Stale  /\ [Next]_vars => Stale' \/ Idle' \/ D' \/ X
      /\ LogInv /\ W /\ ~D /\ Sees   /\ [Next]_vars => Sees' \/ D' \/ X
  <2>1. SUFFICES ASSUME LogInv, W, ~D, [Next]_vars
                 PROVE  /\ Idle   => Idle' \/ Memory' \/ Store' \/ X
                        /\ Memory => Memory' \/ D' \/ X
                        /\ Store  => Store' \/ Sees' \/ D' \/ X
                        /\ Stale  => Stale' \/ Idle' \/ D' \/ X
                        /\ Sees   => Sees' \/ D' \/ X
    OBVIOUS
  <2>2. Kept /\ cursor < Newest /\ (reader = "rows" /\ Kept' => diskOldest' = diskOldest)
    BY <1>2, <2>1, QuietStep DEF Behind
  <2>3. CASE ReaderStep
    BY <1>2, <2>1, <2>2, <2>3, ReaderProgress
  <2>4. CASE UNCHANGED <<reader, cursor>>
    <3>1. Quiet' /\ (~Kept' => D')
      BY <2>1, QuietStep DEF Behind
    <3>2. QED
      BY <2>2, <2>4, <3>1 DEF Sees
  <2>5. QED
    BY <2>1, <2>3, <2>4, QuietStep DEF Behind
<1>4. /\ LogInv /\ W /\ ~D /\ Idle   /\ <<ReaderStep>>_vars => Memory' \/ Store'
      /\ LogInv /\ W /\ ~D /\ Memory /\ <<ReaderStep>>_vars => D'
      /\ LogInv /\ W /\ ~D /\ Store  /\ <<ReaderStep>>_vars => Sees' \/ D'
      /\ LogInv /\ W /\ ~D /\ Stale  /\ <<ReaderStep>>_vars => Idle'
      /\ LogInv /\ W /\ ~D /\ Sees   /\ <<ReaderStep>>_vars => D'
  <2>1. ReaderStep => [Next]_vars
    BY DEF Next
  <2>2. QED
    BY <1>2, <2>1, ReaderProgress
<1>5. LogInv => Idle \/ Memory \/ Store \/ Stale \/ Sees
  BY DEF LogInv, TypeOK
<1>6. FairSpec => [][Next]_vars /\ []LogInv
  BY LogInvariant, PTL DEF FairSpec, Spec
<1>7. FairSpec /\ []GuardsEnable => ((W /\ Gone) ~> D)
  BY <1>1, <1>3, <1>4, <1>5, <1>6, ReaderIsReady, PTL DEF FairSpec, GuardsEnable
<1>8. FairSpec /\ []GuardsEnable => (W ~> (D \/ (W /\ Gone)))
  BY <1>1, <1>3, <1>4, <1>5, <1>6, ReaderIsReady, PTL DEF FairSpec, GuardsEnable
<1>9. QED
  BY <1>7, <1>8, PTL DEF Falls

LEMMA NoneLeft == FairSpec => Reaches(0)
<1>1. LogInv /\ Behind(0) => Drained
  BY LogNumbers DEF Behind, Drained
<1>2. FairSpec => []LogInv
  BY LogInvariant, PTL DEF FairSpec
<1>3. QED
  BY <1>1, <1>2, PTL DEF Reaches

LEMMA OneMore ==
  ASSUME NEW n \in Nat
  PROVE  Reaches(n) /\ Falls(n) => Reaches(n + 1)
BY PTL DEF Reaches, Falls

(* README.md: once no more events come, polling gets to the end of the log,  *)
(* whichever tier answers, whatever appends failed, whatever expires on the  *)
(* way, and though Hermes may let go of the record or die meanwhile; unless  *)
(* both tiers let go of the run before.                                      *)
THEOREM DrainLiveness ==
  FairSpec /\ []GuardsEnable /\ (\E S \in SUBSET Nat : \A n \in Nat : n \in S <=> Reaches(n))
    => ReaderDrains
<1>1. ASSUME FairSpec, []GuardsEnable, NEW S \in SUBSET Nat, \A n \in Nat : n \in S <=> Reaches(n)
      PROVE  Reaches(MaxLines)
  <2>1. 0 \in S
    BY <1>1, NoneLeft
  <2>2. ASSUME NEW n \in Nat, n \in S PROVE n + 1 \in S
    <3>1. Reaches(n) /\ Falls(n)
      BY <1>1, <2>2, RoundGetsNearer
    <3>2. Reaches(n + 1)
      BY <3>1, OneMore
    <3>3. QED
      BY <1>1, <3>2
  <2>3. S = Nat
    BY <2>1, <2>2, AllNumbers
  <2>4. QED
    BY <1>1, <2>3, SizesAssumption
<1>2. LogInv /\ Quiet => Behind(MaxLines)
  BY LogNumbers, SizesAssumption DEF Behind, LogInv, TypeOK
<1>3. FairSpec => []LogInv
  BY LogInvariant, PTL DEF FairSpec
<1>4. Reaches(MaxLines) /\ []LogInv => ReaderDrains
  BY <1>2, PTL DEF Reaches, Drained, Newest, Quiet, ReaderDrains
<1>5. QED
  BY <1>1, <1>3, <1>4

=============================================================================
