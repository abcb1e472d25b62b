------------------------------ MODULE EventLog ------------------------------
(***************************************************************************)
(* The event log of one run: the bounded buffer of its RunRecord           *)
(* (_append_event), the bounded rows of its run in SQLite (RunStore.append *)
(* and _prune_events), and a reader that follows next_cursor through       *)
(* HarnessController.events, which answers from the buffer while the       *)
(* controller holds the record and from SQLite afterwards.                 *)
(*                                                                         *)
(* An event is the number of the output line it came from, counted from 0, *)
(* so that what a cursor names can be compared with what it should name.   *)
(* Both tiers keep the counters the code keeps, next to the events.  The   *)
(* size of an event is kept as the stretch [from, to] it takes when all    *)
(* sizes are put end to end: a sum of sizes is then a difference.          *)
(*                                                                         *)
(* A definition headed "Slip:" is a plausible mistake in the definition    *)
(* that follows it; nothing uses it.                                       *)
(***************************************************************************)
EXTENDS Integers, Sequences, Functions

CONSTANTS
    Lines,          \* lines the child may print: records [raw, json] of sizes
    LineCap,        \* _MAX_EVENT_LINE_BYTES
    MaxEvents,      \* max_events
    MaxBytes,       \* max_event_bytes
    PageLimit,      \* the limit the reader asks for
    MaxLines,       \* bound: lines printed
    MaxFaults,      \* bound: store.append calls that fail
    MayForgetLive,  \* whether a record may be let go while its collector runs
    MayPrune,       \* whether the store may let go of the run
    MayCrash        \* whether the Hermes process may die

ASSUME LinesAssumption ==
    \A l \in Lines : l = [raw |-> l.raw, json |-> l.json] /\ l.raw \in Nat \ {0} /\ l.json \in Nat \ {0}
ASSUME SizesAssumption ==
    /\ LineCap \in Nat \ {0} /\ MaxEvents \in Nat \ {0} /\ MaxBytes \in Nat \ {0}
    /\ PageLimit \in 1..500 /\ MaxLines \in Nat /\ MaxFaults \in Nat
    /\ MayForgetLive \in BOOLEAN /\ MayPrune \in BOOLEAN /\ MayCrash \in BOOLEAN

VARIABLES
    events, sizes, bytes, base, total,  \* the record: its two deques and its counters
    printed, written,                   \* where the next size starts, in memory and in SQLite
    held,                               \* the record is in _runs
    stored,                             \* the run has a row in SQLite
    rows, diskBytes, diskOldest, diskTotal,  \* the event rows, and the run's columns
    collector,                          \* reading, appending, ended or dead
    pending,                            \* size in SQLite of the event being persisted
    reader,                             \* idle, memory, store or rows
    cursor,                             \* what the reader will ask for
    asked, page,                        \* the last answer: its cursor and its events,
                                        \* none if it was an error
    passed,                             \* history: one more than the newest event delivered
    faults                              \* failed appends so far

recordVars == <<events, sizes, bytes, base, total, printed>>
diskVars   == <<rows, diskBytes, diskOldest, diskTotal, written>>
answerVars == <<cursor, asked, page, passed>>
readVars   == <<reader, answerVars>>
keepVars   == <<held, stored>>
vars == <<recordVars, keepVars, diskVars, collector, pending, readVars, faults>>

Lowest(m, n) == IF m < n THEN m ELSE n

Init ==
    /\ events = <<>> /\ sizes = <<>> /\ bytes = 0 /\ base = 0 /\ total = 0 /\ printed = 0
    /\ held = TRUE /\ stored = TRUE
    /\ rows = <<>> /\ diskBytes = 0 /\ diskOldest = 0 /\ diskTotal = 0 /\ written = 0
    /\ collector = "reading" /\ pending = 0
    /\ reader = "idle" /\ cursor = 0 /\ asked = 0 /\ page = <<>> /\ passed = 0
    /\ faults = 0

-----------------------------------------------------------------------------
(* A line longer than MaxLineBytes is cut: what is left of it is the event. *)
MaxLineBytes == Lowest(MaxBytes, LineCap)
\* Slip: the size of the whole line is charged.
RetainedWhole(l) == l.raw
Retained(l) == Lowest(l.raw, MaxLineBytes)

Over(n, b) == n > MaxEvents \/ b > MaxBytes

(* The sum of the sizes of the first k events of s. *)
Bytes(s, k) == IF k = 0 THEN 0 ELSE s[k].to - s[1].from

(* The eviction loops of both tiers: k is the number of oldest events that go *)
(* when a tier holds the events s and counts b bytes.                         *)
Stops(s, b, j)  == j = Len(s) \/ ~Over(Len(s) - j, b - Bytes(s, j))
Evicts(s, b, k) == k \in 0..Len(s) /\ Stops(s, b, k) /\ \A j \in 0..(k - 1) : ~Stops(s, b, j)

Without(s, k) == SubSeq(s, k + 1, Len(s))

(* _append_event under the record's lock.  The collector goes on to the store. *)
AppendMemory(l) ==
    /\ collector = "reading" /\ total < MaxLines
    /\ LET size  == [from |-> printed, to |-> printed + Retained(l)]
           added == Append(sizes, size)
       IN  \E k \in 0..Len(added) :
           /\ Evicts(added, bytes + Retained(l), k)
           /\ events' = Without(Append(events, total), k)
           /\ sizes' = Without(added, k)
           /\ bytes' = (bytes + Retained(l)) - Bytes(added, k)
           /\ base' = base + k
    /\ total' = total + 1 /\ printed' = printed + Retained(l)
    /\ pending' = l.json
    /\ collector' = "appending"
    /\ UNCHANGED <<keepVars, diskVars, readVars, faults>>

\* Slip: MIN(cursor) of an empty table is stored as it comes, say as -1.
OldestCursorNull(left, newTotal) == IF left = <<>> THEN -1 ELSE left[1].cursor
(* The oldest_cursor column: MIN(cursor), or the total when every row went. *)
OldestCursor(left, newTotal) == IF left = <<>> THEN newTotal ELSE left[1].cursor

\* Slip: the bytes of deleted rows stay in event_bytes.
BytesLeftLeak(added, k) == diskBytes + pending
(* The event_bytes column once the first k of the rows were deleted. *)
BytesLeft(added, k) == (diskBytes + pending) - Bytes(added, k)

NewRow == [cursor |-> diskTotal, event |-> total - 1, from |-> written, to |-> written + pending]

\* Slip: an event the table cannot keep is not counted.
AppendStoreSkips ==
    /\ collector = "appending" /\ stored /\ pending > MaxBytes
    /\ pending' = 0 /\ collector' = "reading"
    /\ UNCHANGED <<recordVars, keepVars, diskVars, readVars, faults>>
(* RunStore.append, one transaction: the store numbers the event by its own *)
(* count, and _prune_events works on the rows it finds.                     *)
AppendStore ==
    /\ collector = "appending" /\ stored
    /\ LET added == Append(rows, NewRow) IN
       \E k \in 0..Len(added) :
           /\ Evicts(added, diskBytes + pending, k)
           /\ rows' = Without(added, k)
           /\ diskBytes' = BytesLeft(added, k)
           /\ diskOldest' = OldestCursor(Without(added, k), diskTotal + 1)
    /\ diskTotal' = diskTotal + 1 /\ written' = written + pending
    /\ pending' = 0
    /\ collector' = "reading"
    /\ UNCHANGED <<recordVars, keepVars, readVars, faults>>

(* It raises (no row of this run, a locked database, or text UTF-8 cannot    *)
(* encode): _append_event logs that and goes on.                             *)
AppendFails ==
    /\ collector = "appending"
    /\ \/ ~stored /\ faults' = faults
       \/ stored /\ faults < MaxFaults /\ faults' = faults + 1
    /\ pending' = 0
    /\ collector' = "reading"
    /\ UNCHANGED <<recordVars, keepVars, diskVars, readVars>>

(* End of output, or an exception in the loop. *)
Ends ==
    /\ collector = "reading"
    /\ collector' = "ended"
    /\ UNCHANGED <<recordVars, keepVars, diskVars, pending, readVars, faults>>

-----------------------------------------------------------------------------
(* The record leaves the controller the reader asks: _store_run evicts it    *)
(* for a newer run once it is not running.  A run cancelled by close_now is  *)
(* not running while its collector still drains the pipe, and a controller   *)
(* opened after an unload never held it: MayForgetLive.                      *)
Forget ==
    /\ held
    /\ collector = "ended" \/ MayForgetLive
    /\ held' = FALSE
    /\ UNCHANGED <<recordVars, stored, diskVars, collector, pending, readVars, faults>>

(* _prune_runs_for_capacity, in the create of a newer run, deletes the row of *)
(* a run whose state is not running, held or not, and its events with it (ON *)
(* DELETE CASCADE).  Nothing reads the columns it had any more; here they    *)
(* become those of an empty log.                                             *)
Prune ==
    /\ MayPrune /\ stored
    /\ collector \in {"ended", "dead"} \/ MayForgetLive
    /\ stored' = FALSE
    /\ rows' = <<>> /\ diskBytes' = 0 /\ diskOldest' = diskTotal
    /\ UNCHANGED <<recordVars, held, diskTotal, written, collector, pending, readVars, faults>>

(* Hermes dies with the record and the collector; a new one reads SQLite. *)
Crash ==
    /\ MayCrash /\ collector # "dead"
    /\ collector' = "dead" /\ pending' = 0
    /\ held' = FALSE
    /\ reader' = "idle"
    /\ UNCHANGED <<recordVars, stored, diskVars, answerVars, faults>>

-----------------------------------------------------------------------------
(* HarnessController.events.  The reader is progress.py's _watch: it goes on *)
(* at next_cursor, moves to the oldest cursor when told its own expired, and *)
(* asks again after any other error.                                         *)

Answer(p) ==
    /\ page' = p /\ asked' = cursor
    /\ passed' = IF p = <<>> THEN passed ELSE p[Len(p)] + 1

(* An error that tells the reader no cursor to go on at. *)
Refused == page' = <<>> /\ asked' = cursor /\ UNCHANGED <<cursor, passed>>

\* Slip: a reader that was overtaken goes on at the newest cursor.
ExpiredNewest(oldest, newest) ==
    /\ cursor < oldest
    /\ cursor' = newest
    /\ page' = <<>> /\ asked' = newest /\ passed' = passed
\* Slip: it asks again for the cursor that expired.
ExpiredStays(oldest, newest) == cursor < oldest /\ UNCHANGED answerVars
Expired(oldest, newest) ==
    /\ cursor < oldest
    /\ cursor' = oldest
    /\ page' = <<>> /\ asked' = oldest /\ passed' = passed

\* Slip: a reader that is ahead of the log is kept waiting for it.
BeyondWaits(newest) == FALSE
Beyond(newest) == cursor > newest /\ Refused

(* Under _runs_lock: which tier answers. *)
Lookup ==
    /\ reader = "idle"
    /\ reader' = IF held THEN "memory" ELSE "store"
    /\ UNCHANGED <<recordVars, keepVars, diskVars, collector, pending, answerVars, faults>>

\* Slip: the cursor is taken for a position in the buffer.
PageOfRaw(c) == SubSeq(events, c + 1, Lowest(c + PageLimit, Len(events)))
PageOf(c) == SubSeq(events, c - base + 1, Lowest(c - base + PageLimit, Len(events)))

(* Under the record's lock; the record may have left _runs since. *)
ReadMemory ==
    /\ reader = "memory"
    /\ LET newest == base + Len(events) IN
       \/ Expired(base, newest)
       \/ Beyond(newest)
       \/ base <= cursor /\ cursor <= newest /\ Answer(PageOf(cursor))
          /\ cursor' = cursor + Len(PageOf(cursor))
    /\ reader' = "idle"
    /\ UNCHANGED <<recordVars, keepVars, diskVars, collector, pending, faults>>

(* RunStore.events: the first SELECT reads the run's columns, if there is a  *)
(* row of it ...                                                             *)
ReadColumns ==
    /\ reader = "store"
    /\ \/ /\ \/ ~stored /\ Refused
             \/ stored /\ (Expired(diskOldest, diskTotal) \/ Beyond(diskTotal))
          /\ reader' = "idle"
       \/ /\ stored /\ diskOldest <= cursor /\ cursor <= diskTotal
          /\ reader' = "rows"
          /\ UNCHANGED answerVars
    /\ UNCHANGED <<recordVars, keepVars, diskVars, collector, pending, faults>>

\* Slip: next_cursor is the cursor that was asked for.
NextCursorAsked(some) == cursor
NextCursor(some) == IF some = <<>> THEN cursor ELSE some[Len(some)].cursor + 1

(* ... and the second, outside any transaction, the rows from the cursor on: *)
(* all but the first n, and none if the run was pruned in between.           *)
ReadRows ==
    /\ reader = "rows"
    /\ \E n \in 0..Len(rows) :
       LET some == SubSeq(rows, n + 1, Lowest(n + PageLimit, Len(rows)))
       IN  /\ \A j \in 1..Len(rows) : rows[j].cursor < cursor <=> j <= n
           /\ Answer([j \in DOMAIN some |-> some[j].event])
           /\ cursor' = NextCursor(some)
    /\ reader' = "idle"
    /\ UNCHANGED <<recordVars, keepVars, diskVars, collector, pending, faults>>

-----------------------------------------------------------------------------
CollectorStep == AppendStore \/ AppendFails
ReaderStep == Lookup \/ ReadMemory \/ ReadColumns \/ ReadRows

Next ==
    \/ \E l \in Lines : AppendMemory(l)
    \/ CollectorStep \/ Ends \/ Forget \/ Prune \/ Crash \/ ReaderStep

Spec == Init /\ [][Next]_vars

(* The reader polls for ever, and store.append returns; what the child prints, *)
(* and when its output ends, is not up to the program.                         *)
FairSpec == Spec /\ WF_vars(CollectorStep) /\ WF_vars(ReaderStep)

-----------------------------------------------------------------------------
(* Every state the variables may take. *)
TypeOK ==
    /\ events \in Seq(Nat) /\ sizes \in Seq([from : Nat, to : Nat])
    /\ bytes \in Nat /\ base \in Nat /\ total \in 0..MaxLines
    /\ rows \in Seq([cursor : Nat, event : Nat, from : Nat, to : Nat])
    /\ diskBytes \in Nat /\ diskOldest \in Nat /\ diskTotal \in Nat
    /\ printed \in Nat /\ written \in Nat
    /\ held \in BOOLEAN /\ stored \in BOOLEAN
    /\ collector \in {"reading", "appending", "ended", "dead"} /\ pending \in Nat
    /\ reader \in {"idle", "memory", "store", "rows"}
    /\ cursor \in Nat /\ asked \in Nat /\ page \in Seq(Nat) /\ passed \in Nat
    /\ faults \in 0..MaxFaults

(* The buffer holds the newest events, without a hole, and its counters agree *)
(* with it: the cursor of an event is its number.  The newest event is never  *)
(* evicted, because a line is cut to what the buffer can hold.                *)
MemoryWindow ==
    /\ base + Len(events) = total
    /\ \A j \in 1..Len(events) : events[j] = base + j - 1
    /\ total > 0 => events # <<>>

(* The buffer respects both limits, and event_bytes is what it holds. *)
MemoryBounded ==
    /\ Len(sizes) = Len(events) /\ bytes = Bytes(sizes, Len(sizes))
    /\ Len(events) <= MaxEvents /\ bytes <= MaxBytes

(* What answers from memory rest on, at the edges of both limits too. *)
BufferSound == MemoryWindow /\ MemoryBounded

(* The rows are the newest cursors, without a hole, and the columns of the  *)
(* run say which, also when even the newest event was too large to keep;    *)
(* they are in the order of the output, whatever appends failed.            *)
StoreWindow ==
    /\ diskOldest + Len(rows) = diskTotal
    /\ \A j \in 1..Len(rows) : rows[j].cursor = diskOldest + j - 1
    /\ \A i, j \in 1..Len(rows) : i < j => rows[i].event < rows[j].event

(* The store respects both limits, and event_bytes is what it holds. *)
StoreBounded ==
    /\ diskBytes = Bytes(rows, Len(rows))
    /\ Len(rows) <= MaxEvents /\ diskBytes <= MaxBytes

(* What answers from SQLite rest on, when an event too large for the table  *)
(* empties it too.                                                           *)
RowsSound == StoreWindow /\ StoreBounded

(* Unless an append failed, the store numbers events as the buffer does, and *)
(* a crash loses at most the event that was being appended.                  *)
StoreFollows ==
    /\ faults = 0 => \A j \in 1..Len(rows) : rows[j].event = rows[j].cursor
    /\ stored => diskTotal + faults \in {total - 1, total}
    /\ stored /\ collector \in {"reading", "ended"} => diskTotal + faults = total

(* Whatever fails, no answer repeats an event, or goes back behind one, that *)
(* an earlier answer held, though the tiers change between them.  Only an    *)
(* answer, error or not, and a crash bring the reader back to idle: the same *)
(* page a second time is an answer too.                                      *)
Answered == reader \in {"memory", "store", "rows"} /\ reader' = "idle" /\ UNCHANGED collector
NothingTwice ==
    [][Answered => \A j \in 1..Len(page') :
        page'[j] >= passed /\ (j > 1 => page'[j] > page'[j - 1])]_vars

(* A reader moves past an event only if it got it or the tier that answered  *)
(* no longer has it: expiry costs nothing that could still be read.          *)
SkipsOnlyExpired ==
    [][\A e \in cursor..(cursor' - 1) :
        \/ e \in Range(page')
        \/ IF reader = "memory" THEN e \notin Range(events)
                                ELSE \A j \in 1..Len(rows) : rows[j].event # e]_vars

(* Once no more events come, the reader gets to the end of the log, unless   *)
(* newer runs pushed this one out of memory and store before it did.         *)
Kept == held \/ stored
ReaderDrains ==
    collector \in {"ended", "dead"} ~> ~Kept \/ cursor >= IF held THEN total ELSE diskTotal

(* While no append fails and Hermes lives, the two tiers, the change from one *)
(* to the other, and the loss of one or of both, look to a reader like the   *)
(* one stream README.md promises.                                            *)
Stream == INSTANCE CursorStream
    WITH PageLimit <- PageLimit, total <- total, cursor <- cursor, asked <- asked, page <- page,
         kept <- Kept
StreamSpec == Stream!FairSpec

(* The reader is never stuck: whichever tier it asks, with whatever cursor   *)
(* and whatever was lost or expired meanwhile, there is an answer; and the   *)
(* stream owes it one only when there is news.                               *)
News == Kept /\ (cursor < total \/ page # <<>> \/ asked # cursor)
ReaderGoesOn ==
    /\ ENABLED <<ReaderStep>>_vars
    /\ ENABLED <<Stream!Inform>>_(Stream!seen) => News

-----------------------------------------------------------------------------
(* README.md: an expired cursor is answered with an error.  So an answer to  *)
(* cursor c holds the events c, c + 1, ... and nothing else.  The two        *)
(* SELECTs of RunStore.events see different states, and a failed append      *)
(* shifts the numbers of the store: either breaks it.                        *)
PageAnswersCursor == \A j \in 1..Len(page) : page[j] = asked + j - 1

=============================================================================
