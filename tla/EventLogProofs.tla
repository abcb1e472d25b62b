--------------------------- MODULE EventLogProofs ---------------------------
(***************************************************************************)
(* Proofs about EventLog for any lines, limits, number of lines and        *)
(* faults, whether or not Hermes may die, let go of a live record, or      *)
(* prune the run from the store.                                           *)
(***************************************************************************)
EXTENDS EventLog, SequenceTheorems, Numbers

(* The sizes of s lie end to end, and the next one starts at top. *)
Packed(s, top) ==
    /\ \A j \in 1..Len(s) : s[j].from < s[j].to /\ s[j].to <= top
    /\ \A i, j \in 1..Len(s) : i < j => s[i].to <= s[j].from
    /\ \A i, j \in 1..Len(s) : j = i + 1 => s[i].to = s[j].from
    /\ s # <<>> => s[Len(s)].to = top

Sizes == [from : Nat, to : Nat]
Rows  == [cursor : Nat, event : Nat, from : Nat, to : Nat]

MemoryInv == MemoryWindow /\ MemoryBounded /\ Packed(sizes, printed)

(* An event is at least as new as its cursor says: each failed append left one out. *)
StoreInv ==
    /\ StoreWindow /\ StoreBounded /\ Packed(rows, written)
    /\ \A j \in 1..Len(rows) : rows[j].cursor <= rows[j].event /\ rows[j].event < diskTotal + faults

PaceInv ==
    /\ StoreFollows
    /\ collector = "appending" => pending > 0 /\ (stored => diskTotal + faults = total - 1)

(* What is delivered lies before the cursor, by the numbering of the tier that *)
(* will answer: in memory the cursor is the event, in the store the rows from  *)
(* the cursor on, those to come included, are newer.                           *)
ReaderInv ==
    /\ reader \in {"store", "rows"} => ~held
    /\ held \/ reader = "memory" => passed <= cursor
    /\ \/ passed <= cursor
       \/ /\ passed <= diskTotal + faults
          /\ \A j \in 1..Len(rows) : rows[j].cursor >= cursor => rows[j].event >= passed

LogInv == TypeOK /\ MemoryInv /\ StoreInv /\ PaceInv /\ ReaderInv

-----------------------------------------------------------------------------
(* Sequences whose sizes lie end to end. *)

LEMMA SizesHaveEnds ==
  /\ \A x \in Sizes : x.from \in Nat /\ x.to \in Nat
  /\ \A x \in Rows : x.from \in Nat /\ x.to \in Nat /\ x.cursor \in Nat /\ x.event \in Nat
BY DEF Sizes, Rows

(* What is left of a sequence when its first k elements go. *)
LEMMA WithoutType ==
  ASSUME NEW S, NEW s \in Seq(S), NEW k \in 0..Len(s)
  PROVE  /\ Without(s, k) \in Seq(S)
         /\ Len(Without(s, k)) = Len(s) - k
         /\ \A j \in 1..(Len(s) - k) : Without(s, k)[j] = s[j + k]
BY DEF Without

(* The eviction loops end, whatever a tier holds and counts, and in one way: *)
(* an append to either tier always has a next state, and only one.           *)
THEOREM EvictionDecides ==
  ASSUME NEW S, NEW s \in Seq(S), NEW b
  PROVE  \E k \in 0..Len(s) : Evicts(s, b, k) /\ \A i : Evicts(s, b, i) => i = k
<1> DEFINE T == {j \in 0..Len(s) : Stops(s, b, j)}
<1>1. Len(s) \in Nat /\ Len(s) \in T
  BY DEF Stops
<1>2. PICK k \in T : \A j \in T : k <= j
  <2>1. T \in SUBSET Nat /\ T # {}
    BY <1>1
  <2> HIDE DEF T
  <2>2. QED
    BY <2>1, LeastNumber
<1>3. k \in 0..Len(s) /\ Stops(s, b, k)
  BY <1>2
<1>4. ASSUME NEW j \in 0..(k - 1) PROVE ~Stops(s, b, j)
  <2>1. j \in 0..Len(s) /\ ~(k <= j)
    BY <1>1, <1>3, <1>4
  <2>2. QED
    BY <1>2, <2>1
<1>5. ASSUME NEW i, Evicts(s, b, i) PROVE i = k
  <2>1. i \in 0..Len(s) /\ Stops(s, b, i) /\ \A j \in 0..(i - 1) : ~Stops(s, b, j)
    BY <1>5 DEF Evicts
  <2>2. k <= i /\ ~(k \in 0..(i - 1))
    BY <1>2, <1>3, <2>1
  <2>3. QED
    BY <1>1, <1>3, <2>1, <2>2
<1>6. QED
  BY <1>3, <1>4, <1>5 DEF Evicts

(* A printed line has a size, which fits in the buffer. *)
LEMMA RetainedSize ==
  ASSUME NEW l \in Lines
  PROVE  /\ Retained(l) \in Nat \ {0} /\ Retained(l) <= MaxBytes
         /\ l.json \in Nat \ {0}
BY LinesAssumption, SizesAssumption DEF Retained, MaxLineBytes, Lowest

(* The next size is put at the end, and counted. *)
LEMMA PackedAppend ==
  ASSUME NEW S, \A x \in S : x.from \in Nat /\ x.to \in Nat,
         NEW s \in Seq(S), NEW top \in Nat, NEW e \in S,
         Packed(s, top), e.from = top, e.from < e.to
  PROVE  /\ Packed(Append(s, e), e.to)
         /\ Bytes(Append(s, e), Len(s) + 1) = Bytes(s, Len(s)) + (e.to - top)
         /\ Bytes(s, Len(s)) \in Nat
<1> DEFINE t == Append(s, e)
<1>1. /\ t \in Seq(S) /\ Len(t) = Len(s) + 1
      /\ \A j \in 1..Len(s) : t[j] = s[j]
      /\ t[Len(s) + 1] = e
  OBVIOUS
<1>2. \A j \in 1..Len(s) : s[j] \in S /\ s[j].from \in Nat /\ s[j].to \in Nat
  OBVIOUS
<1>3. e.from \in Nat /\ e.to \in Nat
  OBVIOUS
<1>4. Packed(t, e.to)
  <2>1. \A j \in 1..Len(t) : t[j].from < t[j].to /\ t[j].to <= e.to
    <3>1. TAKE j \in 1..Len(t)
    <3>2. CASE j = Len(s) + 1
      BY <1>1, <1>3, <3>2
    <3>3. CASE j \in 1..Len(s)
      BY <1>1, <1>2, <1>3, <3>3 DEF Packed
    <3>4. QED
      BY <1>1, <3>2, <3>3
  <2>2. \A i, j \in 1..Len(t) : i < j => t[i].to <= t[j].from
    <3>1. TAKE i, j \in 1..Len(t)
    <3>2. HAVE i < j
    <3>3. i \in 1..Len(s) /\ t[i] = s[i]
      BY <1>1, <3>2
    <3>4. CASE j = Len(s) + 1
      BY <1>1, <1>2, <3>3, <3>4 DEF Packed
    <3>5. CASE j \in 1..Len(s)
      BY <1>1, <3>2, <3>3, <3>5 DEF Packed
    <3>6. QED
      BY <1>1, <3>4, <3>5
  <2>3. \A i, j \in 1..Len(t) : j = i + 1 => t[i].to = t[j].from
    <3>1. TAKE i, j \in 1..Len(t)
    <3>2. HAVE j = i + 1
    <3>3. i \in 1..Len(s) /\ t[i] = s[i]
      BY <1>1, <3>2
    <3>4. CASE j = Len(s) + 1
      <4>1. i = Len(s) /\ s # <<>>
        BY <3>2, <3>3, <3>4
      <4>2. QED
        BY <1>1, <3>3, <3>4, <4>1 DEF Packed
    <3>5. CASE j \in 1..Len(s)
      BY <1>1, <3>2, <3>3, <3>5 DEF Packed
    <3>6. QED
      BY <1>1, <3>4, <3>5
  <2>4. t[Len(t)].to = e.to
    BY <1>1
  <2>5. QED
    BY <2>1, <2>2, <2>3, <2>4 DEF Packed
<1>5. Bytes(s, Len(s)) \in Nat /\ Bytes(t, Len(s) + 1) = Bytes(s, Len(s)) + (e.to - top)
  <2>1. CASE s = <<>>
    BY <1>1, <1>3, <2>1 DEF Bytes
  <2>2. CASE s # <<>>
    <3>1. Len(s) \in 1..Len(s) /\ 1 \in 1..Len(s)
      BY <2>2
    <3>2. s[Len(s)].to = top /\ s[1].from < s[1].to /\ s[1].to <= top
      BY <2>2, <3>1 DEF Packed
    <3>3. Bytes(t, Len(s) + 1) = e.to - s[1].from
      BY <1>1, <3>1 DEF Bytes
    <3>4. QED
      BY <1>2, <1>3, <3>1, <3>2, <3>3 DEF Bytes
  <2>3. QED
    BY <2>1, <2>2
<1>6. QED
  BY <1>4, <1>5

(* What an eviction loop leaves lies end to end, is within both limits, and *)
(* the counter it leaves is what the events left take.                      *)
LEMMA PackedEvict ==
  ASSUME NEW S, \A x \in S : x.from \in Nat /\ x.to \in Nat,
         NEW s \in Seq(S), NEW top \in Nat, NEW k \in Nat,
         Packed(s, top), Evicts(s, Bytes(s, Len(s)), k)
  PROVE  /\ k \in 0..Len(s)
         /\ Packed(Without(s, k), top)
         /\ Bytes(s, Len(s)) - Bytes(s, k) = Bytes(Without(s, k), Len(s) - k)
         /\ Bytes(s, Len(s)) - Bytes(s, k) \in 0..MaxBytes
         /\ Len(s) - k <= MaxEvents
<1> DEFINE t == Without(s, k)
<1>1. k \in 0..Len(s) /\ Stops(s, Bytes(s, Len(s)), k)
  BY DEF Evicts
<1>2. /\ t \in Seq(S) /\ Len(t) = Len(s) - k
      /\ \A j \in 1..(Len(s) - k) : t[j] = s[j + k]
  BY <1>1, WithoutType
<1> HIDE DEF t
<1>3. \A j \in 1..Len(s) : s[j].from \in Nat /\ s[j].to \in Nat
  OBVIOUS
<1>4. Packed(t, top)
  <2>1. \A j \in 1..Len(t) : j + k \in 1..Len(s) /\ t[j] = s[j + k]
    BY <1>1, <1>2
  <2>2. \A j \in 1..Len(t) : t[j].from < t[j].to /\ t[j].to <= top
    BY <2>1 DEF Packed
  <2>3. \A i, j \in 1..Len(t) : i < j => t[i].to <= t[j].from
    <3>1. TAKE i, j \in 1..Len(t)
    <3>2. HAVE i < j
    <3>3. i + k < j + k
      BY <3>2
    <3>4. QED
      BY <2>1, <3>3 DEF Packed
  <2>4. \A i, j \in 1..Len(t) : j = i + 1 => t[i].to = t[j].from
    <3>1. TAKE i, j \in 1..Len(t)
    <3>2. HAVE j = i + 1
    <3>3. j + k = (i + k) + 1 /\ i + k \in 1..Len(s) /\ j + k \in 1..Len(s)
      BY <2>1, <3>2
    <3>4. s[i + k].to = s[j + k].from
      BY <3>3 DEF Packed
    <3>5. QED
      BY <2>1, <3>4
  <2>5. t # <<>> => t[Len(t)].to = top
    <3>1. HAVE t # <<>>
    <3>2. Len(t) \in 1..Len(t) /\ Len(t) + k = Len(s) /\ s # <<>>
      BY <1>1, <1>2, <3>1
    <3>3. t[Len(t)] = s[Len(s)]
      BY <2>1, <3>2
    <3>4. QED
      BY <3>2, <3>3 DEF Packed
  <2>6. QED
    BY <2>2, <2>3, <2>4, <2>5 DEF Packed
<1>5. Bytes(s, Len(s)) - Bytes(s, k) = Bytes(t, Len(s) - k) /\ Bytes(t, Len(s) - k) \in Nat
  <2>1. CASE k = Len(s)
    <3>1. Bytes(t, Len(s) - k) = 0
      BY <2>1 DEF Bytes
    <3>2. Bytes(s, Len(s)) \in Int
      BY <1>3 DEF Bytes
    <3>3. QED
      BY <2>1, <3>1, <3>2
  <2>2. CASE k < Len(s)
    <3>1. t[1] = s[k + 1] /\ t[Len(s) - k] = s[Len(s)]
      <4>1. 1 \in 1..(Len(s) - k) /\ Len(s) - k \in 1..(Len(s) - k)
        BY <1>1, <2>2
      <4>2. 1 + k = k + 1 /\ (Len(s) - k) + k = Len(s)
        BY <1>1
      <4>3. QED
        BY <1>2, <4>1, <4>2
    <3>2. Bytes(t, Len(s) - k) = s[Len(s)].to - s[k + 1].from
      BY <1>1, <2>2, <3>1 DEF Bytes
    <3>3. s[k + 1].from < s[k + 1].to /\ s[k + 1].to <= top /\ s[Len(s)].to = top
      BY <1>1, <2>2 DEF Packed
    <3>4. Bytes(s, Len(s)) = s[Len(s)].to - s[1].from
      BY <1>1, <2>2 DEF Bytes
    <3>5. Bytes(s, k) = s[k + 1].from - s[1].from
      <4>1. CASE k = 0
        BY <1>3, <2>2, <4>1 DEF Bytes
      <4>2. CASE k > 0
        <5>1. k \in 1..Len(s) /\ k + 1 \in 1..Len(s)
          BY <1>1, <2>2, <4>2
        <5>2. s[k].to = s[k + 1].from
          BY <5>1 DEF Packed
        <5>3. QED
          BY <4>2, <5>2 DEF Bytes
      <4>3. QED
        BY <1>1, <4>1, <4>2
    <3>6. /\ s[1].from \in Nat /\ s[k + 1].from \in Nat /\ s[k + 1].to \in Nat
          /\ s[Len(s)].to \in Nat
      BY <1>1, <1>3, <2>2
    <3>7. s[k + 1].from <= s[Len(s)].to
      BY <3>3, <3>6
    <3>8. Bytes(t, Len(s) - k) \in Nat
      BY <3>2, <3>6, <3>7
    <3>9. Bytes(s, Len(s)) - Bytes(s, k) = s[Len(s)].to - s[k + 1].from
      BY <3>4, <3>5, <3>6
    <3>10. QED
      BY <3>2, <3>8, <3>9
  <2>3. QED
    BY <1>1, <2>1, <2>2
<1>6. Bytes(s, Len(s)) - Bytes(s, k) <= MaxBytes /\ Len(s) - k <= MaxEvents
  <2>1. CASE k = Len(s)
    <3>1. Bytes(t, Len(s) - k) = 0
      BY <2>1 DEF Bytes
    <3>2. QED
      BY <1>5, <2>1, <3>1, SizesAssumption
  <2>2. CASE ~Over(Len(s) - k, Bytes(s, Len(s)) - Bytes(s, k))
    <3>1. Bytes(s, Len(s)) - Bytes(s, k) \in Nat
      BY <1>5
    <3>2. QED
      BY <1>1, <2>2, <3>1, SizesAssumption DEF Over
  <2>3. QED
    BY <1>1, <2>1, <2>2 DEF Stops
<1>7. Bytes(s, Len(s)) - Bytes(s, k) \in 0..MaxBytes
  BY <1>5, <1>6, SizesAssumption
<1>8. QED
  BY <1>1, <1>4, <1>5, <1>6, <1>7 DEF t

(* A newest event that fits is never evicted. *)
LEMMA NewestStays ==
  ASSUME NEW S, \A x \in S : x.from \in Nat /\ x.to \in Nat,
         NEW s \in Seq(S), NEW top \in Nat, NEW k \in Nat,
         s # <<>>, Packed(s, top), Evicts(s, Bytes(s, Len(s)), k),
         s[Len(s)].to - s[Len(s)].from <= MaxBytes
  PROVE  k < Len(s)
<1>1. k \in 0..Len(s) /\ \A j \in 0..(k - 1) : ~Stops(s, Bytes(s, Len(s)), j)
  BY DEF Evicts
<1>2. SUFFICES ASSUME k = Len(s) PROVE FALSE
  BY <1>1
<1> DEFINE n == Len(s) - 1
<1>3. n \in 0..(k - 1) /\ n + 1 = Len(s) /\ n \in Nat /\ Len(s) \in Nat
  BY <1>2
<1> HIDE DEF n
<1>4. Over(Len(s) - n, Bytes(s, Len(s)) - Bytes(s, n))
  BY <1>1, <1>3 DEF Stops
<1>5. \A j \in 1..Len(s) : s[j].from \in Nat /\ s[j].to \in Nat
  OBVIOUS
<1>6. Bytes(s, Len(s)) - Bytes(s, n) = s[Len(s)].to - s[Len(s)].from
  <2>1. CASE n = 0
    <3>1. Len(s) = 1
      BY <1>3, <2>1
    <3>2. Bytes(s, n) = 0 /\ Bytes(s, Len(s)) = s[1].to - s[1].from
      BY <2>1, <3>1 DEF Bytes
    <3>3. s[1].from \in Nat /\ s[1].to \in Nat
      <4>1. 1 \in 1..Len(s)
        BY <3>1
      <4>2. QED
        BY <1>5, <4>1
    <3>4. QED
      BY <3>1, <3>2, <3>3
  <2>2. CASE n > 0
    <3>1. n \in 1..Len(s) /\ Len(s) \in 1..Len(s) /\ 1 \in 1..Len(s)
      BY <1>3, <2>2
    <3>2. s[n].to = s[Len(s)].from
      BY <1>3, <3>1 DEF Packed
    <3>3. Bytes(s, n) = s[n].to - s[1].from /\ Bytes(s, Len(s)) = s[Len(s)].to - s[1].from
      BY <2>2, <3>1 DEF Bytes
    <3>4. QED
      BY <1>5, <3>1, <3>2, <3>3
  <2>3. QED
    BY <1>3, <2>1, <2>2
<1>7. QED
  BY <1>3, <1>4, <1>5, <1>6, SizesAssumption DEF Over

-----------------------------------------------------------------------------
(* The invariant holds at the start, and every action preserves it. *)

LEMMA LogInit == Init => LogInv
<1>1. SUFFICES ASSUME Init PROVE LogInv
  OBVIOUS
<1>2. TypeOK
  BY <1>1, SizesAssumption DEF Init, TypeOK
<1>3. MemoryInv
  BY <1>1, SizesAssumption DEF Init, MemoryInv, MemoryWindow, MemoryBounded, Packed, Bytes
<1>4. StoreInv
  BY <1>1, SizesAssumption DEF Init, StoreInv, StoreWindow, StoreBounded, Packed, Bytes
<1>5. PaceInv /\ ReaderInv
  BY <1>1 DEF Init, PaceInv, ReaderInv, StoreFollows
<1>6. QED
  BY <1>2, <1>3, <1>4, <1>5 DEF LogInv

LEMMA MemoryAppended ==
  ASSUME LogInv, NEW l \in Lines, AppendMemory(l)
  PROVE  MemoryInv' /\ events' \in Seq(Nat) /\ sizes' \in Seq(Sizes)
         /\ bytes' \in Nat /\ base' \in Nat /\ printed' \in Nat
<1> DEFINE size  == [from |-> printed, to |-> printed + Retained(l)]
           added == Append(sizes, size)
           more  == Append(events, total)
<1> HIDE DEF size, added, more
<1>1. /\ events \in Seq(Nat) /\ sizes \in Seq(Sizes)
      /\ printed \in Nat /\ total \in Nat /\ base \in Nat
      /\ Len(sizes) = Len(events) /\ bytes = Bytes(sizes, Len(sizes)) /\ Packed(sizes, printed)
      /\ base + Len(events) = total /\ \A j \in 1..Len(events) : events[j] = base + j - 1
  BY SizesAssumption DEF LogInv, TypeOK, MemoryInv, MemoryWindow, MemoryBounded, Sizes
<1>2. Retained(l) \in Nat \ {0} /\ Retained(l) <= MaxBytes
  BY RetainedSize
<1>3. PICK k \in 0..Len(added) :
        /\ Evicts(added, bytes + Retained(l), k)
        /\ events' = Without(more, k)
        /\ sizes' = Without(added, k)
        /\ bytes' = (bytes + Retained(l)) - Bytes(added, k)
        /\ base' = base + k
  BY DEF AppendMemory, size, added, more
<1>4. total' = total + 1 /\ printed' = printed + Retained(l)
  BY DEF AppendMemory
<1>5. size \in Sizes /\ size.from = printed /\ size.from < size.to
      /\ size.to = printed'
  BY <1>1, <1>2, <1>4 DEF Sizes, size
<1>6. /\ added \in Seq(Sizes) /\ Len(added) = Len(sizes) + 1
      /\ more \in Seq(Nat) /\ Len(more) = Len(added)
      /\ \A j \in 1..Len(added) : more[j] = base + j - 1
      /\ added[Len(added)] = size
  <2>1. /\ added \in Seq(Sizes) /\ Len(added) = Len(sizes) + 1
        /\ more \in Seq(Nat) /\ Len(more) = Len(events) + 1
        /\ added[Len(sizes) + 1] = size
    BY <1>1, <1>5 DEF added, more
  <2>2. /\ \A j \in 1..Len(events) : more[j] = events[j]
        /\ more[Len(events) + 1] = total
    BY <1>1 DEF more
  <2>3. total = base + (Len(events) + 1) - 1
    BY <1>1
  <2>4. ASSUME NEW j \in 1..Len(added) PROVE more[j] = base + j - 1
    <3>1. j \in 1..Len(events) \/ j = Len(events) + 1
      BY <1>1, <2>1
    <3>2. QED
      BY <1>1, <2>2, <2>3, <3>1
  <2>5. QED
    BY <1>1, <2>1, <2>4
<1>7. /\ Packed(added, printed') /\ Bytes(sizes, Len(sizes)) \in Nat
      /\ Bytes(added, Len(added)) = bytes + Retained(l)
  <2>1. /\ Packed(added, size.to) /\ Bytes(sizes, Len(sizes)) \in Nat
        /\ Bytes(added, Len(sizes) + 1) = Bytes(sizes, Len(sizes)) + (size.to - printed)
    BY <1>1, <1>5, SizesHaveEnds, PackedAppend DEF added
  <2>2. size.to - printed = Retained(l)
    BY <1>1, <1>2, <1>4, <1>5
  <2>3. QED
    BY <1>1, <1>5, <1>6, <2>1, <2>2
<1>8. k \in Nat /\ printed' \in Nat
  BY <1>1, <1>2, <1>3, <1>4
<1>9. /\ k \in 0..Len(added)
      /\ Packed(Without(added, k), printed')
      /\ Bytes(added, Len(added)) - Bytes(added, k) = Bytes(Without(added, k), Len(added) - k)
      /\ Bytes(added, Len(added)) - Bytes(added, k) \in 0..MaxBytes
      /\ Len(added) - k <= MaxEvents
  BY <1>3, <1>6, <1>7, <1>8, SizesHaveEnds, PackedEvict
<1>10. k < Len(added)
  <2>1. added # <<>>
    BY <1>1, <1>6
  <2>2. added[Len(added)].to - added[Len(added)].from <= MaxBytes
    <3>1. added[Len(added)].to = printed + Retained(l) /\ added[Len(added)].from = printed
      BY <1>4, <1>5, <1>6
    <3>2. (printed + Retained(l)) - printed = Retained(l)
      BY <1>1, <1>2
    <3>3. QED
      BY <1>2, <3>1, <3>2
  <2>3. QED
    BY <1>3, <1>6, <1>7, <1>8, <2>1, <2>2, SizesHaveEnds, NewestStays
<1>11. /\ sizes' \in Seq(Sizes) /\ Len(sizes') = Len(added) - k
       /\ events' \in Seq(Nat) /\ Len(events') = Len(added) - k
       /\ \A j \in 1..(Len(added) - k) : events'[j] = more[j + k]
  <2>1. /\ Without(added, k) \in Seq(Sizes) /\ Len(Without(added, k)) = Len(added) - k
    BY <1>6, <1>9, WithoutType
  <2>2. /\ Without(more, k) \in Seq(Nat) /\ Len(Without(more, k)) = Len(added) - k
        /\ \A j \in 1..(Len(added) - k) : Without(more, k)[j] = more[j + k]
    <3>1. k \in 0..Len(more)
      BY <1>6, <1>9
    <3>2. /\ Without(more, k) \in Seq(Nat) /\ Len(Without(more, k)) = Len(more) - k
          /\ \A j \in 1..(Len(more) - k) : Without(more, k)[j] = more[j + k]
      BY <1>6, <3>1, WithoutType
    <3>3. QED
      BY <1>6, <3>2
  <2>3. QED
    BY <1>3, <2>1, <2>2
<1>12. bytes' = Bytes(sizes', Len(sizes')) /\ bytes' \in 0..MaxBytes
  <2>1. bytes' = Bytes(added, Len(added)) - Bytes(added, k)
    BY <1>3, <1>7
  <2>2. QED
    BY <1>3, <1>9, <1>11, <2>1
<1>13. MemoryWindow'
  <2>1. base' + Len(events') = total'
    <3>1. Len(events') = Len(events) + 1 - k /\ Len(events) \in Nat
      BY <1>1, <1>6, <1>11
    <3>2. base' = base + k /\ total' = (base + Len(events)) + 1
      BY <1>1, <1>3, <1>4
    <3>3. QED
      BY <1>1, <1>8, <3>1, <3>2
  <2>2. \A j \in 1..Len(events') : events'[j] = base' + j - 1
    <3>1. TAKE j \in 1..Len(events')
    <3>2. j + k \in 1..Len(added) /\ j \in 1..(Len(added) - k)
      BY <1>1, <1>6, <1>9, <1>11
    <3>3. events'[j] = base + (j + k) - 1
      BY <1>6, <1>11, <3>2
    <3>4. QED
      BY <1>1, <1>3, <1>8, <3>3
  <2>3. events' # <<>>
    BY <1>1, <1>6, <1>8, <1>10, <1>11
  <2>4. QED
    BY <2>1, <2>2, <2>3 DEF MemoryWindow
<1>14. MemoryBounded'
  BY <1>1, <1>6, <1>9, <1>11, <1>12, SizesAssumption DEF MemoryBounded
<1>15. QED
  BY <1>1, <1>3, <1>8, <1>9, <1>11, <1>12, <1>13, <1>14, SizesAssumption DEF MemoryInv

LEMMA RowAppended ==
  ASSUME LogInv, AppendStore
  PROVE  /\ StoreInv'
         /\ rows' \in Seq(Rows) /\ diskBytes' \in Nat /\ diskOldest' \in Nat
         /\ diskTotal' \in Nat /\ written' \in Nat
         /\ \A j \in 1..Len(rows') :
               \/ rows'[j].cursor = diskTotal /\ rows'[j].event = diskTotal + faults
               \/ \E i \in 1..Len(rows) : rows'[j] = rows[i]
<1> DEFINE added == Append(rows, NewRow)
<1> HIDE DEF added
<1>1. /\ rows \in Seq(Rows) /\ diskBytes \in Nat /\ diskOldest \in Nat /\ diskTotal \in Nat
      /\ written \in Nat /\ pending \in Nat /\ faults \in Nat /\ total \in Nat
  BY SizesAssumption DEF LogInv, TypeOK, Rows
<1>2. /\ diskOldest + Len(rows) = diskTotal
      /\ \A j \in 1..Len(rows) : rows[j].cursor = diskOldest + j - 1
      /\ \A i, j \in 1..Len(rows) : i < j => rows[i].event < rows[j].event
      /\ diskBytes = Bytes(rows, Len(rows)) /\ Packed(rows, written)
      /\ \A j \in 1..Len(rows) : rows[j].cursor <= rows[j].event /\ rows[j].event < diskTotal + faults
  BY DEF LogInv, StoreInv, StoreWindow, StoreBounded
<1>3. pending > 0 /\ diskTotal + faults = total - 1
  BY DEF LogInv, PaceInv, AppendStore
<1>4. /\ NewRow \in Rows /\ NewRow.cursor = diskTotal /\ NewRow.event = diskTotal + faults
      /\ NewRow.from = written /\ NewRow.to = written + pending /\ NewRow.from < NewRow.to
  BY <1>1, <1>3 DEF NewRow, Rows
<1>5. PICK k \in 0..Len(added) :
        /\ Evicts(added, diskBytes + pending, k)
        /\ rows' = Without(added, k)
        /\ diskBytes' = (diskBytes + pending) - Bytes(added, k)
        /\ diskOldest' = OldestCursor(Without(added, k), diskTotal + 1)
  BY DEF AppendStore, added, BytesLeft
<1>6. diskTotal' = diskTotal + 1 /\ written' = written + pending /\ faults' = faults
  BY DEF AppendStore
<1>7. /\ added \in Seq(Rows) /\ Len(added) = Len(rows) + 1 /\ added[Len(rows) + 1] = NewRow
      /\ \A j \in 1..Len(rows) : added[j] = rows[j]
  BY <1>1, <1>4 DEF added
<1>8. /\ Packed(added, written') /\ Bytes(rows, Len(rows)) \in Nat
      /\ Bytes(added, Len(added)) = diskBytes + pending
  <2>1. /\ Packed(added, NewRow.to)
        /\ Bytes(added, Len(rows) + 1) = Bytes(rows, Len(rows)) + (NewRow.to - written)
        /\ Bytes(rows, Len(rows)) \in Nat
    <3>1. /\ rows \in Seq(Rows) /\ written \in Nat /\ NewRow \in Rows /\ Packed(rows, written)
          /\ NewRow.from = written /\ NewRow.from < NewRow.to
      BY <1>1, <1>2, <1>4
    <3>2. \A x \in Rows : x.from \in Nat /\ x.to \in Nat
      BY SizesHaveEnds
    <3>3. QED
      BY <3>1, <3>2, PackedAppend DEF added
  <2>2. NewRow.to - written = pending
    BY <1>1, <1>4
  <2>3. QED
    BY <1>2, <1>4, <1>6, <1>7, <2>1, <2>2
<1>9. k \in Nat /\ written' \in Nat /\ diskTotal' \in Nat
  BY <1>1, <1>5, <1>6
<1>10. /\ k \in 0..Len(added)
       /\ Packed(Without(added, k), written')
       /\ Bytes(added, Len(added)) - Bytes(added, k) = Bytes(Without(added, k), Len(added) - k)
       /\ Bytes(added, Len(added)) - Bytes(added, k) \in 0..MaxBytes
       /\ Len(added) - k <= MaxEvents
  BY <1>5, <1>7, <1>8, <1>9, SizesHaveEnds, PackedEvict
<1>11. /\ rows' \in Seq(Rows) /\ Len(rows') = Len(added) - k
       /\ \A j \in 1..Len(rows') : j + k \in 1..Len(added) /\ rows'[j] = added[j + k]
  <2>1. /\ Without(added, k) \in Seq(Rows) /\ Len(Without(added, k)) = Len(added) - k
        /\ \A j \in 1..(Len(added) - k) : Without(added, k)[j] = added[j + k]
    BY <1>7, <1>10, WithoutType
  <2>2. \A j \in 1..(Len(added) - k) : j + k \in 1..Len(added)
    BY <1>7, <1>9
  <2>3. QED
    BY <1>5, <2>1, <2>2
<1>12. StoreBounded' /\ diskBytes' \in Nat
  <2>1. diskBytes' = Bytes(added, Len(added)) - Bytes(added, k)
    BY <1>5, <1>8
  <2>2. QED
    BY <1>5, <1>10, <1>11, <2>1, SizesAssumption DEF StoreBounded
<1>13. \A j \in 1..Len(added) : added[j].cursor = diskOldest + j - 1
  <2>1. ASSUME NEW j \in 1..Len(added) PROVE added[j].cursor = diskOldest + j - 1
    <3>1. CASE j \in 1..Len(rows)
      BY <1>2, <1>7, <3>1
    <3>2. CASE j = Len(rows) + 1
      BY <1>1, <1>2, <1>4, <1>7, <3>2
    <3>3. QED
      BY <1>1, <1>7, <2>1, <3>1, <3>2
  <2>2. QED
    BY <2>1
<1>14. diskOldest' = diskOldest + k
  <2>1. CASE rows' = <<>>
    <3>1. diskOldest' = diskTotal + 1
      BY <1>5, <2>1 DEF OldestCursor
    <3>2. Len(added) = k
      BY <1>7, <1>9, <1>11, <2>1
    <3>3. QED
      BY <1>1, <1>2, <1>7, <3>1, <3>2
  <2>2. CASE rows' # <<>>
    <3>1. diskOldest' = rows'[1].cursor
      BY <1>5, <2>2 DEF OldestCursor
    <3>2. 1 \in 1..Len(rows')
      BY <1>11, <2>2
    <3>3. 1 + k \in 1..Len(added) /\ rows'[1] = added[1 + k]
      BY <1>11, <3>2
    <3>4. QED
      BY <1>1, <1>9, <1>13, <3>1, <3>3
  <2>3. QED
    BY <2>1, <2>2
<1>15. /\ diskOldest' + Len(rows') = diskTotal'
       /\ \A j \in 1..Len(rows') : rows'[j].cursor = diskOldest' + j - 1
  <2>1. Len(rows') = (Len(rows) + 1) - k /\ Len(rows) \in Nat
    BY <1>1, <1>7, <1>11
  <2>2. diskOldest' + Len(rows') = diskTotal'
    <3>1. diskOldest' = diskOldest + k /\ diskTotal' = (diskOldest + Len(rows)) + 1
      BY <1>2, <1>6, <1>14
    <3>2. QED
      BY <1>1, <1>9, <2>1, <3>1
  <2>3. ASSUME NEW j \in 1..Len(rows') PROVE rows'[j].cursor = diskOldest' + j - 1
    <3>1. rows'[j].cursor = diskOldest + (j + k) - 1
      BY <1>11, <1>13
    <3>2. j \in Nat
      BY <1>11
    <3>3. QED
      BY <1>1, <1>9, <1>14, <3>1, <3>2
  <2>4. QED
    BY <2>2, <2>3
<1>16. \A i, j \in 1..Len(added) : i < j => added[i].event < added[j].event
  <2>1. ASSUME NEW i \in 1..Len(added), NEW j \in 1..Len(added), i < j
        PROVE  added[i].event < added[j].event
    <3>1. i \in 1..Len(rows) /\ added[i] = rows[i]
      BY <1>1, <1>7, <2>1
    <3>2. CASE j \in 1..Len(rows)
      BY <1>2, <1>7, <2>1, <3>1, <3>2
    <3>3. CASE j = Len(rows) + 1
      BY <1>2, <1>4, <1>7, <3>1, <3>3
    <3>4. QED
      BY <1>1, <1>7, <3>2, <3>3
  <2>2. QED
    BY <2>1
<1>17. \A i, j \in 1..Len(rows') : i < j => rows'[i].event < rows'[j].event
  <2>1. ASSUME NEW i \in 1..Len(rows'), NEW j \in 1..Len(rows'), i < j
        PROVE  rows'[i].event < rows'[j].event
    <3>1. i + k < j + k
      BY <1>9, <2>1
    <3>2. QED
      BY <1>11, <1>16, <3>1
  <2>2. QED
    BY <2>1
<1>18. \A j \in 1..Len(added) :
         /\ added[j].cursor <= added[j].event /\ added[j].event < diskTotal' + faults'
         /\ \/ added[j].cursor = diskTotal /\ added[j].event = diskTotal + faults
            \/ \E i \in 1..Len(rows) : added[j] = rows[i]
  <2>1. ASSUME NEW j \in 1..Len(added)
        PROVE /\ added[j].cursor <= added[j].event /\ added[j].event < diskTotal' + faults'
              /\ \/ added[j].cursor = diskTotal /\ added[j].event = diskTotal + faults
                 \/ \E i \in 1..Len(rows) : added[j] = rows[i]
    <3>1. CASE j \in 1..Len(rows)
      <4>1. added[j] = rows[j] /\ rows[j] \in Rows
        BY <1>1, <1>7, <3>1
      <4>2. rows[j].event \in Nat /\ rows[j].cursor <= rows[j].event /\ rows[j].event < diskTotal + faults
        BY <1>2, <3>1, <4>1, SizesHaveEnds
      <4>3. rows[j].event < diskTotal' + faults'
        BY <1>1, <1>6, <4>2
      <4>4. QED
        BY <3>1, <4>1, <4>2, <4>3
    <3>2. CASE j = Len(rows) + 1
      BY <1>1, <1>4, <1>6, <1>7, <3>2
    <3>3. QED
      BY <1>1, <1>7, <2>1, <3>1, <3>2
  <2>2. QED
    BY <2>1
<1>19. StoreInv'
  BY <1>5, <1>10, <1>11, <1>12, <1>15, <1>17, <1>18 DEF StoreInv, StoreWindow
<1>20. diskOldest' \in Nat
  BY <1>1, <1>9, <1>14
<1>21. \A j \in 1..Len(rows') :
         \/ rows'[j].cursor = diskTotal /\ rows'[j].event = diskTotal + faults
         \/ \E i \in 1..Len(rows) : rows'[j] = rows[i]
  <2>1. TAKE j \in 1..Len(rows')
  <2>2. j + k \in 1..Len(added) /\ rows'[j] = added[j + k]
    BY <1>11
  <2>3. \/ added[j + k].cursor = diskTotal /\ added[j + k].event = diskTotal + faults
        \/ \E i \in 1..Len(rows) : added[j + k] = rows[i]
    BY <1>18, <2>2
  <2>4. QED
    BY <2>2, <2>3
<1>22. rows' \in Seq(Rows) /\ diskTotal' \in Nat /\ written' \in Nat /\ diskBytes' \in Nat
  BY <1>9, <1>11, <1>12
<1>23. QED
  BY <1>19, <1>20, <1>21, <1>22

-----------------------------------------------------------------------------
(* Each action preserves the invariant.  A part whose variables an action *)
(* leaves alone is carried over by one of these.                          *)

LEMMA MemoryKept == MemoryInv /\ UNCHANGED recordVars => MemoryInv'
BY DEF MemoryInv, MemoryWindow, MemoryBounded, Packed, recordVars

LEMMA StoreKept == StoreInv /\ UNCHANGED <<diskVars, faults>> => StoreInv'
BY DEF StoreInv, StoreWindow, StoreBounded, Packed, diskVars

LEMMA PreservedByCollector ==
  ASSUME LogInv, (\E l \in Lines : AppendMemory(l)) \/ CollectorStep \/ Ends
  PROVE  LogInv'
<1>1. CASE \E l \in Lines : AppendMemory(l)
  <2>1. PICK l \in Lines : AppendMemory(l)
    BY <1>1
  <2>2. /\ MemoryInv' /\ events' \in Seq(Nat) /\ sizes' \in Seq(Sizes)
        /\ bytes' \in Nat /\ base' \in Nat /\ printed' \in Nat
    BY <2>1, MemoryAppended
  <2>3. l.json \in Nat /\ l.json > 0
    BY RetainedSize
  <2>4. TypeOK'
    BY <2>1, <2>2, <2>3, SizesAssumption
    DEF LogInv, TypeOK, AppendMemory, Sizes, keepVars, diskVars, readVars, answerVars
  <2>5. StoreInv'
    BY <2>1, StoreKept DEF LogInv, AppendMemory
  <2>6. PaceInv'
    BY <2>1, <2>3, SizesAssumption DEF LogInv, TypeOK, PaceInv, StoreFollows, AppendMemory, keepVars, diskVars
  <2>7. ReaderInv'
    BY <2>1 DEF LogInv, ReaderInv, AppendMemory, keepVars, diskVars, readVars, answerVars
  <2>8. QED
    BY <2>2, <2>4, <2>5, <2>6, <2>7 DEF LogInv
<1>2. CASE AppendStore
  <2>1. /\ StoreInv'
        /\ rows' \in Seq(Rows) /\ diskBytes' \in Nat /\ diskOldest' \in Nat
        /\ diskTotal' \in Nat /\ written' \in Nat
        /\ \A j \in 1..Len(rows') :
              \/ rows'[j].cursor = diskTotal /\ rows'[j].event = diskTotal + faults
              \/ \E i \in 1..Len(rows) : rows'[j] = rows[i]
    BY <1>2, RowAppended
  <2>2. TypeOK'
    BY <1>2, <2>1 DEF LogInv, TypeOK, AppendStore, Rows, recordVars, keepVars, readVars, answerVars
  <2>3. MemoryInv'
    BY <1>2, MemoryKept DEF LogInv, AppendStore
  <2>4. PaceInv'
    <3>1. /\ diskTotal \in Nat /\ faults \in Nat /\ diskTotal' = diskTotal + 1 /\ faults' = faults
          /\ diskTotal + faults = total - 1 /\ total' = total /\ total \in Nat
          /\ collector' = "reading"
      BY <1>2, SizesAssumption DEF LogInv, TypeOK, PaceInv, AppendStore, recordVars
    <3>2. diskTotal' + faults' = total'
      BY <3>1
    <3>3. faults' = 0 => \A j \in 1..Len(rows') : rows'[j].event = rows'[j].cursor
      <4>1. HAVE faults' = 0
      <4>2. TAKE j \in 1..Len(rows')
      <4>3. diskTotal + faults = diskTotal
        BY <3>1, <4>1
      <4>4. CASE rows'[j].cursor = diskTotal /\ rows'[j].event = diskTotal + faults
        BY <4>3, <4>4
      <4>5. CASE \E i \in 1..Len(rows) : rows'[j] = rows[i]
        BY <3>1, <4>1, <4>5 DEF LogInv, PaceInv, StoreFollows
      <4>6. QED
        BY <2>1, <4>4, <4>5
    <3>4. QED
      BY <3>1, <3>2, <3>3 DEF PaceInv, StoreFollows
  <2>5. ReaderInv'
    <3>1. /\ held' = held /\ reader' = reader /\ passed' = passed /\ cursor' = cursor
          /\ faults' = faults /\ diskTotal' = diskTotal + 1
          /\ diskTotal \in Nat /\ faults \in Nat /\ passed \in Nat /\ cursor \in Nat
      BY <1>2, SizesAssumption DEF LogInv, TypeOK, AppendStore, keepVars, readVars, answerVars
    <3>2. CASE passed <= cursor
      BY <3>1, <3>2 DEF LogInv, ReaderInv
    <3>3. CASE ~(passed <= cursor)
      <4>1. /\ passed <= diskTotal + faults /\ ~(held \/ reader = "memory")
            /\ \A j \in 1..Len(rows) : rows[j].cursor >= cursor => rows[j].event >= passed
        BY <3>3 DEF LogInv, ReaderInv
      <4>2. \A j \in 1..Len(rows') : rows'[j].cursor >= cursor => rows'[j].event >= passed
        BY <2>1, <3>1, <4>1
      <4>3. passed <= diskTotal' + faults'
        BY <3>1, <4>1
      <4>4. QED
        BY <3>1, <4>1, <4>2, <4>3 DEF ReaderInv
    <3>4. QED
      BY <3>2, <3>3
  <2>6. QED
    BY <2>1, <2>2, <2>3, <2>4, <2>5 DEF LogInv
<1>3. CASE AppendFails
  <2>1. TypeOK'
    <3>1. faults' \in 0..MaxFaults
      BY <1>3, SizesAssumption DEF LogInv, TypeOK, AppendFails
    <3>2. collector' = "reading" /\ pending' \in Nat
      BY <1>3 DEF AppendFails
    <3>3. UNCHANGED <<recordVars, keepVars, diskVars, readVars>>
      BY <1>3 DEF AppendFails
    <3>4. QED
      BY <3>1, <3>2, <3>3 DEF LogInv, TypeOK, recordVars, keepVars, diskVars, readVars, answerVars
  <2>2. MemoryInv'
    BY <1>3, MemoryKept DEF LogInv, AppendFails
  <2>3. /\ faults' = faults \/ faults' = faults + 1
        /\ stored => faults' = faults + 1
        /\ faults \in Nat /\ diskTotal \in Nat
        /\ UNCHANGED diskVars /\ rows \in Seq(Rows)
    BY <1>3, SizesAssumption DEF LogInv, TypeOK, AppendFails, Rows
  <2>4. StoreInv'
    <3>1. \A j \in 1..Len(rows) : rows[j].event < diskTotal + faults => rows[j].event < diskTotal + faults'
      <4>1. \A j \in 1..Len(rows) : rows[j].event \in Nat
        BY <2>3, SizesHaveEnds
      <4>2. QED
        BY <2>3, <4>1
    <3>2. QED
      BY <2>3, <3>1 DEF LogInv, StoreInv, StoreWindow, StoreBounded, Packed, diskVars
  <2>5. PaceInv'
    <3>1. /\ stored' = stored /\ collector' = "reading" /\ total' = total /\ total \in Int
          /\ diskTotal' = diskTotal /\ rows' = rows
      BY <1>3, <2>3, SizesAssumption DEF LogInv, TypeOK, AppendFails, keepVars, recordVars, diskVars
    <3>2. stored => diskTotal + faults' = total
      BY <1>3, <2>3, <3>1 DEF LogInv, PaceInv, AppendFails
    <3>3. faults' = 0 => faults = 0
      BY <2>3
    <3>4. QED
      BY <3>1, <3>2, <3>3 DEF LogInv, PaceInv, StoreFollows
  <2>6. ReaderInv'
    BY <1>3, <2>3 DEF LogInv, TypeOK, ReaderInv, AppendFails, keepVars, diskVars, readVars, answerVars
  <2>7. QED
    BY <2>1, <2>2, <2>4, <2>5, <2>6 DEF LogInv
<1>4. CASE Ends
  <2>1. TypeOK' /\ PaceInv' /\ ReaderInv'
    BY <1>4 DEF LogInv, TypeOK, PaceInv, StoreFollows, ReaderInv, Ends, recordVars,
       keepVars, diskVars, readVars, answerVars
  <2>2. MemoryInv' /\ StoreInv'
    BY <1>4, MemoryKept, StoreKept DEF LogInv, Ends
  <2>3. QED
    BY <2>1, <2>2 DEF LogInv
<1>5. QED
  BY <1>1, <1>2, <1>3, <1>4 DEF CollectorStep

LEMMA PreservedByOthers ==
  ASSUME LogInv, Forget \/ Crash \/ Lookup
  PROVE  LogInv'
<1> USE DEF Forget, Crash, Lookup
<1>1. TypeOK'
  <2>1. CASE Forget
    BY <2>1 DEF LogInv, TypeOK, recordVars, diskVars, readVars, answerVars
  <2>2. CASE Crash
    BY <2>2 DEF LogInv, TypeOK, recordVars, diskVars, answerVars
  <2>3. CASE Lookup
    BY <2>3 DEF LogInv, TypeOK, recordVars, keepVars, diskVars, answerVars
  <2>4. QED
    BY <2>1, <2>2, <2>3
<1>2. PaceInv'
  BY DEF LogInv, PaceInv, StoreFollows, recordVars, keepVars, diskVars
<1>3. ReaderInv'
  BY DEF LogInv, ReaderInv, keepVars, diskVars, readVars, answerVars
<1>4. MemoryInv' /\ StoreInv'
  BY MemoryKept, StoreKept DEF LogInv
<1>5. QED
  BY <1>1, <1>2, <1>3, <1>4 DEF LogInv

(* A pruned run has no rows, and its events are not counted any more. *)
LEMMA PreservedByPrune ==
  ASSUME LogInv, Prune
  PROVE  LogInv'
<1>1. /\ stored' = FALSE /\ rows' = <<>> /\ diskBytes' = 0 /\ diskOldest' = diskTotal
      /\ UNCHANGED <<recordVars, held, diskTotal, written, collector, pending, readVars, faults>>
  BY DEF Prune
<1>2. TypeOK'
  <2>1. TypeOK /\ diskOldest' \in Nat /\ diskBytes' \in Nat
    BY <1>1 DEF LogInv, TypeOK
  <2>2. rows' \in Seq([cursor : Nat, event : Nat, from : Nat, to : Nat])
    BY <1>1
  <2>3. QED
    BY <1>1, <2>1, <2>2 DEF TypeOK, recordVars, readVars, answerVars
<1>3. MemoryInv'
  BY <1>1, MemoryKept DEF LogInv
<1>4. StoreInv'
  BY <1>1, SizesAssumption DEF LogInv, TypeOK, StoreInv, StoreWindow, StoreBounded, Packed, Bytes
<1>5. PaceInv'
  BY <1>1 DEF LogInv, PaceInv, StoreFollows
<1>6. ReaderInv'
  BY <1>1 DEF LogInv, ReaderInv, readVars, answerVars
<1>7. QED
  BY <1>2, <1>3, <1>4, <1>5, <1>6 DEF LogInv

(* What a reader is given from the buffer: the events its cursor asks for. *)
LEMMA MemoryPage ==
  ASSUME LogInv, base <= cursor, cursor <= base + Len(events)
  PROVE  /\ PageOf(cursor) \in Seq(Nat)
         /\ Len(PageOf(cursor)) \in Nat
         /\ \A j \in 1..Len(PageOf(cursor)) : PageOf(cursor)[j] = cursor + (j - 1)
<1>1. /\ events \in Seq(Nat) /\ base \in Nat /\ cursor \in Nat /\ PageLimit \in Nat
      /\ \A j \in 1..Len(events) : events[j] = base + j - 1
  BY SizesAssumption DEF LogInv, TypeOK, MemoryInv, MemoryWindow
<1> DEFINE m == cursor - base + 1
           n == Lowest(cursor - base + PageLimit, Len(events))
<1>2. m \in Nat /\ m >= 1 /\ n \in Nat /\ n <= Len(events) /\ m - 1 = cursor - base
  BY <1>1 DEF Lowest
<1> HIDE DEF m, n
<1>3. /\ SubSeq(events, m, n) \in Seq(Nat)
      /\ \A j \in 1..Len(SubSeq(events, m, n)) :
            /\ m + j - 1 \in 1..Len(events)
            /\ SubSeq(events, m, n)[j] = events[m + j - 1]
  BY <1>1, <1>2
<1>4. PageOf(cursor) = SubSeq(events, m, n)
  BY DEF PageOf, m, n
<1>5. ASSUME NEW j \in 1..Len(SubSeq(events, m, n))
      PROVE  SubSeq(events, m, n)[j] = cursor + (j - 1)
  <2>1. SubSeq(events, m, n)[j] = base + (m + j - 1) - 1
    BY <1>1, <1>3
  <2>2. QED
    BY <1>1, <1>2, <2>1
<1>6. QED
  BY <1>3, <1>4, <1>5

(* What it is given from the store: a stretch of the rows, all of them at or *)
(* after its cursor.                                                         *)
Stretch(n) == SubSeq(rows, n + 1, Lowest(n + PageLimit, Len(rows)))

LEMMA StorePage ==
  ASSUME LogInv, NEW n \in 0..Len(rows),
         \A j \in 1..Len(rows) : rows[j].cursor < cursor <=> j <= n
  PROVE  /\ Stretch(n) \in Seq(Rows)
         /\ \A j \in 1..Len(Stretch(n)) :
               n + j \in 1..Len(rows) /\ Stretch(n)[j] = rows[n + j] /\ rows[n + j].cursor >= cursor
<1>1. rows \in Seq(Rows) /\ PageLimit \in Nat /\ cursor \in Nat
  BY SizesAssumption DEF LogInv, TypeOK, Rows
<1> DEFINE m == Lowest(n + PageLimit, Len(rows))
<1>2. m \in Nat /\ m <= Len(rows) /\ n \in Nat
  BY <1>1 DEF Lowest
<1> HIDE DEF m
<1>3. /\ SubSeq(rows, n + 1, m) \in Seq(Rows)
      /\ \A j \in 1..Len(SubSeq(rows, n + 1, m)) :
            /\ n + j \in 1..Len(rows)
            /\ SubSeq(rows, n + 1, m)[j] = rows[n + j]
  BY <1>1, <1>2
<1>4. Stretch(n) = SubSeq(rows, n + 1, m)
  BY DEF m, Stretch
<1>5. ASSUME NEW j \in 1..Len(Stretch(n)) PROVE rows[n + j].cursor >= cursor
  <2>1. n + j \in 1..Len(rows)
    BY <1>3, <1>4
  <2>2. ~(n + j <= n)
    BY <1>2, <2>1, <1>5
  <2>3. rows[n + j].cursor \in Nat /\ ~(rows[n + j].cursor < cursor)
    BY <1>1, <2>1, <2>2, SizesHaveEnds
  <2>4. QED
    BY <1>1, <2>3
<1>6. QED
  BY <1>3, <1>4, <1>5

(* An answer, or an error, moves the reader; NothingTwice is what it may say. *)
Fresh ==
    Answered => \A j \in 1..Len(page') :
        page'[j] >= passed /\ (j > 1 => page'[j] > page'[j - 1])

LEMMA ReaderMoves ==
  ASSUME LogInv, ReadMemory \/ ReadColumns \/ ReadRows
  PROVE  /\ cursor' \in Nat /\ asked' \in Nat /\ page' \in Seq(Nat) /\ passed' \in Nat
         /\ ReaderInv' /\ Fresh
<1> DEFINE Goal == /\ cursor' \in Nat /\ asked' \in Nat /\ page' \in Seq(Nat) /\ passed' \in Nat
                   /\ ReaderInv' /\ Fresh
<1>1. /\ cursor \in Nat /\ asked \in Nat /\ page \in Seq(Nat) /\ passed \in Nat
      /\ base \in Nat /\ events \in Seq(Nat) /\ rows \in Seq(Rows)
      /\ diskOldest \in Nat /\ diskTotal \in Nat /\ faults \in Nat
  BY SizesAssumption DEF LogInv, TypeOK, Rows
<1>2. /\ held' = held /\ rows' = rows /\ diskTotal' = diskTotal /\ faults' = faults
      /\ reader' # "memory" /\ (reader' \in {"store", "rows"} => ~held)
  BY DEF ReadMemory, ReadColumns, ReadRows, recordVars, keepVars, diskVars, LogInv, ReaderInv
<1>3. ASSUME UNCHANGED answerVars, reader' # "idle" PROVE Goal
  BY <1>1, <1>2, <1>3 DEF LogInv, ReaderInv, Fresh, Answered, answerVars
<1>9. ASSUME Refused PROVE Goal
  <2>1. page' = <<>> /\ asked' = cursor /\ cursor' = cursor /\ passed' = passed
    BY <1>9 DEF Refused
  <2>2. QED
    BY <1>1, <1>2, <2>1 DEF LogInv, ReaderInv, Fresh
<1>4. ASSUME NEW oldest \in Nat, NEW newest, Expired(oldest, newest) PROVE Goal
  <2>1. /\ cursor' = oldest /\ cursor < oldest /\ page' = <<>> /\ asked' = oldest /\ passed' = passed
    BY <1>4 DEF Expired
  <2>2. Fresh
    BY <2>1 DEF Fresh
  <2>3. ReaderInv'
    <3>1. \A j \in 1..Len(rows) : rows[j].cursor >= oldest => rows[j].cursor >= cursor
      <4>1. \A j \in 1..Len(rows) : rows[j].cursor \in Nat
        BY <1>1, SizesHaveEnds
      <4>2. QED
        BY <1>1, <2>1, <4>1
    <3>2. QED
      BY <1>1, <1>2, <2>1, <3>1 DEF LogInv, ReaderInv
  <2>4. QED
    BY <1>1, <2>1, <2>2, <2>3
<1>5. CASE ReadMemory
  <2>1. CASE Expired(base, base + Len(events)) \/ Beyond(base + Len(events))
    BY <1>1, <1>4, <1>9, <2>1 DEF Beyond
  <2>2. CASE /\ base <= cursor /\ cursor <= base + Len(events)
             /\ Answer(PageOf(cursor)) /\ cursor' = cursor + Len(PageOf(cursor))
    <3> DEFINE p == PageOf(cursor)
    <3>1. p \in Seq(Nat) /\ Len(p) \in Nat /\ \A j \in 1..Len(p) : p[j] = cursor + (j - 1)
      BY <2>2, MemoryPage
    <3> HIDE DEF p
    <3>2. /\ page' = p /\ asked' = cursor /\ cursor' = cursor + Len(p)
          /\ passed' = IF p = <<>> THEN passed ELSE p[Len(p)] + 1
      BY <2>2 DEF Answer, p
    <3>3. passed <= cursor
      BY <1>5 DEF LogInv, ReaderInv, ReadMemory
    <3>4. Fresh
      <4>1. ASSUME NEW j \in 1..Len(p) PROVE p[j] >= passed /\ (j > 1 => p[j] > p[j - 1])
        <5>1. p[j] = cursor + (j - 1) /\ j \in Nat /\ j >= 1
          BY <3>1
        <5>2. ASSUME j > 1 PROVE p[j - 1] = cursor + ((j - 1) - 1)
          <6>1. j - 1 \in 1..Len(p)
            BY <3>1, <5>1, <5>2
          <6>2. QED
            BY <3>1, <6>1
        <5>3. QED
          BY <1>1, <3>3, <5>1, <5>2
      <4>2. QED
        BY <3>2, <4>1 DEF Fresh
    <3>5. passed' \in Nat /\ passed' <= cursor'
      <4>1. CASE p = <<>>
        BY <1>1, <3>1, <3>2, <3>3, <4>1
      <4>2. CASE p # <<>>
        <5>1. Len(p) \in 1..Len(p)
          BY <3>1, <4>2
        <5>2. p[Len(p)] = cursor + (Len(p) - 1)
          BY <3>1, <5>1
        <5>3. QED
          BY <1>1, <3>1, <3>2, <4>2, <5>2
      <4>3. QED
        BY <4>1, <4>2
    <3>6. QED
      BY <1>1, <1>2, <3>1, <3>2, <3>4, <3>5 DEF ReaderInv
  <2>3. QED
    BY <1>5, <2>1, <2>2 DEF ReadMemory
<1>6. CASE ReadColumns
  BY <1>1, <1>3, <1>4, <1>6, <1>9 DEF ReadColumns, Beyond
<1>7. CASE ReadRows
  <2>1. PICK n \in 0..Len(rows) :
          /\ \A j \in 1..Len(rows) : rows[j].cursor < cursor <=> j <= n
          /\ Answer([j \in DOMAIN Stretch(n) |-> Stretch(n)[j].event])
          /\ cursor' = NextCursor(Stretch(n))
    BY <1>7 DEF ReadRows, Stretch
  <2> DEFINE some == Stretch(n)
             p    == [j \in DOMAIN some |-> some[j].event]
  <2>2. /\ some \in Seq(Rows)
        /\ \A j \in 1..Len(some) :
              n + j \in 1..Len(rows) /\ some[j] = rows[n + j] /\ rows[n + j].cursor >= cursor
    BY <2>1, StorePage
  <2>3. page' = p /\ asked' = cursor /\ passed' = IF p = <<>> THEN passed ELSE p[Len(p)] + 1
    BY <2>1 DEF Answer
  <2>4. cursor' = IF some = <<>> THEN cursor ELSE some[Len(some)].cursor + 1
    BY <2>1 DEF NextCursor
  <2>5. \A j \in 1..Len(some) : some[j] \in Rows /\ some[j].event \in Nat /\ some[j].cursor \in Nat
    BY <2>2, SizesHaveEnds
  <2>6. /\ p \in Seq(Nat) /\ Len(p) = Len(some) /\ Len(p) \in Nat
        /\ \A j \in 1..Len(p) : p[j] = some[j].event
    <3> HIDE DEF some
    <3>1. DOMAIN some = 1..Len(some) /\ Len(some) \in Nat
      BY <2>2
    <3>2. p = [j \in 1..Len(some) |-> some[j].event]
      BY <3>1
    <3>3. p \in [1..Len(some) -> Nat]
      BY <2>5, <3>2
    <3>4. QED
      BY <3>1, <3>2, <3>3
  <2> HIDE DEF some, p
  <2>7. /\ \A j \in 1..Len(rows) : /\ rows[j].cursor \in Nat /\ rows[j].event \in Nat
                                   /\ rows[j].cursor <= rows[j].event
                                   /\ rows[j].event < diskTotal + faults
        /\ \A i, j \in 1..Len(rows) : i < j => rows[i].event < rows[j].event
        /\ \A j \in 1..Len(rows) : rows[j].cursor = diskOldest + j - 1
    <3>1. \A j \in 1..Len(rows) : rows[j].cursor \in Nat /\ rows[j].event \in Nat
      BY <1>1, SizesHaveEnds
    <3>2. QED
      BY <3>1 DEF LogInv, StoreInv, StoreWindow
  <2>8. \A j \in 1..Len(some) : some[j].event >= passed
    <3>1. ASSUME NEW j \in 1..Len(some) PROVE some[j].event >= passed
      <4>1. /\ n + j \in 1..Len(rows) /\ some[j] = rows[n + j] /\ some[j].cursor >= cursor
        BY <2>2
      <4>2. some[j].cursor \in Nat /\ some[j].event \in Nat /\ some[j].cursor <= some[j].event
        BY <2>7, <4>1
      <4>3. CASE passed <= cursor
        BY <1>1, <4>1, <4>2, <4>3
      <4>4. CASE \A i \in 1..Len(rows) : rows[i].cursor >= cursor => rows[i].event >= passed
        BY <4>1, <4>4
      <4>5. QED
        BY <4>3, <4>4 DEF LogInv, ReaderInv
    <3>2. QED
      BY <3>1
  <2>9. Fresh
    <3>1. ASSUME NEW j \in 1..Len(p) PROVE p[j] >= passed /\ (j > 1 => p[j] > p[j - 1])
      <4>1. p[j] >= passed
        BY <2>6, <2>8
      <4>2. ASSUME j > 1 PROVE p[j] > p[j - 1]
        <5>1. j - 1 \in 1..Len(p) /\ j \in 1..Len(p) /\ j \in Nat /\ n \in Nat
          BY <2>6, <4>2
        <5>2. /\ n + j \in 1..Len(rows) /\ n + (j - 1) \in 1..Len(rows) /\ n + (j - 1) < n + j
              /\ p[j] = rows[n + j].event /\ p[j - 1] = rows[n + (j - 1)].event
          <6>1. /\ n + j \in 1..Len(rows) /\ some[j] = rows[n + j]
                /\ n + (j - 1) \in 1..Len(rows) /\ some[j - 1] = rows[n + (j - 1)]
            BY <2>2, <2>6, <5>1
          <6>2. p[j] = some[j].event /\ p[j - 1] = some[j - 1].event
            BY <2>6, <5>1
          <6>3. n + (j - 1) < n + j
            BY <5>1
          <6>4. QED
            BY <6>1, <6>2, <6>3
        <5>3. rows[n + (j - 1)].event < rows[n + j].event
          BY <2>7, <5>2
        <5>4. rows[n + (j - 1)].event \in Nat /\ rows[n + j].event \in Nat
          BY <2>7, <5>2
        <5>5. QED
          BY <5>2, <5>3, <5>4
      <4>3. QED
        BY <4>1, <4>2
    <3>2. QED
      BY <2>3, <3>1 DEF Fresh
  <2>10. CASE some = <<>>
    <3>1. p = <<>> /\ cursor' = cursor /\ passed' = passed
      BY <2>3, <2>4, <2>6, <2>10
    <3>2. ReaderInv'
      BY <1>1, <1>2, <3>1, <1>7 DEF LogInv, ReaderInv, ReadRows
    <3>3. QED
      BY <1>1, <2>3, <2>6, <2>9, <3>1, <3>2
  <2>11. CASE some # <<>>
    <3> DEFINE q == n + Len(some)
    <3>1. Len(some) \in 1..Len(some) /\ p # <<>>
      BY <2>2, <2>6, <2>11
    <3>2. q \in 1..Len(rows) /\ some[Len(some)] = rows[q]
      BY <2>2, <3>1
    <3> HIDE DEF q
    <3>3. cursor' = rows[q].cursor + 1 /\ passed' = rows[q].event + 1
      BY <2>3, <2>4, <2>6, <2>11, <3>1, <3>2
    <3>4. cursor' \in Nat /\ passed' \in Nat /\ passed' <= diskTotal + faults
      <4>1. /\ rows[q].cursor \in Nat /\ rows[q].event \in Nat
            /\ rows[q].event < diskTotal + faults
        BY <2>7, <3>2
      <4>2. diskTotal + faults \in Nat
        BY <1>1
      <4>3. rows[q].event + 1 <= diskTotal + faults
        BY <4>1, <4>2
      <4>4. rows[q].cursor + 1 \in Nat /\ rows[q].event + 1 \in Nat
        BY <4>1
      <4>5. QED
        BY <3>3, <4>3, <4>4
    <3>5. ASSUME NEW j \in 1..Len(rows), rows[j].cursor >= rows[q].cursor + 1
          PROVE  rows[j].event >= rows[q].event + 1
      <4>1. rows[j].cursor = diskOldest + j - 1 /\ rows[q].cursor = diskOldest + q - 1
        BY <2>7, <3>2
      <4>2. q < j
        <5>1. j \in Nat /\ q \in Nat
          BY <3>2
        <5>2. diskOldest + j - 1 >= (diskOldest + q - 1) + 1
          BY <3>5, <4>1
        <5>3. QED
          BY <1>1, <5>1, <5>2
      <4>3. rows[q].event < rows[j].event /\ rows[q].event \in Nat /\ rows[j].event \in Nat
        BY <2>7, <3>2, <4>2
      <4>4. QED
        BY <4>3
    <3>6. ReaderInv'
      <4>1. ~held
        BY <1>7 DEF LogInv, ReaderInv, ReadRows
      <4>2. QED
        BY <1>2, <3>3, <3>4, <3>5, <4>1 DEF ReaderInv
    <3>7. QED
      BY <1>1, <2>3, <2>6, <2>9, <3>4, <3>6
  <2>12. QED
    BY <2>10, <2>11
<1>8. QED
  BY <1>5, <1>6, <1>7

LEMMA PreservedByReader ==
  ASSUME LogInv, ReadMemory \/ ReadColumns \/ ReadRows
  PROVE  LogInv'
<1>1. /\ UNCHANGED <<recordVars, keepVars, diskVars, collector, pending, faults>>
      /\ reader' \in {"idle", "memory", "store", "rows"}
  BY DEF ReadMemory, ReadColumns, ReadRows
<1>2. TypeOK'
  BY <1>1, ReaderMoves DEF LogInv, TypeOK, recordVars, keepVars, diskVars
<1>3. MemoryInv' /\ StoreInv'
  BY <1>1, MemoryKept, StoreKept DEF LogInv
<1>4. PaceInv'
  BY <1>1 DEF LogInv, PaceInv, StoreFollows, recordVars, keepVars, diskVars
<1>5. QED
  BY <1>2, <1>3, <1>4, ReaderMoves DEF LogInv

LEMMA LogPreserved == LogInv /\ [Next]_vars => LogInv'
<1>1. SUFFICES ASSUME LogInv, [Next]_vars PROVE LogInv'
  OBVIOUS
<1>2. CASE UNCHANGED vars
  <2>1. TypeOK' /\ PaceInv' /\ ReaderInv'
    BY <1>1, <1>2 DEF LogInv, TypeOK, PaceInv, StoreFollows, ReaderInv,
       vars, recordVars, keepVars, diskVars, readVars, answerVars
  <2>2. MemoryInv' /\ StoreInv'
    BY <1>1, <1>2, MemoryKept, StoreKept DEF LogInv, vars
  <2>3. QED
    BY <2>1, <2>2 DEF LogInv
<1>3. CASE Next
  BY <1>1, <1>3, PreservedByCollector, PreservedByOthers, PreservedByPrune, PreservedByReader DEF Next, ReaderStep
<1>4. QED
  BY <1>1, <1>2, <1>3

LEMMA LogInvariant == Spec => []LogInv
BY LogInit, LogPreserved, PTL DEF Spec

-----------------------------------------------------------------------------
(* Every variable keeps its type; in particular no counter goes below zero *)
(* and no page is taken from outside the buffer or the rows.               *)
THEOREM TypeSafety == Spec => []TypeOK
<1>1. LogInv => TypeOK
  BY DEF LogInv
<1>2. QED
  BY <1>1, LogInvariant, PTL

(* _append_event keeps the newest events, without a hole and numbered by    *)
(* their cursors, and never evicts the one it has just added; the buffer    *)
(* never outgrows max_events or max_event_bytes, and its byte counter is    *)
(* the size of what it holds, however many events were evicted.             *)
THEOREM BufferSafety == Spec => []BufferSound
<1>1. LogInv => BufferSound
  BY DEF LogInv, MemoryInv, BufferSound
<1>2. QED
  BY <1>1, LogInvariant, PTL

(* The rows of RunStore are the newest cursors, without a hole, and in the  *)
(* order of the output, whatever appends fail and also when a row too large *)
(* to keep empties the table; the store never outgrows either limit, and    *)
(* event_bytes never drifts.                                                *)
THEOREM RowsSafety == Spec => []RowsSound
<1>1. LogInv => RowsSound
  BY DEF LogInv, StoreInv, RowsSound
<1>2. QED
  BY <1>1, LogInvariant, PTL

(* Without a failed append the store numbers events as the buffer does, and *)
(* a death of Hermes loses at most the event that was being appended.       *)
THEOREM StoreFollowsSafety == Spec => []StoreFollows
<1>1. LogInv => StoreFollows
  BY DEF LogInv, PaceInv
<1>2. QED
  BY <1>1, LogInvariant, PTL

(* No other step answers the reader. *)
LEMMA StepsAreFresh == LogInv /\ [Next]_vars => [Fresh]_vars
<1>1. SUFFICES ASSUME LogInv, [Next]_vars PROVE Fresh
  OBVIOUS
<1>2. CASE ReadMemory \/ ReadColumns \/ ReadRows
  BY <1>1, <1>2, ReaderMoves
<1>3. ASSUME reader' = reader \/ reader' # "idle" \/ collector' # collector PROVE Fresh
  BY <1>3 DEF Fresh, Answered
<1>4. (\E l \in Lines : AppendMemory(l)) \/ CollectorStep \/ Ends \/ Forget \/ Prune
        \/ UNCHANGED vars => reader' = reader
  BY DEF AppendMemory, CollectorStep, AppendStore, AppendFails, Ends, Forget, Prune, vars, readVars
<1>5. Crash \/ Lookup => reader' # "idle" \/ collector' # collector
  BY DEF Crash, Lookup
<1>6. QED
  BY <1>1, <1>2, <1>3, <1>4, <1>5 DEF Next, ReaderStep

(* However appends fail, Hermes dies, the run is pruned and the tiers change *)
(* under a reader that follows next_cursor, no answer holds an event that an *)
(* earlier answer held, the same page once more included, or one older than  *)
(* that.                                                                     *)
THEOREM NothingTwiceSafety == Spec => NothingTwice
<1>1. LogInv /\ [Next]_vars => [Fresh]_vars
  BY StepsAreFresh
<1>2. QED
  BY <1>1, LogInvariant, PTL DEF Spec, NothingTwice, Fresh

=============================================================================
