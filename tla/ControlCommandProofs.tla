------------------------ MODULE ControlCommandProofs ------------------------
(***************************************************************************)
(* Proofs about ControlCommand for any number of commands and pids, any    *)
(* output and limit, and any number of threads that cannot be started; the *)
(* last section, that commands are answered and their processes end.       *)
(***************************************************************************)
EXTENDS ControlCommand, SequenceTheorems, TLAPS

Finishing == {"joinOut", "joinErr", "popping", "judging", "answering", "answered"}

(* Processes, their pids, and the table: two processes have one pid only   *)
(* when one of them is reaped, and the table lists a command under its own. *)
ProcInv ==
    /\ \A c \in Commands :
          /\ call[c] = "new" => child[c] = "none"
          /\ call[c] \notin {"new", "raised"} => child[c] # "none"
          /\ child[c] # "none" => pid[c] \in Pids
          /\ call[c] = "spawned" => Unreaped(c)
    /\ \A c, d \in Commands : c # d /\ Unreaped(c) /\ Unreaped(d) => pid[c] # pid[d]
    /\ \A p \in Pids : table[p] # None =>
          pid[table[p]] = p /\ call[table[p]] \notin {"new", "spawned"} /\ child[table[p]] # "none"

(* Who is in _terminate_popen, and what close_now has still to do. *)
StageInv ==
    /\ \A c \in Commands : stage[c] # "idle" <=> call[c] = "terminating"
    /\ stage[Closer] # "idle" <=> target # None
    /\ target # None => target \in todo
    /\ closer = "open" => swept = {}
    /\ closer = "closed" => todo = {}
    /\ \A c \in swept : call[c] \notin {"new", "spawned"} /\ child[c] # "none"

(* A process that lives when its wait is over, or its termination, was killed. *)
KillInv ==
    /\ \A c \in Commands :
          (call[c] \in Finishing \/ stage[c] = "last") /\ child[c] = "alive" => told[c] = "kill"
    /\ stage[Closer] = "last" /\ child[target] = "alive" => told[target] = "kill"
    /\ \A c \in swept \ todo : child[c] = "reaped" \/ told[c] = "kill"

(* What a drain keeps of the first t bytes: the first of them from stdout, the *)
(* last of them from stderr.                                                   *)
Kept(s, t, b) ==
    /\ Len(b) = Lowest(t, Limit)
    /\ s = "stdout" => \A i \in 1..Len(b) : b[i] = i
    /\ s = "stderr" => \A i \in 1..Len(b) : b[i] = (t - Len(b)) + i

(* stderr before it is cut: the last of the t bytes, a chunk too many at most. *)
Uncut(t, b) ==
    /\ Limit < Len(b) /\ Len(b) <= Limit + ChunkBytes /\ Len(b) <= t
    /\ \A i \in 1..Len(b) : b[i] = (t - Len(b)) + i

(* What AnswerTellsOutput says of an answer by itself. *)
AnswerFits(s, tardy, b) ==
    /\ Len(b) <= IF s = "stderr" /\ s \in tardy THEN Limit + ChunkBytes ELSE Limit
    /\ s = "stdout" => \A i \in 1..Len(b) : b[i] = i
    /\ s = "stderr" => \A i \in 1..Len(b) : b[i] = b[1] + (i - 1)

Joined(c, s) ==
    \/ s = "stdout" /\ call[c] \in Finishing \ {"joinOut"}
    \/ s = "stderr" /\ call[c] \in Finishing \ {"joinOut", "joinErr"}

(* The flag says whether something is cut off.  What the drain has in hand is *)
(* not in the buffer yet, and stderr's may hold a chunk too many for a while.  *)
BufferInv(c, s) ==
    /\ chunk[c][s] <= total[c][s] /\ (drain[c][s] # "keeping" => chunk[c][s] = 0)
    /\ drain[c][s] = "keeping" => chunk[c][s] \in 1..ChunkBytes
    /\ drain[c][s] # "cutting" => Kept(s, total[c][s] - chunk[c][s], buffer[c][s])
    /\ drain[c][s] = "cutting" => s = "stderr" /\ Uncut(total[c][s], buffer[c][s])
    /\ overflow[c][s] <=> total[c][s] > Limit

(* A drain that was joined in time reads no more. *)
StreamInv(c, s) ==
    /\ BufferInv(c, s)
    /\ call[c] \in {"new", "spawned", "listed"} => drain[c][s] = "none"
    /\ Joined(c, s) /\ s \notin late[c] => drain[c][s] = "ended"
    /\ call[c] \in {"answering", "answered"} /\ error[c] = "none" /\ s \notin late[c] => ~overflow[c][s]
    /\ call[c] = "answered" =>
          /\ AnswerFits(s, late[c], answer[c][s])
          /\ s \notin late[c] => answer[c][s] = buffer[c][s]

OutputInv == \A c \in Commands, s \in Streams : StreamInv(c, s)

ControlInv == TypeOK /\ ProcInv /\ StageInv /\ KillInv /\ LiveControlIsListed /\ OutputInv

-----------------------------------------------------------------------------
(* What _drain_stream keeps of another chunk. *)

LEMMA ChunkType ==
  ASSUME NEW t \in Nat, NEW n \in Nat
  PROVE  /\ Chunk(t, n) \in Seq(Nat) /\ Len(Chunk(t, n)) = n
         /\ \A i \in 1..n : Chunk(t, n)[i] = t + i
BY DEF Chunk

LEMMA HeadKept ==
  ASSUME NEW t \in Nat, NEW n \in Nat, NEW b \in Seq(Nat), Kept("stdout", t, b)
  PROVE  KeepHead(b, Chunk(t, n)) \in Seq(Nat) /\ Kept("stdout", t + n, KeepHead(b, Chunk(t, n)))
<1> DEFINE ch == Chunk(t, n)
           m  == Lowest(n, Limit - Len(b))
           more == SubSeq(ch, 1, m)
           r  == b \o more
<1>1. ch \in Seq(Nat) /\ Len(ch) = n /\ \A i \in 1..n : ch[i] = t + i
  BY ChunkType
<1>2. Len(b) \in Nat /\ Limit \in Nat /\ Len(b) = Lowest(t, Limit) /\ \A i \in 1..Len(b) : b[i] = i
  BY LimitAssumption DEF Kept
<1> HIDE DEF ch
<1>3. m \in Nat /\ m <= n /\ Len(b) + m = Lowest(t + n, Limit) /\ (m > 0 => Len(b) = t)
  BY <1>2 DEF Lowest
<1> HIDE DEF m
<1>4. more \in Seq(Nat) /\ Len(more) = m /\ \A i \in 1..m : more[i] = ch[i]
  BY <1>1, <1>3
<1> HIDE DEF more
<1>5. /\ r \in Seq(Nat) /\ Len(r) = Len(b) + m
      /\ \A i \in 1..(Len(b) + m) : r[i] = IF i <= Len(b) THEN b[i] ELSE more[i - Len(b)]
  BY <1>4, ConcatProperties
<1>6. ASSUME NEW i \in 1..Len(r) PROVE r[i] = i
  <2>1. CASE i <= Len(b)
    BY <1>2, <1>5, <1>6, <2>1
  <2>2. CASE i > Len(b)
    <3>1. i - Len(b) \in 1..m /\ i - Len(b) \in 1..n /\ Len(b) = t /\ i \in Nat
      BY <1>2, <1>3, <1>5, <1>6, <2>2
    <3>2. r[i] = more[i - Len(b)]
      BY <1>2, <1>5, <1>6, <2>2
    <3>3. more[i - Len(b)] = t + (i - Len(b))
      BY <1>1, <1>4, <3>1
    <3>4. QED
      BY <3>1, <3>2, <3>3
  <2>3. QED
    BY <1>2, <1>5, <1>6, <2>1, <2>2
<1>7. KeepHead(b, Chunk(t, n)) = r
  BY <1>1 DEF KeepHead, ch, m, more
<1> HIDE DEF r
<1>8. QED
  BY <1>3, <1>5, <1>6, <1>7 DEF Kept

(* stderr with another chunk: cut to the limit at its beginning, or to be cut. *)
LEMMA AllKept ==
  ASSUME NEW t \in Nat, NEW n \in 1..ChunkBytes, NEW b \in Seq(Nat), Kept("stderr", t, b)
  PROVE  /\ b \o Chunk(t, n) \in Seq(Nat)
         /\ Len(b \o Chunk(t, n)) <= Limit => Kept("stderr", t + n, b \o Chunk(t, n))
         /\ Len(b \o Chunk(t, n)) > Limit => Uncut(t + n, b \o Chunk(t, n))
<1> DEFINE ch  == Chunk(t, n)
           all == b \o ch
<1>1. n \in Nat /\ n >= 1 /\ n <= ChunkBytes /\ ChunkBytes \in Nat
  BY LimitAssumption
<1>2. ch \in Seq(Nat) /\ Len(ch) = n /\ \A i \in 1..n : ch[i] = t + i
  BY <1>1, ChunkType
<1>3. /\ Len(b) \in Nat /\ Limit \in Nat /\ Len(b) = Lowest(t, Limit) /\ Len(b) <= t /\ Len(b) <= Limit
      /\ \A i \in 1..Len(b) : b[i] = (t - Len(b)) + i
  BY LimitAssumption DEF Kept, Lowest
<1> HIDE DEF ch
<1>4. /\ all \in Seq(Nat) /\ Len(all) = Len(b) + n
      /\ \A i \in 1..(Len(b) + n) : all[i] = IF i <= Len(b) THEN b[i] ELSE ch[i - Len(b)]
  <2>1. b \o ch \in Seq(Nat)
    BY <1>2
  <2>2. Len(b \o ch) = Len(b) + Len(ch)
    BY <1>2
  <2>3. \A i \in 1..(Len(b) + Len(ch)) : (b \o ch)[i] = IF i <= Len(b) THEN b[i] ELSE ch[i - Len(b)]
    BY <1>2
  <2>4. QED
    BY <1>2, <2>1, <2>2, <2>3
<1> HIDE DEF all
<1>5. ASSUME NEW i \in 1..Len(all) PROVE all[i] = ((t + n) - Len(all)) + i
  <2>1. CASE i <= Len(b)
    BY <1>1, <1>3, <1>4, <1>5, <2>1
  <2>2. CASE i > Len(b)
    <3>1. i - Len(b) \in 1..n /\ i \in Nat
      BY <1>1, <1>3, <1>4, <1>5, <2>2
    <3>2. all[i] = ch[i - Len(b)]
      BY <1>1, <1>3, <1>4, <1>5, <2>2
    <3>3. ch[i - Len(b)] = t + (i - Len(b))
      BY <1>2, <3>1
    <3>4. QED
      BY <1>1, <1>3, <1>4, <3>1, <3>2, <3>3
  <2>3. QED
    BY <1>1, <1>3, <1>4, <1>5, <2>1, <2>2
<1>6. ASSUME Len(all) <= Limit PROVE Len(all) = Lowest(t + n, Limit)
  <2>1. Len(all) = Len(b) + n
    BY <1>4
  <2>2. Len(b) = t
    <3>1. Len(b) < Limit
      BY <1>1, <1>3, <1>6, <2>1
    <3>2. QED
      BY <1>3, <3>1 DEF Lowest
  <2>3. QED
    BY <1>1, <1>3, <1>6, <2>1, <2>2 DEF Lowest
<1>7. Len(all) <= Limit + ChunkBytes /\ Len(all) <= t + n
  <2>1. Len(all) = Len(b) + n
    BY <1>4
  <2>2. /\ Len(b) \in Nat /\ Limit \in Nat /\ Len(b) <= t /\ Len(b) <= Limit
        /\ n \in Nat /\ n <= ChunkBytes /\ ChunkBytes \in Nat
    BY <1>1, <1>3
  <2>3. QED
    BY <2>1, <2>2
<1>8. all = b \o Chunk(t, n)
  BY DEF all, ch
<1>9. QED
  BY <1>4, <1>5, <1>6, <1>7, <1>8 DEF Kept, Uncut

LEMMA TailKept ==
  ASSUME NEW t \in Nat, NEW all \in Seq(Nat), Uncut(t, all)
  PROVE  LastBytes(all) \in Seq(Nat) /\ Kept("stderr", t, LastBytes(all))
<1> DEFINE first == Len(all) - Limit
           r     == SubSeq(all, first + 1, Len(all))
<1>1. /\ Len(all) \in Nat /\ Limit \in Nat /\ first \in Nat /\ first + Limit = Len(all)
      /\ Len(all) <= t /\ Limit < t
      /\ \A i \in 1..Len(all) : all[i] = (t - Len(all)) + i
  BY LimitAssumption DEF Uncut
<1>2. LastBytes(all) = r
  BY DEF LastBytes
<1> HIDE DEF first
<1>3. /\ r \in Seq(Nat) /\ Len(r) = Limit
      /\ \A i \in 1..Limit : r[i] = all[first + i] /\ first + i \in 1..Len(all)
  <2>1. \A i \in (first + 1)..Len(all) : all[i] \in Nat
    BY <1>1
  <2>2. /\ r \in Seq(Nat)
        /\ Len(r) = IF first + 1 <= Len(all) THEN Len(all) - (first + 1) + 1 ELSE 0
        /\ \A i \in 1..(Len(all) - (first + 1) + 1) : r[i] = all[first + 1 + i - 1]
    BY <1>1, <2>1, SubSeqProperties
  <2> HIDE DEF r
  <2>3. Len(all) - (first + 1) + 1 = Limit
    BY <1>1, SMTT(30)
  <2>4. ASSUME NEW i \in 1..Limit PROVE r[i] = all[first + i] /\ first + i \in 1..Len(all)
    <3>1. first + 1 + i - 1 = first + i /\ first + i \in 1..Len(all)
      BY <1>1
    <3>2. r[i] = all[first + 1 + i - 1]
      BY <2>2, <2>3
    <3>3. QED
      BY <3>1, <3>2
  <2>5. Len(r) = Limit
    BY <1>1, <2>2, <2>3
  <2>6. QED
    BY <2>2, <2>4, <2>5
<1> HIDE DEF r
<1>4. ASSUME NEW i \in 1..Limit PROVE r[i] = (t - Limit) + i
  <2>1. r[i] = (t - Len(all)) + (first + i)
    BY <1>1, <1>3
  <2>2. i \in Nat /\ (t - Len(all)) + (first + i) = (t - Limit) + i
    BY <1>1
  <2>3. QED
    BY <2>1, <2>2
<1>5. Limit = Lowest(t, Limit)
  BY <1>1 DEF Lowest
<1>6. QED
  BY <1>2, <1>3, <1>4, <1>5 DEF Kept

(* Who leaves a drain and its buffer alone. *)
LEMMA BufferKept ==
  ASSUME NEW c \in Commands, NEW s \in Streams, BufferInv(c, s),
         UNCHANGED <<drain, total, chunk, buffer, overflow>>
  PROVE  BufferInv(c, s)'
BY DEF BufferInv

(* What may be found in a buffer fits an answer. *)
LEMMA BufferFits ==
  ASSUME ControlInv, NEW c \in Commands, NEW s \in Streams, BufferInv(c, s), NEW tardy,
         s \notin tardy => drain[c][s] # "cutting"
  PROVE  AnswerFits(s, tardy, buffer[c][s])
<1> DEFINE b == buffer[c][s]
           t == total[c][s] - chunk[c][s]
<1>1. /\ b \in Seq(Nat) /\ Len(b) \in Nat /\ t \in Nat /\ total[c][s] \in Nat
      /\ Limit \in Nat /\ ChunkBytes \in Nat
  <2>1. b \in Seq(Nat) /\ total[c][s] \in Nat /\ chunk[c][s] \in Nat /\ chunk[c][s] <= total[c][s]
    BY DEF ControlInv, TypeOK, BufferInv
  <2>2. QED
    BY <2>1, LimitAssumption
<1>2. CASE drain[c][s] # "cutting"
  <2>1. Kept(s, t, b)
    BY <1>2 DEF BufferInv
  <2> HIDE DEF b, t
  <2>2. Len(b) <= Limit /\ Len(b) <= t /\ Len(b) <= Limit + ChunkBytes
    BY <1>1, <2>1 DEF Kept, Lowest
  <2>3. s = "stderr" => \A i \in 1..Len(b) : b[i] = b[1] + (i - 1)
    BY <1>1, <2>1, <2>2 DEF Kept
  <2>4. QED
    BY <2>1, <2>2, <2>3 DEF AnswerFits, Kept, b
<1>3. CASE drain[c][s] = "cutting"
  <2>1. s = "stderr" /\ s \in tardy /\ Uncut(total[c][s], b)
    BY <1>3 DEF BufferInv
  <2> HIDE DEF b, t
  <2>2. ASSUME NEW i \in 1..Len(b) PROVE b[i] = b[1] + (i - 1)
    <3>1. i \in Nat /\ 1 \in 1..Len(b)
      BY <1>1
    <3>2. b[i] = (total[c][s] - Len(b)) + i /\ b[1] = (total[c][s] - Len(b)) + 1
      BY <2>1, <3>1 DEF Uncut
    <3>3. QED
      BY <1>1, <3>1, <3>2
  <2>3. AnswerFits(s, tardy, b)
    BY <2>1, <2>2 DEF AnswerFits, Uncut
  <2>4. QED
    BY <2>3 DEF b
<1>4. QED
  BY <1>2, <1>3

-----------------------------------------------------------------------------
LEMMA ControlInit == Init => ControlInv
<1> SUFFICES ASSUME Init PROVE ControlInv
  OBVIOUS
<1>1. TypeOK
  <2>1. /\ call \in [Commands -> Calls] /\ error \in [Commands -> {"none", "timeout"} \union Streams]
        /\ child \in [Commands -> {"none", "alive", "dead", "reaped"}]
        /\ told \in [Commands -> {"nothing", "term", "kill"}]
    BY DEF Init, Each, Calls, Streams
  <2>2. /\ late \in [Commands -> SUBSET Streams] /\ pid \in [Commands -> Pids \union {None}]
        /\ taken \subseteq Commands
    BY DEF Init, Each
  <2>3. <<>> \in Seq(Nat)
    OBVIOUS
  <2>4. answer \in [Commands -> [Streams -> Seq(Nat)]] /\ buffer \in [Commands -> [Streams -> Seq(Nat)]]
    BY <2>3 DEF Init, Both
  <2>5. /\ drain \in [Commands -> [Streams -> {"none", "reading", "keeping", "cutting", "ended"}]]
        /\ total \in [Commands -> [Streams -> Nat]] /\ chunk \in [Commands -> [Streams -> Nat]]
        /\ overflow \in [Commands -> [Streams -> BOOLEAN]]
    BY DEF Init, Both
  <2>6. /\ table \in [Pids -> Commands \union {None}]
        /\ stage \in [Commands \union {Closer} -> Stages]
        /\ closer \in {"open", "sweeping", "closed"}
        /\ swept \subseteq Commands /\ todo \subseteq swept
        /\ target \in Commands \union {None}
        /\ faults \in 0..MaxThreadFaults
    BY BoundsAssumption DEF Init, Stages
  <2>7. QED
    BY <2>1, <2>2, <2>4, <2>5, <2>6 DEF TypeOK
<1>2. ProcInv /\ StageInv /\ KillInv /\ LiveControlIsListed
  BY DEF Init, Each, ProcInv, Unreaped, StageInv, KillInv, Finishing, LiveControlIsListed
<1>3. OutputInv
  <2>1. Lowest(0, Limit) = 0 /\ ~(0 > Limit)
    BY LimitAssumption DEF Lowest
  <2>2. \A s \in Streams : Kept(s, 0, <<>>)
    BY <2>1 DEF Kept
  <2>3. QED
    BY <2>1, <2>2 DEF Init, Each, Both, OutputInv, StreamInv, BufferInv, Joined, Finishing
<1>4. QED
  BY <1>1, <1>2, <1>3 DEF ControlInv

(* A step that leaves the table alone, and lets no process come to life. *)
LEMMA ListedStays ==
  ASSUME ControlInv, table' = table,
         \A c \in Commands : child'[c] = "alive" /\ call'[c] \notin {"new", "spawned"} =>
             child[c] = "alive" /\ call[c] \notin {"new", "spawned"},
         \A c \in Commands : told[c] = "kill" => told'[c] = "kill",
         \A c \in Commands : call[c] # "new" => pid'[c] = pid[c],
         taken \subseteq taken'
  PROVE  LiveControlIsListed'
<1>1. SUFFICES ASSUME NEW c \in Commands, child'[c] = "alive", call'[c] \notin {"new", "spawned"}
               PROVE  \/ table[pid[c]] = c
                      \/ told[c] = "kill"
                      \/ c \in taken'
  BY DEF LiveControlIsListed
<1>2. \/ table[pid[c]] = c
      \/ told[c] = "kill"
      \/ c \in taken
  BY <1>1 DEF ControlInv, LiveControlIsListed
<1>3. QED
  BY <1>2

(* Up to the end of the process, or of the timeout. *)
LEMMA PreservedByStart ==
  ASSUME ControlInv, NEW c \in Commands,
  Spawn(c) \/ List(c) \/ StartDrains(c) \/ WaitReturns(c) \/ TimesOut(c)
  PROVE  ControlInv'
<1>1. CASE Spawn(c)
  <2>1. TypeOK'
    <3>1. CASE call' = [call EXCEPT ![c] = "raised"] /\ UNCHANGED <<child, pid>>
      BY <1>1, <3>1 DEF ControlInv, TypeOK, Calls, Spawn, drainVars, closeVars
    <3>2. ASSUME NEW p \in Pids, pid' = [pid EXCEPT ![c] = p], child' = [child EXCEPT ![c] = "alive"],
                 call' = [call EXCEPT ![c] = "spawned"]
          PROVE  TypeOK'
      BY <1>1, <3>2 DEF ControlInv, TypeOK, Calls, Spawn, drainVars, closeVars
    <3>3. QED
      BY <1>1, <3>1, <3>2 DEF Spawn, Goto
  <2>2. ProcInv'
    <3>1. call[c] = "new" /\ child[c] = "none" /\ table' = table
      BY <1>1 DEF Spawn, ControlInv, ProcInv
    <3>2. \A p \in Pids : table[p] # c
      BY <3>1, NamesAssumption DEF ControlInv, ProcInv
    <3>3. CASE call' = [call EXCEPT ![c] = "raised"] /\ UNCHANGED <<child, pid>>
      BY <3>1, <3>2, <3>3 DEF ControlInv, TypeOK, ProcInv, Unreaped
    <3>4. ASSUME NEW p \in Pids, Free(p), pid' = [pid EXCEPT ![c] = p],
                 child' = [child EXCEPT ![c] = "alive"], call' = [call EXCEPT ![c] = "spawned"]
          PROVE  ProcInv'
      BY <3>1, <3>2, <3>4 DEF ControlInv, TypeOK, ProcInv, Unreaped, Free
    <3>5. QED
      BY <1>1, <3>3, <3>4 DEF Spawn, Goto
  <2>3. StageInv'
    BY <1>1, NamesAssumption DEF ControlInv, TypeOK, ProcInv, StageInv, Spawn, Goto, Free,
       drainVars, closeVars
  <2>4. KillInv'
    <3>1. /\ call[c] = "new" /\ stage[c] # "last" /\ c \notin swept /\ target # c
          /\ UNCHANGED <<told, stage, swept, todo, target>>
      <4>1. call[c] = "new" /\ UNCHANGED <<told, stage, swept, todo, target>>
        BY <1>1 DEF Spawn, closeVars
      <4>2. stage[c] = "idle" /\ c \notin swept
        BY <4>1 DEF ControlInv, StageInv
      <4>3. c \notin todo /\ (target = c => target # None)
        BY <4>2, NamesAssumption DEF ControlInv, TypeOK
      <4>4. target # c
        BY <4>3 DEF ControlInv, StageInv
      <4>5. QED
        BY <4>1, <4>2, <4>4
    <3>2. \A d \in Commands \ {c} : call'[d] = call[d] /\ child'[d] = child[d]
      BY <1>1 DEF Spawn, Goto, ControlInv, TypeOK
    <3>3. call'[c] \in {"spawned", "raised"}
      BY <1>1 DEF Spawn, Goto, ControlInv, TypeOK
    <3>4. ASSUME NEW d \in Commands, call'[d] \in Finishing \/ stage'[d] = "last", child'[d] = "alive"
          PROVE  told'[d] = "kill"
      BY <3>1, <3>2, <3>3, <3>4 DEF ControlInv, KillInv, Finishing
    <3>5. ASSUME stage'[Closer] = "last", child'[target'] = "alive" PROVE told'[target'] = "kill"
      <4>1. target \in Commands
        BY <3>1, <3>5 DEF ControlInv, TypeOK, StageInv
      <4>2. QED
        BY <3>1, <3>2, <3>5, <4>1 DEF ControlInv, KillInv
    <3>6. \A d \in swept' \ todo' : child'[d] = "reaped" \/ told'[d] = "kill"
      BY <3>1, <3>2 DEF ControlInv, TypeOK, KillInv
    <3>7. QED
      BY <3>4, <3>5, <3>6 DEF KillInv
  <2>5. LiveControlIsListed'
    <3>1. call[c] = "new" /\ table' = table /\ told' = told /\ taken' = taken
      BY <1>1 DEF Spawn
    <3>2. CASE call' = [call EXCEPT ![c] = "raised"] /\ UNCHANGED <<child, pid>>
      <4>1. child[c] = "none"
        BY <3>1 DEF ControlInv, ProcInv
      <4>2. QED
        BY <3>1, <3>2, <4>1, ListedStays DEF ControlInv, TypeOK
    <3>3. ASSUME NEW p \in Pids, pid' = [pid EXCEPT ![c] = p], child' = [child EXCEPT ![c] = "alive"],
                 call' = [call EXCEPT ![c] = "spawned"]
          PROVE  LiveControlIsListed'
      BY <3>1, <3>3, ListedStays DEF ControlInv, TypeOK
    <3>4. QED
      BY <1>1, <3>2, <3>3 DEF Spawn, Goto
  <2>6. OutputInv'
    BY <1>1 DEF ControlInv, TypeOK, OutputInv, StreamInv, BufferInv, Joined, Finishing, Spawn, Goto,
       Free, drainVars, closeVars
  <2>7. QED
    BY <2>1, <2>2, <2>3, <2>4, <2>5, <2>6 DEF ControlInv
<1>2. CASE List(c)
  <2>1. TypeOK'
    BY <1>2, NamesAssumption, BoundsAssumption DEF ControlInv, TypeOK, Calls, Stages, Streams,
       List, Goto, childVars, drainVars, closeVars
  <2>2. ProcInv'
    BY <1>2, NamesAssumption DEF ControlInv, TypeOK, ProcInv, Unreaped, StageInv, List, Goto,
       childVars, drainVars, closeVars
  <2>3. StageInv'
    BY <1>2, NamesAssumption DEF ControlInv, TypeOK, ProcInv, StageInv, List, Goto, childVars,
       drainVars, closeVars
  <2>4. KillInv'
    BY <1>2, NamesAssumption DEF ControlInv, TypeOK, ProcInv, StageInv, KillInv, Finishing,
       List, Goto, childVars, drainVars, closeVars
  <2>5. LiveControlIsListed'
    BY <1>2, NamesAssumption DEF ControlInv, TypeOK, ProcInv, Unreaped, KillInv, Finishing,
       LiveControlIsListed, List, Goto, childVars, drainVars, closeVars
  <2>6. OutputInv'
    BY <1>2 DEF ControlInv, TypeOK, OutputInv, StreamInv, BufferInv, Joined, Finishing, List, Goto,
       childVars, drainVars, closeVars
  <2>7. QED
    BY <2>1, <2>2, <2>3, <2>4, <2>5, <2>6 DEF ControlInv
<1>3. CASE StartDrains(c)
  <2>1. TypeOK'
    <3>1. PICK started \in {{}, {"stdout"}, Streams} :
            drain' = [drain EXCEPT ![c] = [s \in Streams |-> IF s \in started THEN "reading" ELSE "none"]]
      BY <1>3 DEF StartDrains
    <3>2. drain' \in [Commands -> [Streams -> {"none", "reading", "keeping", "cutting", "ended"}]]
      BY <3>1 DEF ControlInv, TypeOK
    <3>3. call' \in [Commands -> Calls]
      <4>1. \E pc \in {"waiting", "raised"} : call' = [call EXCEPT ![c] = pc]
        BY <1>3 DEF StartDrains, Goto
      <4>2. QED
        BY <4>1 DEF ControlInv, TypeOK, Calls
    <3>4. faults' \in 0..MaxThreadFaults
      <4>1. faults' = faults \/ (faults < MaxThreadFaults /\ faults' = faults + 1)
        BY <1>3 DEF StartDrains
      <4>2. faults \in 0..MaxThreadFaults /\ MaxThreadFaults \in Nat
        BY BoundsAssumption DEF ControlInv, TypeOK
      <4>3. QED
        BY <4>1, <4>2
    <3>5. QED
      BY <1>3, <3>2, <3>3, <3>4 DEF ControlInv, TypeOK, StartDrains, childVars, closeVars
  <2>8. /\ call[c] = "listed" /\ \E pc \in {"waiting", "raised"} : call' = [call EXCEPT ![c] = pc]
        /\ UNCHANGED <<error, late, taken, answer, childVars, total, chunk, buffer, overflow, table,
                       stage, closeVars>>
    BY <1>3 DEF StartDrains, Goto
  <2>2. ProcInv'
    BY <2>8, NamesAssumption DEF ControlInv, TypeOK, ProcInv, Unreaped, childVars
  <2>3. StageInv'
    BY <2>8, NamesAssumption DEF ControlInv, TypeOK, StageInv, childVars, closeVars
  <2>4. KillInv'
    BY <2>8, NamesAssumption DEF ControlInv, TypeOK, StageInv, KillInv, Finishing, childVars, closeVars
  <2>5. LiveControlIsListed'
    BY <2>8, ListedStays DEF ControlInv, TypeOK, childVars
  <2>6. OutputInv'
    <3>1. ASSUME NEW d \in Commands, NEW s \in Streams PROVE StreamInv(d, s)'
      <4>1. StreamInv(d, s) /\ (d = c => drain[d][s] = "none")
        BY <2>8 DEF ControlInv, OutputInv, StreamInv
      <4>2. drain'[d][s] = drain[d][s] \/ (d = c /\ drain'[d][s] \in {"none", "reading"})
        BY <1>3 DEF StartDrains, ControlInv, TypeOK
      <4>3. BufferInv(d, s)'
        BY <2>8, <4>1, <4>2 DEF StreamInv, BufferInv
      <4>4. d = c => call'[d] \notin {"new", "spawned", "listed"} \union Finishing
        BY <2>8 DEF Finishing, ControlInv, TypeOK
      <4>5. d # c => call'[d] = call[d]
        BY <2>8 DEF ControlInv, TypeOK
      <4>6. CASE d = c
        BY <4>3, <4>4, <4>6 DEF StreamInv, Joined, Finishing
      <4>7. CASE d # c
        BY <2>8, <4>1, <4>2, <4>3, <4>5, <4>7 DEF StreamInv, Joined
      <4>8. QED
        BY <4>6, <4>7
    <3>2. QED
      BY <3>1 DEF OutputInv
  <2>7. QED
    BY <2>1, <2>2, <2>3, <2>4, <2>5, <2>6 DEF ControlInv
<1>4. CASE WaitReturns(c)
  <2>1. TypeOK'
    BY <1>4, NamesAssumption, BoundsAssumption DEF ControlInv, TypeOK, Calls, Stages, Streams,
       WaitReturns, Goto, Ended, Reap, drainVars, closeVars
  <2>2. ProcInv'
    BY <1>4, NamesAssumption DEF ControlInv, TypeOK, ProcInv, Unreaped, StageInv, WaitReturns,
       Goto, Ended, Reap, drainVars, closeVars
  <2>3. StageInv'
    BY <1>4, NamesAssumption DEF ControlInv, TypeOK, ProcInv, StageInv, WaitReturns, Goto,
       Ended, Reap, drainVars, closeVars
  <2>4. KillInv'
    BY <1>4, NamesAssumption DEF ControlInv, TypeOK, ProcInv, StageInv, KillInv, Finishing,
       WaitReturns, Goto, Ended, Reap, drainVars, closeVars
  <2>5. LiveControlIsListed'
    BY <1>4, ListedStays DEF ControlInv, TypeOK, WaitReturns, Goto, Ended, Reap, drainVars,
       closeVars
  <2>6. OutputInv'
    BY <1>4 DEF ControlInv, TypeOK, OutputInv, StreamInv, BufferInv, Joined, Finishing, WaitReturns,
       Goto, Ended, Reap, drainVars, closeVars
  <2>7. QED
    BY <2>1, <2>2, <2>3, <2>4, <2>5, <2>6 DEF ControlInv
<1>5. CASE TimesOut(c)
  <2>1. TypeOK'
    BY <1>5, NamesAssumption, BoundsAssumption DEF ControlInv, TypeOK, Calls, Stages, Streams,
       TimesOut, Goto, childVars, drainVars, closeVars
  <2>2. ProcInv'
    BY <1>5, NamesAssumption DEF ControlInv, TypeOK, ProcInv, Unreaped, StageInv, TimesOut,
       Goto, childVars, drainVars, closeVars
  <2>3. StageInv'
    BY <1>5, NamesAssumption DEF ControlInv, TypeOK, ProcInv, StageInv, TimesOut, Goto,
       childVars, drainVars, closeVars
  <2>4. KillInv'
    BY <1>5, NamesAssumption DEF ControlInv, TypeOK, ProcInv, StageInv, KillInv, Finishing,
       TimesOut, Goto, childVars, drainVars, closeVars
  <2>5. LiveControlIsListed'
    BY <1>5, ListedStays DEF ControlInv, TypeOK, TimesOut, Goto, childVars, drainVars, closeVars
  <2>6. OutputInv'
    BY <1>5 DEF ControlInv, TypeOK, OutputInv, StreamInv, BufferInv, Joined, Finishing, TimesOut, Goto,
       childVars, drainVars, closeVars
  <2>7. QED
    BY <2>1, <2>2, <2>3, <2>4, <2>5, <2>6 DEF ControlInv
<1>6. QED
  BY <1>1, <1>2, <1>3, <1>4, <1>5

(* The rest of _run_control_sync, and a process that ends. *)
LEMMA PreservedByEnd ==
  ASSUME ControlInv, NEW c \in Commands, Pop(c) \/ Judge(c) \/ Answer(c) \/ ChildExit(c)
  PROVE  ControlInv'
<1>1. CASE Pop(c)
  <2>8. taken' \subseteq Commands
    <3>1. pid[c] \in Pids
      BY <1>1 DEF Pop, ControlInv, ProcInv
    <3>2. table[pid[c]] \in Commands \union {None}
      BY <3>1 DEF ControlInv, TypeOK
    <3>3. QED
      BY <1>1, <3>2 DEF Pop, ControlInv, TypeOK
  <2>1. TypeOK'
    BY <1>1, <2>8, NamesAssumption, BoundsAssumption DEF ControlInv, TypeOK, Calls, Stages, Streams,
       Pop, Goto, childVars, drainVars, closeVars
  <2>2. ProcInv'
    BY <1>1, NamesAssumption DEF ControlInv, TypeOK, ProcInv, Unreaped, StageInv, Pop, Goto,
       childVars, drainVars, closeVars
  <2>3. StageInv'
    BY <1>1, NamesAssumption DEF ControlInv, TypeOK, ProcInv, StageInv, Pop, Goto, childVars,
       drainVars, closeVars
  <2>4. KillInv'
    BY <1>1, NamesAssumption DEF ControlInv, TypeOK, ProcInv, StageInv, KillInv, Finishing,
       Pop, Goto, childVars, drainVars, closeVars
  <2>5. LiveControlIsListed'
    BY <1>1, NamesAssumption DEF ControlInv, TypeOK, ProcInv, Unreaped, KillInv, Finishing,
       LiveControlIsListed, Pop, Goto, childVars, drainVars, closeVars
  <2>6. OutputInv'
    BY <1>1 DEF ControlInv, TypeOK, OutputInv, StreamInv, BufferInv, Joined, Finishing, Pop, Goto,
       childVars, drainVars, closeVars
  <2>7. QED
    BY <2>1, <2>2, <2>3, <2>4, <2>5, <2>6 DEF ControlInv
<1>2. CASE Judge(c)
  <2>1. TypeOK'
    BY <1>2, NamesAssumption, BoundsAssumption DEF ControlInv, TypeOK, Calls, Stages, Streams,
       Judge, Goto, Verdict, childVars, drainVars, closeVars
  <2>2. ProcInv'
    BY <1>2, NamesAssumption DEF ControlInv, TypeOK, ProcInv, Unreaped, StageInv, Judge, Goto,
       Verdict, childVars, drainVars, closeVars
  <2>3. StageInv'
    BY <1>2, NamesAssumption DEF ControlInv, TypeOK, ProcInv, StageInv, Judge, Goto, Verdict,
       childVars, drainVars, closeVars
  <2>4. KillInv'
    BY <1>2, NamesAssumption DEF ControlInv, TypeOK, ProcInv, StageInv, KillInv, Finishing,
       Judge, Goto, Verdict, childVars, drainVars, closeVars
  <2>5. LiveControlIsListed'
    BY <1>2, ListedStays DEF ControlInv, TypeOK, Judge, Goto, Verdict, childVars, drainVars,
       closeVars
  <2>6. OutputInv'
    <3>1. ASSUME NEW d \in Commands, NEW s \in Streams PROVE StreamInv(d, s)'
      <4>1. /\ call' = [call EXCEPT ![c] = "answering"] /\ call[c] = "judging"
            /\ error' = [error EXCEPT ![c] = Verdict(c)]
            /\ UNCHANGED <<late, answer, total, chunk, buffer, overflow, drain>> /\ StreamInv(d, s)
        BY <1>2, <3>1 DEF Judge, Goto, drainVars, ControlInv, OutputInv
      <4>2. Verdict(c) = "none" => ~overflow[c][s]
        BY <3>1 DEF Verdict, Streams
      <4>5. BufferInv(d, s)'
        BY <4>1, BufferKept DEF StreamInv
      <4>3. QED
        BY <3>1, <4>1, <4>2, <4>5 DEF ControlInv, TypeOK, StreamInv, Joined, Finishing
    <3>2. QED
      BY <3>1 DEF OutputInv
  <2>7. QED
    BY <2>1, <2>2, <2>3, <2>4, <2>5, <2>6 DEF ControlInv
<1>3. CASE Answer(c)
  <2>1. TypeOK'
    BY <1>3, NamesAssumption, BoundsAssumption DEF ControlInv, TypeOK, Calls, Stages, Streams,
       Answer, Goto, childVars, drainVars, closeVars
  <2>2. ProcInv'
    BY <1>3, NamesAssumption DEF ControlInv, TypeOK, ProcInv, Unreaped, StageInv, Answer,
       Goto, childVars, drainVars, closeVars
  <2>3. StageInv'
    BY <1>3, NamesAssumption DEF ControlInv, TypeOK, ProcInv, StageInv, Answer, Goto,
       childVars, drainVars, closeVars
  <2>4. KillInv'
    BY <1>3, NamesAssumption DEF ControlInv, TypeOK, ProcInv, StageInv, KillInv, Finishing,
       Answer, Goto, childVars, drainVars, closeVars
  <2>5. LiveControlIsListed'
    BY <1>3, ListedStays DEF ControlInv, TypeOK, Answer, Goto, childVars, drainVars, closeVars
  <2>6. OutputInv'
    <3>1. ASSUME NEW d \in Commands, NEW s \in Streams PROVE StreamInv(d, s)'
      <4>1. /\ call' = [call EXCEPT ![c] = "answered"] /\ call[c] = "answering"
            /\ answer' = [answer EXCEPT ![c] = buffer[c]]
            /\ UNCHANGED <<late, error, total, chunk, buffer, overflow, drain>> /\ StreamInv(d, s)
        BY <1>3, <3>1 DEF Answer, Goto, drainVars, ControlInv, OutputInv
      <4>4. s \notin late[c] /\ d = c => drain[d][s] # "cutting"
        BY <3>1, <4>1 DEF StreamInv, Joined, Finishing, Streams
      <4>2. d = c => AnswerFits(s, late[c], buffer[d][s])
        BY <3>1, <4>1, <4>4, BufferFits DEF StreamInv
      <4>5. BufferInv(d, s)'
        BY <4>1, BufferKept DEF StreamInv
      <4>3. QED
        BY <3>1, <4>1, <4>2, <4>5 DEF ControlInv, TypeOK, StreamInv, Joined, Finishing
    <3>2. QED
      BY <3>1 DEF OutputInv
  <2>7. QED
    BY <2>1, <2>2, <2>3, <2>4, <2>5, <2>6 DEF ControlInv
<1>4. CASE ChildExit(c)
  <2>1. TypeOK'
    BY <1>4, NamesAssumption, BoundsAssumption DEF ControlInv, TypeOK, Calls, Stages, Streams,
       ChildExit, callVars, drainVars, closeVars
  <2>2. ProcInv'
    BY <1>4, NamesAssumption DEF ControlInv, TypeOK, ProcInv, Unreaped, StageInv, ChildExit,
       callVars, drainVars, closeVars
  <2>3. StageInv'
    BY <1>4, NamesAssumption DEF ControlInv, TypeOK, ProcInv, StageInv, ChildExit, callVars,
       drainVars, closeVars
  <2>4. KillInv'
    BY <1>4, NamesAssumption DEF ControlInv, TypeOK, ProcInv, StageInv, KillInv, Finishing,
       ChildExit, callVars, drainVars, closeVars
  <2>5. LiveControlIsListed'
    BY <1>4, ListedStays DEF ControlInv, TypeOK, ChildExit, callVars, drainVars, closeVars
  <2>6. OutputInv'
    BY <1>4 DEF ControlInv, TypeOK, OutputInv, StreamInv, BufferInv, Joined, Finishing, ChildExit,
       callVars, drainVars, closeVars
  <2>7. QED
    BY <2>1, <2>2, <2>3, <2>4, <2>5, <2>6 DEF ControlInv
<1>5. QED
  BY <1>1, <1>2, <1>3, <1>4

(* The steps of a drain: its buffer and flag stay right, and those of the *)
(* others are left alone.                                                  *)
DrainWorks(c, s) == Read(c, s) \/ Extend(c, s) \/ Cut(c, s)
OthersKept(c, s) ==
    \A d \in Commands, q \in Streams : ~(d = c /\ q = s) =>
        /\ drain'[d][q] = drain[d][q] /\ total'[d][q] = total[d][q] /\ chunk'[d][q] = chunk[d][q]
        /\ buffer'[d][q] = buffer[d][q] /\ overflow'[d][q] = overflow[d][q]
DrainTypes ==
    /\ drain \in [Commands -> [Streams -> {"none", "reading", "keeping", "cutting", "ended"}]]
    /\ total \in [Commands -> [Streams -> Nat]] /\ chunk \in [Commands -> [Streams -> Nat]]
    /\ buffer \in [Commands -> [Streams -> Seq(Nat)]]
    /\ overflow \in [Commands -> [Streams -> BOOLEAN]]

LEMMA ReadEffect ==
  ASSUME ControlInv, NEW c \in Commands, NEW s \in Streams, Read(c, s)
  PROVE  DrainTypes' /\ BufferInv(c, s)' /\ OthersKept(c, s)
<1> DEFINE t == total[c][s]
           b == buffer[c][s]
<1>1. PICK n \in 1..Lowest(ChunkBytes, MaxBytes[c] - total[c][s]) :
        /\ total' = [total EXCEPT ![c][s] = @ + n]
        /\ chunk' = [chunk EXCEPT ![c][s] = n]
        /\ overflow' = [overflow EXCEPT ![c][s] = @ \/ Overflows(c, s, n)]
  BY DEF Read
<1>2. DrainTypes /\ drain[c][s] = "reading" /\ buffer' = buffer
      /\ drain' = [drain EXCEPT ![c][s] = "keeping"]
  BY DEF ControlInv, TypeOK, DrainTypes, Read
<1>3. t \in Nat /\ b \in Seq(Nat) /\ n \in 1..ChunkBytes /\ n \in Nat /\ n >= 1 /\ Len(b) \in Nat
  <2>1. MaxBytes[c] \in Nat /\ total[c][s] \in Nat /\ b \in Seq(Nat) /\ ChunkBytes \in Nat
    BY <1>2, BoundsAssumption, LimitAssumption DEF DrainTypes
  <2>2. QED
    BY <2>1 DEF Lowest
<1>4. Kept(s, t, b) /\ (overflow[c][s] <=> t > Limit)
  <2>1. BufferInv(c, s)
    BY DEF ControlInv, OutputInv, StreamInv
  <2>2. t - chunk[c][s] = t
    BY <1>2, <1>3, <2>1 DEF BufferInv
  <2>3. QED
    BY <1>2, <2>1, <2>2 DEF BufferInv
<1>5. Overflows(c, s, n) <=> Len(b) + n > Limit
  BY DEF Overflows
<1>6. (t > Limit \/ Len(b) + n > Limit) <=> t + n > Limit
  BY <1>3, <1>4, LimitAssumption DEF Kept, Lowest
<1>7. /\ total'[c][s] = t + n /\ chunk'[c][s] = n /\ buffer'[c][s] = b /\ drain'[c][s] = "keeping"
      /\ overflow'[c][s] = (overflow[c][s] \/ Overflows(c, s, n))
  BY <1>1, <1>2 DEF DrainTypes
<1> HIDE DEF t, b
<1>8. DrainTypes'
  <2>1. total' = [total EXCEPT ![c][s] = t + n]
    BY <1>1 DEF t
  <2>2. total' \in [Commands -> [Streams -> Nat]] /\ chunk' \in [Commands -> [Streams -> Nat]]
    BY <1>1, <1>2, <1>3, <2>1 DEF DrainTypes
  <2>3. QED
    BY <1>1, <1>2, <2>2 DEF DrainTypes
<1>9. OthersKept(c, s)
  BY <1>1, <1>2 DEF OthersKept, DrainTypes
<1>10. BufferInv(c, s)'
  <2>1. overflow'[c][s] <=> total'[c][s] > Limit
    BY <1>4, <1>5, <1>6, <1>7 DEF t
  <2>2. (t + n) - n = t /\ n <= t + n
    BY <1>3
  <2>3. QED
    BY <1>3, <1>4, <1>7, <2>1, <2>2 DEF BufferInv
<1>11. QED
  BY <1>8, <1>9, <1>10

LEMMA ExtendEffect ==
  ASSUME ControlInv, NEW c \in Commands, NEW s \in Streams, Extend(c, s)
  PROVE  DrainTypes' /\ BufferInv(c, s)' /\ OthersKept(c, s)
<1> DEFINE n == chunk[c][s]
           t == total[c][s] - n
           b == buffer[c][s]
           k == Keep(s, b, Chunk(t, n))
<1>1. /\ DrainTypes /\ drain[c][s] = "keeping"
      /\ buffer' = [buffer EXCEPT ![c][s] = k]
      /\ drain' = [drain EXCEPT ![c][s] = IF Len(k) > Limit THEN "cutting" ELSE "reading"]
      /\ chunk' = [chunk EXCEPT ![c][s] = 0]
      /\ UNCHANGED <<total, overflow>>
  BY DEF Extend, InHand, ControlInv, TypeOK, DrainTypes
<1>2. BufferInv(c, s)
  BY DEF ControlInv, OutputInv, StreamInv
<1>3. /\ n \in 1..ChunkBytes /\ n \in Nat /\ t \in Nat /\ t + n = total[c][s] /\ b \in Seq(Nat)
      /\ Kept(s, t, b)
  <2>1. n \in 1..ChunkBytes /\ n <= total[c][s] /\ total[c][s] \in Nat /\ b \in Seq(Nat) /\ Kept(s, t, b)
    BY <1>1, <1>2 DEF BufferInv, DrainTypes
  <2>2. QED
    BY <2>1, LimitAssumption
<1>4. /\ k \in Seq(Nat)
      /\ Len(k) <= Limit => Kept(s, t + n, k)
      /\ Len(k) > Limit => s = "stderr" /\ Uncut(t + n, k)
  <2>1. CASE s = "stdout"
    <3>1. k = KeepHead(b, Chunk(t, n))
      BY <2>1 DEF Keep
    <3> HIDE DEF k, t, n, b
    <3>2. k \in Seq(Nat) /\ Kept(s, t + n, k)
      <4>1. KeepHead(b, Chunk(t, n)) \in Seq(Nat) /\ Kept("stdout", t + n, KeepHead(b, Chunk(t, n)))
        BY <1>3, <2>1, HeadKept
      <4>2. QED
        BY <2>1, <3>1, <4>1
    <3>3. Len(k) <= Limit /\ Len(k) \in Nat
      BY <1>3, <3>2, LimitAssumption DEF Kept, Lowest
    <3>4. QED
      BY <3>2, <3>3, LimitAssumption
  <2>2. CASE s = "stderr"
    <3>1. k = b \o Chunk(t, n)
      BY <2>2 DEF Keep
    <3>2. QED
      BY <1>3, <2>2, <3>1, AllKept
  <2>3. QED
    BY <2>1, <2>2 DEF Streams
<1>5. /\ buffer'[c][s] = k /\ chunk'[c][s] = 0 /\ total'[c][s] = total[c][s]
      /\ drain'[c][s] = IF Len(k) > Limit THEN "cutting" ELSE "reading"
      /\ overflow'[c][s] = overflow[c][s]
  BY <1>1 DEF DrainTypes
<1>6. OthersKept(c, s)
  BY <1>1 DEF OthersKept, DrainTypes
<1> HIDE DEF k
<1>7. DrainTypes'
  BY <1>1, <1>4 DEF DrainTypes
<1>8. BufferInv(c, s)'
  <2>1. Len(k) \in Nat /\ Limit \in Nat /\ total[c][s] \in Nat /\ total[c][s] - 0 = total[c][s]
    BY <1>1, <1>4, LimitAssumption DEF DrainTypes
  <2> HIDE DEF t, n, b
  <2>2. QED
    BY <1>2, <1>3, <1>4, <1>5, <2>1 DEF BufferInv
<1>9. QED
  BY <1>6, <1>7, <1>8

LEMMA CutEffect ==
  ASSUME ControlInv, NEW c \in Commands, NEW s \in Streams, Cut(c, s)
  PROVE  DrainTypes' /\ BufferInv(c, s)' /\ OthersKept(c, s)
<1> DEFINE b == buffer[c][s]
           k == LastBytes(b)
<1>1. /\ DrainTypes /\ drain[c][s] = "cutting"
      /\ buffer' = [buffer EXCEPT ![c][s] = k]
      /\ drain' = [drain EXCEPT ![c][s] = "reading"]
      /\ UNCHANGED <<total, chunk, overflow>>
  BY DEF Cut, ControlInv, TypeOK, DrainTypes
<1>2. BufferInv(c, s)
  BY DEF ControlInv, OutputInv, StreamInv
<1>3. /\ s = "stderr" /\ Uncut(total[c][s], b) /\ chunk[c][s] = 0
      /\ total[c][s] \in Nat /\ b \in Seq(Nat)
  BY <1>1, <1>2 DEF BufferInv, DrainTypes
<1>4. k \in Seq(Nat) /\ Kept(s, total[c][s], k)
  BY <1>3, TailKept
<1>5. /\ buffer'[c][s] = k /\ drain'[c][s] = "reading" /\ chunk'[c][s] = 0
      /\ total'[c][s] = total[c][s] /\ overflow'[c][s] = overflow[c][s]
  BY <1>1, <1>3 DEF DrainTypes
<1>6. OthersKept(c, s)
  BY <1>1 DEF OthersKept, DrainTypes
<1> HIDE DEF k
<1>7. DrainTypes'
  BY <1>1, <1>4 DEF DrainTypes
<1>8. BufferInv(c, s)'
  <2>1. total[c][s] - 0 = total[c][s]
    BY <1>3
  <2>2. QED
    BY <1>2, <1>3, <1>4, <1>5, <2>1 DEF BufferInv
<1>9. QED
  BY <1>6, <1>7, <1>8

LEMMA WorkEffect ==
  ASSUME ControlInv, NEW c \in Commands, NEW s \in Streams, DrainWorks(c, s)
  PROVE  DrainTypes' /\ BufferInv(c, s)' /\ OthersKept(c, s)
BY ReadEffect, ExtendEffect, CutEffect DEF DrainWorks

(* The drain threads, and the joins of them. *)
LEMMA PreservedByDrain ==
  ASSUME ControlInv, NEW c \in Commands, NEW s \in Streams,
         Join(c, s) \/ DrainWorks(c, s) \/ DrainEnds(c, s)
  PROVE  ControlInv'
<1>1. CASE Join(c, s)
  <2>1. TypeOK'
    BY <1>1, NamesAssumption, BoundsAssumption DEF ControlInv, TypeOK, Calls, Stages, Streams,
       Join, Goto, childVars, drainVars, closeVars
  <2>2. ProcInv'
    BY <1>1, NamesAssumption DEF ControlInv, TypeOK, ProcInv, Unreaped, StageInv, Join, Goto,
       childVars, drainVars, closeVars
  <2>3. StageInv'
    BY <1>1, NamesAssumption DEF ControlInv, TypeOK, ProcInv, StageInv, Join, Goto, childVars,
       drainVars, closeVars
  <2>4. KillInv'
    BY <1>1, NamesAssumption DEF ControlInv, TypeOK, ProcInv, StageInv, KillInv, Finishing,
       Join, Goto, childVars, drainVars, closeVars
  <2>5. LiveControlIsListed'
    BY <1>1, ListedStays DEF ControlInv, TypeOK, Join, Goto, childVars, drainVars, closeVars
  <2>6. OutputInv'
    <3>1. ASSUME NEW d \in Commands, NEW q \in Streams PROVE StreamInv(d, q)'
      <4>1. /\ call[c] = (IF s = "stdout" THEN "joinOut" ELSE "joinErr")
            /\ call' = [call EXCEPT ![c] = IF s = "stdout" THEN "joinErr" ELSE "popping"]
            /\ late' = [late EXCEPT ![c] = IF drain[c][s] = "ended" THEN @ ELSE @ \union {s}]
            /\ UNCHANGED <<error, answer, total, chunk, buffer, overflow, drain>> /\ StreamInv(d, q)
        BY <1>1, <3>1 DEF Join, Goto, drainVars, ControlInv, OutputInv
      <4>5. BufferInv(d, q)'
        BY <4>1, BufferKept DEF StreamInv
      <4>2. CASE d # c
        BY <3>1, <4>1, <4>2, <4>5 DEF ControlInv, TypeOK, StreamInv, Joined
      <4>3. CASE d = c
        <5>1. q = "stdout" \/ q = "stderr"
          BY <3>1 DEF Streams
        <5>2. call'[c] \notin {"answering", "answered"}
          BY <4>1 DEF ControlInv, TypeOK
        <5>7. call'[c] \notin {"new", "spawned", "listed"}
          BY <4>1 DEF ControlInv, TypeOK
        <5>3. q \notin late'[c] => q \notin late[c] /\ (q = s => drain[c][s] = "ended")
          BY <4>1 DEF ControlInv, TypeOK
        <5>4. Joined(c, q)' => Joined(c, q) \/ q = s
          <6>1. /\ s = "stdout" => call[c] = "joinOut" /\ call'[c] = "joinErr"
                /\ s = "stderr" => call[c] = "joinErr" /\ call'[c] = "popping"
            BY <4>1 DEF ControlInv, TypeOK
          <6>2. s = "stdout" \/ s = "stderr"
            BY DEF Streams
          <6>3. QED
            BY <5>1, <6>1, <6>2 DEF Joined, Finishing
        <5>5. Joined(c, q)' /\ q \notin late'[c] => drain[c][q] = "ended"
          BY <4>1, <4>3, <5>3, <5>4 DEF StreamInv
        <5>6. QED
          BY <4>1, <4>3, <4>5, <5>2, <5>5, <5>7 DEF StreamInv
      <4>4. QED
        BY <4>2, <4>3
    <3>2. QED
      BY <3>1 DEF OutputInv
  <2>7. QED
    BY <2>1, <2>2, <2>3, <2>4, <2>5, <2>6 DEF ControlInv
<1>2. CASE DrainWorks(c, s)
  <2>8. UNCHANGED <<callVars, childVars, table, stage, closeVars,
  faults>> /\ drain[c][s] \notin {"none", "ended"}
    BY <1>2 DEF DrainWorks, Read, Extend, Cut
  <2>1. TypeOK'
    <3>1. DrainTypes'
      BY <1>2, WorkEffect
    <3>2. QED
      BY <2>8, <3>1 DEF ControlInv, TypeOK, DrainTypes, callVars, childVars, closeVars
  <2>2. ProcInv'
    BY <2>8, NamesAssumption DEF ControlInv, TypeOK, ProcInv, Unreaped, StageInv,
       callVars, childVars, closeVars
  <2>3. StageInv'
    BY <2>8, NamesAssumption DEF ControlInv, TypeOK, ProcInv, StageInv, callVars,
       childVars, closeVars
  <2>4. KillInv'
    BY <2>8, NamesAssumption DEF ControlInv, TypeOK, ProcInv, StageInv, KillInv, Finishing,
       callVars, childVars, closeVars
  <2>5. LiveControlIsListed'
    BY <2>8, ListedStays DEF ControlInv, TypeOK, callVars, childVars, closeVars
  <2>6. OutputInv'
    <3>1. ASSUME NEW d \in Commands, NEW q \in Streams PROVE StreamInv(d, q)'
      <4>1. UNCHANGED callVars /\ drain[c][s] \notin {"none", "ended"} /\ StreamInv(d, q)
        BY <2>8 DEF ControlInv, OutputInv
      <4>2. CASE d = c /\ q = s
        <5>1. BufferInv(d, q)'
          BY <1>2, <4>2, WorkEffect
        <5>2. ~(Joined(d, q) /\ q \notin late[d])
          BY <4>1, <4>2 DEF StreamInv
        <5>3. call[d] \in {"answering", "answered"} => Joined(d, q)
          BY <3>1 DEF Joined, Finishing, Streams
        <5>4. Joined(d, q)' <=> Joined(d, q)
          BY <4>1 DEF Joined, callVars
        <5>5. call[d] \notin {"new", "spawned", "listed"}
          BY <4>1, <4>2 DEF StreamInv
        <5>6. q \in late[d] \/ call[d] \notin {"answering", "answered"}
          BY <5>2, <5>3
        <5>7. /\ UNCHANGED <<call, error, late, answer>>
              /\ call[d] = "answered" => AnswerFits(q, late[d], answer[d][q])
          BY <4>1 DEF StreamInv, callVars
        <5>8. QED
          BY <5>1, <5>2, <5>4, <5>5, <5>6, <5>7 DEF StreamInv
      <4>3. CASE ~(d = c /\ q = s)
        <5>1. /\ drain'[d][q] = drain[d][q] /\ total'[d][q] = total[d][q] /\ chunk'[d][q] = chunk[d][q]
              /\ buffer'[d][q] = buffer[d][q] /\ overflow'[d][q] = overflow[d][q]
          BY <1>2, <3>1, <4>3, WorkEffect DEF OthersKept
        <5>2. Joined(d, q)' <=> Joined(d, q)
          BY <4>1 DEF Joined, callVars
        <5>3. BufferInv(d, q)'
          BY <4>1, <5>1 DEF StreamInv, BufferInv
        <5>4. QED
          BY <4>1, <5>1, <5>2, <5>3 DEF StreamInv, callVars
      <4>4. QED
        BY <4>2, <4>3
    <3>2. QED
      BY <3>1 DEF OutputInv
  <2>7. QED
    BY <2>1, <2>2, <2>3, <2>4, <2>5, <2>6 DEF ControlInv
<1>3. CASE DrainEnds(c, s)
  <2>1. TypeOK'
    BY <1>3, NamesAssumption, BoundsAssumption DEF ControlInv, TypeOK, Calls, Stages, Streams,
       DrainEnds, callVars, childVars, closeVars
  <2>2. ProcInv'
    BY <1>3, NamesAssumption DEF ControlInv, TypeOK, ProcInv, Unreaped, StageInv, DrainEnds,
       callVars, childVars, closeVars
  <2>3. StageInv'
    BY <1>3, NamesAssumption DEF ControlInv, TypeOK, ProcInv, StageInv, DrainEnds, callVars,
       childVars, closeVars
  <2>4. KillInv'
    BY <1>3, NamesAssumption DEF ControlInv, TypeOK, ProcInv, StageInv, KillInv, Finishing,
       DrainEnds, callVars, childVars, closeVars
  <2>5. LiveControlIsListed'
    BY <1>3, ListedStays DEF ControlInv, TypeOK, DrainEnds, callVars, childVars, closeVars
  <2>6. OutputInv'
    <3>1. /\ UNCHANGED <<call, error, late, answer, total, chunk, buffer, overflow>>
          /\ \A d \in Commands, q \in Streams :
                drain'[d][q] = drain[d][q] \/ (drain[d][q] = "reading" /\ drain'[d][q] = "ended")
      BY <1>3 DEF DrainEnds, callVars, ControlInv, TypeOK
    <3>2. ASSUME NEW d \in Commands, NEW q \in Streams PROVE StreamInv(d, q)'
      <4>1. StreamInv(d, q)
        BY DEF ControlInv, OutputInv
      <4>2. Joined(d, q)' <=> Joined(d, q)
        BY <3>1 DEF Joined
      <4>3. BufferInv(d, q)'
        BY <3>1, <4>1 DEF StreamInv, BufferInv
      <4>4. QED
        BY <3>1, <4>1, <4>2, <4>3 DEF StreamInv
    <3>3. QED
      BY <3>2 DEF OutputInv
  <2>7. QED
    BY <2>1, <2>2, <2>3, <2>4, <2>5, <2>6 DEF ControlInv
<1>4. QED
  BY <1>1, <1>2, <1>3

(* What a step of nobody's output leaves true of it. *)
LEMMA OutputKept ==
  ASSUME OutputInv, UNCHANGED callVars, UNCHANGED drainVars
  PROVE  OutputInv'
BY DEF OutputInv, StreamInv, BufferInv, Joined, callVars, drainVars

(* close_now, and steps that change nothing. *)
LEMMA PreservedByClose ==
  ASSUME ControlInv, Close \/ CloseReturn \/ (\E c \in Commands : Sweep(c)) \/ UNCHANGED vars
  PROVE  ControlInv'
<1>1. CASE Close
  <2>1. TypeOK'
    <3>1. Listed \subseteq Commands
      BY DEF ControlInv, TypeOK, Listed
    <3>2. QED
      BY <1>1, <3>1 DEF ControlInv, TypeOK, Close, callVars, childVars, drainVars
  <2>2. ProcInv'
    BY <1>1, NamesAssumption DEF ControlInv, TypeOK, ProcInv, Unreaped, StageInv, Close,
       Listed, callVars, childVars, drainVars
  <2>3. StageInv'
    BY <1>1, NamesAssumption DEF ControlInv, TypeOK, ProcInv, StageInv, Close, Listed,
       callVars, childVars, drainVars
  <2>4. KillInv'
    BY <1>1, NamesAssumption DEF ControlInv, TypeOK, ProcInv, StageInv, KillInv, Finishing,
       Close, Listed, callVars, childVars, drainVars
  <2>5. LiveControlIsListed'
    BY <1>1, ListedStays DEF ControlInv, TypeOK, Close, Listed, callVars, childVars, drainVars
  <2>6. OutputInv'
    BY <1>1, OutputKept DEF ControlInv, Close
  <2>7. QED
    BY <2>1, <2>2, <2>3, <2>4, <2>5, <2>6 DEF ControlInv
<1>2. CASE CloseReturn
  <2>1. TypeOK'
    BY <1>2, NamesAssumption, BoundsAssumption DEF ControlInv, TypeOK, Calls, Stages, Streams,
       CloseReturn, callVars, childVars, drainVars
  <2>2. ProcInv'
    BY <1>2, NamesAssumption DEF ControlInv, TypeOK, ProcInv, Unreaped, StageInv, CloseReturn,
       callVars, childVars, drainVars
  <2>3. StageInv'
    BY <1>2, NamesAssumption DEF ControlInv, TypeOK, ProcInv, StageInv, CloseReturn, callVars,
       childVars, drainVars
  <2>4. KillInv'
    BY <1>2, NamesAssumption DEF ControlInv, TypeOK, ProcInv, StageInv, KillInv, Finishing,
       CloseReturn, callVars, childVars, drainVars
  <2>5. LiveControlIsListed'
    BY <1>2, ListedStays DEF ControlInv, TypeOK, CloseReturn, callVars, childVars, drainVars
  <2>6. OutputInv'
    BY <1>2, OutputKept DEF ControlInv, CloseReturn
  <2>7. QED
    BY <2>1, <2>2, <2>3, <2>4, <2>5, <2>6 DEF ControlInv
<1>3. CASE \E c \in Commands : Sweep(c)
  <2>1. TypeOK'
    <3>1. UNCHANGED <<callVars, childVars, drainVars, table, closer, swept, todo, faults>>
      BY <1>3 DEF Sweep
    <3>2. target' \in Commands \union {None}
      BY <1>3 DEF Sweep
    <3>3. stage' \in [Commands \union {Closer} -> Stages]
      BY <1>3 DEF ControlInv, TypeOK, Sweep, Stages
    <3>4. QED
      BY <3>1, <3>2, <3>3 DEF ControlInv, TypeOK, callVars, childVars, drainVars
  <2>2. ProcInv'
    BY <1>3, NamesAssumption DEF ControlInv, TypeOK, ProcInv, Unreaped, StageInv, Sweep,
       callVars, childVars, drainVars
  <2>3. StageInv'
    BY <1>3, NamesAssumption DEF ControlInv, TypeOK, ProcInv, StageInv, Sweep, callVars,
       childVars, drainVars
  <2>4. KillInv'
    BY <1>3, NamesAssumption DEF ControlInv, TypeOK, ProcInv, StageInv, KillInv, Finishing,
       Sweep, callVars, childVars, drainVars
  <2>5. LiveControlIsListed'
    BY <1>3, ListedStays DEF ControlInv, TypeOK, Sweep, callVars, childVars, drainVars
  <2>6. OutputInv'
    BY <1>3, OutputKept DEF ControlInv, Sweep
  <2>7. QED
    BY <2>1, <2>2, <2>3, <2>4, <2>5, <2>6 DEF ControlInv
<1>4. CASE UNCHANGED vars
  <2>1. TypeOK'
    BY <1>4, NamesAssumption, BoundsAssumption DEF ControlInv, TypeOK, Calls, Stages, Streams,
       vars, callVars, childVars, drainVars, closeVars
  <2>2. ProcInv'
    BY <1>4, NamesAssumption DEF ControlInv, TypeOK, ProcInv, Unreaped, StageInv, vars,
       callVars, childVars, drainVars, closeVars
  <2>3. StageInv'
    BY <1>4, NamesAssumption DEF ControlInv, TypeOK, ProcInv, StageInv, vars, callVars,
       childVars, drainVars, closeVars
  <2>4. KillInv'
    BY <1>4, NamesAssumption DEF ControlInv, TypeOK, ProcInv, StageInv, KillInv, Finishing,
       vars, callVars, childVars, drainVars, closeVars
  <2>5. LiveControlIsListed'
    BY <1>4, ListedStays DEF ControlInv, TypeOK, vars, callVars, childVars, drainVars, closeVars
  <2>6. OutputInv'
    BY <1>4, OutputKept DEF ControlInv, vars
  <2>7. QED
    BY <2>1, <2>2, <2>3, <2>4, <2>5, <2>6 DEF ControlInv
<1>5. QED
  BY <1>1, <1>2, <1>3, <1>4

(* _terminate_popen. *)

(* poll or a wait finds the process alive, and the thread goes on. *)
LEMMA PreservedByLook ==
  ASSUME ControlInv, NEW a \in Commands \union {Closer}, NEW c \in Commands, Terminates(a, c),
         NEW next \in {"term", "kill"},
         stage[a] \in {"poll", "grace"}, child[c] = "alive", stage' = [stage EXCEPT ![a] = next],
         UNCHANGED <<callVars, childVars, drainVars, table, closeVars, faults>>
  PROVE  ControlInv'
<1>1. TypeOK'
  BY DEF ControlInv, TypeOK, Stages, callVars, childVars, drainVars, closeVars
<1>2. ProcInv' /\ OutputInv'
  BY DEF ControlInv, ProcInv, Unreaped, OutputInv, StreamInv, BufferInv, Joined, callVars, childVars,
     drainVars
<1>3. StageInv' /\ KillInv'
  BY NamesAssumption DEF ControlInv, TypeOK, StageInv, KillInv, callVars, childVars, closeVars
<1>4. LiveControlIsListed'
  BY ListedStays DEF callVars, childVars
<1>5. QED
  BY <1>1, <1>2, <1>3, <1>4 DEF ControlInv

(* A signal is sent, SIGKILL before the last wait. *)
LEMMA PreservedBySend ==
  ASSUME ControlInv, NEW a \in Commands \union {Closer}, NEW c \in Commands, Terminates(a, c),
         NEW next \in {"grace", "last"}, NEW strength \in {"term", "kill"},
         next = "last" => strength = "kill",
         stage[a] \in {"term", "kill"}, stage' = [stage EXCEPT ![a] = next],
         Signal(c, strength),
         UNCHANGED <<callVars, child, pid, drainVars, table, closeVars, faults>>
  PROVE  ControlInv'
<1>1. /\ told' \in [Commands -> {"nothing", "term", "kill"}]
      /\ \A d \in Commands : told[d] = "kill" => told'[d] = "kill"
      /\ next = "last" /\ child[c] = "alive" => told'[c] = "kill"
  BY DEF Signal, ControlInv, TypeOK, Unreaped
<1>2. TypeOK'
  BY <1>1 DEF ControlInv, TypeOK, Stages, callVars, drainVars, closeVars
<1>3. ProcInv' /\ OutputInv'
  BY DEF ControlInv, ProcInv, Unreaped, OutputInv, StreamInv, BufferInv, Joined, callVars, drainVars
<1>4. StageInv'
  BY NamesAssumption DEF ControlInv, TypeOK, StageInv, callVars, closeVars
<1>5. KillInv'
  <2>1. \A d \in Commands : (call'[d] \in Finishing \/ stage'[d] = "last") /\ child'[d] = "alive"
           => told'[d] = "kill"
    BY <1>1, NamesAssumption DEF ControlInv, TypeOK, KillInv, callVars, Terminates
  <2>2. stage'[Closer] = "last" /\ child'[target'] = "alive" => told'[target'] = "kill"
    <3>1. CASE a = Closer
      BY <1>1, <3>1, NamesAssumption DEF Terminates, ControlInv, TypeOK, closeVars
    <3>2. CASE a # Closer
      <4>1. stage'[Closer] = stage[Closer] /\ target' = target
        BY <3>2 DEF ControlInv, TypeOK, closeVars
      <4>2. stage[Closer] = "last" => target \in Commands
        BY DEF ControlInv, TypeOK, StageInv
      <4>3. QED
        BY <1>1, <4>1, <4>2 DEF ControlInv, KillInv
    <3>3. QED
      BY <3>1, <3>2
  <2>3. \A d \in swept' \ todo' : child'[d] = "reaped" \/ told'[d] = "kill"
    BY <1>1 DEF ControlInv, TypeOK, KillInv, closeVars
  <2>4. QED
    BY <2>1, <2>2, <2>3 DEF KillInv
<1>6. LiveControlIsListed'
  BY <1>1, ListedStays DEF callVars
<1>7. QED
  BY <1>2, <1>3, <1>4, <1>5, <1>6 DEF ControlInv

(* The process is found ended, and reaped; or lives on after SIGKILL. *)
LEMMA PreservedByReturn ==
  ASSUME ControlInv, NEW a \in Commands \union {Closer}, NEW c \in Commands, Terminates(a, c),
         stage[a] # "idle", Returns(a),
         \/ Ended(c) /\ Reap(c)
         \/ child[c] = "alive" /\ stage[a] = "last" /\ UNCHANGED child,
         UNCHANGED <<error, late, taken, answer, pid, told, drainVars, table, faults>>
  PROVE  ControlInv'
<1>1. /\ child' \in [Commands -> {"none", "alive", "dead", "reaped"}]
      /\ \A d \in Commands : child'[d] = child[d]
                              \/ (child[d] \in {"dead", "reaped"} /\ child'[d] = "reaped")
      /\ \A d \in Commands : d # c => child'[d] = child[d]
      /\ child'[c] = "alive" => told[c] = "kill"
      /\ child'[c] = "reaped" \/ told[c] = "kill"
  <2>1. child[c] = "alive" /\ stage[a] = "last" => told[c] = "kill"
    BY DEF Terminates, ControlInv, KillInv
  <2>2. QED
    BY <2>1 DEF Ended, Reap, ControlInv, TypeOK
<1>2. stage' = [stage EXCEPT ![a] = "idle"]
  BY DEF Returns
<1>3. CASE a = Closer
  <2>0. call[c] \notin {"new", "spawned"}
    BY <1>3, NamesAssumption DEF Terminates, ControlInv, TypeOK, StageInv
  <2>1. target = c /\ todo' = todo \ {c} /\ target' = None /\ UNCHANGED <<call, closer, swept>>
    BY <1>3, NamesAssumption DEF Returns, Terminates
  <2>2. TypeOK'
    BY <1>1, <1>2, <2>1 DEF ControlInv, TypeOK, Stages, drainVars
  <2>3. ProcInv'
    BY <1>1, <2>0, <2>1 DEF ControlInv, TypeOK, ProcInv, Unreaped
  <2>4. StageInv'
    BY <1>1, <1>2, <1>3, <2>1, NamesAssumption DEF ControlInv, TypeOK, StageInv
  <2>5. KillInv'
    BY <1>1, <1>2, <1>3, <2>1, NamesAssumption DEF ControlInv, TypeOK, KillInv
  <2>6. LiveControlIsListed'
    BY <1>1, <2>1, ListedStays
  <2>7. OutputInv'
    BY <2>1 DEF ControlInv, OutputInv, StreamInv, BufferInv, Joined, drainVars
  <2>8. QED
    BY <2>2, <2>3, <2>4, <2>5, <2>6, <2>7 DEF ControlInv
<1>4. CASE a = c
  <2>1. /\ call' = [call EXCEPT ![c] = "joinOut"] /\ call[c] = "terminating"
        /\ UNCHANGED <<closer, swept, todo, target>>
    BY <1>4, NamesAssumption DEF Returns, Goto, closeVars, ControlInv, StageInv
  <2>2. TypeOK'
    BY <1>1, <1>2, <2>1 DEF ControlInv, TypeOK, Stages, Calls, drainVars
  <2>3. ProcInv'
    <3>1. \A d \in Commands :
             /\ call'[d] = "new" => child'[d] = "none"
             /\ call'[d] \notin {"new", "raised"} => child'[d] # "none"
             /\ child'[d] # "none" => pid'[d] \in Pids
             /\ call'[d] = "spawned" => Unreaped(d)'
      BY <1>1, <2>1 DEF ControlInv, TypeOK, ProcInv, Unreaped
    <3>2. \A d, e \in Commands : d # e /\ Unreaped(d)' /\ Unreaped(e)' => pid'[d] # pid'[e]
      BY <1>1 DEF ControlInv, ProcInv, Unreaped
    <3>3. ASSUME NEW p \in Pids, table'[p] # None
          PROVE  /\ pid'[table'[p]] = p
                 /\ call'[table'[p]] \notin {"new", "spawned"} /\ child'[table'[p]] # "none"
      <4>1. table'[p] = table[p] /\ table[p] \in Commands
        BY <3>3 DEF ControlInv, TypeOK
      <4>2. pid[table[p]] = p /\ call[table[p]] \notin {"new", "spawned"} /\ child[table[p]] # "none"
        BY <3>3, <4>1 DEF ControlInv, ProcInv
      <4>3. QED
        BY <1>1, <2>1, <4>1, <4>2 DEF ControlInv, TypeOK
    <3>4. QED
      BY <3>1, <3>2, <3>3 DEF ProcInv
  <2>4. StageInv'
    BY <1>1, <1>2, <1>4, <2>1, NamesAssumption DEF ControlInv, TypeOK, StageInv
  <2>5. KillInv'
    <3>1. \A d \in Commands : (call'[d] \in Finishing \/ stage'[d] = "last") /\ child'[d] = "alive"
             => told'[d] = "kill"
      BY <1>1, <1>2, <1>4, <2>1 DEF ControlInv, TypeOK, KillInv
    <3>2. stage'[Closer] = "last" /\ child'[target'] = "alive" => told'[target'] = "kill"
      <4>1. stage[Closer] = "last" => target \in Commands
        BY DEF ControlInv, TypeOK, StageInv
      <4>2. stage'[Closer] = stage[Closer]
        BY <1>2, <1>4, NamesAssumption DEF ControlInv, TypeOK
      <4>3. QED
        BY <1>1, <2>1, <4>1, <4>2 DEF ControlInv, KillInv
    <3>3. \A d \in swept' \ todo' : child'[d] = "reaped" \/ told'[d] = "kill"
      BY <1>1, <2>1 DEF ControlInv, TypeOK, KillInv
    <3>4. QED
      BY <3>1, <3>2, <3>3 DEF KillInv
  <2>6. LiveControlIsListed'
    BY <1>1, <2>1, ListedStays DEF ControlInv, TypeOK
  <2>7. OutputInv'
    <3>1. ASSUME NEW d \in Commands, NEW q \in Streams PROVE StreamInv(d, q)'
      <4>1. StreamInv(d, q)
        BY DEF ControlInv, OutputInv
      <4>2. BufferInv(d, q)'
        BY <4>1, BufferKept DEF StreamInv, drainVars
      <4>3. call'[d] = call[d] \/ (call[d] = "terminating" /\ call'[d] = "joinOut")
        BY <2>1 DEF ControlInv, TypeOK
      <4>4. Joined(d, q)' => Joined(d, q)
        BY <4>3 DEF Joined, Finishing
      <4>5. QED
        BY <4>1, <4>2, <4>3, <4>4 DEF StreamInv, drainVars
    <3>2. QED
      BY <3>1 DEF OutputInv
  <2>8. QED
    BY <2>2, <2>3, <2>4, <2>5, <2>6, <2>7 DEF ControlInv
<1>5. QED
  BY <1>3, <1>4 DEF Terminates

LEMMA PreservedByTerminate ==
  ASSUME ControlInv, NEW a \in Commands \union {Closer}, NEW c \in Commands, Terminate(a, c)
  PROVE  ControlInv'
<1>1. Terminates(a, c)
  BY DEF Terminate
<1>2. ASSUME NEW from \in {"poll", "grace"}, NEW next \in {"term", "kill"}, Look(a, c, from, next)
      PROVE  ControlInv'
  <2>1. stage[a] = from
    BY <1>2 DEF Look
  <2>2. CASE Ended(c) /\ Reap(c) /\ Returns(a)
    BY <1>1, <1>2, <2>1, <2>2, PreservedByReturn DEF Look
  <2>3. CASE child[c] = "alive" /\ stage' = [stage EXCEPT ![a] = next] /\ UNCHANGED <<child, call,
  closeVars>>
    BY <1>1, <1>2, <2>1, <2>3, PreservedByLook DEF Look, callVars, childVars
  <2>4. QED
    BY <1>2, <2>2, <2>3 DEF Look
<1>3. ASSUME NEW from \in {"term", "kill"}, NEW next \in {"grace", "last"},
             NEW strength \in {"term", "kill"}, next = "last" => strength = "kill",
             Send(a, c, from, next, strength)
      PROVE  ControlInv'
  BY <1>1, <1>3, PreservedBySend DEF Send
<1>4. CASE LastWait(a, c)
  BY <1>1, <1>4, PreservedByReturn DEF LastWait
<1>5. QED
  BY <1>2, <1>3, <1>4 DEF Terminate

LEMMA ControlPreserved == ControlInv /\ [Next]_vars => ControlInv'
BY PreservedByStart, PreservedByEnd, PreservedByDrain, PreservedByClose, PreservedByTerminate
   DEF Next, CallerStep, CloserStep, DrainStep, DrainWorks

LEMMA ControlInvariant == Spec => []ControlInv
BY ControlInit, ControlPreserved, PTL DEF Spec

-----------------------------------------------------------------------------
(* Every variable keeps its type. *)
THEOREM TypeSafety == Spec => []TypeOK
<1>1. ControlInv => TypeOK
  BY DEF ControlInv
<1>2. QED
  BY <1>1, ControlInvariant, PTL

(* For any number of commands and pids: a live process that got past the    *)
(* registration is in _control_processes, except after SIGKILL, or after a  *)
(* command that had the same pid before took its entry.                     *)
THEOREM ListedSafety == Spec => []LiveControlIsListed
<1>1. ControlInv => LiveControlIsListed
  BY DEF ControlInv
<1>2. QED
  BY <1>1, ControlInvariant, PTL

(* When close_now returns, each process it had copied has ended or was sent *)
(* SIGKILL, whatever timeouts and waits of the commands' threads did.       *)
THEOREM SweepSafety == Spec => []SweptControlsAreDead
<1>1. ControlInv => SweptControlsAreDead
  BY DEF ControlInv, StageInv, KillInv, SweptControlsAreDead
<1>2. QED
  BY <1>1, ControlInvariant, PTL

(* For any output in any chunks, and wherever the drains are in them: an    *)
(* answer without an error is complete, one with an error is cut to the     *)
(* limit at the right end, and a drain that outlived its join adds no more  *)
(* than the chunk it has not cut off.                                       *)
THEOREM AnswerSafety == Spec => []AnswerTellsOutput
<1>1. ControlInv => AnswerTellsOutput
  <2>1. SUFFICES ASSUME ControlInv, NEW c \in Commands, call[c] = "answered"
        PROVE  /\ Len(answer[c]["stdout"]) <= Limit
               /\ Len(answer[c]["stderr"]) <= IF "stderr" \in late[c] THEN Limit + ChunkBytes ELSE Limit
               /\ \A i \in DOMAIN answer[c]["stdout"] : answer[c]["stdout"][i] = i
               /\ \A i \in DOMAIN answer[c]["stderr"] :
                      answer[c]["stderr"][i] = answer[c]["stderr"][1] + (i - 1)
               /\ \A s \in Streams \ late[c] :
                      /\ Len(answer[c][s]) = Lowest(total[c][s], Limit)
                      /\ error[c] = "none" => Len(answer[c][s]) = total[c][s]
               /\ "stderr" \notin late[c] /\ answer[c]["stderr"] # <<>> =>
                      answer[c]["stderr"][Len(answer[c]["stderr"])] = total[c]["stderr"]
    BY DEF AnswerTellsOutput
  <2>2. \A s \in Streams : /\ answer[c][s] \in Seq(Nat) /\ total[c][s] \in Nat
                           /\ DOMAIN answer[c][s] = 1..Len(answer[c][s]) /\ Len(answer[c][s]) \in Nat
    BY <2>1 DEF ControlInv, TypeOK
  <2>3. "stdout" \in Streams /\ "stderr" \in Streams
    BY DEF Streams
  <2>4. \A s \in Streams : StreamInv(c, s)
    BY <2>1 DEF ControlInv, OutputInv
  <2>5. AnswerFits("stdout", late[c], answer[c]["stdout"]) /\ AnswerFits("stderr", late[c],
  answer[c]["stderr"])
    BY <2>1, <2>3, <2>4 DEF StreamInv
  <2>6. ASSUME NEW s \in Streams, s \notin late[c]
        PROVE  /\ answer[c][s] = buffer[c][s] /\ Kept(s, total[c][s], answer[c][s])
               /\ error[c] = "none" => ~(total[c][s] > Limit)
    <3>1. answer[c][s] = buffer[c][s] /\ drain[c][s] = "ended" /\ BufferInv(c, s)
      BY <2>1, <2>4, <2>6 DEF StreamInv, Joined, Finishing, Streams
    <3>2. total[c][s] - chunk[c][s] = total[c][s]
      BY <2>2, <3>1 DEF BufferInv
    <3>3. Kept(s, total[c][s], buffer[c][s])
      BY <3>1, <3>2 DEF BufferInv
    <3>4. QED
      BY <2>1, <2>4, <2>6, <3>1, <3>3 DEF StreamInv, BufferInv
  <2>7. \A s \in Streams \ late[c] :
           /\ Len(answer[c][s]) = Lowest(total[c][s], Limit)
           /\ error[c] = "none" => Len(answer[c][s]) = total[c][s]
    BY <2>2, <2>6, LimitAssumption DEF Kept, Lowest
  <2>8. "stderr" \notin late[c] /\ answer[c]["stderr"] # <<>> =>
           answer[c]["stderr"][Len(answer[c]["stderr"])] = total[c]["stderr"]
    <3> DEFINE b == answer[c]["stderr"]
    <3>1. SUFFICES ASSUME "stderr" \notin late[c], b # <<>> PROVE b[Len(b)] = total[c]["stderr"]
      OBVIOUS
    <3>2. Kept("stderr", total[c]["stderr"], b) /\ b \in Seq(Nat) /\ total[c]["stderr"] \in Nat
      BY <2>2, <2>3, <2>6, <3>1
    <3> HIDE DEF b
    <3>3. Len(b) \in 1..Len(b) /\ Len(b) \in Nat
      BY <3>1, <3>2
    <3>4. b[Len(b)] = (total[c]["stderr"] - Len(b)) + Len(b)
      BY <3>2, <3>3 DEF Kept
    <3>5. QED
      BY <3>2, <3>3, <3>4
  <2>9. QED
    BY <2>2, <2>3, <2>5, <2>7, <2>8 DEF AnswerFits
<1>2. QED
  BY <1>1, ControlInvariant, PTL

-----------------------------------------------------------------------------
(* Liveness.  A command has a bounded number of steps before it, all of its  *)
(* own thread, and no other thread takes one back.                           *)

(* The guards of those steps: a thread that waits for a process, or that     *)
(* terminates one, has one, and what it finds is alive or ended.             *)
CommandReady(c) ==
    /\ Unanswered(c)
    /\ call[c] = "waiting" => child[c] = "alive" \/ Ended(c)
    /\ call[c] = "terminating" =>
        stage[c] \in Stages \ {"idle"} /\ (child[c] = "alive" \/ Ended(c))

(* What no prover here can compute: that these guards are all ENABLED asks.  *)
(* ThreadsGoOn, which TLC checks, says it without the guards.                *)
GuardsEnable == \A c \in Commands :
    /\ CommandReady(c) => ENABLED <<CallerStep(c)>>_vars
    /\ told[c] = "kill" /\ child[c] = "alive" => ENABLED <<KilledExit(c)>>_vars

LEMMA GuardsAreWeaker == ThreadsGoOn => GuardsEnable
BY DEF ThreadsGoOn, GuardsEnable, CommandReady

LEMMA CommandIsReady ==
  ASSUME ControlInv, NEW c \in Commands, Unanswered(c)
  PROVE  CommandReady(c)
BY DEF ControlInv, TypeOK, ProcInv, StageInv, CommandReady, Unanswered, Ended

(* How many steps a command has before it at most, those of _terminate_popen *)
(* counted apart.                                                            *)
CallLeft(at) ==
    CASE at = "spawned" -> 13
      [] at = "listed" -> 12
      [] at = "waiting" -> 11
      [] at = "terminating" -> 6
      [] at = "joinOut" -> 5
      [] at = "joinErr" -> 4
      [] at = "popping" -> 3
      [] at = "judging" -> 2
      [] at = "answering" -> 1
      [] at \in {"answered", "raised"} -> 0
      [] OTHER -> 14
StageLeft(at) ==
    CASE at = "poll" -> 4
      [] at = "term" -> 3
      [] at = "grace" -> 2
      [] at = "kill" -> 1
      [] OTHER -> 0
StepsLeft(c) == CallLeft(call[c]) + StageLeft(stage[c])

(* What the steps of other threads leave alone. *)
LEMMA OthersLeaveCommand ==
  ASSUME ControlInv, Next, NEW c \in Commands, ~CallerStep(c)
  PROVE  call'[c] = call[c] /\ stage'[c] = stage[c]
<1> USE DEF ControlInv, TypeOK
<1>1. Closer # c
  BY NamesAssumption
<1>2. ASSUME NEW d \in Commands, d # c, CallerStep(d)
      PROVE  call'[c] = call[c] /\ stage'[c] = stage[c]
  <2>1. Closer # d
    BY NamesAssumption
  <2>2. CASE Terminate(d, d)
    BY <1>2, <2>1, <2>2 DEF Terminate, Look, Send, LastWait, Returns, Goto, callVars
  <2>3. CASE \E s \in Streams : Join(d, s)
    BY <1>2, <2>3 DEF Join, Goto
  <2>4. CASE Spawn(d) \/ List(d) \/ StartDrains(d) \/ WaitReturns(d) \/ TimesOut(d) \/ Pop(d) \/ Judge(d)
             \/ Answer(d)
    BY <1>2, <2>4 DEF Spawn, List, StartDrains, WaitReturns, TimesOut, Pop, Judge, Answer, Goto
  <2>5. QED
    BY <1>2, <2>2, <2>3, <2>4 DEF CallerStep
<1>3. ASSUME NEW d \in Commands, ChildExit(d) \/ DrainStep(d) \/ Sweep(d) \/ Close \/ CloseReturn
      PROVE  call' = call /\ stage'[c] = stage[c]
  BY <1>1, <1>3 DEF ChildExit, DrainStep, Read, Extend, Cut, DrainEnds, Sweep, Close, CloseReturn, callVars
<1>4. ASSUME NEW d \in Commands, Terminate(Closer, d)
      PROVE  call' = call /\ stage'[c] = stage[c]
  BY <1>1, <1>4 DEF Terminate, Look, Send, LastWait, Returns, callVars
<1>5. QED
  BY <1>2, <1>3, <1>4 DEF Next, CloserStep

LEMMA CallBounded ==
  ASSUME NEW at \in Calls
  PROVE  /\ CallLeft(at) \in 0..14
         /\ CallLeft(at) = 14 <=> at = "new"
         /\ CallLeft(at) = 0 <=> at \in {"answered", "raised"}
<1>1. CallLeft(at) \in 0..14
  BY DEF Calls, CallLeft
<1>2. CallLeft(at) = 14 <=> at = "new"
  BY DEF Calls, CallLeft
<1>3. CallLeft(at) = 0 <=> at \in {"answered", "raised"}
  BY DEF Calls, CallLeft
<1>4. QED
  BY <1>1, <1>2, <1>3

LEMMA StageBounded ==
  ASSUME NEW at \in Stages
  PROVE  StageLeft(at) \in 0..4 /\ StageLeft("idle") = 0 /\ CallLeft("terminating") = 6
BY DEF Stages, StageLeft, CallLeft

LEMMA StepsBounded ==
  ASSUME ControlInv, NEW c \in Commands
  PROVE  /\ StepsLeft(c) \in 0..14
         /\ StepsLeft(c) = 14 <=> call[c] = "new"
         /\ StepsLeft(c) = 0 <=> call[c] \in {"answered", "raised"}
<1>1. call[c] \in Calls /\ stage[c] \in Stages
  BY DEF ControlInv, TypeOK
<1>2. stage[c] # "idle" <=> call[c] = "terminating"
  BY DEF ControlInv, StageInv
<1>3. StageLeft(stage[c]) \in 0..4 /\ (stage[c] = "idle" => StageLeft(stage[c]) = 0)
  BY <1>1, StageBounded
<1>4. call[c] = "terminating" => CallLeft(call[c]) = 6
  BY <1>1, StageBounded
<1>5. CASE call[c] = "terminating"
  BY <1>3, <1>4, <1>5 DEF StepsLeft
<1>6. CASE call[c] # "terminating"
  BY <1>1, <1>2, <1>3, <1>6, CallBounded DEF StepsLeft
<1>7. QED
  BY <1>5, <1>6

LEMMA CommandAdvances ==
  ASSUME ControlInv, Next, NEW c \in Commands
  PROVE  /\ StepsLeft(c) \in 0..14 /\ StepsLeft(c)' \in 0..StepsLeft(c)
         /\ CallerStep(c) => StepsLeft(c)' < StepsLeft(c)
<1>1. Closer # c /\ call[c] \in Calls /\ stage[c] \in Stages
  BY NamesAssumption DEF ControlInv, TypeOK
<1>2. stage[c] # "idle" <=> call[c] = "terminating"
  BY DEF ControlInv, StageInv
<1>3. call'[c] \in Calls /\ stage'[c] \in Stages
  BY ControlPreserved DEF ControlInv, TypeOK
<1>4. /\ StepsLeft(c) \in 0..14 /\ StepsLeft(c)' \in 0..18
      /\ StageLeft(stage[c]) \in 0..4 /\ StageLeft(stage'[c]) \in 0..4
  <2>1. /\ CallLeft(call'[c]) \in 0..14 /\ StageLeft(stage'[c]) \in 0..4
        /\ StageLeft(stage[c]) \in 0..4
    BY <1>1, <1>3, CallBounded, StageBounded
  <2>2. QED
    BY <2>1, StepsBounded DEF StepsLeft
<1> USE DEF ControlInv, TypeOK
<1>5. ASSUME Terminate(c, c)
      PROVE  StepsLeft(c)' < StepsLeft(c)
  <2>1. call[c] = "terminating"
    BY <1>2, <1>5 DEF Terminate, Look, Send, LastWait
  <2>2. CASE call'[c] = call[c]
    <3>1. StageLeft(stage'[c]) < StageLeft(stage[c])
      BY <1>1, <1>5, <2>1, <2>2 DEF Terminate, Look, Send, LastWait, Returns, Goto, StageLeft
    <3>2. CallLeft(call[c]) = 6
      BY <1>1, <2>1, StageBounded
    <3>3. QED
      BY <1>4, <2>2, <3>1, <3>2 DEF StepsLeft
  <2>3. CASE call'[c] # call[c]
    <3>1. call'[c] = "joinOut" /\ stage'[c] = "idle"
      BY <1>1, <1>5, <2>3 DEF Terminate, Look, Send, LastWait, Returns, Goto, callVars
    <3>2. CallLeft("joinOut") = 5 /\ CallLeft("terminating") = 6
      BY DEF CallLeft
    <3>3. StageLeft("idle") = 0
      BY DEF StageLeft
    <3>4. QED
      BY <1>4, <2>1, <3>1, <3>2, <3>3 DEF StepsLeft
  <2>4. QED
    BY <2>2, <2>3
<1>6. ASSUME TimesOut(c)
      PROVE  StepsLeft(c)' < StepsLeft(c)
  <2>1. call[c] = "waiting" /\ stage[c] = "idle" /\ call'[c] = "terminating" /\ stage'[c] = "poll"
    BY <1>2, <1>6 DEF TimesOut, Goto
  <2>2. CallLeft("waiting") = 11 /\ CallLeft("terminating") = 6
    BY DEF CallLeft
  <2>3. StageLeft("idle") = 0 /\ StageLeft("poll") = 4
    BY DEF StageLeft
  <2>4. QED
    BY <2>1, <2>2, <2>3 DEF StepsLeft
<1>7. ASSUME \/ Spawn(c) \/ List(c) \/ StartDrains(c) \/ WaitReturns(c) \/ Pop(c) \/ Judge(c) \/ Answer(c)
             \/ \E s \in Streams : Join(c, s)
      PROVE  StepsLeft(c)' < StepsLeft(c)
  <2>1. stage' = stage
    BY <1>7 DEF Spawn, List, StartDrains, WaitReturns, Join, Pop, Judge, Answer, Streams
  <2>2. \/ call[c] = "new" /\ call'[c] \in {"spawned", "raised"}
        \/ call[c] = "spawned" /\ call'[c] = "listed"
        \/ call[c] = "listed" /\ call'[c] \in {"waiting", "raised"}
        \/ call[c] = "waiting" /\ call'[c] = "joinOut"
        \/ call[c] = "joinOut" /\ call'[c] = "joinErr"
        \/ call[c] = "joinErr" /\ call'[c] = "popping"
        \/ call[c] = "popping" /\ call'[c] = "judging"
        \/ call[c] = "judging" /\ call'[c] = "answering"
        \/ call[c] = "answering" /\ call'[c] = "answered"
    <3>1. CASE Spawn(c) \/ List(c) \/ StartDrains(c)
      BY <3>1 DEF Spawn, List, StartDrains, Goto
    <3>2. CASE WaitReturns(c)
      BY <3>2 DEF WaitReturns, Goto
    <3>3. CASE \E s \in Streams : Join(c, s)
      BY <3>3 DEF Join, Goto, Streams
    <3>4. CASE Pop(c) \/ Judge(c) \/ Answer(c)
      BY <3>4 DEF Pop, Judge, Answer, Goto
    <3>5. QED
      BY <1>7, <3>1, <3>2, <3>3, <3>4
  <2>3. CallLeft(call'[c]) < CallLeft(call[c])
    <3>1. CASE call[c] = "new" \/ call[c] = "spawned" \/ call[c] = "listed" \/ call[c] = "waiting"
      BY <2>2, <3>1, SMTT(30) DEF CallLeft
    <3>2. CASE call[c] = "joinOut" \/ call[c] = "joinErr" \/ call[c] = "popping" \/ call[c] = "judging"
               \/ call[c] = "answering"
      BY <2>2, <3>2, SMTT(30) DEF CallLeft
    <3>3. QED
      BY <2>2, <3>1, <3>2
  <2>4. CallLeft(call[c]) \in 0..14 /\ CallLeft(call'[c]) \in 0..14
    BY <1>1, <1>3, CallBounded
  <2>5. StageLeft(stage'[c]) = StageLeft(stage[c])
    BY <2>1
  <2>6. \A m, n \in 0..14, k \in 0..4 : m < n => m + k < n + k
    OBVIOUS
  <2>7. QED
    BY <1>4, <2>3, <2>4, <2>5, <2>6 DEF StepsLeft
<1> HIDE DEF ControlInv, TypeOK
<1>8. ASSUME CallerStep(c) PROVE StepsLeft(c)' < StepsLeft(c)
  <2>1. \/ Terminate(c, c) \/ TimesOut(c)
        \/ Spawn(c) \/ List(c) \/ StartDrains(c) \/ WaitReturns(c) \/ Pop(c) \/ Judge(c) \/ Answer(c)
        \/ \E s \in Streams : Join(c, s)
    BY <1>8 DEF CallerStep
  <2>2. QED
    BY <1>5, <1>6, <1>7, <2>1
<1>9. ~CallerStep(c) => StepsLeft(c)' = StepsLeft(c)
  BY OthersLeaveCommand DEF StepsLeft
<1>10. QED
  BY <1>4, <1>8, <1>9

Falls(c, n, m) == StepsLeft(c) <= n ~> StepsLeft(c) <= m

LEMMA CommandFalls ==
  ASSUME NEW c \in Commands, NEW n \in 1..13, NEW m \in 0..12, n = m + 1
  PROVE  Spec /\ []GuardsEnable /\ CommandFairness(c) => Falls(c, n, m)
<1> DEFINE P == StepsLeft(c) <= n
           Q == StepsLeft(c) <= m
<1>1. ControlInv /\ P /\ [Next]_vars => P'
  <2>1. CASE UNCHANGED vars
    BY <2>1 DEF vars, callVars, StepsLeft, CallLeft, StageLeft
  <2>2. ASSUME ControlInv, P, Next PROVE P'
    BY <2>2, CommandAdvances
  <2>3. QED
    BY <2>1, <2>2
<1>2. ControlInv /\ P /\ ~Q /\ <<Next /\ CallerStep(c)>>_vars => Q'
  BY CommandAdvances
<1>3. ControlInv /\ P /\ ~Q /\ GuardsEnable => ENABLED <<CallerStep(c)>>_vars
  <2>1. ControlInv /\ P /\ ~Q => Unanswered(c)
    BY StepsBounded DEF Unanswered
  <2>2. QED
    BY <2>1, CommandIsReady DEF GuardsEnable
<1>4. QED
  BY ControlInvariant, <1>1, <1>2, <1>3, PTL DEF Spec, CommandFairness, Falls

LEMMA CommandEnds ==
  ASSUME NEW c \in Commands
  PROVE  Spec /\ []GuardsEnable /\ CommandFairness(c) =>
            (StepsLeft(c) <= 13 ~> call[c] \in {"answered", "raised"})
<1>1. Spec /\ []GuardsEnable /\ CommandFairness(c) =>
        /\ Falls(c, 13, 12) /\ Falls(c, 12, 11) /\ Falls(c, 11, 10) /\ Falls(c, 10, 9)
        /\ Falls(c, 9, 8) /\ Falls(c, 8, 7) /\ Falls(c, 7, 6) /\ Falls(c, 6, 5)
        /\ Falls(c, 5, 4) /\ Falls(c, 4, 3) /\ Falls(c, 3, 2) /\ Falls(c, 2, 1) /\ Falls(c, 1, 0)
  BY CommandFalls
<1>2. ControlInv /\ StepsLeft(c) <= 0 => call[c] \in {"answered", "raised"}
  BY StepsBounded
<1>3. QED
  BY ControlInvariant, <1>1, <1>2, PTL DEF Falls

(* Every command is answered or raises, under fairness of its own thread: no *)
(* process that ignores SIGTERM, no pipe that stays open and no unload that  *)
(* terminates the same process keeps it waiting.                             *)
THEOREM AnswerLiveness == FairSpec /\ []GuardsEnable => CommandsAnswered
<1>1. ASSUME NEW c \in Commands
      PROVE  Spec /\ []GuardsEnable /\ CommandFairness(c) =>
                (call[c] = "spawned" ~> call[c] \in {"answered", "raised"})
  <2>1. ControlInv /\ call[c] = "spawned" => StepsLeft(c) <= 13
    BY StepsBounded
  <2>2. QED
    BY CommandEnds, ControlInvariant, <2>1, PTL
<1>2. FairSpec => Spec /\ \A c \in Commands : CommandFairness(c)
  BY PTL DEF FairSpec
<1>3. QED
  BY <1>1, <1>2 DEF CommandsAnswered

(* Every control process comes to its end, unless its own thread raised: an  *)
(* answered command leaves none alive that was not sent SIGKILL.             *)
THEOREM ProcessLiveness == FairSpec /\ []GuardsEnable => ControlProcessesEnd
<1>1. ASSUME NEW c \in Commands
      PROVE  Spec /\ []GuardsEnable /\ CommandFairness(c) =>
                (child[c] = "alive" ~> child[c] # "alive" \/ call[c] = "raised")
  <2> DEFINE A == child[c] = "alive"
             K == call[c] = "answered"
             R == call[c] = "raised"
  <2>1. ControlInv /\ A => StepsLeft(c) <= 13
    BY StepsBounded DEF ControlInv, ProcInv
  <2>2. ControlInv /\ K /\ [Next]_vars => K'
    <3>1. CASE UNCHANGED vars
      BY <3>1 DEF vars, callVars
    <3>2. ASSUME ControlInv, K, Next PROVE K'
      <4>1. StepsLeft(c) = 0
        BY <3>2, StepsBounded
      <4>2. ~CallerStep(c)
        BY <3>2, <4>1, CommandAdvances
      <4>3. QED
        BY <3>2, <4>2, OthersLeaveCommand
    <3>3. QED
      BY <3>1, <3>2
  <2>3. ControlInv /\ GuardsEnable /\ A /\ K => ENABLED <<KilledExit(c)>>_vars
    BY DEF ControlInv, KillInv, Finishing, GuardsEnable
  <2>4. ControlInv /\ A /\ <<KilledExit(c)>>_vars => ~A'
    BY DEF ControlInv, TypeOK, KilledExit, ChildExit
  <2>5. (call[c] \in {"answered", "raised"} <=> K \/ R) /\ (child[c] # "alive" <=> ~A)
    OBVIOUS
  <2>6. QED
    BY CommandEnds, ControlInvariant, <2>1, <2>2, <2>3, <2>4, <2>5, PTL DEF Spec, CommandFairness
<1>2. FairSpec => Spec /\ \A c \in Commands : CommandFairness(c)
  BY PTL DEF FairSpec
<1>3. QED
  BY <1>1, <1>2 DEF ControlProcessesEnd

=============================================================================
