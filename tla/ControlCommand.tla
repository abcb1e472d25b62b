--------------------------- MODULE ControlCommand ---------------------------
(***************************************************************************)
(* controller.py, _run_control_sync: one ACPX process per control command  *)
(* (list, start, status, cancel, close).  A worker thread spawns it, lists *)
(* it in _control_processes, has two threads drain its pipes, waits for it *)
(* no longer than the timeout, terminates it then, and answers.  close_now *)
(* copies the listed processes and terminates them from its own thread.    *)
(*                                                                         *)
(* A pipe outlives the process while a grandchild keeps it open, so drains *)
(* need not end.  Bytes are the numbers 1, 2, ... in the order of output.  *)
(* A process whose exit status was read is reaped, and its pid is free.    *)
(*                                                                         *)
(* A definition headed "Slip:" is a plausible mistake in the definition    *)
(* that follows it; nothing uses it.                                       *)
(***************************************************************************)
EXTENDS Integers, Sequences, FiniteSets

CONSTANTS
    Commands,         \* calls of _run_control_sync
    Pids,             \* pids the system hands out
    Limit,            \* max_control_output_bytes
    ChunkBytes,       \* most bytes one read of a pipe returns (8192)
    MaxBytes,         \* bound: bytes each command writes to one stream
    MaxThreadFaults,  \* bound: threads that cannot be started
    PipesMayEnd,      \* whether a pipe may be closed by all who hold it
    Closer,           \* the thread that runs close_now
    None              \* no command, no pid

ASSUME NamesAssumption == Closer \notin Commands /\ None \notin Commands \union Pids
ASSUME LimitAssumption == Limit \in Nat \ {0} /\ ChunkBytes \in Nat \ {0}
ASSUME BoundsAssumption ==
    MaxBytes \in [Commands -> Nat] /\ MaxThreadFaults \in Nat /\ PipesMayEnd \in BOOLEAN

VARIABLES
    call,          \* where _run_control_sync is
    error,         \* its control_error
    late,          \* history: streams whose drain outlived its join
    taken,         \* history: commands whose entry another one's pop took out
    answer,        \* the two buffers as they were returned
    child, pid,    \* its process, and that process's pid
    told,          \* the strongest signal the process was sent
    drain,         \* of each stream: the drain thread
    total,         \* bytes it has read
    chunk,         \* how many of them are not in the buffer yet
    buffer,        \* what it has kept of the others
    overflow,      \* its overflow flag
    table,         \* _control_processes: the command listed under a pid
    stage,         \* where each thread is in _terminate_popen
    closer, swept, \* where close_now is, and the processes it copied
    todo, target,  \* those it has not dealt with, and the one it is at
    faults         \* threads that could not be started

callVars  == <<call, error, late, taken, answer>>
childVars == <<child, pid, told>>
drainVars == <<drain, total, chunk, buffer, overflow>>
closeVars == <<closer, swept, todo, target>>
vars == <<callVars, childVars, drainVars, table, stage, closeVars, faults>>

Streams == {"stdout", "stderr"}
Calls   == {"new", "spawned", "listed", "waiting", "terminating", "joinOut", "joinErr",
            "popping", "judging", "answering", "answered", "raised"}
Stages  == {"idle", "poll", "term", "grace", "kill", "last"}
Lowest(m, n) == IF m < n THEN m ELSE n
Each(x) == [c \in Commands |-> x]
Both(x) == [c \in Commands |-> [s \in Streams |-> x]]

Init ==
    /\ call = Each("new") /\ error = Each("none")
    /\ late = Each({}) /\ taken = {} /\ answer = Both(<<>>)
    /\ child = Each("none") /\ pid = Each(None) /\ told = Each("nothing")
    /\ drain = Both("none") /\ total = Both(0) /\ chunk = Both(0)
    /\ buffer = Both(<<>>) /\ overflow = Both(FALSE)
    /\ table = [p \in Pids |-> None]
    /\ stage = [a \in Commands \union {Closer} |-> "idle"]
    /\ closer = "open" /\ swept = {} /\ todo = {} /\ target = None
    /\ faults = 0

Goto(c, pc) == call' = [call EXCEPT ![c] = pc]

-----------------------------------------------------------------------------
(* The system: processes, pids, signals. *)

Unreaped(c) == child[c] \in {"alive", "dead"}
Free(p)     == \A c \in Commands : pid[c] = p => ~Unreaped(c)

ChildExit(c) ==
    /\ child[c] = "alive"
    /\ child' = [child EXCEPT ![c] = "dead"]
    /\ UNCHANGED <<callVars, pid, told, drainVars, table, stage, closeVars, faults>>

(* A signal reaches whatever process has the pid now. *)
Signal(c, strength) ==
    told' = [d \in Commands |->
        IF Unreaped(d) /\ pid[d] = pid[c] /\ told[d] # "kill" THEN strength ELSE told[d]]

\* Slip: a status the other thread has read already is not seen.
EndedUnread(c) == child[c] = "dead"
(* poll() or wait() that finds the process ended, in any thread. *)
Ended(c) == child[c] \in {"dead", "reaped"}
Reap(c)  == child' = [child EXCEPT ![c] = "reaped"]

-----------------------------------------------------------------------------
(* _run_control_sync. *)

(* Popen: a fresh process under any free pid, or an OSError. *)
Spawn(c) ==
    /\ call[c] = "new"
    /\ \/ \E p \in Pids :
            /\ Free(p)
            /\ pid' = [pid EXCEPT ![c] = p]
            /\ child' = [child EXCEPT ![c] = "alive"]
            /\ Goto(c, "spawned")
       \/ Goto(c, "raised") /\ UNCHANGED <<child, pid>>
    /\ UNCHANGED <<error, late, taken, answer, told, drainVars, table, stage, closeVars, faults>>

List(c) ==
    /\ call[c] = "spawned"
    /\ table' = [table EXCEPT ![pid[c]] = c]
    /\ Goto(c, "listed")
    /\ UNCHANGED <<error, late, taken, answer, childVars, drainVars, stage, closeVars, faults>>

\* Slip: a command whose drains cannot be started takes its entry with it.
StartDrainsForgets(c) ==
    /\ call[c] = "listed"
    /\ \E started \in {{}, {"stdout"}, Streams} :
        /\ drain' = [drain EXCEPT ![c] =
                        [s \in Streams |-> IF s \in started THEN "reading" ELSE "none"]]
        /\ IF started = Streams
           THEN Goto(c, "waiting") /\ UNCHANGED <<table, faults>>
           ELSE /\ faults < MaxThreadFaults /\ faults' = faults + 1 /\ Goto(c, "raised")
                /\ table' = [table EXCEPT ![pid[c]] = None]
    /\ UNCHANGED <<error, late, taken, answer, childVars, total, chunk, buffer, overflow, stage, closeVars>>
(* stdout_thread.start(); stderr_thread.start(): outside the try statement, *)
(* so that one that cannot be started leaves the process listed.            *)
StartDrains(c) ==
    /\ call[c] = "listed"
    /\ \E started \in {{}, {"stdout"}, Streams} :
        /\ drain' = [drain EXCEPT ![c] =
                        [s \in Streams |-> IF s \in started THEN "reading" ELSE "none"]]
        /\ IF started = Streams
           THEN Goto(c, "waiting") /\ UNCHANGED faults
           ELSE faults < MaxThreadFaults /\ faults' = faults + 1 /\ Goto(c, "raised")
    /\ UNCHANGED <<error, late, taken, answer, childVars, total, chunk, buffer, overflow, table, stage, closeVars>>

WaitReturns(c) ==
    /\ call[c] = "waiting" /\ Ended(c)
    /\ Reap(c)
    /\ Goto(c, "joinOut")
    /\ UNCHANGED <<error, late, taken, answer, pid, told, drainVars, table, stage, closeVars, faults>>

TimesOut(c) ==
    /\ call[c] = "waiting" /\ child[c] = "alive"
    /\ error' = [error EXCEPT ![c] = "timeout"]
    /\ Goto(c, "terminating")
    /\ stage' = [stage EXCEPT ![c] = "poll"]
    /\ UNCHANGED <<late, taken, answer, childVars, drainVars, table, closeVars, faults>>

\* Slip: the joins have no deadline.
JoinPatient(c, s) ==
    /\ call[c] = (IF s = "stdout" THEN "joinOut" ELSE "joinErr")
    /\ drain[c][s] = "ended"
    /\ Goto(c, IF s = "stdout" THEN "joinErr" ELSE "popping")
    /\ UNCHANGED <<error, late, taken, answer, childVars, drainVars, table, stage, closeVars, faults>>
(* The joins, stdout's first: each returns when the drain ended, or after 2 s. *)
Join(c, s) ==
    /\ call[c] = (IF s = "stdout" THEN "joinOut" ELSE "joinErr")
    /\ late' = [late EXCEPT ![c] = IF drain[c][s] = "ended" THEN @ ELSE @ \union {s}]
    /\ Goto(c, IF s = "stdout" THEN "joinErr" ELSE "popping")
    /\ UNCHANGED <<error, taken, answer, childVars, drainVars, table, stage, closeVars, faults>>

\* Slip: an entry that is gone already is a KeyError.
PopStrict(c) ==
    /\ call[c] = "popping"
    /\ table' = [table EXCEPT ![pid[c]] = None]
    /\ taken' = taken \union ({table[pid[c]]} \ {None, c})
    /\ Goto(c, IF table[pid[c]] = None THEN "KeyError" ELSE "judging")
    /\ UNCHANGED <<error, late, answer, childVars, drainVars, stage, closeVars, faults>>
(* The entry goes by pid, whoever is listed under it now. *)
Pop(c) ==
    /\ call[c] = "popping"
    /\ table' = [table EXCEPT ![pid[c]] = None]
    /\ taken' = taken \union ({table[pid[c]]} \ {None, c})
    /\ Goto(c, "judging")
    /\ UNCHANGED <<error, late, answer, childVars, drainVars, stage, closeVars, faults>>

Verdict(c) ==
    IF error[c] # "none" THEN error[c]
    ELSE IF overflow[c]["stdout"] THEN "stdout"
    ELSE IF overflow[c]["stderr"] THEN "stderr" ELSE "none"

Judge(c) ==
    /\ call[c] = "judging"
    /\ error' = [error EXCEPT ![c] = Verdict(c)]
    /\ Goto(c, "answering")
    /\ UNCHANGED <<late, taken, answer, childVars, drainVars, table, stage, closeVars, faults>>

Answer(c) ==
    /\ call[c] = "answering"
    /\ answer' = [answer EXCEPT ![c] = buffer[c]]
    /\ Goto(c, "answered")
    /\ UNCHANGED <<error, late, taken, childVars, drainVars, table, stage, closeVars, faults>>

-----------------------------------------------------------------------------
(* _drain_stream. *)

Chunk(from, n) == [i \in 1..n |-> from + i]

(* stdout keeps its first bytes, stderr for now all. *)
KeepHead(kept, new) ==
    kept \o SubSeq(new, 1, Lowest(Len(new), Limit - Len(kept)))

Keep(s, kept, new) ==
    IF s = "stderr" THEN kept \o new ELSE KeepHead(kept, new)

LastBytes(kept) == SubSeq(kept, Len(kept) - Limit + 1, Len(kept))

\* Slip: the flag is set by what was kept.
OverflowsKept(c, s, n) == Len(buffer[c][s]) > Limit
Overflows(c, s, n) == Len(buffer[c][s]) + n > Limit

(* A chunk arrives and the flag is set.  The command's thread may look at    *)
(* flag and buffer before and after this and each of the next two steps.     *)
Read(c, s) ==
    /\ drain[c][s] = "reading"
    /\ \E n \in 1..Lowest(ChunkBytes, MaxBytes[c] - total[c][s]) :
        /\ total' = [total EXCEPT ![c][s] = @ + n]
        /\ chunk' = [chunk EXCEPT ![c][s] = n]
        /\ overflow' = [overflow EXCEPT ![c][s] = @ \/ Overflows(c, s, n)]
    /\ drain' = [drain EXCEPT ![c][s] = "keeping"]
    /\ UNCHANGED <<callVars, childVars, buffer, table, stage, closeVars, faults>>

InHand(c, s) == Chunk(total[c][s] - chunk[c][s], chunk[c][s])

(* buffer.extend. *)
Extend(c, s) ==
    /\ drain[c][s] = "keeping"
    /\ LET kept == Keep(s, buffer[c][s], InHand(c, s)) IN
        /\ buffer' = [buffer EXCEPT ![c][s] = kept]
        /\ drain' = [drain EXCEPT ![c][s] = IF Len(kept) > Limit THEN "cutting" ELSE "reading"]
    /\ chunk' = [chunk EXCEPT ![c][s] = 0]
    /\ UNCHANGED <<callVars, childVars, total, overflow, table, stage, closeVars, faults>>

(* del buffer[:-max_bytes]: only stderr gets here. *)
Cut(c, s) ==
    /\ drain[c][s] = "cutting"
    /\ buffer' = [buffer EXCEPT ![c][s] = LastBytes(@)]
    /\ drain' = [drain EXCEPT ![c][s] = "reading"]
    /\ UNCHANGED <<callVars, childVars, total, chunk, overflow, table, stage, closeVars, faults>>

DrainEnds(c, s) ==
    /\ drain[c][s] = "reading" /\ PipesMayEnd
    /\ drain' = [drain EXCEPT ![c][s] = "ended"]
    /\ UNCHANGED <<callVars, childVars, total, chunk, buffer, overflow, table, stage, closeVars, faults>>

-----------------------------------------------------------------------------
(* _terminate_popen, by the thread of the command or by close_now. *)

Terminates(a, c) == a = c \/ (a = Closer /\ target = c)

(* What the thread does after _terminate_popen returned. *)
Returns(a) ==
    /\ stage' = [stage EXCEPT ![a] = "idle"]
    /\ IF a = Closer
       THEN /\ todo' = todo \ {target} /\ target' = None
            /\ UNCHANGED <<call, closer, swept>>
       ELSE Goto(a, "joinOut") /\ UNCHANGED closeVars

(* poll, or wait with a grace of one second: over when the process ended. *)
Look(a, c, from, next) ==
    /\ stage[a] = from
    /\ \/ Ended(c) /\ Reap(c) /\ Returns(a)
       \/ /\ child[c] = "alive"
          /\ stage' = [stage EXCEPT ![a] = next]
          /\ UNCHANGED <<child, call, closeVars>>
    /\ UNCHANGED <<error, late, taken, answer, pid, told, drainVars, table, faults>>

Send(a, c, from, next, strength) ==
    /\ stage[a] = from
    /\ Signal(c, strength)
    /\ stage' = [stage EXCEPT ![a] = next]
    /\ UNCHANGED <<callVars, child, pid, drainVars, table, closeVars, faults>>

(* The wait after SIGKILL, whose timeout is suppressed. *)
LastWait(a, c) ==
    /\ stage[a] = "last"
    /\ \/ Ended(c) /\ Reap(c)
       \/ child[c] = "alive" /\ UNCHANGED child
    /\ Returns(a)
    /\ UNCHANGED <<error, late, taken, answer, pid, told, drainVars, table, faults>>

\* Slip: a process that outlives SIGTERM's grace is not killed.
TerminateMildly(a, c) ==
    /\ Terminates(a, c)
    /\ \/ Look(a, c, "poll", "term")
       \/ Send(a, c, "term", "last", "term")
       \/ LastWait(a, c)
Terminate(a, c) ==
    /\ Terminates(a, c)
    /\ \/ Look(a, c, "poll", "term")
       \/ Send(a, c, "term", "grace", "term")
       \/ Look(a, c, "grace", "kill")
       \/ Send(a, c, "kill", "last", "kill")
       \/ LastWait(a, c)

-----------------------------------------------------------------------------
(* close_now: it copies the table, terminates the runs (RunLifecycle), then *)
(* the copied processes one by one.                                         *)

Listed == {table[p] : p \in Pids} \ {None}

Close ==
    /\ closer = "open"
    /\ swept' = Listed /\ todo' = Listed
    /\ closer' = "sweeping"
    /\ UNCHANGED <<callVars, childVars, drainVars, table, stage, target, faults>>

Sweep(c) ==
    /\ closer = "sweeping" /\ c \in todo /\ target = None
    /\ target' = c
    /\ stage' = [stage EXCEPT ![Closer] = "poll"]
    /\ UNCHANGED <<callVars, childVars, drainVars, table, closer, swept, todo, faults>>

CloseReturn ==
    /\ closer = "sweeping" /\ todo = {}
    /\ closer' = "closed"
    /\ UNCHANGED <<callVars, childVars, drainVars, table, stage, swept, todo, target, faults>>

-----------------------------------------------------------------------------
CallerStep(c) ==
    \/ Spawn(c) \/ List(c) \/ StartDrains(c) \/ WaitReturns(c) \/ TimesOut(c)
    \/ Terminate(c, c) \/ (\E s \in Streams : Join(c, s)) \/ Pop(c) \/ Judge(c) \/ Answer(c)
CloserStep == (\E c \in Commands : Sweep(c) \/ Terminate(Closer, c)) \/ CloseReturn
DrainStep(c) == \E s \in Streams : Read(c, s) \/ Extend(c, s) \/ Cut(c, s) \/ DrainEnds(c, s)

Next ==
    \/ \E c \in Commands : CallerStep(c) \/ ChildExit(c) \/ DrainStep(c)
    \/ Close \/ CloserStep

Spec == Init /\ [][Next]_vars

(* Workers and close_now run, and the system ends what SIGKILL hit.  Nothing *)
(* is assumed of the processes otherwise, nor of the pipes.                  *)
KilledExit(c)      == told[c] = "kill" /\ ChildExit(c)
CommandFairness(c) == WF_vars(CallerStep(c)) /\ WF_vars(KilledExit(c))
FairSpec == Spec /\ (\A c \in Commands : CommandFairness(c)) /\ WF_vars(CloserStep)

-----------------------------------------------------------------------------
TypeOK ==
    /\ call \in [Commands -> Calls]
    /\ error \in [Commands -> {"none", "timeout"} \union Streams]
    /\ late \in [Commands -> SUBSET Streams] /\ taken \subseteq Commands
    /\ answer \in [Commands -> [Streams -> Seq(Nat)]]
    /\ child \in [Commands -> {"none", "alive", "dead", "reaped"}]
    /\ pid \in [Commands -> Pids \union {None}]
    /\ told \in [Commands -> {"nothing", "term", "kill"}]
    /\ drain \in [Commands -> [Streams -> {"none", "reading", "keeping", "cutting", "ended"}]]
    /\ total \in [Commands -> [Streams -> Nat]] /\ chunk \in [Commands -> [Streams -> Nat]]
    /\ buffer \in [Commands -> [Streams -> Seq(Nat)]]
    /\ overflow \in [Commands -> [Streams -> BOOLEAN]]
    /\ table \in [Pids -> Commands \union {None}]
    /\ stage \in [Commands \union {Closer} -> Stages]
    /\ closer \in {"open", "sweeping", "closed"}
    /\ swept \subseteq Commands /\ todo \subseteq swept
    /\ target \in Commands \union {None}
    /\ faults \in 0..MaxThreadFaults

(* A live process is found in _control_processes, also when the command that *)
(* listed it failed since, so that an unload reaches it.  Two exceptions: it *)
(* did not end within a second of SIGKILL, or a command that had the same    *)
(* pid before took the entry out in place of its own.                        *)
LiveControlIsListed ==
    \A c \in Commands : child[c] = "alive" /\ call[c] \notin {"new", "spawned"} =>
        \/ table[pid[c]] = c
        \/ told[c] = "kill"
        \/ c \in taken

(* README.md: control processes are terminated on plugin unload.  Of those   *)
(* that were listed when close_now copied the table this holds whatever the  *)
(* commands' own threads do to them meanwhile.                               *)
SweptControlsAreDead ==
    closer = "closed" => \A c \in swept : child[c] = "reaped" \/ told[c] = "kill"

(* An answer without an error holds all output of the command, unless a pipe *)
(* outlived the join; and with or without an error stdout is cut at its end, *)
(* stderr at its beginning, both to the limit.  A drain of stderr that       *)
(* outlived the join may be found with a chunk more, not cut off yet.        *)
AnswerTellsOutput ==
    \A c \in Commands : call[c] = "answered" =>
        /\ Len(answer[c]["stdout"]) <= Limit
        /\ Len(answer[c]["stderr"]) <= IF "stderr" \in late[c] THEN Limit + ChunkBytes ELSE Limit
        /\ \A i \in DOMAIN answer[c]["stdout"] : answer[c]["stdout"][i] = i
        /\ \A i \in DOMAIN answer[c]["stderr"] :
               answer[c]["stderr"][i] = answer[c]["stderr"][1] + (i - 1)
        /\ \A s \in Streams \ late[c] :
               /\ Len(answer[c][s]) = Lowest(total[c][s], Limit)
               /\ error[c] = "none" => Len(answer[c][s]) = total[c][s]
        /\ "stderr" \notin late[c] /\ answer[c]["stderr"] # <<>> =>
               answer[c]["stderr"][Len(answer[c]["stderr"])] = total[c]["stderr"]

(* No thread is stuck, whichever of the two terminates the process first:   *)
(* while a command is not answered its thread can go on, and so can close_now *)
(* until it is through the processes it copied; and what SIGKILL hit can end. *)
Unanswered(c) == call[c] \notin {"new", "answered", "raised"}
ThreadsGoOn ==
    /\ \A c \in Commands :
        /\ Unanswered(c) => ENABLED <<CallerStep(c)>>_vars
        /\ told[c] = "kill" /\ child[c] = "alive" => ENABLED <<KilledExit(c)>>_vars
    /\ closer = "sweeping" => ENABLED <<CloserStep>>_vars

(* Every command is answered, or raises, although its process ignores        *)
(* SIGTERM and a grandchild keeps its pipes.                                 *)
CommandsAnswered ==
    \A c \in Commands : call[c] = "spawned" ~> call[c] \in {"answered", "raised"}

(* Also a process that no unload finds, being listed too late, comes to its *)
(* end: by its timeout, unless its own thread raised.                       *)
ControlProcessesEnd ==
    \A c \in Commands : child[c] = "alive" ~> child[c] # "alive" \/ call[c] = "raised"

=============================================================================
