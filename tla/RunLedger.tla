----------------------------- MODULE RunLedger -----------------------------
(***************************************************************************)
(* What the runs table promises whoever reads a run's row through          *)
(* harness_events once memory has let go of the run: at most MaxRuns       *)
(* entries; an entry gives way only to a new one, and only when it is not  *)
(* running and the table is full; what has left the table never comes      *)
(* back; while a controller is loaded the outcome of its own run is        *)
(* written once, over running; and a controller begins by calling          *)
(* interrupted whatever the table says is running.                         *)
(***************************************************************************)
EXTENDS Integers, FiniteSets

CONSTANTS
    Runs,     \* run identifiers
    MaxRuns   \* entries the table holds

VARIABLES
    entry,  \* entry[r]: none, asked, the status the table shows of r, or gone
    open,   \* whether a controller is loaded
    mine    \* the runs that were asked of the controller loaded last

vars == <<entry, open, mine>>

Outcomes == {"completed", "failed", "cancelled"}
Shown    == {"running", "interrupted"} \union Outcomes
Held     == {r \in Runs : entry[r] \in Shown}
Own(r)   == open /\ r \in mine

Init ==
    /\ entry = [r \in Runs |-> "none"]
    /\ open = TRUE
    /\ mine = {}

(* A prompt is asked for; it may come to nothing. *)
Ask(r) ==
    /\ open /\ entry[r] = "none"
    /\ entry' = [entry EXCEPT ![r] = "asked"]
    /\ mine' = mine \union {r}
    /\ UNCHANGED open

GiveUp(r) ==
    /\ entry[r] = "asked"
    /\ entry' = [entry EXCEPT ![r] = "gone"]
    /\ UNCHANGED <<open, mine>>

(* A run enters the table, running unless an unload overtook it, in a free *)
(* place or in that of one that is not running.                            *)
Record(r) ==
    /\ entry[r] = "asked"
    /\ \E s \in {"running", "cancelled"} :
        /\ Own(r) => s = "running"
        /\ \/ /\ Cardinality(Held) < MaxRuns
              /\ entry' = [entry EXCEPT ![r] = s]
           \/ /\ Cardinality(Held) >= MaxRuns
              /\ \E old \in Held : /\ entry[old] # "running"
                                   /\ entry' = [entry EXCEPT ![old] = "gone", ![r] = s]
    /\ UNCHANGED <<open, mine>>

(* The outcome of a run of the loaded controller. *)
Settle(r) ==
    /\ Own(r) /\ entry[r] = "running"
    /\ \E s \in Outcomes : entry' = [entry EXCEPT ![r] = s]
    /\ UNCHANGED <<open, mine>>

(* A thread of a controller that is unloaded, or unloading, still writes: an *)
(* outcome, or the state it had copied before the run ended.                 *)
LateWrite(r) ==
    /\ r \in Held /\ ~Own(r)
    /\ \E s \in Outcomes \union {"running"} :
        /\ open => s # "running"
        /\ entry' = [entry EXCEPT ![r] = s]
    /\ UNCHANGED <<open, mine>>

Unload == open /\ open' = FALSE /\ UNCHANGED <<entry, mine>>

(* The process dies, and with it every prompt that has no entry yet. *)
Die ==
    /\ open' = FALSE
    /\ entry' = [r \in Runs |-> IF entry[r] = "asked" THEN "gone" ELSE entry[r]]
    /\ UNCHANGED mine

Reopen ==
    /\ ~open /\ open' = TRUE
    /\ entry' = [r \in Runs |-> IF entry[r] = "running" THEN "interrupted" ELSE entry[r]]
    /\ mine' = {}

Next ==
    \/ \E r \in Runs : Ask(r) \/ GiveUp(r) \/ Record(r) \/ Settle(r) \/ LateWrite(r)
    \/ Unload \/ Die \/ Reopen

Spec == Init /\ [][Next]_vars

=============================================================================
