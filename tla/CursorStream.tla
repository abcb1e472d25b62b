---------------------------- MODULE CursorStream ----------------------------
(***************************************************************************)
(* What README.md promises a reader of a run's events: events get the      *)
(* cursors 0, 1, 2, ...; an answer holds the events from the asked cursor  *)
(* on, none left out, and is empty only at the end; a reader that came too *)
(* late is told, and goes on at a later cursor.  A run that has ended may  *)
(* be let go: then the reader is owed nothing more, and an answer or an    *)
(* error without events is all it may get.                                 *)
(***************************************************************************)
EXTENDS Integers, Sequences

CONSTANT PageLimit  \* events in an answer, at least one

VARIABLES
    kept,    \* whether the run is still kept
    total,   \* events there have been
    cursor,  \* the cursor the reader will ask for
    asked,   \* the cursor of the last answer
    page     \* the events of the last answer, each named by its cursor

seen == <<total, cursor, asked, page>>
vars == <<kept, seen>>

Init == kept = TRUE /\ total = 0 /\ cursor = 0 /\ asked = 0 /\ page = <<>>

Emit == kept /\ total' = total + 1 /\ UNCHANGED <<kept, cursor, asked, page>>

LetGo == kept /\ kept' = FALSE /\ UNCHANGED seen

Deliver ==
    \E n \in 0..PageLimit :
        /\ n <= total - cursor
        /\ n = 0 /\ kept => cursor = total
        /\ page' = [j \in 1..n |-> cursor + j - 1]
        /\ asked' = cursor
        /\ cursor' = cursor + n
        /\ UNCHANGED total

Skip ==
    /\ cursor' \in (cursor + 1)..total
    /\ asked' = cursor'
    /\ page' = <<>>
    /\ UNCHANGED total

Answer == Deliver \/ Skip

Next == Emit \/ LetGo \/ (Answer /\ UNCHANGED kept)

Spec == Init /\ [][Next]_vars

(* While the run is kept, a reader for whom there is news gets some. *)
Inform == kept /\ Answer
FairSpec == Spec /\ WF_seen(Inform)

=============================================================================
