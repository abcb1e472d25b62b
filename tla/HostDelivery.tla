---------------------------- MODULE HostDelivery ----------------------------
(***************************************************************************)
(* What a chat may hear of its runs, as README.md promises it: one notice  *)
(* at most, edited while the run goes on, set to its final text once the   *)
(* run is over and read to the end of what is kept of it, and after that   *)
(* one completion message at most.  The host calls of a run come one at a  *)
(* time and in this order, whether they succeed or not, and none begins    *)
(* once the gate is shut; only a call that has begun still returns.        *)
(***************************************************************************)
CONSTANT Runs

VARIABLES
    gate,    \* whether host calls are admitted
    over,    \* runs that are over and read to the end of what is kept
    call,    \* of each run: the host call it is in, or none
    notice,  \* of each run: due, or what there is to see of it
    told     \* runs whose completion was attempted

vars == <<gate, over, call, notice, told>>

Init ==
    /\ gate = TRUE /\ over = {} /\ told = {}
    /\ call = [r \in Runs |-> "none"]
    /\ notice = [r \in Runs |-> "due"]

Ends(r) == over' = over \union {r} /\ UNCHANGED <<gate, call, notice, told>>
Shut    == gate /\ gate' = FALSE /\ UNCHANGED <<over, call, notice, told>>

(* A notice that was not admitted is not posted later. *)
Pass(r) ==
    /\ ~gate /\ call[r] = "none" /\ notice[r] = "due"
    /\ notice' = [notice EXCEPT ![r] = "without"]
    /\ UNCHANGED <<gate, over, call, told>>

May(r, c) ==
    CASE c = "post"   -> notice[r] = "due"
      [] c = "edit"   -> notice[r] \in {"posted", "running"}
      [] c = "final"  -> notice[r] \in {"posted", "running"} /\ r \in over
      [] c = "inject" -> notice[r] \in {"without", "final"} /\ r \in over

Begin(r) ==
    /\ gate /\ call[r] = "none" /\ r \notin told
    /\ \E c \in {"post", "edit", "final", "inject"} :
        May(r, c) /\ call' = [call EXCEPT ![r] = c]
    /\ UNCHANGED <<gate, over, notice, told>>

Shows(c) ==
    CASE c = "post"  -> {"posted", "without"}
      [] c = "edit"  -> {"running"}
      [] c = "final" -> {"final"}

Return(r) ==
    /\ call[r] # "none"
    /\ call' = [call EXCEPT ![r] = "none"]
    /\ IF call[r] = "inject"
       THEN told' = told \union {r} /\ notice' = notice
       ELSE \E n \in Shows(call[r]) : notice' = [notice EXCEPT ![r] = n] /\ told' = told
    /\ UNCHANGED <<gate, over>>

Next == (\E r \in Runs : Ends(r) \/ Pass(r) \/ Begin(r) \/ Return(r)) \/ Shut

Spec == Init /\ [][Next]_vars

=============================================================================
