----------------------------- MODULE MCEventLog -----------------------------
(* EventLog on small instances. *)
EXTENDS EventLog

(* A line that fits as it is, one that is larger in SQLite than in memory,   *)
(* and one that is cut in memory and, wrapped as JSON, fits in no database.  *)
ThreeLines == {[raw |-> 1, json |-> 1], [raw |-> 2, json |-> 3], [raw |-> 9, json |-> 7]}

=============================================================================
