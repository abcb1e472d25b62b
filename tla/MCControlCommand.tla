------------------------- MODULE MCControlCommand ---------------------------
(* ControlCommand on small instances. *)
EXTENDS ControlCommand, TLC

CONSTANT Bytes  \* what every command may write to each stream

BytesEach == [c \in Commands |-> Bytes]

(* Commands and pids are interchangeable in the safety properties. *)
RaceSymmetry == Permutations(Commands) \union Permutations(Pids)

=============================================================================
