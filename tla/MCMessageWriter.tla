-------------------------- MODULE MCMessageWriter --------------------------
(* An instance of MessageWriter for TLC. *)
EXTENDS MessageWriter

CONSTANTS a, b, c  \* messages

SizesLong == [m \in Msgs |-> CASE m = a -> 1 [] m = b -> 16 [] OTHER -> 9]
=============================================================================
