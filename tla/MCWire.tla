------------------------------- MODULE MCWire -------------------------------
(* Instances of Wire for TLC. *)
EXTENDS Wire

CONSTANTS a, b, c  \* messages

SizesShortAndLong == [m \in Msgs |-> CASE m = a -> 2 [] m = b -> 8 [] OTHER -> 14]
=============================================================================
