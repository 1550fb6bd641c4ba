-------------------------- MODULE MessageChannel --------------------------
(***************************************************************************)
(* What a connection promises to the two applications while it is up: each *)
(* message handed to it is delivered whole, at most once, unless it is     *)
(* cancelled before any of it is sent; nothing else is ever delivered.     *)
(***************************************************************************)
EXTENDS Sequences

CONSTANTS Msgs

VARIABLES
    status,    \* what became of every message
    delivered  \* the messages delivered, in order

vars == <<status, delivered>>

Init == status = [m \in Msgs |-> "new"] /\ delivered = <<>>

Accept(m) ==
    /\ status[m] = "new"
    /\ status' = [status EXCEPT ![m] = "accepted"]
    /\ UNCHANGED delivered

Deliver(m) ==
    /\ status[m] = "accepted"
    /\ status' = [status EXCEPT ![m] = "delivered"]
    /\ delivered' = Append(delivered, m)

Drop(m) ==
    /\ status[m] = "accepted"
    /\ status' = [status EXCEPT ![m] = "dropped"]
    /\ UNCHANGED delivered

Next == \E m \in Msgs : Accept(m) \/ Deliver(m) \/ Drop(m)

\* A message that was accepted does not stay in the channel.
Fairness == \A m \in Msgs : WF_vars(Deliver(m) \/ Drop(m))

Spec == Init /\ [][Next]_vars /\ Fairness
=============================================================================
