--------------------------- MODULE InnerListSeqs ---------------------------
(***************************************************************************)
(* What InnerList promises: several lists over the nodes of one vector,    *)
(* sharing one link of each node, are sequences with no node in common.    *)
(***************************************************************************)
EXTENDS InnerLists

CONSTANTS Nodes, Lists

VARIABLES seqs

Linked(i) == \E l \in Lists : i \in Range(seqs[l])

Init == seqs = [l \in Lists |-> <<>>]

Push(l, i) == ~Linked(i) /\ seqs' \in {[seqs EXCEPT ![l] = PushBack(@, i)],
                                       [seqs EXCEPT ![l] = PushFront(@, i)]}
Remove(l, i) == i \in Range(seqs[l]) /\ seqs' = [seqs EXCEPT ![l] = Erase(@, i)]
Clear(l) == seqs' = [seqs EXCEPT ![l] = <<>>]

Next == \E l \in Lists : Clear(l) \/ \E i \in Nodes : Push(l, i) \/ Remove(l, i)

Spec == Init /\ [][Next]_seqs
=============================================================================
