----------------------------- MODULE InnerLists -----------------------------
(***************************************************************************)
(* The operations of InnerList, the intrusive list the mpipc message and   *)
(* pool queues are made of, on a list seen as the sequence of its indices, *)
(* front first.  InnerListLinks shows that the links implement them.       *)
(***************************************************************************)
EXTENDS Integers, Sequences, Functions

\* InnerList::pushFront
PushFront(s, e) == <<e>> \o s

\* InnerList::pushBack
PushBack(s, e) == Append(s, e)

\* InnerList::erase; the element may be anywhere in the list.
Erase(s, e) ==
    IF e \notin Range(s) THEN s
    ELSE LET p == CHOOSE i \in 1..Len(s) : s[i] = e
         IN  [i \in 1..Len(s) - 1 |-> IF i < p THEN s[i] ELSE s[i + 1]]

\* InnerList::popFront followed by InnerList::pushBack of the same index.
Rotate(s) == PushBack(Tail(s), Head(s))
=============================================================================
