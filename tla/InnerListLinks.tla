--------------------------- MODULE InnerListLinks ---------------------------
(***************************************************************************)
(* The links of InnerList: each node has a prev and a next index, a list   *)
(* has its size and the indices of its two ends.  next leads from the back *)
(* to the front.  Lists may share a link, as write_inner_list and          *)
(* cache_inner_list of the MessageWriter do: a node is then in one of them *)
(* at most, which is up to the caller.                                     *)
(***************************************************************************)
EXTENDS Integers, Sequences, FiniteSets

CONSTANTS
    Nodes,  \* the indices of the vector
    Lists   \* the lists that share the link

InvalidIndex == 0

NodesAssumption == Nodes \subseteq Nat \ {InvalidIndex} /\ IsFiniteSet(Nodes)

VARIABLES
    link,  \* the link of every node
    list   \* size_, back_ and front_ of every list

listvars == <<link, list>>

NoLink == [prev |-> InvalidIndex, next |-> InvalidIndex]
EmptyList == [size |-> 0, back |-> InvalidIndex, front |-> InvalidIndex]

\* forEach: from the back along next.
WalkOf(lnk, lst) ==
    LET At[k \in 1..lst.size] == IF k = 1 THEN lst.back ELSE lnk[At[k - 1]].next
    IN  [k \in 1..lst.size |-> At[k]]

Walk(l) == WalkOf(link, list[l])

Members(l) == {Walk(l)[k] : k \in 1..list[l].size}
Unlinked(i) == \A l \in Lists : i \notin Members(l)
-----------------------------------------------------------------------------
pushBack(l, i) ==
    LET back == list[l].back
        linked == [link EXCEPT ![i] = [prev |-> InvalidIndex, next |-> back]]
    IN  /\ link' = IF back = InvalidIndex THEN linked ELSE [linked EXCEPT ![back].prev = i]
        /\ list' = [list EXCEPT ![l] = [size |-> @.size + 1, back |-> i,
                         front |-> IF back = InvalidIndex THEN i ELSE @.front]]

pushFront(l, i) ==
    LET front == list[l].front
        linked == [link EXCEPT ![i] = [prev |-> front, next |-> InvalidIndex]]
    IN  /\ link' = IF front = InvalidIndex THEN linked ELSE [linked EXCEPT ![front].next = i]
        /\ list' = [list EXCEPT ![l] = [size |-> @.size + 1, front |-> i,
                         back |-> IF front = InvalidIndex THEN i ELSE @.back]]

eraseForgetsFront(l, i) ==  \* variant
    LET prev == link[i].prev
        next == link[i].next
    IN  /\ link' = [j \in Nodes |->
                     IF j = i THEN NoLink
                     ELSE [prev |-> IF j = next THEN prev ELSE link[j].prev,
                           next |-> IF j = prev THEN next ELSE link[j].next]]
        /\ list' = [list EXCEPT ![l] = [size |-> @.size - 1, front |-> @.front,
                         back |-> IF prev = InvalidIndex THEN next ELSE @.back]]
erase(l, i) ==
    LET prev == link[i].prev
        next == link[i].next
    IN  /\ link' = [j \in Nodes |->
                     IF j = i THEN NoLink
                     ELSE [prev |-> IF j = next THEN prev ELSE link[j].prev,
                           next |-> IF j = prev THEN next ELSE link[j].next]]
        /\ list' = [list EXCEPT ![l] = [size |-> @.size - 1,
                         front |-> IF next = InvalidIndex THEN prev ELSE @.front,
                         back |-> IF prev = InvalidIndex THEN next ELSE @.back]]

popFront(l) == list[l].size > 0 /\ erase(l, list[l].front)
popBack(l) == list[l].size > 0 /\ erase(l, list[l].back)

\* The links of the nodes stay as they are.
fastClear(l) == list' = [list EXCEPT ![l] = EmptyList] /\ UNCHANGED link

ListInit == link = [i \in Nodes |-> NoLink] /\ list = [l \in Lists |-> EmptyList]

ListNext ==
    \E l \in Lists :
        \/ \E i \in Nodes : Unlinked(i) /\ (pushBack(l, i) \/ pushFront(l, i))
        \/ \E i \in Members(l) : erase(l, i)
        \/ popFront(l) \/ popBack(l) \/ fastClear(l)

ListSpec == ListInit /\ [][ListNext]_listvars
-----------------------------------------------------------------------------
\* Both directions agree: the walk from the back ends at the front, going back
\* along prev visits the same nodes, and check() and empty() tell the truth.
LinksAgree ==
    \A l \in Lists :
        LET w == Walk(l)
            n == list[l].size
        IN  /\ n = 0 => list[l] = EmptyList
            /\ n > 0 => /\ w[n] = list[l].front /\ link[w[n]].next = InvalidIndex
                        /\ link[w[1]].prev = InvalidIndex
            /\ \A k \in 1..n - 1 : link[w[k + 1]].prev = w[k]

\* The lists, front first.
seqs == [l \in Lists |-> [k \in 1..list[l].size |-> Walk(l)[list[l].size + 1 - k]]]

Sequence == INSTANCE InnerListSeqs

\* The lists are sequences without common nodes: pushBack, pushFront, erase,
\* popFront, popBack and fastClear do what InnerLists says of them, and every
\* step leaves links that agree in both directions.
ImplementsSeqs == Sequence!Spec /\ [][LinksAgree']_listvars
=============================================================================
