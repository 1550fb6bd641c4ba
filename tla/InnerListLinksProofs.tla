----------------------- MODULE InnerListLinksProofs -----------------------
(***************************************************************************)
(* The links of InnerList implement the sequences of InnerLists, for any   *)
(* number of nodes and of lists that share the link.                       *)
(***************************************************************************)
EXTENDS InnerListLinks, InnerListProofs, WellFoundedInduction, NaturalsInduction

Links == [prev : Nat, next : Nat]
Ends == [size : Nat, back : Nat, front : Nat]

\* The links lnk and the list lst hold the sequence s, whose front is first: next leads
\* towards the front, prev towards the back.
Chain(lnk, lst, s) ==
    /\ lst \in Ends /\ s \in Seq(Nodes) /\ IsInjective(s) /\ Len(s) = lst.size
    /\ s = <<>> => lst = EmptyList
    /\ s # <<>> => /\ lst.front = s[1] /\ lnk[s[1]].next = InvalidIndex
                   /\ lst.back = s[Len(s)] /\ lnk[s[Len(s)]].prev = InvalidIndex
    /\ \A k \in 1..Len(s) - 1 : lnk[s[k]].prev = s[k + 1] /\ lnk[s[k + 1]].next = s[k]

\* The sequence a walk from the back to the front finds.
SeqOf(lnk, lst) == [k \in 1..lst.size |-> WalkOf(lnk, lst)[lst.size + 1 - k]]

\* w is what a walk along next visits.
Visits(lnk, lst, w) ==
    /\ lst.size \in Nat /\ w = [k \in 1..lst.size |-> w[k]]
    /\ lst.size > 0 => w[1] = lst.back
    /\ \A k \in 1..lst.size - 1 : lnk[w[k]].next = w[k + 1]

\* The recursive function of the walk is the one solution of its equation: another would
\* differ from it at a first place.
LEMMA WalkIs ==
    ASSUME NEW lnk, NEW lst, NEW w, Visits(lnk, lst, w) PROVE WalkOf(lnk, lst) = w
<1> USE DEF Visits
<1>1. PICK n : n = lst.size
  OBVIOUS
<1> DEFINE Eq(A) == A = [k \in 1..n |-> IF k = 1 THEN lst.back ELSE lnk[A[k - 1]].next]
<1>2. Eq(w)
  <2>1. ASSUME NEW k \in 1..n PROVE w[k] = IF k = 1 THEN lst.back ELSE lnk[w[k - 1]].next
    <3>1. CASE k = 1
      BY <1>1, <3>1
    <3>2. CASE k # 1
      <4>1. k - 1 \in 1..n - 1 /\ (k - 1) + 1 = k
        BY <1>1, <3>2
      <4>2. lnk[w[k - 1]].next = w[(k - 1) + 1]
        BY <1>1, <4>1, Zenon
      <4> QED BY <3>2, <4>1, <4>2, Zenon
    <3> QED BY <3>1, <3>2
  <2>2. w = [k \in 1..n |-> w[k]]
    BY <1>1
  <2>3. [k \in 1..n |-> w[k]] = [k \in 1..n |-> IF k = 1 THEN lst.back ELSE lnk[w[k - 1]].next]
    BY <2>1, Zenon
  <2> QED BY <2>2, <2>3, Zenon
<1>3. PICK A : A = CHOOSE B : Eq(B)
  OBVIOUS
<1>4. Eq(A)
  BY <1>2, <1>3, Zenon
<1>5. \A k \in 1..n : A[k] = w[k]
  <2>1. SUFFICES ASSUME NEW j \in 1..n, A[j] # w[j] PROVE FALSE
    BY Zenon
  <2>2. PICK Bad : Bad = {k \in 1..n : A[k] # w[k]}
    BY Zenon
  <2>3. Bad \subseteq Nat /\ Bad # {}
    BY <1>1, <2>1, <2>2
  <2>4. PICK m \in Bad : \A y \in Bad : ~(<<y, m>> \in OpToRel(<, Nat))
    BY <2>3, NatLessThanWellFounded, WFMin, Zenon
  <2>5. \A y \in Bad : ~(y < m)
    BY <2>3, <2>4, Zenon DEF OpToRel
  <2>6. m \in 1..n /\ A[m] # w[m]
    BY <2>2
  <2>7. A[m] = (IF m = 1 THEN lst.back ELSE lnk[A[m - 1]].next) /\ w[m] = (IF m = 1 THEN lst.back ELSE lnk[w[m - 1]].next)
    BY <1>2, <1>4, <2>6, Zenon
  <2>8. CASE m = 1
    BY <2>6, <2>7, <2>8
  <2>9. CASE m # 1
    <3>1. m - 1 \in 1..n /\ m - 1 < m
      BY <1>1, <2>6, <2>9
    <3>2. A[m - 1] = w[m - 1]
      BY <2>2, <2>5, <3>1, Zenon
    <3> QED BY <2>6, <2>7, <2>9, <3>2
  <2> QED BY <2>8, <2>9
<1>6. WalkOf(lnk, lst) = [k \in 1..n |-> A[k]]
  BY <1>1, <1>3 DEF WalkOf
<1> QED BY <1>1, <1>5, <1>6, Zenon

Backwards(s) == [k \in 1..Len(s) |-> s[Len(s) + 1 - k]]

\* forEach visits the nodes of the sequence that the links hold.
LEMMA WalkOfChain ==
    ASSUME NEW lnk, NEW lst, NEW s, Chain(lnk, lst, s)
    PROVE  WalkOf(lnk, lst) = Backwards(s)
<1>1. PICK n : n = Len(s)
  BY Zenon
<1>2. n \in Nat /\ lst.size = n /\ DOMAIN s = 1..n
  BY <1>1 DEF Chain
<1>3. PICK w : w = [k \in 1..n |-> s[n + 1 - k]]
  BY Zenon
<1>4. w = [k \in 1..lst.size |-> w[k]]
  BY <1>2, <1>3
<1>5. lst.size > 0 => w[1] = lst.back
  <2> SUFFICES ASSUME n > 0 PROVE w[1] = lst.back
    BY <1>2
  <2>1. s # <<>> /\ 1 \in 1..n /\ n + 1 - 1 = n
    BY <1>1, <1>2
  <2>2. lst.back = s[n]
    BY <1>1, <2>1 DEF Chain
  <2> QED BY <1>3, <2>1, <2>2
<1>6. ASSUME NEW k \in 1..lst.size - 1 PROVE lnk[w[k]].next = w[k + 1]
  <2>1. PICK j : j = n - k
    OBVIOUS
  <2>2. j \in 1..n - 1 /\ k \in 1..n /\ k + 1 \in 1..n /\ n + 1 - k = j + 1 /\ n + 1 - (k + 1) = j
    BY <1>2, <2>1
  <2>3. w[k] = s[j + 1] /\ w[k + 1] = s[j]
    BY <1>3, <2>2
  <2>4. lnk[s[j + 1]].next = s[j]
    BY <1>1, <2>2, Zenon DEF Chain
  <2> QED BY <2>3, <2>4
<1>7. lst.size \in Nat
  BY <1>2
<1>8. Visits(lnk, lst, w)
  BY <1>4, <1>5, <1>6, <1>7, Zenon DEF Visits
<1> QED BY <1>1, <1>3, <1>8, WalkIs, Zenon DEF Backwards

\* What is held is found.
LEMMA SeqOfChain ==
    ASSUME NEW lnk, NEW lst, NEW s, Chain(lnk, lst, s) PROVE SeqOf(lnk, lst) = s
<1>1. PICK n, w : n = Len(s) /\ w = WalkOf(lnk, lst)
  BY Zenon
<1>2. n \in Nat /\ lst.size = n /\ DOMAIN s = 1..n /\ s = [k \in 1..n |-> s[k]]
  BY <1>1 DEF Chain
<1>3. w = [k \in 1..n |-> s[n + 1 - k]]
  <2>1. w = Backwards(s)
    BY <1>1, WalkOfChain, Zenon
  <2> QED BY <1>1, <2>1, Zenon DEF Backwards
<1>4. ASSUME NEW k \in 1..n PROVE w[n + 1 - k] = s[k]
  <2>1. n + 1 - k \in 1..n /\ n + 1 - (n + 1 - k) = k
    BY <1>2
  <2> QED BY <1>3, <2>1
<1>5. SeqOf(lnk, lst) = [k \in 1..n |-> w[n + 1 - k]]
  BY <1>1, <1>2 DEF SeqOf
<1> QED BY <1>2, <1>4, <1>5

-----------------------------------------------------------------------------
(***************************************************************************)
(* What the operations do to the list they are called for.                 *)
(***************************************************************************)

\* A list whose nodes keep their links stays.
LEMMA OtherChain ==
    ASSUME NEW lnk, NEW new, NEW lst, NEW s, Chain(lnk, lst, s), \A j \in Range(s) : new[j] = lnk[j]
    PROVE  Chain(new, lst, s)
<1>1. Len(s) \in Nat /\ DOMAIN s = 1..Len(s) /\ (s # <<>> => 1 \in 1..Len(s) /\ Len(s) \in 1..Len(s))
  BY DEF Chain
<1>2. \A k \in 1..Len(s) : new[s[k]] = lnk[s[k]]
  BY <1>1 DEF Range
<1>3. \A k \in 1..Len(s) - 1 : k \in 1..Len(s) /\ k + 1 \in 1..Len(s)
  BY <1>1
<1> QED BY <1>1, <1>2, <1>3, Zenon DEF Chain

\* Links change in S only.
Outside(lnk, new, S) == new \in [Nodes -> Links] /\ \A j \in Nodes \ S : new[j] = lnk[j]

LEMMA Relinked ==
    ASSUME NEW lnk \in [Nodes -> Links], NEW j \in Nodes, NEW v \in Nat
    PROVE  /\ [lnk EXCEPT ![j].prev = v] \in [Nodes -> Links]
           /\ [lnk EXCEPT ![j].next = v] \in [Nodes -> Links]
<1>1. lnk[j] \in Links
  OBVIOUS
<1>2. [lnk[j] EXCEPT !.prev = v] \in Links /\ [lnk[j] EXCEPT !.next = v] \in Links
  BY <1>1 DEF Links
<1> QED BY <1>2

PushedBack(lnk, lst, i, new, nlst) ==
    /\ new = LET linked == [lnk EXCEPT ![i] = [prev |-> InvalidIndex, next |-> lst.back]]
             IN  IF lst.back = InvalidIndex THEN linked ELSE [linked EXCEPT ![lst.back].prev = i]
    /\ nlst = [size |-> lst.size + 1, back |-> i,
               front |-> IF lst.back = InvalidIndex THEN i ELSE lst.front]

\* pushBack links i behind the back.
LEMMA PushBackChain ==
    ASSUME NodesAssumption, NEW lnk \in [Nodes -> Links], NEW lst, NEW s, Chain(lnk, lst, s),
           NEW i \in Nodes, i \notin Range(s), NEW new, NEW nlst,
           PushedBack(lnk, lst, i, new, nlst)
    PROVE  Chain(new, nlst, PushBack(s, i)) /\ Outside(lnk, new, Range(s) \union {i})
<1>1. PICK t, n : t = PushBack(s, i) /\ n = Len(s)
  BY Zenon
<1>2. /\ s \in Seq(Nodes) /\ n \in Nat /\ DOMAIN s = 1..n /\ lst.size = n /\ IsInjective(s)
      /\ lst \in Ends
  BY <1>1 DEF Chain
<1>3. /\ t \in Seq(Nodes) /\ Len(t) = n + 1 /\ IsInjective(t) /\ t[n + 1] = i
      /\ \A k \in 1..n : t[k] = s[k]
  BY <1>1, <1>2, AppendList DEF PushBack
<1>4. \A k \in 1..n : s[k] \in Nodes /\ s[k] # i /\ s[k] \in Nat /\ s[k] # 0
  <2>1. \A k \in 1..n : s[k] \in Nodes
    BY <1>2
  <2>2. \A k \in 1..n : s[k] # i
    BY <1>2, Zenon DEF Range
  <2> QED BY <2>1, <2>2, Zenon DEF NodesAssumption, InvalidIndex
<1>5. i \in Nat /\ i # InvalidIndex
  BY DEF NodesAssumption
<1>6. \A k, j \in 1..n : s[k] = s[j] => k = j
  BY <1>2 DEF IsInjective
<1>7. nlst.size = n + 1 /\ nlst.back = i /\ t # <<>>
  BY <1>2, <1>3 DEF PushedBack
<1>8. CASE n = 0
  <2>1. s = <<>> /\ lst.back = InvalidIndex
    BY <1>1, <1>2, <1>8 DEF Chain, EmptyList
  <2>2. nlst.front = i /\ new = [lnk EXCEPT ![i] = [prev |-> InvalidIndex, next |-> InvalidIndex]]
    BY <2>1, Zenon DEF PushedBack
  <2>3. new[i].prev = InvalidIndex /\ new[i].next = InvalidIndex
    BY <2>2
  <2>4. nlst \in Ends
    BY <1>2, <1>5, <2>1 DEF Ends, PushedBack
  <2>5. Outside(lnk, new, Range(s) \union {i})
    BY <2>2 DEF Outside, Links, InvalidIndex
  <2> QED BY <1>1, <1>3, <1>7, <1>8, <2>2, <2>3, <2>4, <2>5 DEF Chain
<1>9. CASE n # 0
  <2>1. /\ s # <<>> /\ n \in 1..n /\ 1 \in 1..n /\ lst.back = s[n] /\ lst.front = s[1]
        /\ lnk[s[n]].prev = InvalidIndex /\ lnk[s[1]].next = InvalidIndex
    BY <1>1, <1>2, <1>9 DEF Chain
  <2>2. lst.back # InvalidIndex /\ s[n] # i
    BY <1>4, <2>1 DEF InvalidIndex
  <2>3. new = [[lnk EXCEPT ![i] = [prev |-> InvalidIndex, next |-> s[n]]] EXCEPT ![s[n]].prev = i]
    BY <2>1, <2>2, Zenon DEF PushedBack
  <2>4. /\ new[i].prev = InvalidIndex /\ new[i].next = s[n]
        /\ new[s[n]].prev = i /\ new[s[n]].next = lnk[s[n]].next
        /\ \A j \in Nodes : j # i /\ j # s[n] => new[j] = lnk[j]
    BY <1>4, <2>1, <2>2, <2>3 DEF Links
  <2>5. \A k \in 1..n : new[s[k]].next = lnk[s[k]].next /\ (k # n => new[s[k]].prev = lnk[s[k]].prev)
    BY <1>4, <1>6, <2>1, <2>4
  <2>6. ASSUME NEW k \in 1..n PROVE new[t[k]].prev = t[k + 1] /\ new[t[k + 1]].next = t[k]
    <3>1. CASE k = n
      BY <1>3, <2>1, <2>4, <3>1
    <3>2. CASE k # n
      <4>1. k \in 1..n - 1 /\ k + 1 \in 1..n
        BY <1>2, <3>2
      <4>2. lnk[s[k]].prev = s[k + 1] /\ lnk[s[k + 1]].next = s[k]
        BY <1>1, <4>1 DEF Chain
      <4> QED BY <1>3, <2>5, <3>2, <4>1, <4>2
    <3> QED BY <3>1, <3>2
  <2>7. nlst.front = t[1] /\ new[t[1]].next = InvalidIndex
    BY <1>3, <2>1, <2>2, <2>5, Zenon DEF PushedBack
  <2>8. nlst \in Ends
    BY <1>2, <1>5, <2>1, <2>2 DEF Ends, PushedBack
  <2>9. 1..Len(t) - 1 = 1..n
    BY <1>2, <1>3
  <2>10. nlst.size = Len(t) /\ nlst.back = t[Len(t)] /\ new[t[Len(t)]].prev = InvalidIndex
    BY <1>3, <1>7, <2>4
  <2>11. Outside(lnk, new, Range(s) \union {i})
    <3>1. s[n] \in Range(s)
      BY <1>2, <2>1, Zenon DEF Range
    <3>2. new \in [Nodes -> Links]
      <4>1. PICK linked : linked = [lnk EXCEPT ![i] = [prev |-> InvalidIndex, next |-> s[n]]]
        BY Zenon
      <4>2. linked \in [Nodes -> Links]
        BY <1>4, <2>1, <4>1 DEF Links, InvalidIndex
      <4>3. s[n] \in Nodes /\ i \in Nat
        BY <1>4, <1>5, <2>1
      <4>4. [linked EXCEPT ![s[n]].prev = i] \in [Nodes -> Links]
        BY <4>2, <4>3, Relinked, Zenon
      <4> QED BY <2>3, <4>1, <4>4, Zenon
    <3> QED BY <2>4, <3>1, <3>2 DEF Outside
  <2> QED BY <1>1, <1>3, <1>7, <2>6, <2>7, <2>8, <2>9, <2>10, <2>11, Zenon DEF Chain
<1> QED BY <1>8, <1>9

PushedFront(lnk, lst, i, new, nlst) ==
    /\ new = LET linked == [lnk EXCEPT ![i] = [prev |-> lst.front, next |-> InvalidIndex]]
             IN  IF lst.front = InvalidIndex THEN linked ELSE [linked EXCEPT ![lst.front].next = i]
    /\ nlst = [size |-> lst.size + 1, front |-> i,
               back |-> IF lst.front = InvalidIndex THEN i ELSE lst.back]

\* pushFront links i before the front.
LEMMA PushFrontChain ==
    ASSUME NodesAssumption, NEW lnk \in [Nodes -> Links], NEW lst, NEW s, Chain(lnk, lst, s),
           NEW i \in Nodes, i \notin Range(s), NEW new, NEW nlst,
           PushedFront(lnk, lst, i, new, nlst)
    PROVE  Chain(new, nlst, PushFront(s, i)) /\ Outside(lnk, new, Range(s) \union {i})
<1>1. PICK t, n : t = PushFront(s, i) /\ n = Len(s)
  BY Zenon
<1>2. /\ s \in Seq(Nodes) /\ n \in Nat /\ DOMAIN s = 1..n /\ lst.size = n /\ IsInjective(s)
      /\ lst \in Ends
  BY <1>1 DEF Chain
<1>3. /\ t \in Seq(Nodes) /\ Len(t) = n + 1 /\ t[1] = i /\ \A k \in 1..n : t[k + 1] = s[k]
  BY <1>1, <1>2 DEF PushFront
<1>4. IsInjective(t)
  BY <1>1, <1>2, PushFrontList
<1>5. \A k \in 1..n : s[k] \in Nodes /\ s[k] # i /\ s[k] \in Nat /\ s[k] # 0
  <2>1. \A k \in 1..n : s[k] \in Nodes
    BY <1>2
  <2>2. \A k \in 1..n : s[k] # i
    BY <1>2, Zenon DEF Range
  <2> QED BY <2>1, <2>2, Zenon DEF NodesAssumption, InvalidIndex
<1>6. i \in Nat /\ i # InvalidIndex
  BY DEF NodesAssumption
<1>7. \A k, j \in 1..n : s[k] = s[j] => k = j
  BY <1>2 DEF IsInjective
<1>8. nlst.size = n + 1 /\ nlst.front = i /\ t # <<>>
  BY <1>2, <1>3 DEF PushedFront
<1>9. CASE n = 0
  <2>1. s = <<>> /\ lst.front = InvalidIndex
    BY <1>1, <1>2, <1>9 DEF Chain, EmptyList
  <2>2. nlst.back = i /\ new = [lnk EXCEPT ![i] = [prev |-> InvalidIndex, next |-> InvalidIndex]]
    BY <2>1, Zenon DEF PushedFront
  <2>3. new[i].prev = InvalidIndex /\ new[i].next = InvalidIndex
    BY <2>2
  <2>4. nlst \in Ends
    BY <1>2, <1>6, <2>1 DEF Ends, PushedFront
  <2>5. Outside(lnk, new, Range(s) \union {i})
    BY <2>2 DEF Outside, Links, InvalidIndex
  <2> QED BY <1>1, <1>3, <1>4, <1>8, <1>9, <2>2, <2>3, <2>4, <2>5 DEF Chain
<1>10. CASE n # 0
  <2>1. /\ s # <<>> /\ n \in 1..n /\ 1 \in 1..n /\ lst.back = s[n] /\ lst.front = s[1]
        /\ lnk[s[n]].prev = InvalidIndex /\ lnk[s[1]].next = InvalidIndex
    BY <1>1, <1>2, <1>10 DEF Chain
  <2>2. lst.front # InvalidIndex /\ s[1] # i
    BY <1>5, <2>1 DEF InvalidIndex
  <2>3. new = [[lnk EXCEPT ![i] = [prev |-> s[1], next |-> InvalidIndex]] EXCEPT ![s[1]].next = i]
    BY <2>1, <2>2, Zenon DEF PushedFront
  <2>4. /\ new[i].next = InvalidIndex /\ new[i].prev = s[1]
        /\ new[s[1]].next = i /\ new[s[1]].prev = lnk[s[1]].prev
        /\ \A j \in Nodes : j # i /\ j # s[1] => new[j] = lnk[j]
    BY <1>5, <2>1, <2>2, <2>3, Zenon DEF Links
  <2>5. \A k \in 1..n : new[s[k]].prev = lnk[s[k]].prev /\ (k # 1 => new[s[k]].next = lnk[s[k]].next)
    BY <1>5, <1>7, <2>1, <2>4
  <2>6. ASSUME NEW k \in 1..n PROVE new[t[k]].prev = t[k + 1] /\ new[t[k + 1]].next = t[k]
    <3>1. CASE k = 1
      BY <1>3, <2>1, <2>4, <3>1
    <3>2. CASE k # 1
      <4>1. PICK j : j = k - 1
        OBVIOUS
      <4>2. j \in 1..n - 1 /\ j \in 1..n /\ j + 1 = k /\ j + 1 \in 1..n
        BY <1>2, <3>2, <4>1
      <4>3. lnk[s[j]].prev = s[j + 1] /\ lnk[s[j + 1]].next = s[j]
        BY <1>1, <4>2 DEF Chain
      <4>4. t[k] = s[j] /\ t[k + 1] = s[k]
        BY <1>3, <4>2
      <4> QED BY <2>5, <3>2, <4>2, <4>3, <4>4
    <3> QED BY <3>1, <3>2
  <2>7. nlst.back = t[n + 1] /\ new[t[n + 1]].prev = InvalidIndex
    BY <1>3, <2>1, <2>2, <2>5 DEF PushedFront
  <2>8. nlst \in Ends
    BY <1>2, <1>6, <2>1, <2>2 DEF Ends, PushedFront
  <2>9. 1..Len(t) - 1 = 1..n
    BY <1>2, <1>3
  <2>10. /\ nlst.size = Len(t) /\ nlst.back = t[Len(t)] /\ new[t[Len(t)]].prev = InvalidIndex
         /\ nlst.front = t[1] /\ new[t[1]].next = InvalidIndex
    BY <1>3, <1>8, <2>4, <2>7
  <2>11. Outside(lnk, new, Range(s) \union {i})
    <3>1. s[1] \in Range(s)
      BY <1>2, <2>1, Zenon DEF Range
    <3>2. new \in [Nodes -> Links]
      <4>1. PICK linked : linked = [lnk EXCEPT ![i] = [prev |-> s[1], next |-> InvalidIndex]]
        BY Zenon
      <4>2. linked \in [Nodes -> Links]
        BY <1>5, <2>1, <4>1 DEF Links, InvalidIndex
      <4>3. s[1] \in Nodes /\ i \in Nat
        BY <1>5, <1>6, <2>1
      <4>4. [linked EXCEPT ![s[1]].next = i] \in [Nodes -> Links]
        BY <4>2, <4>3, Relinked, Zenon
      <4> QED BY <2>3, <4>1, <4>4, Zenon
    <3> QED BY <2>4, <3>1, <3>2 DEF Outside
  <2> QED BY <1>1, <1>3, <1>4, <1>8, <2>6, <2>8, <2>9, <2>10, <2>11, Zenon DEF Chain
<1> QED BY <1>9, <1>10

Erased(lnk, lst, i, new, nlst) ==
    LET prev == lnk[i].prev
        next == lnk[i].next
    IN  /\ new = [j \in Nodes |->
                     IF j = i THEN NoLink
                     ELSE [prev |-> IF j = next THEN prev ELSE lnk[j].prev,
                           next |-> IF j = prev THEN next ELSE lnk[j].next]]
        /\ nlst = [size |-> lst.size - 1,
                   front |-> IF next = InvalidIndex THEN prev ELSE lst.front,
                   back |-> IF prev = InvalidIndex THEN next ELSE lst.back]

\* erase links the neighbours of i with one another, and moves an end when i was there.
LEMMA EraseChain ==
    ASSUME NodesAssumption, NEW lnk \in [Nodes -> Links], NEW lst, NEW s, Chain(lnk, lst, s),
           NEW i \in Range(s), NEW new, NEW nlst, Erased(lnk, lst, i, new, nlst)
    PROVE  Chain(new, nlst, Erase(s, i)) /\ Outside(lnk, new, Range(s))
<1>1. PICK prev, next :
         /\ prev = lnk[i].prev /\ next = lnk[i].next
         /\ new = [j \in Nodes |->
                     IF j = i THEN NoLink
                     ELSE [prev |-> IF j = next THEN prev ELSE lnk[j].prev,
                           next |-> IF j = prev THEN next ELSE lnk[j].next]]
         /\ nlst = [size |-> lst.size - 1,
                    front |-> IF next = InvalidIndex THEN prev ELSE lst.front,
                    back |-> IF prev = InvalidIndex THEN next ELSE lst.back]
  BY Zenon DEF Erased
<1>2. PICK t, n : t = Erase(s, i) /\ n = Len(s)
  BY Zenon
<1>3. /\ s \in Seq(Nodes) /\ n \in Nat /\ DOMAIN s = 1..n /\ lst.size = n /\ IsInjective(s)
      /\ lst \in Ends
  BY <1>2 DEF Chain
<1>4. PICK p \in 1..n : s[p] = i /\ t = [k \in 1..n - 1 |-> IF k < p THEN s[k] ELSE s[k + 1]]
  <2>1. \E k \in 1..n : s[k] = i
    BY <1>3 DEF Range
  <2>2. PICK p : p = CHOOSE k \in 1..Len(s) : s[k] = i
    OBVIOUS
  <2>3. p \in 1..n /\ s[p] = i
    BY <1>2, <2>1, <2>2
  <2>4. t = [k \in 1..n - 1 |-> IF k < p THEN s[k] ELSE s[k + 1]]
    BY <1>2, <2>2 DEF Erase
  <2> QED BY <2>3, <2>4
<1>5. t \in Seq(Nodes) /\ IsInjective(t)
  BY <1>2, <1>3, EraseList
<1>6. n - 1 \in Nat /\ Len(t) = n - 1 /\ n > 0 /\ s # <<>>
  BY <1>2, <1>3, <1>4
<1>7. \A k \in 1..n : s[k] \in Nodes /\ s[k] # InvalidIndex
  <2>1. \A k \in 1..n : s[k] \in Nodes
    BY <1>3
  <2> QED BY <2>1, Zenon DEF NodesAssumption
<1>8. \A k, j \in 1..n : s[k] = s[j] => k = j
  BY <1>3 DEF IsInjective
<1>9. IF p = 1 THEN next = InvalidIndex ELSE p - 1 \in 1..n /\ next = s[p - 1]
  <2>1. CASE p = 1
    BY <1>1, <1>4, <1>6, <2>1 DEF Chain
  <2>2. CASE p # 1
    <3>1. PICK q : q = p - 1
      OBVIOUS
    <3>2. q \in 1..n - 1 /\ q \in 1..n /\ q + 1 = p
      BY <1>3, <2>2, <3>1
    <3>3. lnk[s[q + 1]].next = s[q]
      BY <1>2, <3>2 DEF Chain
    <3> QED BY <1>1, <1>4, <2>2, <3>1, <3>2, <3>3
  <2> QED BY <2>1, <2>2
<1>10. IF p = n THEN prev = InvalidIndex ELSE p + 1 \in 1..n /\ prev = s[p + 1]
  <2>1. CASE p = n
    BY <1>1, <1>2, <1>4, <1>6, <2>1 DEF Chain
  <2>2. CASE p # n
    <3>1. p \in 1..n - 1 /\ p + 1 \in 1..n
      BY <1>3, <2>2
    <3>2. lnk[s[p]].prev = s[p + 1]
      BY <1>2, <3>1 DEF Chain
    <3> QED BY <1>1, <1>4, <2>2, <3>1, <3>2
  <2> QED BY <2>1, <2>2
<1>11. \A j \in 1..n : j # p =>
          /\ new[s[j]].prev = IF s[j] = next THEN prev ELSE lnk[s[j]].prev
          /\ new[s[j]].next = IF s[j] = prev THEN next ELSE lnk[s[j]].next
  BY <1>1, <1>4, <1>7, <1>8
<1>12. \A j \in 1..n : /\ s[j] = next <=> j = p - 1
                       /\ s[j] = prev <=> j = p + 1
  <2> SUFFICES ASSUME NEW j \in 1..n PROVE (s[j] = next <=> j = p - 1) /\ (s[j] = prev <=> j = p + 1)
    OBVIOUS
  <2>1. s[j] # InvalidIndex /\ (p = 1 => j # p - 1) /\ (p = n => j # p + 1)
    BY <1>3, <1>7
  <2>2. s[j] = next <=> j = p - 1
    BY <1>8, <1>9, <2>1, Zenon
  <2>3. s[j] = prev <=> j = p + 1
    BY <1>8, <1>10, <2>1, Zenon
  <2> QED BY <2>2, <2>3
<1>13. \A k \in 1..n - 1 : /\ k \in 1..n /\ k + 1 \in 1..n
                           /\ k < p => t[k] = s[k]
                           /\ ~(k < p) => t[k] = s[k + 1]
  BY <1>3, <1>4
<1>14. ASSUME NEW k \in 1..n - 2 PROVE new[t[k]].prev = t[k + 1] /\ new[t[k + 1]].next = t[k]
  <2>1. k \in 1..n - 1 /\ k + 1 \in 1..n - 1 /\ k + 2 \in 1..n /\ (k + 1) + 1 = k + 2
    BY <1>3
  <2>2. /\ lnk[s[k]].prev = s[k + 1] /\ lnk[s[k + 1]].next = s[k]
        /\ lnk[s[k + 1]].prev = s[k + 2] /\ lnk[s[k + 2]].next = s[k + 1]
    BY <1>2, <2>1, Zenon DEF Chain
  <2>3. CASE k + 1 < p
    <3>1. t[k] = s[k] /\ t[k + 1] = s[k + 1] /\ k # p /\ k + 1 # p /\ k # p - 1 /\ k + 1 # p + 1
      BY <1>3, <1>13, <2>1, <2>3
    <3> QED BY <1>11, <1>12, <1>13, <2>1, <2>2, <3>1
  <2>4. CASE k + 1 = p
    <3>1. t[k] = s[k] /\ t[k + 1] = s[k + 2] /\ k # p /\ k + 2 # p /\ k = p - 1 /\ k + 2 = p + 1
      BY <1>3, <1>13, <2>1, <2>4
    <3>2. s[k] = next /\ s[k + 2] = prev
      BY <1>12, <1>13, <2>1, <3>1
    <3> QED BY <1>11, <1>13, <2>1, <3>1, <3>2
  <2>5. CASE k >= p
    <3>1. t[k] = s[k + 1] /\ t[k + 1] = s[k + 2] /\ k + 1 # p /\ k + 2 # p /\ k + 1 # p - 1 /\ k + 2 # p + 1
      BY <1>3, <1>13, <2>1, <2>5
    <3> QED BY <1>11, <1>12, <1>13, <2>1, <2>2, <3>1
  <2> QED BY <2>1, <2>3, <2>4, <2>5
<1>15. lst.front = s[1] /\ lnk[s[1]].next = InvalidIndex /\ lst.back = s[n] /\ lnk[s[n]].prev = InvalidIndex
  BY <1>2, <1>6, Zenon DEF Chain
<1>16. /\ nlst.size = n - 1
       /\ nlst.front = IF next = InvalidIndex THEN prev ELSE lst.front
       /\ nlst.back = IF prev = InvalidIndex THEN next ELSE lst.back
  BY <1>1, <1>3
<1>17. Outside(lnk, new, Range(s))
  <2>1. \A j \in Nodes : lnk[j].prev \in Nat /\ lnk[j].next \in Nat /\ lnk[j] = [prev |-> lnk[j].prev, next |-> lnk[j].next]
    BY DEF Links
  <2>2. prev \in Nat /\ next \in Nat
    BY <1>1, <1>4, <1>7, <2>1
  <2>3. new \in [Nodes -> Links]
    BY <1>1, <2>1, <2>2 DEF Links, NoLink, InvalidIndex
  <2>4. ASSUME NEW j \in Nodes, j \notin Range(s) PROVE new[j] = lnk[j]
    <3>1. j # InvalidIndex /\ \A k \in 1..n : s[k] # j
      BY <1>3, <2>4, Zenon DEF Range, NodesAssumption
    <3>2. j # i
      BY <1>4, <3>1
    <3>3. j # next
      BY <1>9, <3>1
    <3>4. j # prev
      BY <1>10, <3>1
    <3> QED BY <1>1, <2>1, <3>2, <3>3, <3>4
  <2> QED BY <2>3, <2>4 DEF Outside
<1>18. CASE n = 1
  <2>1. p = 1 /\ p = n
    BY <1>18
  <2>2. nlst = EmptyList
    BY <1>1, <1>3, <1>9, <1>10, <1>18, <2>1 DEF EmptyList
  <2>3. t = <<>> /\ nlst \in Ends /\ Len(t) = nlst.size /\ 1..Len(t) - 1 = {}
    BY <1>5, <1>6, <1>16, <1>18, <2>2 DEF EmptyList, Ends, InvalidIndex
  <2> QED BY <1>2, <1>5, <1>17, <2>2, <2>3 DEF Chain
<1>19. CASE n # 1
  <2>1. 1 \in 1..n - 1 /\ n - 1 \in 1..n - 1 /\ 1 + 1 = 2 /\ (n - 1) + 1 = n /\ 1 \in 1..n /\ n \in 1..n
    BY <1>3, <1>6, <1>19
  <2>2. nlst.front = t[1] /\ new[t[1]].next = InvalidIndex
    <3>1. CASE p = 1
      <4>1. t[1] = s[2] /\ 2 = p + 1 /\ 2 \in 1..n /\ 2 # p /\ p # n
        BY <1>13, <1>19, <2>1, <3>1
      <4>2. next = InvalidIndex /\ prev = s[2]
        BY <1>9, <1>10, <3>1, <4>1
      <4>3. new[s[2]].next = next
        BY <1>11, <4>1, <4>2
      <4> QED BY <1>16, <4>1, <4>2, <4>3
    <3>2. CASE p # 1
      <4>1. t[1] = s[1] /\ 1 # p + 1
        BY <1>13, <2>1, <3>2
      <4>2. next # InvalidIndex /\ s[1] # prev
        BY <1>7, <1>9, <1>12, <2>1, <3>2, <4>1, Zenon
      <4>3. new[s[1]].next = lnk[s[1]].next
        BY <1>11, <2>1, <3>2, <4>2
      <4> QED BY <1>15, <1>16, <4>1, <4>2, <4>3
    <3> QED BY <3>1, <3>2
  <2>3. nlst.back = t[n - 1] /\ new[t[n - 1]].prev = InvalidIndex
    <3>1. CASE p = n
      <4>1. t[n - 1] = s[n - 1] /\ n - 1 = p - 1 /\ n - 1 \in 1..n /\ n - 1 # p /\ p # 1
        BY <1>3, <1>13, <1>19, <2>1, <3>1
      <4>2. prev = InvalidIndex /\ next = s[n - 1]
        BY <1>9, <1>10, <3>1, <4>1
      <4>3. new[s[n - 1]].prev = prev
        BY <1>11, <4>1, <4>2
      <4> QED BY <1>16, <4>1, <4>2, <4>3
    <3>2. CASE p # n
      <4>1. t[n - 1] = s[n] /\ n # p - 1
        BY <1>3, <1>13, <2>1, <3>2
      <4>2. prev # InvalidIndex /\ s[n] # next
        BY <1>7, <1>10, <1>12, <2>1, <3>2, <4>1, Zenon
      <4>3. new[s[n]].prev = lnk[s[n]].prev
        BY <1>11, <2>1, <3>2, <4>2
      <4> QED BY <1>15, <1>16, <4>1, <4>2, <4>3
    <3> QED BY <3>1, <3>2
  <2>4. t # <<>> /\ Len(t) - 1 = n - 2
    BY <1>3, <1>6, <1>19
  <2>5. nlst \in Ends
    <3>1. t[1] \in Nodes /\ t[n - 1] \in Nodes
      BY <1>5, <1>6, <2>1
    <3>2. t[1] \in Nat /\ t[n - 1] \in Nat
      BY <3>1, Zenon DEF NodesAssumption
    <3>3. nlst = [size |-> nlst.size, front |-> nlst.front, back |-> nlst.back]
      BY <1>1, Zenon
    <3>4. nlst.size \in Nat /\ nlst.front \in Nat /\ nlst.back \in Nat
      BY <1>6, <1>16, <2>2, <2>3, <3>2
    <3> QED BY <3>3, <3>4 DEF Ends
  <2>6. /\ nlst.size = Len(t) /\ nlst.back = t[Len(t)] /\ new[t[Len(t)]].prev = InvalidIndex
        /\ \A k \in 1..Len(t) - 1 : new[t[k]].prev = t[k + 1] /\ new[t[k + 1]].next = t[k]
    BY <1>6, <1>14, <1>16, <2>3, <2>4, Zenon
  <2>7. Chain(new, nlst, t)
    BY <1>5, <2>2, <2>4, <2>5, <2>6, Zenon DEF Chain
  <2> QED BY <1>2, <1>17, <2>7, Zenon
<1> QED BY <1>18, <1>19

-----------------------------------------------------------------------------
(***************************************************************************)
(* All lists together                                                      *)
(***************************************************************************)
ListsInv ==
    /\ link \in [Nodes -> Links] /\ list \in [Lists -> Ends]
    /\ \A l \in Lists : Chain(link, list[l], seqs[l])
    /\ \A l, m \in Lists : l # m => Range(seqs[l]) \intersect Range(seqs[m]) = {}

LEMMA SeqsAre ==
    /\ seqs = [l \in Lists |-> SeqOf(link, list[l])]
    /\ seqs' = [l \in Lists |-> SeqOf(link', list'[l])]
BY Zenon DEF seqs, SeqOf, Walk

\* The nodes forEach visits are those of the sequence.
LEMMA MembersAre ==
    ASSUME ListsInv, NEW l \in Lists PROVE Members(l) = Range(seqs[l])
<1>1. PICK s, n : s = seqs[l] /\ n = Len(s)
  BY Zenon
<1>2. Chain(link, list[l], s)
  BY <1>1 DEF ListsInv
<1>3. Walk(l) = [k \in 1..n |-> s[n + 1 - k]] /\ list[l].size = n /\ DOMAIN s = 1..n /\ n \in Nat
  <2>1. Walk(l) = [k \in 1..n |-> s[n + 1 - k]]
    <3>1. Walk(l) = Backwards(s)
      BY <1>2, WalkOfChain, Zenon DEF Walk
    <3> QED BY <1>1, <3>1, Zenon DEF Backwards
  <2>2. list[l].size = n /\ DOMAIN s = 1..n /\ n \in Nat
    BY <1>1, <1>2 DEF Chain
  <2> QED BY <2>1, <2>2
<1>4. \A k \in 1..n : Walk(l)[k] = s[n + 1 - k] /\ n + 1 - k \in 1..n /\ n + 1 - (n + 1 - k) = k
  BY <1>3
<1>5. \A x : x \in Members(l) <=> \E k \in 1..n : x = Walk(l)[k]
  BY <1>3, Zenon DEF Members
<1>6. \A x : x \in Range(s) <=> \E k \in 1..n : x = s[k]
  BY <1>3, Zenon DEF Range
<1>7. ASSUME NEW x, NEW k \in 1..n, x = Walk(l)[k] \/ x = s[k] PROVE x \in Members(l) <=> x \in Range(s)
  <2>1. \A j \in 1..n : Walk(l)[j] \in Range(s)
    BY <1>4, <1>6, Zenon
  <2>2. \A j \in 1..n : s[j] = Walk(l)[n + 1 - j] /\ n + 1 - j \in 1..n
    BY <1>4
  <2>3. \A j \in 1..n : s[j] \in Members(l)
    BY <1>5, <2>2, Zenon
  <2> QED BY <1>5, <1>6, <1>7, <2>1, <2>3, Zenon
<1>8. \A x : x \in Members(l) <=> x \in Range(s)
  BY <1>5, <1>6, <1>7, Zenon
<1> QED BY <1>1, <1>8, Zenon

\* A step that changes one list, and links in it only
LEMMA OneListChanges ==
    ASSUME ListsInv, NEW l \in Lists, NEW s, Chain(link', list'[l], s),
           list' = [list EXCEPT ![l] = list'[l]], NEW S, Outside(link, link', S),
           \A m \in Lists : m # l => Range(seqs[m]) \intersect (S \union Range(s)) = {}
    PROVE  ListsInv' /\ seqs' = [seqs EXCEPT ![l] = s]
<1>1. link' \in [Nodes -> Links] /\ list' \in [Lists -> Ends] /\ \A m \in Lists : m # l => list'[m] = list[m]
  <2>1. list'[l] \in Ends
    BY DEF Chain
  <2>2. list \in [Lists -> Ends] /\ link' \in [Nodes -> Links]
    BY DEF ListsInv, Outside
  <2> QED BY <2>1, <2>2
<1>2. \A m \in Lists : m # l => Chain(link', list'[m], seqs[m])
  <2> SUFFICES ASSUME NEW m \in Lists, m # l PROVE Chain(link', list[m], seqs[m])
    BY <1>1
  <2>1. Chain(link, list[m], seqs[m])
    BY DEF ListsInv
  <2>2. \A j \in Range(seqs[m]) : j \in Nodes /\ j \notin S
    BY <2>1 DEF Chain, Range
  <2>3. \A j \in Range(seqs[m]) : link'[j] = link[j]
    BY <2>2 DEF Outside
  <2> QED BY <2>1, <2>3, OtherChain
<1>3. SeqOf(link', list'[l]) = s /\ \A m \in Lists : m # l => SeqOf(link', list'[m]) = seqs[m]
  BY <1>2, SeqOfChain, Zenon
<1>4. seqs' \in [Lists -> {SeqOf(link', list'[m]) : m \in Lists}] /\ seqs'[l] = s
      /\ \A m \in Lists : m # l => seqs'[m] = seqs[m]
  BY <1>3, SeqsAre
<1>5. seqs' = [seqs EXCEPT ![l] = s]
  BY <1>4, SeqsAre
<1>6. \A m \in Lists : Chain(link', list'[m], seqs'[m])
  BY <1>2, <1>4, Zenon
<1>7. \A m, k \in Lists : m # k => Range(seqs'[m]) \intersect Range(seqs'[k]) = {}
  <2> SUFFICES ASSUME NEW m \in Lists, NEW k \in Lists, m # k
               PROVE  Range(seqs'[m]) \intersect Range(seqs'[k]) = {}
    BY Zenon
  <2>1. CASE m = l
    <3>1. seqs'[m] = s /\ seqs'[k] = seqs[k] /\ Range(seqs[k]) \intersect (S \union Range(s)) = {}
      BY <1>4, <2>1, Zenon
    <3> QED BY <3>1
  <2>2. CASE k = l
    <3>1. seqs'[k] = s /\ seqs'[m] = seqs[m] /\ Range(seqs[m]) \intersect (S \union Range(s)) = {}
      BY <1>4, <2>2, Zenon
    <3> QED BY <3>1
  <2>3. CASE m # l /\ k # l
    <3>1. seqs'[k] = seqs[k] /\ seqs'[m] = seqs[m]
      BY <1>4, <2>3, Zenon
    <3> QED BY <3>1, Zenon DEF ListsInv
  <2> QED BY <2>1, <2>2, <2>3
<1> QED BY <1>1, <1>5, <1>6, <1>7, Zenon DEF ListsInv

LEMMA PushHolds ==
    ASSUME NodesAssumption, ListsInv, NEW l \in Lists, NEW i \in Nodes, Unlinked(i),
           pushBack(l, i) \/ pushFront(l, i)
    PROVE  ListsInv' /\ Sequence!Next
<1>1. PICK s : s = seqs[l]
  OBVIOUS
<1>2. Chain(link, list[l], s) /\ link \in [Nodes -> Links] /\ list \in [Lists -> Ends]
  BY <1>1 DEF ListsInv
<1>3. i \notin Range(s) /\ \A m \in Lists : i \notin Range(seqs[m])
  BY <1>1, MembersAre, Zenon DEF Unlinked
<1>4. s \in Seq(Nodes) /\ IsInjective(s)
  BY <1>2 DEF Chain
<1>5. PICK t : /\ Chain(link', list'[l], t) /\ Outside(link, link', Range(s) \union {i})
               /\ list' = [list EXCEPT ![l] = list'[l]]
               /\ Range(t) = Range(s) \union {i}
               /\ t = PushBack(s, i) \/ t = PushFront(s, i)
  <2>1. CASE pushBack(l, i)
    <3>1. list' = [list EXCEPT ![l] = [size |-> list[l].size + 1, back |-> i,
                     front |-> IF list[l].back = InvalidIndex THEN i ELSE list[l].front]]
      BY <2>1 DEF pushBack
    <3>2. list'[l] = [size |-> list[l].size + 1, back |-> i,
                      front |-> IF list[l].back = InvalidIndex THEN i ELSE list[l].front]
      BY <1>2, <3>1
    <3>3. PushedBack(link, list[l], i, link', list'[l])
      BY <2>1, <3>2 DEF pushBack, PushedBack
    <3>4. Chain(link', list'[l], PushBack(s, i)) /\ Outside(link, link', Range(s) \union {i})
      BY <1>2, <1>3, <3>3, PushBackChain, Zenon
    <3>5. Range(PushBack(s, i)) = Range(s) \union {i}
      BY <1>4, AppendList DEF PushBack
    <3> QED BY <3>1, <3>2, <3>4, <3>5, Zenon
  <2>2. CASE pushFront(l, i)
    <3>1. list' = [list EXCEPT ![l] = [size |-> list[l].size + 1, front |-> i,
                     back |-> IF list[l].front = InvalidIndex THEN i ELSE list[l].back]]
      BY <2>2 DEF pushFront
    <3>2. list'[l] = [size |-> list[l].size + 1, front |-> i,
                      back |-> IF list[l].front = InvalidIndex THEN i ELSE list[l].back]
      BY <1>2, <3>1
    <3>3. PushedFront(link, list[l], i, link', list'[l])
      BY <2>2, <3>2 DEF pushFront, PushedFront
    <3>4. Chain(link', list'[l], PushFront(s, i)) /\ Outside(link, link', Range(s) \union {i})
      BY <1>2, <1>3, <3>3, PushFrontChain, Zenon
    <3>5. Range(PushFront(s, i)) = Range(s) \union {i}
      BY <1>4, PushFrontList
    <3> QED BY <3>1, <3>2, <3>4, <3>5, Zenon
  <2> QED BY <2>1, <2>2
<1>6. \A m \in Lists : m # l => Range(seqs[m]) \intersect ((Range(s) \union {i}) \union Range(t)) = {}
  BY <1>1, <1>3, <1>5 DEF ListsInv
<1>7. ListsInv' /\ seqs' = [seqs EXCEPT ![l] = t]
  BY <1>5, <1>6, OneListChanges, Zenon
<1>8. Sequence!Push(l, i)
  <2>1. ~Sequence!Linked(i)
    BY <1>3, Zenon DEF Sequence!Linked, Sequence!Range, Range
  <2>2. seqs' = [seqs EXCEPT ![l] = PushBack(seqs[l], i)] \/ seqs' = [seqs EXCEPT ![l] = PushFront(seqs[l], i)]
    BY <1>1, <1>5, <1>7, Zenon
  <2> QED BY <2>1, <2>2 DEF Sequence!Push, Sequence!PushBack, Sequence!PushFront, PushBack, PushFront
<1> QED BY <1>7, <1>8, Zenon DEF Sequence!Next

LEMMA EraseHolds ==
    ASSUME NodesAssumption, ListsInv, NEW l \in Lists, NEW i \in Range(seqs[l]), erase(l, i)
    PROVE  ListsInv' /\ Sequence!Next
<1>1. PICK s, prev, next : s = seqs[l] /\ prev = link[i].prev /\ next = link[i].next
  OBVIOUS
<1>2. Chain(link, list[l], s) /\ link \in [Nodes -> Links] /\ list \in [Lists -> Ends]
  BY <1>1 DEF ListsInv
<1>3. s \in Seq(Nodes) /\ IsInjective(s) /\ i \in Nodes
  BY <1>1, <1>2 DEF Chain, Range
<1>4. list' = [list EXCEPT ![l] = [size |-> list[l].size - 1,
                     front |-> IF next = InvalidIndex THEN prev ELSE list[l].front,
                     back |-> IF prev = InvalidIndex THEN next ELSE list[l].back]]
  BY <1>1 DEF erase
<1>5. list'[l] = [size |-> list[l].size - 1,
                  front |-> IF next = InvalidIndex THEN prev ELSE list[l].front,
                  back |-> IF prev = InvalidIndex THEN next ELSE list[l].back]
  BY <1>2, <1>4
<1>6. Erased(link, list[l], i, link', list'[l])
  BY <1>1, <1>5 DEF erase, Erased
<1>7. Chain(link', list'[l], Erase(s, i)) /\ Outside(link, link', Range(s))
  BY <1>1, <1>2, <1>6, EraseChain, Zenon
<1>8. Range(Erase(s, i)) \subseteq Range(s)
  BY <1>3, EraseList
<1>9. \A m \in Lists : m # l => Range(seqs[m]) \intersect (Range(s) \union Range(Erase(s, i))) = {}
  BY <1>1, <1>8 DEF ListsInv
<1>10. list' = [list EXCEPT ![l] = list'[l]]
  BY <1>4, <1>5, Zenon
<1>11. ListsInv' /\ seqs' = [seqs EXCEPT ![l] = Erase(s, i)]
  BY <1>7, <1>9, <1>10, OneListChanges, Zenon
<1>12. Sequence!Erase(s, i) = Erase(s, i) /\ Sequence!Range(s) = Range(s)
  BY DEF Sequence!Erase, Erase, Sequence!Range, Range
<1>13. Sequence!Remove(l, i)
  BY <1>1, <1>11, <1>12 DEF Sequence!Remove
<1> QED BY <1>3, <1>11, <1>13, Zenon DEF Sequence!Next

LEMMA ClearHolds ==
    ASSUME NodesAssumption, ListsInv, NEW l \in Lists, fastClear(l) PROVE ListsInv' /\ Sequence!Next
<1>1. list' = [list EXCEPT ![l] = EmptyList] /\ link' = link /\ list \in [Lists -> Ends] /\ link \in [Nodes -> Links]
  BY DEF fastClear, ListsInv
<1>2. list'[l] = EmptyList
  BY <1>1
<1>3. <<>> \in Seq(Nodes) /\ IsInjective(<<>>) /\ Range(<<>>) = {} /\ Len(<<>>) = 0
  BY DEF IsInjective, Range
<1>4. EmptyList \in Ends /\ EmptyList.size = 0 /\ 1..0 - 1 = {}
  BY DEF EmptyList, Ends, InvalidIndex
<1>5. Chain(link', list'[l], <<>>)
  BY <1>2, <1>3, <1>4 DEF Chain
<1>6. Outside(link, link', {}) /\ list' = [list EXCEPT ![l] = list'[l]]
  BY <1>1, <1>2 DEF Outside
<1>7. ListsInv' /\ seqs' = [seqs EXCEPT ![l] = <<>>]
  BY <1>3, <1>5, <1>6, OneListChanges
<1> QED BY <1>7, Zenon DEF Sequence!Next, Sequence!Clear

\* popFront and popBack take the nodes at the ends, which are in the list.
LEMMA EndsAreIn ==
    ASSUME ListsInv, NEW l \in Lists, list[l].size > 0
    PROVE  list[l].front \in Range(seqs[l]) /\ list[l].back \in Range(seqs[l])
<1>1. PICK s : s = seqs[l]
  OBVIOUS
<1>2. Chain(link, list[l], s)
  BY <1>1 DEF ListsInv
<1>3. s # <<>> /\ DOMAIN s = 1..Len(s) /\ 1 \in 1..Len(s) /\ Len(s) \in 1..Len(s)
  BY <1>2 DEF Chain
<1> QED BY <1>1, <1>2, <1>3, Zenon DEF Chain, Range

LEMMA ListInitHolds == ListInit => ListsInv /\ Sequence!Init
<1> SUFFICES ASSUME ListInit PROVE ListsInv /\ Sequence!Init
  OBVIOUS
<1>1. /\ link = [i \in Nodes |-> NoLink] /\ list = [l \in Lists |-> EmptyList]
      /\ NoLink \in Links /\ EmptyList \in Ends /\ EmptyList.size = 0 /\ 1..0 - 1 = {}
  BY DEF ListInit, NoLink, EmptyList, Ends, Links, InvalidIndex
<1>2. <<>> \in Seq(Nodes) /\ IsInjective(<<>>) /\ Range(<<>>) = {} /\ Len(<<>>) = 0
  BY DEF IsInjective, Range
<1>3. \A l \in Lists : Chain(link, list[l], <<>>)
  BY <1>1, <1>2 DEF Chain
<1>4. \A l \in Lists : SeqOf(link, list[l]) = <<>>
  BY <1>3, SeqOfChain, Zenon
<1>5. seqs = [l \in Lists |-> <<>>]
  BY <1>4, SeqsAre
<1>6. \A l \in Lists : seqs[l] = <<>>
  BY <1>5
<1>7. ListsInv
  BY <1>1, <1>2, <1>3, <1>6 DEF ListsInv
<1> QED BY <1>5, <1>7 DEF Sequence!Init

\* The links of a chain agree.
LEMMA ChainsAgree == ListsInv => LinksAgree
<1> SUFFICES ASSUME ListsInv, NEW l \in Lists
             PROVE  LET w == Walk(l)
                        n == list[l].size
                    IN  /\ n = 0 => list[l] = EmptyList
                        /\ n > 0 => /\ w[n] = list[l].front /\ link[w[n]].next = InvalidIndex
                                    /\ link[w[1]].prev = InvalidIndex
                        /\ \A k \in 1..n - 1 : link[w[k + 1]].prev = w[k]
  BY Zenon DEF LinksAgree
<1>1. PICK s, w, n : s = seqs[l] /\ w = Walk(l) /\ n = list[l].size
  OBVIOUS
<1>2. Chain(link, list[l], s)
  BY <1>1 DEF ListsInv
<1>3. w = [k \in 1..Len(s) |-> s[Len(s) + 1 - k]]
  <2>1. w = Backwards(s)
    BY <1>1, <1>2, WalkOfChain, Zenon DEF Walk
  <2> QED BY <2>1, Zenon DEF Backwards
<1>4. n = Len(s) /\ n \in Nat /\ (n = 0 => s = <<>>) /\ (n > 0 => s # <<>>)
  BY <1>1, <1>2 DEF Chain
<1>5. n = 0 => list[l] = EmptyList
  BY <1>2, <1>4 DEF Chain
<1>6. ASSUME n > 0
      PROVE  w[n] = list[l].front /\ link[w[n]].next = InvalidIndex /\ link[w[1]].prev = InvalidIndex
  <2>1. w[n] = s[1] /\ w[1] = s[n]
    BY <1>3, <1>4, <1>6
  <2> QED BY <1>2, <1>4, <1>6, <2>1, Zenon DEF Chain
<1>7. ASSUME NEW k \in 1..n - 1 PROVE link[w[k + 1]].prev = w[k]
  <2>1. PICK j : j = n - k
    OBVIOUS
  <2>2. j \in 1..n - 1 /\ w[k + 1] = s[j] /\ w[k] = s[j + 1]
    BY <1>3, <1>4, <2>1
  <2> QED BY <1>2, <1>4, <2>2, Zenon DEF Chain
<1> QED BY <1>1, <1>5, <1>6, <1>7

\* For any nodes and any lists that share the link, the links of InnerList implement the
\* sequences of InnerLists step by step, and agree in both directions after every step.
THEOREM LinksImplementSeqs == NodesAssumption /\ ListSpec => ImplementsSeqs
<1> SUFFICES ASSUME NodesAssumption PROVE ListSpec => ImplementsSeqs
  OBVIOUS
<1>1. ListInit => ListsInv /\ Sequence!Init
  BY ListInitHolds
<1>2. ListsInv /\ [ListNext]_listvars => ListsInv' /\ [Sequence!Next]_seqs
  <2> SUFFICES ASSUME ListsInv, [ListNext]_listvars PROVE ListsInv' /\ [Sequence!Next]_seqs
    OBVIOUS
  <2>1. CASE UNCHANGED listvars
    <3>1. link' = link /\ list' = list
      BY <2>1 DEF listvars
    <3>2. seqs' = seqs
      BY <3>1, SeqsAre, Zenon
    <3> QED BY <3>1, <3>2, Zenon DEF ListsInv
  <2>2. ASSUME NEW l \in Lists, NEW i \in Nodes, Unlinked(i), pushBack(l, i) \/ pushFront(l, i)
        PROVE  ListsInv' /\ Sequence!Next
    BY <2>2, PushHolds, Zenon
  <2>3. ASSUME NEW l \in Lists, NEW i \in Members(l), erase(l, i) PROVE ListsInv' /\ Sequence!Next
    BY <2>3, MembersAre, EraseHolds, Zenon
  <2>4. ASSUME NEW l \in Lists, popFront(l) \/ popBack(l) PROVE ListsInv' /\ Sequence!Next
    BY <2>4, EndsAreIn, EraseHolds, Zenon DEF popFront, popBack
  <2>5. ASSUME NEW l \in Lists, fastClear(l) PROVE ListsInv' /\ Sequence!Next
    BY <2>5, ClearHolds, Zenon
  <2> QED BY <2>1, <2>2, <2>3, <2>4, <2>5, Zenon DEF ListNext
<1>3. ListsInv => LinksAgree
  BY ChainsAgree
<1> QED BY <1>1, <1>2, <1>3, PTL DEF ListSpec, ImplementsSeqs, Sequence!Spec
=============================================================================
