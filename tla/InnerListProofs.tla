-------------------------- MODULE InnerListProofs --------------------------
(* What the operations of InnerLists do to the order, to the content and to *)
(* the injectivity of a list.                                               *)
EXTENDS InnerLists, TLAPS

\* pushBack adds e behind the other elements, which keep their places.
LEMMA AppendList ==
    ASSUME NEW S, NEW s \in Seq(S), NEW e \in S
    PROVE  /\ Append(s, e) \in Seq(S)
           /\ Len(Append(s, e)) = Len(s) + 1
           /\ \A k \in 1..Len(s) : Append(s, e)[k] = s[k]
           /\ Append(s, e)[Len(s) + 1] = e
           /\ Range(Append(s, e)) = Range(s) \cup {e}
           /\ IsInjective(s) /\ e \notin Range(s) => IsInjective(Append(s, e))
<1> DEFINE t == Append(s, e)
<1>1. t \in Seq(S) /\ Len(t) = Len(s) + 1 /\ Len(s) \in Nat /\ Len(t) \in Nat
  OBVIOUS
<1>2. t[Len(s) + 1] = e /\ \A i \in 1..Len(s) : t[i] = s[i]
  OBVIOUS
<1> HIDE DEF t
<1>3. DOMAIN t = 1..Len(t) /\ DOMAIN s = 1..Len(s)
  BY <1>1
<1>4. Range(t) = Range(s) \cup {e}
  <2>1. ASSUME NEW x \in Range(t) PROVE x \in Range(s) \cup {e}
    <3>1. PICK i \in 1..Len(t) : t[i] = x
      BY <1>3 DEF Range
    <3>2. i = Len(s) + 1 \/ i \in 1..Len(s)
      BY <1>1
    <3> QED BY <1>2, <1>3, <3>1, <3>2 DEF Range
  <2>2. ASSUME NEW x \in Range(s) PROVE x \in Range(t)
    <3>1. PICK i \in 1..Len(s) : s[i] = x
      BY <1>3 DEF Range
    <3>2. i \in 1..Len(t) /\ t[i] = x
      BY <1>1, <1>2, <3>1
    <3> QED BY <1>3, <3>2 DEF Range
  <2>3. e \in Range(t)
    <3>1. Len(s) + 1 \in 1..Len(t)
      BY <1>1
    <3> QED BY <1>2, <1>3, <3>1 DEF Range
  <2> QED BY <2>1, <2>2, <2>3
<1>5. ASSUME IsInjective(s), e \notin Range(s) PROVE IsInjective(t)
  <2> SUFFICES ASSUME NEW i \in 1..Len(t), NEW j \in 1..Len(t), t[i] = t[j]
               PROVE  i = j
    BY <1>3 DEF IsInjective
  <2>1. \A k \in 1..Len(s) : s[k] # e
    BY <1>3, <1>5 DEF Range
  <2>2. \A k, l \in 1..Len(s) : s[k] = s[l] => k = l
    BY <1>3, <1>5 DEF IsInjective
  <2>3. (i = Len(s) + 1 \/ i \in 1..Len(s)) /\ (j = Len(s) + 1 \/ j \in 1..Len(s))
    BY <1>1
  <2> QED BY <1>2, <2>1, <2>2, <2>3
<1> QED BY <1>1, <1>2, <1>4, <1>5 DEF t

\* pushFront adds e and moves the others back.
LEMMA PushFrontList ==
    ASSUME NEW S, NEW s \in Seq(S), NEW e \in S
    PROVE  /\ PushFront(s, e) \in Seq(S)
           /\ Range(PushFront(s, e)) = Range(s) \cup {e}
           /\ IsInjective(s) /\ e \notin Range(s) => IsInjective(PushFront(s, e))
<1> DEFINE t == PushFront(s, e)
<1>1. t \in Seq(S) /\ Len(t) = Len(s) + 1 /\ Len(s) \in Nat /\ Len(t) \in Nat
  BY DEF PushFront
<1>2. t[1] = e /\ \A i \in 1..Len(s) : t[i + 1] = s[i]
  BY DEF PushFront
<1> HIDE DEF t
<1>3. \A i \in 1..Len(t) : i = 1 \/ (i - 1 \in 1..Len(s) /\ t[i] = s[i - 1])
  BY <1>1, <1>2, SMTT(60)
<1>4. DOMAIN t = 1..Len(t) /\ DOMAIN s = 1..Len(s)
  BY <1>1
<1>5. Range(t) = Range(s) \cup {e}
  <2>1. ASSUME NEW x \in Range(t) PROVE x \in Range(s) \cup {e}
    <3>1. PICK i \in 1..Len(t) : t[i] = x
      BY <1>4 DEF Range
    <3> QED BY <1>2, <1>3, <1>4, <3>1, SMTT(60) DEF Range
  <2>2. ASSUME NEW x \in Range(s) PROVE x \in Range(t)
    <3>1. PICK i \in 1..Len(s) : s[i] = x
      BY DEF Range
    <3>2. i + 1 \in 1..Len(t) /\ t[i + 1] = x
      BY <1>1, <1>2, <3>1
    <3> QED BY <1>1, <3>2 DEF Range
  <2>3. e \in Range(t)
    <3>1. 1 \in 1..Len(t)
      BY <1>1
    <3> QED BY <1>1, <1>2, <3>1 DEF Range
  <2> QED BY <2>1, <2>2, <2>3
<1>6. ASSUME IsInjective(s), e \notin Range(s) PROVE IsInjective(t)
  <2> SUFFICES ASSUME NEW i \in 1..Len(t), NEW j \in 1..Len(t), t[i] = t[j]
               PROVE  i = j
    BY <1>4 DEF IsInjective
  <2>1. \A k \in 1..Len(s) : s[k] # e
    BY <1>6 DEF Range
  <2>2. \A k, l \in 1..Len(s) : s[k] = s[l] => k = l
    BY <1>6 DEF IsInjective
  <2>3. CASE i = 1
    BY <1>2, <1>3, <2>1, <2>3
  <2>4. CASE j = 1
    BY <1>2, <1>3, <2>1, <2>4, SMTT(60)
  <2>5. CASE i # 1 /\ j # 1
    <3>1. i - 1 \in 1..Len(s) /\ j - 1 \in 1..Len(s) /\ s[i - 1] = s[j - 1]
      BY <1>3, <2>5
    <3>2. i - 1 = j - 1
      BY <2>2, <3>1, SMTT(60)
    <3> QED BY <3>2, <1>1
  <2> QED BY <2>3, <2>4, <2>5
<1> QED BY <1>1, <1>5, <1>6 DEF t

\* popFront removes the first element only.
LEMMA TailList ==
    ASSUME NEW S, NEW s \in Seq(S), s # <<>>
    PROVE  /\ Tail(s) \in Seq(S) /\ Head(s) \in S /\ Head(s) = s[1]
           /\ Head(s) \in Range(s)
           /\ Len(Tail(s)) = Len(s) - 1
           /\ \A k \in 1..Len(s) - 1 : Tail(s)[k] = s[k + 1]
           /\ IsInjective(s) =>
                IsInjective(Tail(s)) /\ Range(Tail(s)) = Range(s) \ {Head(s)}
<1>1. Tail(s) \in Seq(S) /\ Head(s) \in S /\ Head(s) = s[1]
      /\ Len(Tail(s)) = Len(s) - 1 /\ Len(s) >= 1
      /\ \A k \in 1..Len(s) - 1 : Tail(s)[k] = s[k + 1]
  OBVIOUS
<1>2. Head(s) \in Range(s)
  <2>1. 1 \in 1..Len(s)
    BY <1>1
  <2> QED BY <1>1, <2>1 DEF Range
<1>3. ASSUME IsInjective(s)
      PROVE IsInjective(Tail(s)) /\ Range(Tail(s)) = Range(s) \ {Head(s)}
  <2>1. \A k, l \in 1..Len(s) : s[k] = s[l] => k = l
    BY <1>3 DEF IsInjective
  <2>2. IsInjective(Tail(s))
    BY <1>1, <2>1, SMTT(60) DEF IsInjective
  <2>3. ASSUME NEW x \in Range(Tail(s)) PROVE x \in Range(s) \ {Head(s)}
    <3>1. PICK k \in 1..Len(s) - 1 : x = s[k + 1]
      BY <1>1 DEF Range
    <3>2. k + 1 \in 1..Len(s) /\ 1 \in 1..Len(s) /\ k + 1 # 1
      BY <1>1
    <3> QED BY <1>1, <2>1, <3>1, <3>2 DEF Range
  <2>4. ASSUME NEW x \in Range(s), x # Head(s) PROVE x \in Range(Tail(s))
    <3>1. PICK k \in 1..Len(s) : x = s[k]
      BY DEF Range
    <3>2. k # 1
      BY <1>1, <2>4, <3>1
    <3>3. k - 1 \in 1..Len(s) - 1
      BY <1>1, <3>2
    <3>4. Tail(s)[k - 1] = x
      BY <1>1, <3>1, <3>3
    <3>5. DOMAIN Tail(s) = 1..Len(s) - 1
      BY <1>1
    <3> QED BY <3>3, <3>4, <3>5, Zenon DEF Range
  <2> QED BY <2>2, <2>3, <2>4
<1> QED BY <1>1, <1>2, <1>3

\* erase removes e only, and no element moves towards the back.
LEMMA EraseList ==
    ASSUME NEW S, NEW s \in Seq(S), NEW e, IsInjective(s)
    PROVE  /\ Erase(s, e) \in Seq(S)
           /\ IsInjective(Erase(s, e))
           /\ Range(Erase(s, e)) = Range(s) \ {e}
           /\ \A k \in 1..Len(Erase(s, e)) :
                \E l \in 1..Len(s) : l >= k /\ Erase(s, e)[k] = s[l]
<1>1. CASE e \notin Range(s)
  <2>1. Erase(s, e) = s
    BY <1>1 DEF Erase
  <2> QED BY <1>1, <2>1
<1>2. CASE e \in Range(s)
  <2> DEFINE p == CHOOSE i \in 1..Len(s) : s[i] = e
             t == [i \in 1..Len(s) - 1 |-> IF i < p THEN s[i] ELSE s[i + 1]]
  <2>1. p \in 1..Len(s) /\ s[p] = e
    BY <1>2 DEF Range
  <2>2. Erase(s, e) = t
    BY <1>2 DEF Erase
  <2> HIDE DEF p
  <2>3. \A k, l \in 1..Len(s) : s[k] = s[l] => k = l
    BY DEF IsInjective
  <2>4. t \in Seq(S) /\ Len(t) = Len(s) - 1 /\ DOMAIN t = 1..Len(s) - 1
    BY <2>1
  <2>5. \A k \in 1..Len(s) - 1 : /\ k < p => t[k] = s[k]
                                 /\ ~(k < p) => t[k] = s[k + 1]
    OBVIOUS
  <2> HIDE DEF t
  <2>6. IsInjective(t)
    BY <2>1, <2>3, <2>4, <2>5, SMTT(60) DEF IsInjective
  <2>7. ASSUME NEW x \in Range(t) PROVE x \in Range(s) \ {e}
    <3>1. PICK k \in 1..Len(s) - 1 : x = t[k]
      BY <2>4, <2>7 DEF Range
    <3>2. PICK l \in 1..Len(s) : l # p /\ x = s[l]
      BY <2>1, <2>5, <3>1
    <3> QED BY <2>1, <2>3, <3>2 DEF Range
  <2>8. ASSUME NEW x \in Range(s), x # e PROVE x \in Range(t)
    <3>1. PICK k \in 1..Len(s) : x = s[k]
      BY <2>8 DEF Range
    <3>2. CASE k < p
      <4>1. k \in 1..Len(s) - 1 /\ t[k] = x
        BY <2>1, <2>5, <3>1, <3>2
      <4> QED BY <2>4, <4>1, SMTT(60) DEF Range
    <3>3. CASE k > p
      <4>1. k - 1 \in 1..Len(s) - 1 /\ t[k - 1] = x
        BY <2>1, <2>5, <3>1, <3>3
      <4> QED BY <2>4, <4>1 DEF Range
    <3> QED BY <2>1, <2>8, <3>1, <3>2, <3>3
  <2>9. \A k \in 1..Len(t) : \E l \in 1..Len(s) : l >= k /\ t[k] = s[l]
    BY <2>1, <2>4, <2>5, SMTT(60)
  <2> QED BY <2>2, <2>4, <2>6, <2>7, <2>8, <2>9
<1> QED BY <1>1, <1>2

\* popFront and pushBack: the other elements move up one place.
LEMMA RotateList ==
    ASSUME NEW S, NEW s \in Seq(S), s # <<>>
    PROVE  /\ Rotate(s) \in Seq(S)
           /\ Len(Rotate(s)) = Len(s)
           /\ \A k \in 1..Len(s) - 1 : Rotate(s)[k] = s[k + 1]
           /\ Rotate(s)[Len(s)] = Head(s)
           /\ IsInjective(s) => IsInjective(Rotate(s)) /\ Range(Rotate(s)) = Range(s)
<1>1. /\ Tail(s) \in Seq(S) /\ Head(s) \in S /\ Head(s) \in Range(s)
      /\ Len(Tail(s)) = Len(s) - 1 /\ Len(s) \in Nat
      /\ \A k \in 1..Len(s) - 1 : Tail(s)[k] = s[k + 1]
      /\ IsInjective(s) =>
                IsInjective(Tail(s)) /\ Range(Tail(s)) = Range(s) \ {Head(s)}
  BY TailList
<1>2. /\ Rotate(s) \in Seq(S)
      /\ Len(Rotate(s)) = Len(Tail(s)) + 1
      /\ \A k \in 1..Len(Tail(s)) : Rotate(s)[k] = Tail(s)[k]
      /\ Rotate(s)[Len(Tail(s)) + 1] = Head(s)
      /\ Range(Rotate(s)) = Range(Tail(s)) \cup {Head(s)}
      /\ IsInjective(Tail(s)) /\ Head(s) \notin Range(Tail(s))
           => IsInjective(Rotate(s))
  BY <1>1, AppendList, Zenon DEF Rotate, PushBack
<1> QED BY <1>1, <1>2

\* Writing one element of a vector leaves the others.
LEMMA ExceptList ==
    ASSUME NEW S, NEW s \in Seq(S), NEW i \in DOMAIN s, NEW e \in S
    PROVE  LET t == [s EXCEPT ![i] = e]
           IN  /\ t \in Seq(S) /\ DOMAIN t = DOMAIN s /\ Len(t) = Len(s)
               /\ t[i] = e /\ \A j \in DOMAIN s : j # i => t[j] = s[j]
OBVIOUS

\* A list of elements of S is a list of elements of any larger set.
LEMMA WiderList ==
    ASSUME NEW S, NEW T, S \subseteq T, NEW s \in Seq(S) PROVE s \in Seq(T)
<1>1. Len(s) \in Nat /\ s \in [1..Len(s) -> S]
  OBVIOUS
<1>2. s \in [1..Len(s) -> T]
  BY <1>1
<1> QED BY <1>1, <1>2

\* A list holds what is at its places.
LEMMA ElementInRange ==
    ASSUME NEW S, NEW s \in Seq(S), NEW k \in 1..Len(s)
    PROVE  s[k] \in Range(s)
BY DEF Range

\* A place that is not behind the front is the front.
LEMMA FrontPlace ==
    ASSUME NEW S, NEW s \in Seq(S), NEW k \in 1..Len(s), NEW l, l >= k, l = 1
    PROVE  k = 1
OBVIOUS
=============================================================================
