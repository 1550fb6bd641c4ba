-------------------------- MODULE ComponentProofs --------------------------
(*****************************************************************************)
(* Three components, each by itself: the receive buffer of a connection, the *)
(* timers of a reactor and the work pool.                                    *)
(*****************************************************************************)
EXTENDS RecvBuffer, WorkPool, TimeStore, TLAPS

(*****************************************************************************)
(* The receive buffer never loses its place in the stream and fills up only  *)
(* with a packet longer than itself, for every capacity, every stream of     *)
(* packets and every way in which it is cut, provided that the raw data was  *)
(* taken before messages are received.                                       *)
(*****************************************************************************)

Whole == [at |-> 0, room |-> RecvCapacity]

Offsets ==
    /\ recv_buf_off \in 0..RecvCapacity /\ cons_buf_off \in 0..recv_buf_off
    /\ came \in Nat /\ taken \in Nat /\ came <= StreamLength
    /\ recv_buf \in [0..RecvCapacity - 1 -> Nat]

\* In the raw state equal offsets are at the start, and a receive is pending only then.
RawState ==
    /\ recv_buf_off = cons_buf_off => recv_buf_off = 0
    /\ want = NoWant \/ (want = Whole /\ recv_buf_off = 0 /\ cons_buf_off = 0)

\* onRecv always moves the rest to the start; no packet ends in it.
MessageState ==
    /\ cons_buf_off = 0
    /\ want = [at |-> recv_buf_off, room |-> RecvCapacity - recv_buf_off]
    /\ \A x \in ends : x <= taken \/ x > taken + recv_buf_off

BufferInv ==
    /\ ends \subseteq Nat /\ Offsets /\ BufferHolds
    /\ mode \in {"raw", "messages"}
    /\ mode = "raw" => RawState
    /\ mode = "messages" => MessageState

NoLeftover == BufferAssumption /\ "leftover" \notin BufferRaces

USE DEF NoWant, Whole

\* No packet ends in what stays when the reader has taken all complete ones
\* (MessageReader::read).
LEMMA RestHasNoEnd ==
    ASSUME NoLeftover, BufferInv, NEW upto, NEW used, upto \in Nat, used \in Read(upto), taken <= upto
    PROVE  used \in Nat /\ taken + used <= upto /\ \A x \in ends : x <= taken + used \/ x > upto
<1>1. used \in Nat /\ taken + used <= upto
  BY DEF Read, BufferInv, Offsets
<1>2. ASSUME NEW x \in ends PROVE x <= taken + used \/ x > upto
  <2>1. x \in Nat /\ (x <= upto => x <= taken + used)
    BY DEF Read, BufferInv
  <2> QED BY <2>1
<1> QED BY <1>1, <1>2

LEMMA BufferInitHolds == NoLeftover /\ BufferInit => BufferInv
BY DEF NoLeftover, BufferAssumption, BufferInit, BufferInv, Offsets, BufferHolds, RawState

LEMMA PostRawHolds == NoLeftover /\ BufferInv /\ PostRaw => BufferInv'
BY DEF NoLeftover, BufferAssumption, BufferInv, PostRaw, Offsets, BufferHolds, RawState,
   MessageState

LEMMA EnterMessagesHolds == NoLeftover /\ BufferInv /\ EnterMessages => BufferInv'
BY DEF NoLeftover, BufferAssumption, BufferInv, EnterMessages, Offsets, BufferHolds, RawState,
   MessageState

LEMMA LeftRawHolds == NoLeftover /\ BufferInv /\ LeftRaw => BufferInv'
<1> SUFFICES ASSUME NoLeftover, BufferInv, LeftRaw PROVE BufferInv'
  OBVIOUS
<1>1. PICK used \in 0..recv_buf_off - cons_buf_off :
         /\ taken' = taken + used
         /\ IF cons_buf_off + used = recv_buf_off
            THEN cons_buf_off' = 0 /\ recv_buf_off' = 0
            ELSE cons_buf_off' = cons_buf_off + used /\ recv_buf_off' = recv_buf_off
  BY DEF LeftRaw
<1>2. UNCHANGED <<ends, mode, recv_buf, want, came>> /\ mode = "raw" /\ want = NoWant
  BY DEF LeftRaw
<1>3. Offsets'
  BY <1>1, <1>2 DEF BufferInv, Offsets, NoLeftover, BufferAssumption
<1>4. BufferHolds'
  <2>1. /\ recv_buf_off \in Nat /\ cons_buf_off \in Nat /\ used \in Nat /\ taken \in Nat
        /\ cons_buf_off + used <= recv_buf_off
    BY <1>1 DEF BufferInv, Offsets, NoLeftover, BufferAssumption
  <2>2. came' = taken' + (recv_buf_off' - cons_buf_off')
    BY <1>1, <1>2, <2>1 DEF BufferInv, BufferHolds
  <2>3. ASSUME NEW h \in cons_buf_off'..recv_buf_off' - 1
        PROVE  recv_buf'[h] = taken' + 1 + (h - cons_buf_off')
    <3>1. cons_buf_off' = cons_buf_off + used /\ recv_buf_off' = recv_buf_off
      BY <1>1, <2>3
    <3>2. h \in cons_buf_off..recv_buf_off - 1
      BY <2>1, <2>3, <3>1
    <3>3. recv_buf[h] = taken + 1 + (h - cons_buf_off)
      BY <3>2 DEF BufferInv, BufferHolds
    <3> QED BY <1>1, <1>2, <2>1, <3>1, <3>2, <3>3
  <2> QED BY <2>2, <2>3 DEF BufferHolds
<1>5. RawState'
  BY <1>1, <1>2 DEF BufferInv, Offsets, RawState
<1> QED BY <1>2, <1>3, <1>4, <1>5 DEF BufferInv

LEMMA onRecvSomeRawHolds == NoLeftover /\ BufferInv /\ onRecvSomeRaw => BufferInv'
<1> SUFFICES ASSUME NoLeftover, BufferInv, onRecvSomeRaw PROVE BufferInv'
  OBVIOUS
<1>1. mode = "raw" /\ want = Whole /\ recv_buf_off = 0 /\ cons_buf_off = 0
  BY DEF onRecvSomeRaw, BufferInv, RawState
<1>2. PICK n \in Arrivals, used \in Int :
         /\ used \in 0..n
         /\ recv_buf' = Written(n)
         /\ came' = came + n /\ taken' = taken + used
         /\ IF used < n
            THEN recv_buf_off' = n /\ cons_buf_off' = used
            ELSE UNCHANGED <<recv_buf_off, cons_buf_off>>
  BY DEF onRecvSomeRaw
<1>3. want' = NoWant /\ UNCHANGED <<ends, mode>>
  BY DEF onRecvSomeRaw
<1>4. n \in 1..RecvCapacity /\ came + n <= StreamLength
  BY <1>1 DEF Arrivals, NoLeftover, BufferAssumption
<1>5. came = taken
  BY <1>1 DEF BufferInv, BufferHolds, Offsets
<1>6. Offsets'
  <2>1. Offsets
    BY DEF BufferInv
  <2>2. recv_buf' \in [0..RecvCapacity - 1 -> Nat]
    BY <1>1, <1>2, <2>1 DEF Offsets, Written
  <2>3. RecvCapacity \in Nat /\ StreamLength \in Nat
    BY DEF NoLeftover, BufferAssumption
  <2>4. recv_buf_off' \in 0..RecvCapacity /\ cons_buf_off' \in 0..recv_buf_off'
    BY <1>1, <1>2, <1>4, <2>3
  <2>5. came' \in Nat /\ taken' \in Nat /\ came' <= StreamLength
    BY <1>2, <1>4, <2>1, <2>3 DEF Offsets
  <2> QED BY <2>2, <2>4, <2>5 DEF Offsets
<1>7. BufferHolds'
  <2>1. came' = taken' + (recv_buf_off' - cons_buf_off')
    BY <1>1, <1>2, <1>4, <1>5 DEF BufferInv, Offsets
  <2>2. \A h \in 0..n - 1 : recv_buf'[h] = taken + 1 + h
    BY <1>1, <1>2, <1>4, <1>5 DEF Written, BufferInv, Offsets, NoLeftover, BufferAssumption
  <2>3. CASE used < n
    BY <1>2, <1>4, <2>1, <2>2, <2>3, SMTT(60) DEF BufferHolds, BufferInv, Offsets
  <2>4. CASE ~(used < n)
    BY <1>1, <1>2, <2>1, <2>4 DEF BufferHolds
  <2> QED BY <2>3, <2>4
<1>8. RawState'
  BY <1>1, <1>2, <1>3, <1>4 DEF RawState
<1> QED BY <1>1, <1>3, <1>6, <1>7, <1>8 DEF BufferInv

LEMMA onRecvTurn ==
    ASSUME NoLeftover, BufferInv, mode = "messages", UNCHANGED <<ends, mode>>,
           NEW n \in Int, NEW used \in Int, NEW o, n \in Arrivals, used \in Read(came + n),
           o = After(n, used),
           came' = came + n, taken' = taken + used,
           recv_buf' = o.buf, recv_buf_off' = o.off, cons_buf_off' = o.cons,
           want' = [at |-> o.off, room |-> RecvCapacity - o.off]
    PROVE  BufferInv'
<1>1. cons_buf_off = 0 /\ want = [at |-> recv_buf_off, room |-> RecvCapacity - recv_buf_off]
  BY DEF BufferInv, MessageState
<1>2. n \in Nat /\ n > 0 /\ recv_buf_off + n <= RecvCapacity /\ came + n <= StreamLength
  BY <1>1 DEF Arrivals, BufferInv, Offsets, NoLeftover, BufferAssumption
<1>3. came = taken + recv_buf_off
  BY <1>1 DEF BufferInv, BufferHolds, Offsets
<1>4. /\ used \in Nat /\ used <= recv_buf_off + n
      /\ \A x \in ends : x <= taken + used \/ x > came + n
  <2>1. PICK upto : upto = came + n
    OBVIOUS
  <2>2. upto \in Nat /\ taken <= upto /\ used \in Read(upto)
    BY <1>2, <1>3, <2>1 DEF BufferInv, Offsets
  <2>3. used \in Nat /\ taken + used <= upto /\ \A x \in ends : x <= taken + used \/ x > upto
    BY <2>2, RestHasNoEnd
  <2> QED BY <1>2, <1>3, <2>1, <2>3 DEF BufferInv, Offsets, NoLeftover, BufferAssumption
<1> USE DEF NoLeftover, BufferAssumption
<1>5. o = [buf |-> Moved(Written(n), used, recv_buf_off + n - used), off |-> recv_buf_off + n - used, cons |-> 0]
  <2>1. PICK off : off = recv_buf_off + n
    OBVIOUS
  <2>2. /\ recv_buf_off \in Nat /\ cons_buf_off + used = used /\ recv_buf_off + n - cons_buf_off = off
        /\ off - used = recv_buf_off + n - used /\ (used < off \/ off - used <= used)
    BY <1>1, <1>2, <1>4, <2>1 DEF BufferInv, Offsets
  <2>3. o = Optimized(Written(n), off, used, off)
    BY <2>1, <2>2, Zenon DEF After
  <2>4. o = [buf |-> Moved(Written(n), used, off - used), off |-> off - used, cons |-> 0]
    BY <2>2, <2>3 DEF Optimized
  <2> QED BY <2>2, <2>4, Zenon
<1>6. Written(n) \in [0..RecvCapacity - 1 -> Nat] /\ \A h \in 0..recv_buf_off + n - 1 : Written(n)[h] = taken + 1 + h
  BY <1>1, <1>2, <1>3, SMTT(60) DEF Written, BufferInv, Offsets, BufferHolds
<1>7. /\ recv_buf' = Moved(Written(n), used, recv_buf_off + n - used)
      /\ recv_buf_off' = recv_buf_off + n - used /\ cons_buf_off' = 0
      /\ want' = [at |-> recv_buf_off', room |-> RecvCapacity - recv_buf_off']
  BY <1>5
<1>8. /\ recv_buf' \in [0..RecvCapacity - 1 -> Nat]
      /\ \A h \in 0..recv_buf_off' - 1 : recv_buf'[h] = taken' + 1 + h
  <2>1. PICK W \in [0..RecvCapacity - 1 -> Nat], rest \in Nat, first \in Nat :
           W = Written(n) /\ rest = recv_buf_off + n - used /\ first = taken + 1
    BY <1>2, <1>4, <1>6 DEF BufferInv, Offsets
  <2>2. used + rest <= RecvCapacity /\ used + rest = recv_buf_off + n
    BY <1>2, <1>4, <2>1 DEF BufferInv, Offsets
  <2>3. \A h \in 0..used + rest - 1 : W[h] = first + h
    <3>1. \A h \in 0..recv_buf_off + n - 1 : W[h] = taken + 1 + h
      BY <1>6, <2>1, Zenon
    <3>2. first = taken + 1 /\ taken \in Nat /\ recv_buf_off \in Nat
      BY <2>1 DEF BufferInv, Offsets
    <3> QED BY <1>2, <1>4, <2>2, <3>1, <3>2, SMTT(60)
  <2>4. recv_buf' = Moved(W, used, rest) /\ recv_buf_off' = rest /\ taken' = taken + used
    BY <1>7, <2>1
  <2>5. /\ Moved(W, used, rest) \in [0..RecvCapacity - 1 -> Nat]
        /\ \A h \in 0..rest - 1 : Moved(W, used, rest)[h] = first + used + h
    <3>1. RecvCapacity \in Nat /\ used \in Nat
      BY <1>4
    <3>2. ASSUME NEW h \in 0..RecvCapacity - 1, h < rest
          PROVE  W[used + h] = first + used + h /\ used + h \in 0..RecvCapacity - 1
      BY <2>2, <2>3, <3>1, <3>2
    <3>3. \A h \in 0..RecvCapacity - 1 : (IF h < rest THEN W[used + h] ELSE W[h]) \in Nat
      BY <3>1, <3>2
    <3>4. Moved(W, used, rest) \in [0..RecvCapacity - 1 -> Nat]
      BY <3>3, SMTT(60) DEF Moved
    <3>5. \A h \in 0..RecvCapacity - 1 : Moved(W, used, rest)[h] = IF h < rest THEN W[used + h] ELSE W[h]
      BY DEF Moved
    <3>6. \A h \in 0..rest - 1 : h \in 0..RecvCapacity - 1 /\ h < rest
      BY <2>2, <3>1
    <3> QED BY <3>2, <3>4, <3>5, <3>6, Zenon
  <2>6. taken' + 1 = first + used
    BY <1>4, <2>1, <2>4 DEF BufferInv, Offsets
  <2> QED BY <2>4, <2>5, <2>6, Zenon
<1>9. Offsets' /\ BufferHolds' /\ MessageState'
  <2>1. recv_buf_off' \in Nat /\ recv_buf_off' <= RecvCapacity /\ cons_buf_off' = 0
    BY <1>2, <1>4, <1>7 DEF BufferInv, Offsets
  <2>2. came' \in Nat /\ taken' \in Nat /\ came' <= StreamLength /\ came' = taken' + recv_buf_off'
    BY <1>2, <1>3, <1>4, <1>7 DEF BufferInv, Offsets
  <2>3. Offsets'
    BY <1>8, <2>1, <2>2, SMTT(60) DEF Offsets
  <2>4. BufferHolds'
    BY <1>8, <2>1, <2>2 DEF BufferHolds
  <2>5. taken' = taken + used /\ taken' + recv_buf_off' = came + n
    BY <2>2
  <2>6. \A x \in ends' : x <= taken' \/ x > taken' + recv_buf_off'
    BY <1>4, <2>5, Zenon
  <2> QED BY <1>7, <2>1, <2>3, <2>4, <2>6 DEF MessageState
<1> QED BY <1>9 DEF BufferInv

LEMMA onRecvHolds == NoLeftover /\ BufferInv /\ onRecv => BufferInv'
<1> SUFFICES ASSUME NoLeftover, BufferInv, onRecv PROVE BufferInv'
  OBVIOUS
<1>1. ASSUME NEW n \in Arrivals, NEW used \in Read(came + n),
             /\ came' = came + n /\ taken' = taken + used
             /\ recv_buf' = After(n, used).buf
             /\ recv_buf_off' = After(n, used).off /\ cons_buf_off' = After(n, used).cons
             /\ want' = [at |-> After(n, used).off, room |-> RecvCapacity - After(n, used).off]
      PROVE  BufferInv'
  <2>1. n \in Int /\ used \in Int
    BY DEF Arrivals, Read, BufferInv, Offsets
  <2>2. mode = "messages" /\ UNCHANGED <<ends, mode>>
    BY DEF onRecv
  <2>3. PICK o : o = After(n, used)
    OBVIOUS
  <2>4. came' = came + n /\ taken' = taken + used
    BY <1>1, Zenon
  <2>5. recv_buf' = o.buf /\ recv_buf_off' = o.off /\ cons_buf_off' = o.cons
    BY <1>1, <2>3, Zenon
  <2>6. want' = [at |-> o.off, room |-> RecvCapacity - o.off]
    BY <1>1, <2>3, Zenon
  <2> QED BY <2>1, <2>2, <2>3, <2>4, <2>5, <2>6, onRecvTurn, Zenon
<1> QED BY <1>1, Zenon DEF onRecv

LEMMA BufferInvariant == NoLeftover /\ BufferSpec => []BufferInv
<1> SUFFICES ASSUME NoLeftover PROVE BufferSpec => []BufferInv
  OBVIOUS
<1>1. BufferInv /\ [BufferNext]_buffervars => BufferInv'
  <2> SUFFICES ASSUME BufferInv, [BufferNext]_buffervars PROVE BufferInv'
    OBVIOUS
  <2>1. CASE UNCHANGED buffervars
    BY <2>1 DEF buffervars, BufferInv, Offsets, BufferHolds, RawState, MessageState
  <2>2. CASE BufferNext
    BY <2>2, PostRawHolds, LeftRawHolds, onRecvSomeRawHolds, EnterMessagesHolds, onRecvHolds
       DEF BufferNext
  <2> QED BY <2>1, <2>2
<1>2. BufferInit => BufferInv
  BY BufferInitHolds
<1> QED BY <1>1, <1>2, PTL DEF BufferSpec

\* Between the two offsets lies the part of the peer's stream that nobody has been given yet,
\* whatever RecvRaw, onRecv and the moves of doOptimizeRecvBuffer do.
THEOREM BufferStaysWhole == NoLeftover /\ BufferSpec => []BufferHolds
<1>1. BufferInv => BufferHolds
  BY DEF BufferInv
<1> QED BY <1>1, BufferInvariant, PTL

\* A receive is started without room only when a packet is longer than the buffer, whatever the
\* two ends configured: after onRecv no complete packet is left, and the rest is at the start.
THEOREM ReceiveHasRoom == NoLeftover /\ BufferSpec => []RoomLeft
<1> SUFFICES ASSUME NoLeftover PROVE BufferSpec => []RoomLeft
  OBVIOUS
<1>1. BufferInv => RoomLeft
  BY DEF NoLeftover, BufferAssumption, BufferInv, RoomLeft, RawState, MessageState, Offsets
<1> QED BY <1>1, BufferInvariant, PTL

(*****************************************************************************)
(* The timers: the vector and their indexes agree and mint is early enough,  *)
(* whatever callbacks do.                                                    *)
(*****************************************************************************)

Entries == [time : Nat, timer : Timers]
Phases == {"handlers", "wait", "pop", "callback"}

TimeTypes ==
    /\ tv \in Seq(Entries) /\ mint \in Nat /\ storeidx \in [Timers -> Nat] /\ f \subseteq Timers
    /\ now \in Nat /\ tpc \in Phases /\ i \in Nat \ {0} /\ crtmin \in Nat /\ rt \in Nat
    /\ moved \in BOOLEAN

\* An armed timer has an entry of its own: two timers never share one.
OwnEntry == \A t \in f : tv[storeidx[t]].timer = t

Indexed == IndexAgrees /\ OwnEntry

\* What pop() has passed is not earlier than crtmin, and what it has still to visit,
\* with what a callback arms, is at its index or behind.
Passed ==
    tpc \in {"pop", "callback"} /\ ~moved =>
        /\ i <= Len(tv) + 1
        /\ \A k \in DOMAIN tv : k < i => crtmin <= tv[k].time

Earliest ==
    tpc \in {"handlers", "wait"} /\ ~moved => \A k \in DOMAIN tv : mint <= tv[k].time

TimeInv == TimeTypes /\ Indexed /\ Passed /\ Earliest

-----------------------------------------------------------------------------
\* TimeStore::pop(idx) moves the last entry of the vector to the hole.
LEMMA LastToHole ==
    ASSUME NEW S, NEW q \in Seq(S), NEW k \in DOMAIN q
    PROVE  LET r == SubSeq([q EXCEPT ![k] = q[Len(q)]], 1, Len(q) - 1)
           IN  /\ r \in Seq(S) /\ DOMAIN r = 1..Len(q) - 1 /\ Len(r) = Len(q) - 1
               /\ \A j \in DOMAIN r : r[j] = IF j = k THEN q[Len(q)] ELSE q[j]
<1>1. Len(q) \in Nat \ {0} /\ DOMAIN q = 1..Len(q) /\ q[Len(q)] \in S
  OBVIOUS
<1>2. PICK p : p = [q EXCEPT ![k] = q[Len(q)]]
  BY Zenon
<1>3. /\ p \in Seq(S) /\ Len(p) = Len(q)
      /\ \A j \in 1..Len(q) : p[j] = IF j = k THEN q[Len(q)] ELSE q[j]
  BY <1>1, <1>2
<1>4. PICK r : r = SubSeq(p, 1, Len(q) - 1)
  BY Zenon
<1>5. /\ r \in Seq(S) /\ Len(r) = Len(q) - 1 /\ DOMAIN r = 1..Len(q) - 1
      /\ \A j \in 1..Len(q) - 1 : r[j] = p[j]
  BY <1>1, <1>3, <1>4
<1>6. \A j \in DOMAIN r : r[j] = IF j = k THEN q[Len(q)] ELSE q[j]
  BY <1>1, <1>3, <1>5
<1> QED BY <1>2, <1>4, <1>5, <1>6

\* A vector that is one entry longer
LEMMA OneMore ==
    ASSUME NEW S, NEW q \in Seq(S), NEW x \in S
    PROVE  /\ Append(q, x) \in Seq(S) /\ Len(Append(q, x)) = Len(q) + 1
           /\ DOMAIN Append(q, x) = 1..Len(q) + 1 /\ DOMAIN q = 1..Len(q) /\ Len(q) \in Nat
           /\ Append(q, x)[Len(q) + 1] = x /\ \A j \in DOMAIN q : Append(q, x)[j] = q[j]
OBVIOUS

\* Where the timers are after a removal
Shifted(k) ==
    /\ tv' \in Seq(Entries) /\ DOMAIN tv' = 1..Len(tv) - 1 /\ Len(tv') = Len(tv) - 1
    /\ \A j \in DOMAIN tv' : tv'[j] = IF j = k THEN tv[Len(tv)] ELSE tv[j]

LEMMA PopMoves ==
    ASSUME TimeTypes, NEW k \in DOMAIN tv, popTimer(k) PROVE Shifted(k)
BY LastToHole DEF TimeTypes, popTimer, Shifted

\* An entry knows its timer, and the timer its entry.
LEMMA EntryOf ==
    ASSUME TimeTypes, Indexed, NEW k \in DOMAIN tv
    PROVE  tv[k].timer \in f /\ storeidx[tv[k].timer] = k /\ tv[k].time \in Nat /\ k \in Nat \ {0}
<1>1. tv[k] \in Entries /\ k \in Nat \ {0}
  BY DEF TimeTypes
<1>2. tv[k].timer \in Timers /\ tv[k].time \in Nat
  BY <1>1 DEF Entries
<1> QED BY <1>1, <1>2 DEF Indexed, IndexAgrees, NoIndex

\* A removal keeps every timer's index true: that of the one removed, of the last one,
\* which is moved, also when they are the same, and of the others.
LEMMA PopIndexed ==
    ASSUME TimeTypes, Indexed, NEW k \in DOMAIN tv, popTimer(k), f' = f \ {tv[k].timer}
    PROVE  storeidx' \in [Timers -> Nat] /\ Indexed'
<1>1. PICK n, last, t : n = Len(tv) /\ last = tv[Len(tv)].timer /\ t = tv[k].timer
  BY Zenon
<1>2. n \in DOMAIN tv /\ n \in Nat \ {0} /\ k \in 1..n /\ DOMAIN tv = 1..n
  BY <1>1 DEF TimeTypes
<1>3. /\ last \in f /\ storeidx[last] = n /\ t \in f /\ storeidx[t] = k
      /\ f \subseteq Timers /\ storeidx \in [Timers -> Nat]
  BY <1>1, <1>2, EntryOf DEF TimeTypes
<1>4. storeidx' = [storeidx EXCEPT ![last] = k, ![t] = NoIndex]
  BY <1>1 DEF popTimer
<1>5. /\ DOMAIN tv' = 1..n - 1
      /\ \A j \in 1..n - 1 : tv'[j] = IF j = k THEN tv[n] ELSE tv[j]
  BY <1>1, PopMoves DEF Shifted
<1>6. storeidx' \in [Timers -> Nat]
  BY <1>2, <1>3, <1>4 DEF NoIndex
<1>7. /\ storeidx'[t] = NoIndex /\ (last # t => storeidx'[last] = k)
      /\ \A u \in Timers : u \notin {t, last} => storeidx'[u] = storeidx[u]
  BY <1>3, <1>4
<1>8. last = t <=> k = n
  BY <1>1, <1>3
<1>9. ASSUME NEW j \in DOMAIN tv' PROVE storeidx'[tv'[j].timer] = j
  <2>1. j \in 1..n - 1 /\ j \in DOMAIN tv /\ j # n
    BY <1>2, <1>5, <1>9
  <2>2. CASE j = k
    BY <1>1, <1>5, <1>7, <1>8, <2>1, <2>2
  <2>3. CASE j # k
    <3>1. tv'[j].timer = tv[j].timer /\ tv[j].timer \in Timers /\ storeidx[tv[j].timer] = j
      BY <1>3, <1>5, <2>1, <2>3, EntryOf
    <3>2. tv[j].timer # t /\ tv[j].timer # last
      BY <1>3, <2>1, <2>3, <3>1
    <3> QED BY <1>7, <3>1, <3>2
  <2> QED BY <2>2, <2>3
<1>10. ASSUME NEW u \in Timers
       PROVE  /\ u \in f' => storeidx'[u] \in DOMAIN tv' /\ tv'[storeidx'[u]].timer = u
              /\ u \notin f' => storeidx'[u] = NoIndex
  <2>1. CASE u = t
    BY <1>1, <1>7, <2>1
  <2>2. CASE u # t /\ u = last
    <3>1. storeidx'[u] = k /\ k # n /\ k \in 1..n - 1
      BY <1>2, <1>7, <1>8, <2>2
    <3> QED BY <1>1, <1>3, <1>5, <2>2, <3>1
  <2>3. CASE u # t /\ u # last
    <3>1. storeidx'[u] = storeidx[u] /\ (u \in f' <=> u \in f)
      BY <1>1, <1>7, <2>3
    <3>2. u \notin f => storeidx[u] = NoIndex
      BY DEF Indexed, IndexAgrees
    <3>3. ASSUME u \in f PROVE storeidx[u] \in 1..n /\ tv[storeidx[u]].timer = u
      BY <1>2, <3>3 DEF Indexed, IndexAgrees, OwnEntry
    <3>4. ASSUME u \in f PROVE storeidx[u] # k /\ storeidx[u] # n
      BY <1>1, <2>3, <3>3, <3>4
    <3>5. ASSUME u \in f PROVE storeidx[u] \in 1..n - 1
      BY <1>2, <3>3, <3>4, <3>5
    <3> QED BY <1>5, <3>1, <3>2, <3>3, <3>4, <3>5
  <2> QED BY <2>1, <2>2, <2>3
<1>11. f' \subseteq Timers
  BY <1>3
<1> QED BY <1>6, <1>9, <1>10, <1>11 DEF Indexed, IndexAgrees, OwnEntry

\* Least is the lesser of two.
LEMMA LeastIs ==
    ASSUME NEW a \in Nat, NEW b \in Nat
    PROVE  Least(a, b) \in Nat /\ Least(a, b) <= a /\ Least(a, b) <= b
BY DEF Least

\* Two that are not greater
LEMMA Below == ASSUME NEW a \in Nat, NEW b \in Nat, NEW c \in Nat, a <= b, b <= c PROVE a <= c
OBVIOUS

\* What a bound says of the entries it says of the ones a removal leaves.
LEMMA RestOf ==
    ASSUME TimeTypes, NEW k \in DOMAIN tv, Shifted(k), NEW b, \A j \in DOMAIN tv : b <= tv[j].time
    PROVE  \A j \in DOMAIN tv' : b <= tv'[j].time
<1>1. Len(tv) \in DOMAIN tv /\ DOMAIN tv = 1..Len(tv) /\ Len(tv) \in Nat
  BY DEF TimeTypes
<1>2. \A j \in DOMAIN tv' : j \in DOMAIN tv
  BY <1>1 DEF Shifted
<1> QED BY <1>1, <1>2 DEF Shifted

\* waitUntil() of a timer that was not armed: one entry more
LEMMA PushKeeps ==
    ASSUME TimeInv, NEW t \in Timers, NEW tm \in Nat, waitUntil(t, tm), storeidx[t] = NoIndex
    PROVE  TimeInv'
<1>1. /\ tv' = Append(tv, [time |-> tm, timer |-> t]) /\ mint' = Least(mint, tm)
      /\ storeidx' = [storeidx EXCEPT ![t] = Len(tv) + 1] /\ f' = f \union {t}
      /\ moved' = moved /\ UNCHANGED <<now, tpc, deadline, i, crtmin, rt>>
      /\ tpc \in {"handlers", "callback"}
  BY DEF waitUntil, pushTimer, InCode, TimeInv, TimeTypes
<1>2. [time |-> tm, timer |-> t] \in Entries /\ tv \in Seq(Entries)
  BY DEF Entries, TimeInv, TimeTypes
<1>3. /\ tv' \in Seq(Entries) /\ Len(tv') = Len(tv) + 1 /\ Len(tv) \in Nat
      /\ DOMAIN tv' = 1..Len(tv) + 1 /\ DOMAIN tv = 1..Len(tv)
      /\ tv'[Len(tv) + 1].time = tm /\ tv'[Len(tv) + 1].timer = t
      /\ \A j \in DOMAIN tv : tv'[j] = tv[j]
  BY <1>1, <1>2, OneMore
<1>4. TimeTypes'
  <2>1. mint' \in Nat
    BY <1>1, LeastIs DEF TimeInv, TimeTypes
  <2>2. storeidx' \in [Timers -> Nat] /\ f' \subseteq Timers
    BY <1>1, <1>3 DEF TimeInv, TimeTypes
  <2> QED BY <1>1, <1>3, <2>1, <2>2, Zenon DEF TimeInv, TimeTypes
<1>5. t \notin f
  BY DEF TimeInv, TimeTypes, Indexed, IndexAgrees, NoIndex
<1>6. Indexed'
  <2>1. /\ storeidx'[t] = Len(tv) + 1
        /\ \A u \in Timers : u # t => storeidx'[u] = storeidx[u]
    BY <1>1 DEF TimeInv, TimeTypes
  <2>2. ASSUME NEW j \in DOMAIN tv' PROVE storeidx'[tv'[j].timer] = j
    <3>1. CASE j = Len(tv) + 1
      BY <1>3, <2>1, <3>1
    <3>2. CASE j # Len(tv) + 1
      <4>1. j \in DOMAIN tv
        BY <1>3, <2>2, <3>2
      <4>2. tv[j].timer \in f /\ storeidx[tv[j].timer] = j /\ f \subseteq Timers
        BY <4>1, EntryOf DEF TimeInv, TimeTypes
      <4> QED BY <1>3, <1>5, <2>1, <4>1, <4>2
    <3> QED BY <3>1, <3>2
  <2>3. ASSUME NEW u \in Timers
        PROVE  /\ u \in f' => storeidx'[u] \in DOMAIN tv' /\ tv'[storeidx'[u]].timer = u
               /\ u \notin f' => storeidx'[u] = NoIndex
    <3>1. CASE u = t
      BY <1>1, <1>3, <2>1, <3>1
    <3>2. CASE u # t
      <4>1. storeidx'[u] = storeidx[u] /\ (u \in f' <=> u \in f)
        BY <1>1, <2>1, <3>2
      <4>2. u \in f => storeidx[u] \in DOMAIN tv /\ tv[storeidx[u]].timer = u
        BY DEF TimeInv, Indexed, IndexAgrees, OwnEntry
      <4>3. u \notin f => storeidx[u] = NoIndex
        BY DEF TimeInv, Indexed, IndexAgrees
      <4> QED BY <1>3, <4>1, <4>2, <4>3
    <3> QED BY <3>1, <3>2
  <2> QED BY <1>4, <2>2, <2>3 DEF Indexed, IndexAgrees, OwnEntry, TimeTypes
<1>7. Passed'
  BY <1>1, <1>3 DEF TimeInv, TimeTypes, Passed
<1>8. Earliest'
  <2> SUFFICES ASSUME tpc \in {"handlers", "wait"}, ~moved, NEW j \in DOMAIN tv' PROVE mint' <= tv'[j].time
    BY <1>1 DEF Earliest
  <2>1. mint \in Nat /\ mint' \in Nat /\ mint' <= tm /\ mint' <= mint
    BY <1>1, LeastIs DEF TimeInv, TimeTypes
  <2>2. CASE j = Len(tv) + 1
    BY <1>3, <2>1, <2>2
  <2>3. CASE j # Len(tv) + 1
    <3>1. j \in DOMAIN tv /\ tv'[j] = tv[j]
      BY <1>3, <2>3
    <3>2. mint <= tv[j].time /\ tv[j].time \in Nat
      BY <3>1, EntryOf DEF TimeInv, Earliest
    <3> QED BY <2>1, <3>1, <3>2, Below
  <2> QED BY <2>2, <2>3
<1> QED BY <1>4, <1>6, <1>7, <1>8 DEF TimeInv

\* waitUntil() of an armed timer: its entry gets another time.
LEMMA ChangeKeeps ==
    ASSUME TimeInv, NEW t \in Timers, NEW tm \in Nat, waitUntil(t, tm), storeidx[t] # NoIndex
    PROVE  TimeInv'
<1>1. /\ tv' = [tv EXCEPT ![storeidx[t]].time = tm] /\ mint' = Least(mint, tm)
      /\ f' = f \union {t} /\ moved' = (moved \/ tpc = "callback")
      /\ UNCHANGED <<storeidx, now, tpc, deadline, i, crtmin, rt>>
      /\ tpc \in {"handlers", "callback"}
  BY DEF waitUntil, changeTimer, InCode, TimeInv, TimeTypes
<1>2. t \in f /\ storeidx[t] \in DOMAIN tv /\ tv \in Seq(Entries) /\ f' = f
  BY <1>1 DEF TimeInv, TimeTypes, Indexed, IndexAgrees
<1>3. PICK k : k = storeidx[t]
  OBVIOUS
<1>4. tv[k] \in Entries /\ [tv[k] EXCEPT !.time = tm] \in Entries
  <2>1. tv[k] \in Entries
    BY <1>2, <1>3
  <2> QED BY <2>1 DEF Entries
<1>5. /\ tv' \in Seq(Entries) /\ DOMAIN tv' = DOMAIN tv /\ Len(tv') = Len(tv)
      /\ tv'[k] = [tv[k] EXCEPT !.time = tm] /\ \A j \in DOMAIN tv : j # k => tv'[j] = tv[j]
  BY <1>1, <1>2, <1>3, <1>4
<1>6. tv'[k].time = tm /\ \A j \in DOMAIN tv : tv'[j].timer = tv[j].timer
  BY <1>4, <1>5, Zenon DEF Entries
<1>7. TimeTypes'
  BY <1>1, <1>2, <1>5, LeastIs DEF TimeInv, TimeTypes
<1>8. Indexed'
  BY <1>1, <1>2, <1>5, <1>6 DEF TimeInv, Indexed, IndexAgrees, OwnEntry
<1>9. Passed'
  BY <1>1, Zenon DEF Passed
<1>10. Earliest'
  <2> SUFFICES ASSUME tpc \in {"handlers", "wait"}, ~moved, NEW j \in DOMAIN tv PROVE mint' <= tv'[j].time
    BY <1>1, <1>5, Zenon DEF Earliest
  <2>1. mint \in Nat /\ mint' \in Nat /\ mint' <= tm /\ mint' <= mint
    BY <1>1, LeastIs DEF TimeInv, TimeTypes
  <2>2. mint <= tv[j].time /\ tv[j].time \in Nat
    BY EntryOf DEF TimeInv, Earliest
  <2> QED BY <1>5, <1>6, <2>1, <2>2, Below, Zenon
<1> QED BY <1>7, <1>8, <1>9, <1>10 DEF TimeInv

\* cancel() in a handler takes an entry away; in a callback it may move one that pop()
\* has not visited to a place it has passed.
LEMMA CancelKeeps ==
    ASSUME TimeInv, NEW t \in Timers, cancel(t) PROVE TimeInv'
<1>1. PICK k : k = storeidx[t]
  OBVIOUS
<1>2. /\ t \in f /\ f' = f \ {t} /\ popTimer(k) /\ moved' = (moved \/ tpc = "callback")
      /\ UNCHANGED <<mint, now, tpc, deadline, i, crtmin, rt>>
      /\ tpc \in {"handlers", "callback"}
  BY <1>1 DEF cancel, InCode
<1>3. k \in DOMAIN tv /\ tv[k].timer = t
  BY <1>1, <1>2 DEF TimeInv, Indexed, IndexAgrees, OwnEntry
<1>4. Shifted(k)
  BY <1>2, <1>3, PopMoves DEF TimeInv
<1>5. storeidx' \in [Timers -> Nat] /\ Indexed'
  BY <1>2, <1>3, PopIndexed DEF TimeInv
<1>6. TimeTypes'
  BY <1>2, <1>4, <1>5 DEF TimeInv, TimeTypes, Shifted
<1>7. Passed'
  BY <1>2, Zenon DEF Passed
<1>8. Earliest'
  BY <1>2, <1>3, <1>4, RestOf, Zenon DEF TimeInv, Earliest
<1> QED BY <1>5, <1>6, <1>7, <1>8 DEF TimeInv

\* pop(time) removes an expired entry and calls back, at the same index.
LEMMA ExpireKeeps == ASSUME TimeInv, Expire PROVE TimeInv'
<1>1. /\ tpc = "pop" /\ tpc' = "callback" /\ i <= Len(tv) /\ f' = f \ {tv[i].timer} /\ popTimer(i)
      /\ UNCHANGED <<mint, now, deadline, i, crtmin, rt, moved>>
  BY DEF Expire
<1>2. i \in DOMAIN tv /\ i \in Nat /\ Len(tv) \in Nat
  BY <1>1 DEF TimeInv, TimeTypes
<1>3. Shifted(i)
  BY <1>1, <1>2, PopMoves DEF TimeInv
<1>4. storeidx' \in [Timers -> Nat] /\ Indexed'
  BY <1>1, <1>2, PopIndexed DEF TimeInv
<1>5. TimeTypes'
  BY <1>1, <1>3, <1>4 DEF TimeInv, TimeTypes, Shifted, Phases
<1>6. Passed'
  <2> SUFFICES ASSUME ~moved
               PROVE  i <= Len(tv') + 1 /\ \A j \in DOMAIN tv' : j < i => crtmin <= tv'[j].time
    BY <1>1 DEF Passed
  <2>1. i <= Len(tv') + 1
    BY <1>1, <1>2, <1>3 DEF Shifted
  <2>2. ASSUME NEW j \in DOMAIN tv', j < i PROVE crtmin <= tv'[j].time
    <3>1. j \in DOMAIN tv /\ j # i
      BY <1>2, <1>3, <2>2 DEF Shifted, TimeInv, TimeTypes
    <3>2. tv'[j] = tv[j]
      BY <1>3, <2>2, <3>1 DEF Shifted
    <3> QED BY <1>1, <2>2, <3>1, <3>2 DEF TimeInv, Passed
  <2> QED BY <2>1, <2>2
<1>7. Earliest'
  BY <1>1 DEF Earliest
<1> QED BY <1>4, <1>5, <1>6, <1>7 DEF TimeInv

\* pop(time) keeps an entry and takes note of its time.
LEMMA KeepKeeps == ASSUME TimeInv, Keep PROVE TimeInv'
<1>1. /\ tpc = "pop" /\ i <= Len(tv) /\ crtmin' = Least(crtmin, tv[i].time) /\ i' = i + 1
      /\ UNCHANGED <<tv, mint, storeidx, f, now, tpc, deadline, rt, moved>>
  BY DEF Keep
<1>2. i \in DOMAIN tv /\ i \in Nat \ {0} /\ Len(tv) \in Nat /\ crtmin \in Nat /\ DOMAIN tv = 1..Len(tv)
  BY <1>1 DEF TimeInv, TimeTypes
<1>3. tv[i].time \in Nat
  BY <1>2, EntryOf DEF TimeInv
<1>4. crtmin' \in Nat /\ crtmin' <= crtmin /\ crtmin' <= tv[i].time
  BY <1>1, <1>2, <1>3, LeastIs, Zenon
<1>5. TimeTypes'
  BY <1>1, <1>2, <1>4 DEF TimeInv, TimeTypes
<1>6. Indexed'
  BY <1>1 DEF TimeInv, Indexed, IndexAgrees, OwnEntry
<1>7. Passed'
  <2>1. ASSUME ~moved, NEW j \in DOMAIN tv, j < i + 1 PROVE crtmin' <= tv[j].time
    <3>1. CASE j = i
      BY <1>4, <3>1
    <3>2. CASE j # i
      <4>1. j < i /\ tv[j].time \in Nat
        BY <1>2, <2>1, <3>2, EntryOf DEF TimeInv
      <4>2. crtmin <= tv[j].time
        BY <1>1, <2>1, <4>1 DEF TimeInv, Passed
      <4> QED BY <1>2, <1>4, <4>1, <4>2, Below
    <3> QED BY <3>1, <3>2
  <2>2. i + 1 <= Len(tv) + 1
    BY <1>1, <1>2
  <2> QED BY <1>1, <2>1, <2>2 DEF Passed
<1>8. Earliest'
  BY <1>1 DEF Earliest
<1> QED BY <1>5, <1>6, <1>7, <1>8 DEF TimeInv

\* The rest of the reactor's loop
LEMMA LoopKeeps ==
    ASSUME TimeAssumption, TimeInv, Tick \/ BeginWait \/ BeginPop \/ CallbackReturns \/ EndPop
    PROVE  TimeInv'
<1>1. /\ UNCHANGED <<tv, storeidx, f>>
      /\ Tick => UNCHANGED <<mint, tpc, i, crtmin, rt, moved>> /\ now' = now + 1
      /\ BeginWait => tpc = "handlers" /\ tpc' = "wait" /\ UNCHANGED <<mint, now, i, crtmin, rt, moved>>
      /\ BeginPop => /\ tpc' = "pop" /\ i' = 1 /\ crtmin' = Maximum /\ rt' = now /\ moved' = FALSE
                     /\ UNCHANGED <<mint, now>>
      /\ CallbackReturns => /\ tpc = "callback" /\ tpc' = "pop"
                            /\ UNCHANGED <<mint, now, i, crtmin, rt, moved>>
      /\ EndPop => /\ tpc = "pop" /\ i > Len(tv) /\ mint' = crtmin /\ tpc' = "handlers"
                   /\ i' = 1 /\ crtmin' = Maximum /\ rt' = 0 /\ UNCHANGED <<now, moved>>
  BY Zenon DEF Tick, BeginWait, BeginPop, CallbackReturns, EndPop
<1>2. Maximum \in Nat
  BY DEF TimeAssumption, Maximum, Last
<1>3. TimeTypes'
  <2>1. now' \in Nat /\ i' \in Nat \ {0} /\ rt' \in Nat
    BY <1>1 DEF TimeInv, TimeTypes
  <2>2. mint' \in Nat /\ crtmin' \in Nat
    BY <1>1, <1>2 DEF TimeInv, TimeTypes
  <2>3. tpc' \in Phases /\ moved' \in BOOLEAN
    BY <1>1, Zenon DEF TimeInv, TimeTypes, Phases
  <2> QED BY <1>1, <2>1, <2>2, <2>3, Zenon DEF TimeInv, TimeTypes
<1>4. Indexed'
  BY <1>1 DEF TimeInv, Indexed, IndexAgrees, OwnEntry
<1>5. \A j \in DOMAIN tv : j \in Nat \ {0} /\ j <= Len(tv) /\ Len(tv) \in Nat
  BY DEF TimeInv, TimeTypes
<1>6. Passed'
  BY <1>1, <1>5 DEF TimeInv, TimeTypes, Passed
<1>7. Earliest'
  <2>1. CASE EndPop
    <3>1. \A j \in DOMAIN tv : j < i
      BY <1>1, <1>5, <2>1 DEF TimeInv, TimeTypes
    <3> QED BY <1>1, <2>1, <3>1 DEF TimeInv, Passed, Earliest
  <2>2. CASE ~EndPop
    BY <1>1, <2>2 DEF TimeInv, Earliest
  <2> QED BY <2>1, <2>2
<1> QED BY <1>3, <1>4, <1>6, <1>7 DEF TimeInv

LEMMA TimeInitHolds == ASSUME TimeAssumption, TimeInit PROVE TimeInv
<1>1. Maximum \in Nat
  BY DEF TimeAssumption, Maximum, Last
<1>2. tv = <<>> /\ tv \in Seq(Entries) /\ DOMAIN tv = {}
  BY DEF TimeInit
<1>3. f = {} /\ tpc = "handlers" /\ storeidx = [t \in Timers |-> NoIndex] /\ NoIndex \in Nat
  BY DEF TimeInit, NoIndex
<1>4. moved \in BOOLEAN /\ mint \in Nat /\ crtmin \in Nat /\ now = 0 /\ i = 1 /\ rt = 0
  BY <1>1, Zenon DEF TimeInit
<1>5. TimeTypes
  BY <1>2, <1>3, <1>4 DEF TimeTypes, Phases
<1>6. Indexed
  BY <1>2, <1>3 DEF Indexed, IndexAgrees, OwnEntry
<1>7. Passed /\ Earliest
  BY <1>2, <1>3 DEF Passed, Earliest
<1> QED BY <1>5, <1>6, <1>7 DEF TimeInv

\* Every step keeps the invariant.
LEMMA TimeStepKeeps == ASSUME TimeAssumption, TimeInv, [TimeNext]_timevars PROVE TimeInv'
<1>1. CASE UNCHANGED timevars
  BY <1>1 DEF timevars, TimeInv, TimeTypes, Indexed, IndexAgrees, OwnEntry, Passed, Earliest
<1>2. CASE \E t \in Timers : \E tm \in 0..MaxTime : waitUntil(t, tm)
  <2>1. PICK t \in Timers, tm \in 0..MaxTime : waitUntil(t, tm)
    BY <1>2
  <2>2. tm \in Nat
    BY DEF TimeAssumption
  <2> QED BY <2>1, <2>2, PushKeeps, ChangeKeeps
<1> QED BY <1>1, <1>2, CancelKeeps, ExpireKeeps, KeepKeeps, LoopKeeps DEF TimeNext

\* For any timers the entries of the vector and the timers' indexes agree, also in the
\* middle of pop(), and no timer is due before the time the reactor sleeps to, unless a
\* callback has changed the part of the vector that pop() was walking.
THEOREM SleepsToTheEarliest == TimeAssumption /\ TimeSpec => []NextIsEarliest
<1> SUFFICES ASSUME TimeAssumption PROVE TimeSpec => []NextIsEarliest
  OBVIOUS
<1>1. TimeInit => TimeInv
  BY TimeInitHolds
<1>2. TimeInv /\ [TimeNext]_timevars => TimeInv'
  BY TimeStepKeeps
<1>3. TimeInv => NextIsEarliest
  BY DEF TimeInv, Indexed, Earliest, NextIsEarliest
<1> QED BY <1>1, <1>2, <1>3, PTL DEF TimeSpec

-----------------------------------------------------------------------------
INSTANCE FiniteSetTheorems

(*****************************************************************************)
(* The work pool: one that is stopped has no workers, and nobody sleeps on   *)
(* what is already there, however calls overlap.                             *)
(*****************************************************************************)

Places == {"none", "new", "pop", "wait", "run", "exit", "gone"}

PoolTypes ==
    /\ poolst \in {"stopped", "running", "stopping"}
    /\ worker \in [Threads -> Places]
    /\ ctl \in [Controllers -> {"idle", "starting", "stopping"}]
    /\ woken \subseteq Controllers

\* wkrcnt, which doStop() looks at, is the number of workers there are.
Counted == wkrcnt = Cardinality(Live)

\* A worker leaves only when it has seen that the pool is not running.
NoneLeaves == poolst = "running" => \A w \in Threads : worker[w] # "exit"

PoolInv == PoolTypes /\ Counted /\ StoppedQuiet /\ NoneLeaves /\ NoLostWakeup

LEMMA LiveIsFinite == WorkPoolAssumption => IsFiniteSet(Live) /\ Cardinality(Live) \in Nat
BY FS_Subset, FS_CardinalityType DEF WorkPoolAssumption, Live

LEMMA NoneLive == Counted /\ WorkPoolAssumption /\ wkrcnt = 0 => Live = {}
BY LiveIsFinite, FS_EmptySet, Zenon DEF Counted

LEMMA PoolInitHolds == WorkPoolAssumption /\ WorkPoolInit => PoolInv
<1> SUFFICES ASSUME WorkPoolInit PROVE PoolInv
  OBVIOUS
<1>1. Live = {}
  BY DEF WorkPoolInit, Live
<1> QED
  BY <1>1, FS_EmptySet DEF WorkPoolInit, PoolInv, PoolTypes, Places, Counted, StoppedQuiet,
     NoneLeaves, NoLostWakeup, WaitsForStop

\* A notification wakes workers and changes nothing else about them.
LEMMA NotifyKeeps ==
    ASSUME PoolInv, worker' = NotifyAll(worker)
    PROVE  /\ worker' \in [Threads -> Places] /\ Live' = Live /\ Waiters' = {}
           /\ \A w \in Threads : worker'[w] = "exit" <=> worker[w] = "exit"
BY DEF NotifyAll, PoolInv, PoolTypes, Places, Live, Waiters

LEMMA PushHolds == ASSUME PoolInv, NEW j \in Jobs, push(j) PROVE PoolInv'
<1>1. /\ worker' \in [Threads -> Places] /\ Live' = Live
      /\ \A w \in Threads : worker'[w] = "exit" <=> worker[w] = "exit"
  BY DEF push, NotifyOne, Waiters, PoolInv, PoolTypes, Places, Live
<1>2. Waiters # {} => Live' # Waiters'
  <2> SUFFICES ASSUME Waiters # {} PROVE Live' # Waiters'
    OBVIOUS
  <2>1. PICK w \in Waiters : worker' = [worker EXCEPT ![w] = "pop"]
    BY DEF push, NotifyOne
  <2>2. w \in Live' /\ w \notin Waiters'
    BY <2>1 DEF Waiters, Live, PoolInv, PoolTypes
  <2> QED BY <2>2
<1>3. Waiters = {} => Waiters' = {}
  BY DEF push, NotifyOne, Waiters
<1>4. UNCHANGED <<poolst, wkrcnt, ctl, woken>>
  BY DEF push
<1> QED
  BY <1>1, <1>2, <1>3, <1>4
     DEF PoolInv, PoolTypes, Counted, StoppedQuiet, NoneLeaves, NoLostWakeup, WaitsForStop

LEMMA PushAllHolds == ASSUME PoolInv, NEW h \in Jobs, NEW j \in Jobs, pushAll(h, j) PROVE PoolInv'
<1>1. /\ worker' \in [Threads -> Places] /\ Live' = Live /\ Waiters' = {}
      /\ \A w \in Threads : worker'[w] = "exit" <=> worker[w] = "exit"
  BY NotifyKeeps DEF pushAll
<1>2. UNCHANGED <<poolst, wkrcnt, ctl, woken>>
  BY DEF pushAll
<1> QED
  BY <1>1, <1>2 DEF PoolInv, PoolTypes, Counted, StoppedQuiet, NoneLeaves, NoLostWakeup, WaitsForStop

\* A pool without workers is given new ones, of which none is at a wait yet.
LEMMA RunningHolds ==
    ASSUME PoolInv, WorkPoolAssumption, wkrcnt = 0, NEW t \in Controllers, NEW n \in Nat,
           NEW ws \in [Threads -> {"none", "gone"}], Running(t, ws, n),
           woken \ {t} \subseteq woken', woken' \subseteq Controllers
    PROVE  PoolInv'
<1>1. PICK S \in Created(ws, n) :
         /\ poolst' = "running" /\ wkrcnt' = Cardinality(S)
         /\ worker' = [w \in Threads |-> IF w \in S THEN "new" ELSE ws[w]]
         /\ ctl' = [ctl EXCEPT ![t] = "idle"]
  BY DEF Running
<1>2. S \subseteq Threads
  BY DEF Created
<1>3. worker' \in [Threads -> Places] /\ Live' = S /\ Waiters' = {} /\ \A w \in Threads : worker'[w] # "exit"
  BY <1>1, <1>2 DEF Places, Live, Waiters
<1>4. /\ ctl' \in [Controllers -> {"idle", "starting", "stopping"}]
      /\ \A u \in Controllers : WaitsForStop(u)' => u # t /\ WaitsForStop(u)
  BY <1>1 DEF PoolInv, PoolTypes, WaitsForStop
<1>5. \A u \in Controllers : WaitsForStop(u)' => u \in woken'
  BY <1>4 DEF PoolInv, NoLostWakeup
<1> QED
  BY <1>1, <1>3, <1>4, <1>5 DEF PoolInv, PoolTypes, Counted, StoppedQuiet, NoneLeaves, NoLostWakeup

LEMMA StartHolds ==
    ASSUME PoolInv, WorkPoolAssumption, NEW t \in Controllers, NEW n \in Nat, start(t, n) PROVE PoolInv'
<1>1. CASE poolst = "running"
  <2>1. UNCHANGED <<poolst, wkrcnt, worker, ctl, woken, jobq>>
    BY <1>1 DEF start
  <2> QED BY <2>1 DEF PoolInv, PoolTypes, Counted, StoppedQuiet, NoneLeaves, NoLostWakeup,
             WaitsForStop, Live, Waiters
<1>2. CASE poolst = "stopped"
  <2>1. Live = {} /\ wkrcnt = 0
    BY <1>2 DEF PoolInv, StoppedQuiet
  <2>2. worker \in [Threads -> {"none", "gone"}]
    BY <2>1 DEF PoolInv, PoolTypes, Live
  <2>3. Running(t, worker, n) /\ woken' = woken
    BY <1>2 DEF start
  <2> QED BY <2>1, <2>2, <2>3, RunningHolds DEF PoolInv, PoolTypes
<1>3. CASE poolst = "stopping"
  <2>1. /\ ctl' = [ctl EXCEPT ![t] = "starting"] /\ worker' = NotifyAll(worker)
        /\ woken' = woken \cup {t} /\ UNCHANGED <<poolst, wkrcnt, jobq>>
    BY <1>3, Zenon DEF start
  <2>2. /\ worker' \in [Threads -> Places] /\ Live' = Live
        /\ \A w \in Threads : worker'[w] = "exit" <=> worker[w] = "exit"
    BY <2>1, NotifyKeeps
  <2>3. \A u \in Controllers : WaitsForStop(u)' /\ wkrcnt' = 0 => u \in woken'
    BY <2>1 DEF PoolInv, PoolTypes, NoLostWakeup, WaitsForStop
  <2> QED BY <1>3, <2>1, <2>2, <2>3
             DEF PoolInv, PoolTypes, Counted, StoppedQuiet, NoneLeaves, NoLostWakeup
<1> QED BY <1>1, <1>2, <1>3 DEF PoolInv, PoolTypes

LEMMA StopHolds == ASSUME PoolInv, NEW t \in Controllers, NEW wait \in BOOLEAN, stop(t, wait) PROVE PoolInv'
<1>1. poolst' = "stopping" /\ worker' = NotifyAll(worker) /\ UNCHANGED <<wkrcnt, jobq>>
  BY Zenon DEF stop
<1>2. Live' = Live /\ worker' \in [Threads -> Places]
  BY <1>1, NotifyKeeps
<1>3. /\ ctl' \in [Controllers -> {"idle", "starting", "stopping"}] /\ woken' \subseteq Controllers
      /\ \A u \in Controllers : WaitsForStop(u)' /\ wkrcnt' = 0 => u \in woken'
  <2>1. CASE wait
    <3>1. ctl' = [ctl EXCEPT ![t] = "stopping"] /\ woken' = woken \cup {t}
      BY <2>1 DEF stop
    <3> QED BY <1>1, <3>1 DEF PoolInv, PoolTypes, NoLostWakeup, WaitsForStop
  <2>2. CASE ~wait
    <3>1. UNCHANGED <<ctl, woken>>
      BY <2>2 DEF stop
    <3> QED BY <1>1, <3>1 DEF PoolInv, PoolTypes, NoLostWakeup, WaitsForStop
  <2> QED BY <2>1, <2>2
<1> QED BY <1>1, <1>2, <1>3 DEF PoolInv, PoolTypes, Counted, StoppedQuiet, NoneLeaves, NoLostWakeup

LEMMA WaitsHolds ==
    ASSUME PoolInv, WorkPoolAssumption, NEW t \in Controllers, NEW n \in Nat, Waits(t, n) PROVE PoolInv'
<1>1. ctl[t] # "idle" /\ woken' = woken \ {t} /\ UNCHANGED jobq
  BY DEF Waits
<1>2. CASE wkrcnt # 0
  <2>1. UNCHANGED <<poolst, wkrcnt, worker, ctl>>
    BY <1>2 DEF Waits
  <2> QED
    BY <1>1, <1>2, <2>1 DEF PoolInv, PoolTypes, Counted, StoppedQuiet, NoneLeaves, NoLostWakeup,
       WaitsForStop, Live, Waiters
<1>3. CASE wkrcnt = 0 /\ ctl[t] = "starting"
  <2>1. Running(t, [w \in Threads |-> "none"], n)
    BY <1>3 DEF Waits
  <2> QED BY <1>1, <1>3, <2>1, RunningHolds DEF PoolInv, PoolTypes
<1>4. CASE wkrcnt = 0 /\ ctl[t] # "starting"
  <2>1. /\ poolst' = "stopped" /\ worker' = [w \in Threads |-> "none"]
        /\ ctl' = [ctl EXCEPT ![t] = "idle"] /\ UNCHANGED wkrcnt
    BY <1>4 DEF Waits
  <2>2. Live' = {} /\ worker' \in [Threads -> Places]
    BY <2>1 DEF Live, Places
  <2>3. Counted'
    BY <1>4, <2>1, <2>2, FS_EmptySet DEF Counted
  <2>4. /\ ctl' \in [Controllers -> {"idle", "starting", "stopping"}]
        /\ \A u \in Controllers : WaitsForStop(u)' /\ wkrcnt' = 0 => u \in woken'
    BY <1>1, <1>4, <2>1 DEF PoolInv, PoolTypes, NoLostWakeup, WaitsForStop
  <2> QED BY <1>1, <1>4, <2>1, <2>2, <2>3, <2>4, Zenon
             DEF PoolInv, PoolTypes, StoppedQuiet, NoneLeaves, NoLostWakeup
<1> QED BY <1>2, <1>3, <1>4

\* enterWorker, pop and execute move a worker that stays.
LEMMA StaysHolds ==
    ASSUME PoolInv, NEW w \in Threads, enterWorker(w) \/ pop(w) \/ execute(w) PROVE PoolInv'
<1>1. PICK p \in {"pop", "run", "wait", "exit"} :
         worker' = [worker EXCEPT ![w] = p] /\ (p = "exit" => poolst # "running") /\ (p = "wait" => jobq' = <<>>)
  BY DEF enterWorker, pop, execute
<1>2. w \in Live /\ UNCHANGED <<poolst, wkrcnt, ctl>>
  BY DEF enterWorker, pop, execute, Live
<1>3. woken' = woken \/ woken' = NotifyControllers
  BY DEF enterWorker, pop, execute
<1>4. worker' \in [Threads -> Places] /\ Live' = Live
  BY <1>1, <1>2 DEF PoolInv, PoolTypes, Places, Live
<1>5. /\ woken' \subseteq Controllers
      /\ \A u \in Controllers : WaitsForStop(u)' /\ wkrcnt' = 0 => u \in woken'
  BY <1>2, <1>3, Zenon DEF PoolInv, PoolTypes, NoLostWakeup, WaitsForStop, NotifyControllers
<1>6. NoneLeaves'
  BY <1>1, <1>2 DEF PoolInv, PoolTypes, NoneLeaves
<1>7. poolst' = "running" /\ jobq' # <<>> => Live' # Waiters'
  <2> SUFFICES ASSUME p # "wait" PROVE Live' # Waiters'
    BY <1>1, Zenon
  <2>1. w \in Live' /\ w \notin Waiters'
    BY <1>1, <1>2, <1>4, Zenon DEF PoolInv, PoolTypes, Waiters
  <2> QED BY <2>1
<1> QED BY <1>2, <1>4, <1>5, <1>6, <1>7, Zenon
           DEF PoolInv, PoolTypes, Counted, StoppedQuiet, NoLostWakeup

LEMMA ExitHolds == ASSUME PoolInv, WorkPoolAssumption, NEW w \in Threads, exitWorker(w) PROVE PoolInv'
<1>1. /\ worker[w] = "exit" /\ worker' = [worker EXCEPT ![w] = "gone"] /\ wkrcnt' = wkrcnt - 1
      /\ woken' = NotifyControllers /\ UNCHANGED <<poolst, ctl, jobq>>
  BY DEF exitWorker
<1>2. w \in Live /\ poolst # "running"
  BY <1>1 DEF Live, PoolInv, NoneLeaves
<1>3. worker' \in [Threads -> Places] /\ Live' = Live \ {w}
  BY <1>1 DEF PoolInv, PoolTypes, Places, Live
<1>4. Cardinality(Live \ {w}) = Cardinality(Live) - 1
  BY <1>2, LiveIsFinite, FS_RemoveElement, SMTT(60)
<1>5. Counted' /\ poolst # "stopped"
  BY <1>1, <1>2, <1>3, <1>4, SMTT(60) DEF PoolInv, Counted, StoppedQuiet
<1>6. \A u \in Controllers : WaitsForStop(u)' => u \in woken'
  BY <1>1 DEF WaitsForStop, NotifyControllers
<1> QED BY <1>1, <1>2, <1>3, <1>5, <1>6, SMTT(60)
           DEF PoolInv, PoolTypes, StoppedQuiet, NoneLeaves, NoLostWakeup, NotifyControllers

LEMMA PoolInvariant == WorkPoolAssumption /\ WorkPoolSpec => []PoolInv
<1> SUFFICES ASSUME WorkPoolAssumption PROVE WorkPoolSpec => []PoolInv
  OBVIOUS
<1>1. PoolInv /\ [WorkPoolNext]_wpvars => PoolInv'
  <2> SUFFICES ASSUME PoolInv, [WorkPoolNext]_wpvars PROVE PoolInv'
    BY Zenon
  <2>1. CASE UNCHANGED wpvars
    BY <2>1 DEF wpvars, PoolInv, PoolTypes, Counted, StoppedQuiet, NoneLeaves, NoLostWakeup,
       WaitsForStop, Live, Waiters
  <2>2. ASSUME NEW j \in Jobs, push(j) PROVE PoolInv'
    BY <2>2, PushHolds
  <2>3. ASSUME NEW h \in Jobs, NEW j \in Jobs, pushAll(h, j) PROVE PoolInv'
    BY <2>3, PushAllHolds
  <2>4. ASSUME NEW t \in Controllers, NEW n \in 1..Cardinality(Threads), start(t, n) \/ Waits(t, n) PROVE PoolInv'
    <3>1. n \in Nat
      BY FS_CardinalityType DEF WorkPoolAssumption
    <3> QED BY <2>4, <3>1, StartHolds, WaitsHolds
  <2>5. ASSUME NEW t \in Controllers, NEW wait \in BOOLEAN, stop(t, wait) PROVE PoolInv'
    BY <2>5, StopHolds
  <2>6. ASSUME NEW w \in Threads, WorkerSteps(w) PROVE PoolInv'
    BY <2>6, StaysHolds, ExitHolds DEF WorkerSteps
  <2> QED BY <2>1, <2>2, <2>3, <2>4, <2>5, <2>6, SMTT(60) DEF WorkPoolNext
<1>2. WorkPoolInit => PoolInv
  BY PoolInitHolds
<1> QED BY <1>1, <1>2, PTL DEF WorkPoolSpec

\* stop() returns, and start() goes on, only when wkrcnt has counted every worker out: a pool
\* that is stopped has none (doStop, exitWorker).
THEOREM StoppedHasNoWorkers == WorkPoolAssumption /\ WorkPoolSpec => []StoppedQuiet
<1>1. PoolInv => StoppedQuiet
  BY DEF PoolInv
<1> QED BY <1>1, PoolInvariant, PTL

\* Although push() notifies one worker and a worker may be anywhere in its loop, jobs are never
\* queued in a running pool whose workers all sleep, and no thread that waits for the workers
\* misses the last of them (push, doWaitJob, exitWorker).
THEOREM NobodyOversleeps == WorkPoolAssumption /\ WorkPoolSpec => []NoLostWakeup
<1>1. PoolInv => NoLostWakeup
  BY DEF PoolInv
<1> QED BY <1>1, PoolInvariant, PTL
=============================================================================
