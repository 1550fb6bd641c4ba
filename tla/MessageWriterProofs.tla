------------------------ MODULE MessageWriterProofs ------------------------
(***************************************************************************)
(* Safety of MessageWriter for any number of messages and any limits,      *)
(* provided that no request is cancelled before it was started             *)
(* (~CancelUnstarted, see ListsDisjoint) and that no unique counter wraps  *)
(* (UniqueMod = 0).                                                        *)
(***************************************************************************)
EXTENDS MessageWriterInv
-----------------------------------------------------------------------------
\* On a stopping connection a message ends and only its stub is cleared.
LEMMA StoppingClear ==
    ASSUME IInv, UniqueMod = 0, stopping, NEW i \in Range(order),
           message_vec' = [message_vec EXCEPT ![i] = Cleared(message_vec[i])],
           order' = Erase(order, i),
           NEW how \in Lives \ {"new", "accepted", "twice"},
           life' = [life EXCEPT ![message_vec[i].msg] = how],
           UNCHANGED <<write, cache, current_sync, pc, packet, stopping, handle>>,
           peer' \subseteq peer, pool' \in Seq(Msgs)
    PROVE  IInv'
<1>1. TypeOK /\ i \in Slots /\ IsInjective(order)
  BY ListElements DEF IInv, StubStates
<1>2. Without(order, order', i) /\ Ends(i, how)
  BY <1>1, EraseWithout DEF TypeOK, Ends
<1>3. /\ message_vec' \in Seq(Stubs) /\ Slots' = Slots
      /\ life' \in [Msgs -> Lives]
      /\ Accounted' /\ StubStates' /\ IdStates' /\ PeerStates'
  BY <1>1, <1>2, ClearStep, Zenon
<1>4. TypeOK'
  <2>1. order' \in Seq(Slots)
    BY <1>2 DEF Without
  <2>2. peer' \subseteq Request /\ stopping' \in BOOLEAN
    BY <1>1, ZenonT(60) DEF TypeOK
  <2> QED BY <1>1, <1>3, <2>1, <2>2, Zenon DEF TypeOK, packet
<1>5. ListsDisjoint' /\ CurrentSyncQueued' /\ SyncExclusive' /\ OnlyFrontContinues'
      /\ QueueStates' /\ StopStates'
  BY DEF IInv, ListsDisjoint, CurrentSyncQueued, SyncExclusive, OnlyFrontContinues,
         QueueStates, StopStates
<1> QED BY <1>3, <1>4, <1>5, SMTT(60) DEF IInv

\* A message of which a part was sent is cancelled: it leaves order, and its
\* stub waits in write for the peer to be told.
LEMMA CancelStarted ==
    ASSUME IInv, NEW i \in Range(order), message_vec[i].ser,
           message_vec' = [message_vec EXCEPT ![i] = CanceledStub(message_vec[i])],
           order' = Erase(order, i),
           NEW how \in Lives \ {"new", "accepted", "twice"},
           life' = [life EXCEPT ![message_vec[i].msg] = how],
           UNCHANGED <<write, cache, current_sync, pc, packet, stopping, handle, pool>>,
           peer' \subseteq peer
    PROVE  IInv'
<1>1. /\ TypeOK /\ i \in Slots /\ IsInjective(order) /\ OrderStub(i)
      /\ message_vec[i] \in Stubs
      /\ Range(order) \subseteq Slots /\ Range(write) \subseteq Slots
      /\ Range(cache) \subseteq Slots
      /\ \A k \in 1..Len(write) : write[k] \in Range(write)
  BY ListElements, SMTT(60) DEF IInv, StubStates, TypeOK, Slots
<1>2. order' \in Seq(Slots) /\ IsInjective(order') /\ Range(order') = Range(order) \ {i}
  BY <1>1, EraseList, Zenon DEF TypeOK
<1>3. LET stub == CanceledStub(message_vec[i])
      IN  /\ stub \in Stubs /\ stub.msg = NoMsg /\ stub.unique = message_vec[i].unique
          /\ stub.ser /\ stub.packet_count = message_vec[i].packet_count
          /\ stub.flags = message_vec[i].flags \cup {"Canceled"}
  <2>1. "Canceled" \in Flags
    BY DEF Flags
  <2> QED BY <1>1, <2>1, ZenonT(60) DEF CanceledStub, Stubs
<1>4. /\ message_vec' \in Seq(Stubs) /\ Slots' = Slots
      /\ message_vec'[i] = CanceledStub(message_vec[i])
      /\ \A j \in Slots : j # i => message_vec'[j] = message_vec[j]
  BY <1>1, <1>3, StubReplaced, ZenonT(60)
<1>5. /\ message_vec'[i].msg = NoMsg /\ message_vec'[i].ser /\ Has(i, "Canceled")'
      /\ Has(i, "Synchronous")' <=> Has(i, "Synchronous")
      /\ \A j \in Slots : /\ message_vec'[j].unique = message_vec[j].unique
                          /\ message_vec'[j].packet_count = message_vec[j].packet_count
                          /\ message_vec'[j].ser <=> message_vec[j].ser
                          /\ Has(j, "Synchronous")' <=> Has(j, "Synchronous")
  BY <1>3, <1>4, SMTT(60) DEF Has
<1>6. \A j \in Range(order') : j \in Slots /\ j # i /\ message_vec'[j] = message_vec[j]
                               /\ message_vec[j].msg # message_vec[i].msg
  <2>1. \A j \in Range(order) : OrderStub(j)
    BY Zenon DEF IInv, StubStates
  <2> QED BY <1>1, <1>2, <1>4, <2>1, SMTT(60) DEF OrderStub, Denotes
<1>7. /\ message_vec[i].msg \in Msgs /\ life' \in [Msgs -> Lives]
      /\ \A m \in Msgs : life'[m] = IF m = message_vec[i].msg THEN how ELSE life[m]
  BY <1>1, Zenon DEF OrderStub, TypeOK
<1>8. \A m \in Msgs : life'[m] = "new" <=> life[m] = "new"
  BY <1>1, <1>7, ZenonT(60) DEF OrderStub
<1>9. TypeOK'
  <2>1. peer' \subseteq Request
    BY <1>1, ZenonT(60) DEF TypeOK
  <2> QED BY <1>1, <1>2, <1>4, <1>7, <2>1, ZenonT(60) DEF TypeOK, packet
<1>10. ListsDisjoint'
  <2> SUFFICES ASSUME ~stopping PROVE ListsDisjoint'
    BY Zenon DEF ListsDisjoint
  <2>1. i \in Range(write)
    BY ZenonT(60) DEF IInv, QueueStates
  <2> QED BY <1>1, <1>2, <1>4, <1>5, <2>1, SMTT(60) DEF IInv, ListsDisjoint, Has
<1>11. CurrentSyncQueued' /\ SyncExclusive' /\ OnlyFrontContinues'
  BY <1>1, <1>5, SMTT(60) DEF IInv, CurrentSyncQueued, SyncExclusive, OnlyFrontContinues
<1>12. Accounted'
  <2> SUFFICES ASSUME NEW m \in Msgs
               PROVE  /\ life'[m] # "twice"
                      /\ life'[m] = "accepted"
                            <=> \E j \in Range(order') : message_vec'[j].msg = m
    BY DEF Accounted
  <2>1. /\ life[m] # "twice"
        /\ life[m] = "accepted" <=> \E j \in Range(order) : message_vec[j].msg = m
    BY DEF IInv, Accounted
  <2>2. CASE m = message_vec[i].msg
    BY <1>6, <1>7, <2>2, Zenon
  <2>3. CASE m # message_vec[i].msg
    BY <1>2, <1>6, <1>7, <2>1, <2>3, ZenonT(60)
  <2> QED BY <2>2, <2>3
<1>13. StubStates'
  <2>1. ASSUME NEW j \in Range(order') PROVE OrderStub(j)'
    <3>1. OrderStub(j) /\ message_vec'[j] = message_vec[j]
      BY <1>2, <1>6, Zenon DEF IInv, StubStates
    <3> QED BY <1>4, <1>8, <3>1 DEF OrderStub, Has, Denotes
  <2>2. ASSUME NEW j \in Slots, j \notin Range(order') PROVE message_vec'[j].msg = NoMsg
    BY <1>2, <1>4, <1>5, <2>2, ZenonT(60) DEF IInv, StubStates
  <2> QED BY <1>2, <1>4, <2>1, <2>2, ZenonT(60) DEF StubStates
<1>14. QueueStates'
  <2> SUFFICES ASSUME ~stopping PROVE QueueStates'
    BY Zenon DEF QueueStates
  <2>1. i \in Range(write) /\ i \notin Range(cache)
    BY ZenonT(60) DEF IInv, QueueStates, ListsDisjoint
  <2> QED BY <1>1, <1>2, <1>4, <1>5, <2>1 DEF IInv, QueueStates, Has
<1>15. ASSUME NEW m \in Msgs, life[m] # "new" PROVE IdState(m)'
  <2>1. IdState(m)
    BY <1>15, Zenon DEF IInv, IdStates
  <2>2. CASE handle[m].index = i
    BY <1>4, <1>5, <2>1, <2>2, ZenonT(60) DEF IdState
  <2>3. CASE handle[m].index # i
    BY <1>2, <1>4, <2>1, <2>3, ZenonT(60) DEF IdState, Has
  <2> QED BY <2>2, <2>3
<1>16. ASSUME NEW m \in peer PROVE life[m] # "new" /\ m \in Msgs /\ PeerState(m)'
  <2>1. m \in Msgs /\ life[m] # "new" /\ PeerState(m)
    BY <1>1, MsgsAssumption, ZenonT(60) DEF IInv, PeerStates, TypeOK
  <2>2. ~Denotes(handle[m], i)
    BY <1>1, <2>1, Zenon DEF PeerState
  <2>3. ~Denotes(handle[m], i)'
    BY <1>4, <1>5, <2>2, ZenonT(60) DEF Denotes
  <2> QED BY <1>4, <2>1, <2>3, SMTT(60) DEF PeerState, Has, Denotes
<1>17. IdStates' /\ PeerStates' /\ StopStates'
  BY <1>8, <1>15, <1>16, ZenonT(60) DEF IInv, IdStates, PeerStates, StopStates
<1> QED BY <1>9, <1>10, <1>11, <1>12, <1>13, <1>14, <1>17, ZenonT(60) DEF IInv

\* doCancel of a message that is not completed.  While the connection is not
\* stopping the message may not be a request that waits to be sent.
LEMMA CancelStep ==
    ASSUME IInv, UniqueMod = 0, pc = "idle", NEW i \in Range(order),
           ~stopping => ~Unstarted(i),
           NEW how \in Lives \ {"new", "accepted", "twice"}, doCancel(i, how),
           peer' \subseteq peer
    PROVE  IInv'
<1>1. /\ TypeOK /\ i \in Slots /\ IsInjective(order) /\ PacketOK
      /\ life' = [life EXCEPT ![message_vec[i].msg] = how]
      /\ order' = Erase(order, i)
      /\ UNCHANGED <<current_sync, pc, packet, stopping, handle, pool>>
  BY CompletedOnce, ListElements, Zenon DEF doCancel, IInv, StubStates, TypeOK, PacketOK
<1>2. CASE /\ message_vec[i].ser
           /\ message_vec' = [message_vec EXCEPT ![i] = CanceledStub(message_vec[i])]
           /\ UNCHANGED <<write, cache>>
  BY <1>1, <1>2, CancelStarted, ZenonT(60)
<1>3. CASE ~message_vec[i].ser /\ ~stopping /\ write' = WriteUnlinked(i)
           /\ doUnprepareMessageStub(i)
  <2>1. write \in Seq(Slots) /\ IsInjective(write) /\ i \notin Range(cache)
    BY <1>1, <1>3, SMTT(60) DEF IInv, TypeOK, ListsDisjoint
  <2>2. write' = Erase(write, i)
    <3>1. CASE Has(i, "WaitResponse")
      <4>1. i \notin Range(write)
        BY <1>3, <3>1 DEF Unstarted, IInv, QueueStates
      <4> QED BY <1>3, <3>1, <4>1, ZenonT(60) DEF WriteUnlinked, Erase
    <3>2. CASE ~Has(i, "WaitResponse")
      BY <1>3, <3>2, Zenon DEF WriteUnlinked
    <3> QED BY <3>1, <3>2
  <2>3. Without(write, write', i) /\ Without(order, order', i)
    BY <1>1, <2>1, <2>2, EraseWithout, ZenonT(60) DEF TypeOK
  <2>4. current_sync' = IF current_sync = i THEN NoSlot ELSE current_sync
    BY <1>1, <1>3, ZenonT(60) DEF IInv, CurrentSyncQueued
  <2>5. Ends(i, how) /\ PacketOK' /\ pool' \in Seq(Msgs) /\ pc' \in PCs \ {"fetch"}
    BY <1>1 DEF Ends, PacketOK, packet, TypeOK, PCs
  <2> QED BY <1>1, <1>3, <2>1, <2>3, <2>4, <2>5, FreeStep, SMTT(60)
<1>4. CASE /\ ~message_vec[i].ser /\ stopping
           /\ message_vec' = [message_vec EXCEPT ![i] = Cleared(message_vec[i])]
           /\ UNCHANGED <<write, cache>>
  <2>1. pool' \in Seq(Msgs)
    BY <1>1, ZenonT(60) DEF TypeOK
  <2> QED BY <1>1, <1>4, <2>1, StoppingClear, ZenonT(60)
<1> QED BY <1>2, <1>3, <1>4 DEF doCancel

\* A MessageId that still denotes a stub that was not cancelled denotes a
\* message that is not completed.
LEMMA DenotesLive ==
    ASSUME IInv, NEW m \in Msgs, life[m] # "new", NEW i \in Slots,
           Denotes(handle[m], i), ~Has(i, "Canceled")
    PROVE  i \in Range(order) /\ message_vec[i].msg = m
BY DEF IInv, IdStates, IdState, Denotes

\* Cancels by the application, by a response and by a stopping connection.
LEMMA CancelSteps ==
    ASSUME IInv, UniqueMod = 0, ~CancelUnstarted,
           \/ \E m \in Msgs : Cancel(m) \/ Response(m)
           \/ CancelOldest
    PROVE  IInv'
<1> USE DEF Lives
<1>1. ASSUME NEW m \in Msgs, Cancel(m) PROVE IInv'
  <2>1. PICK i \in Slots : /\ Denotes(handle[m], i) /\ (Unstarted(i) => stopping)
                           /\ doCancel(i, "canceled")
    BY <1>1, Zenon DEF Cancel
  <2>2. pc = "idle" /\ life[m] # "new" /\ peer' = peer
    BY <1>1, ZenonT(60) DEF Cancel
  <2>3. i \in Range(order)
    BY <2>1, <2>2, DenotesLive DEF doCancel
  <2> QED BY <2>1, <2>2, <2>3, CancelStep, ZenonT(60)
<1>2. ASSUME NEW m \in Msgs, Response(m) PROVE IInv'
  <2>1. pc = "idle" /\ m \in peer /\ life[m] # "new" /\ PeerState(m)
        /\ peer' = peer \ {m}
    BY <1>2, ZenonT(60) DEF Response, IInv, PeerStates
  <2>2. CASE \E i \in Slots : Denotes(handle[m], i) /\ doCancel(i, "answered")
    <3>1. PICK i \in Slots : Denotes(handle[m], i) /\ doCancel(i, "answered")
      BY <2>2, Zenon
    <3>2. i \in Range(order)
      BY <2>1, <3>1, DenotesLive, ZenonT(60) DEF doCancel
    <3>3. ~Unstarted(i)
      BY <2>1, <3>1 DEF PeerState, Unstarted
    <3> QED BY <2>1, <3>1, <3>2, <3>3, CancelStep
  <2>3. CASE UNCHANGED <<lists, pc, packet, stopping, handle, pool, life>>
    <3> USE DEF lists, packet
    <3>1. TypeOK' /\ Slots' = Slots
      BY <2>1, <2>3, ZenonT(60) DEF IInv, TypeOK, Slots
    <3>2. ListsDisjoint' /\ CurrentSyncQueued' /\ SyncExclusive' /\ OnlyFrontContinues'
          /\ QueueStates' /\ StopStates'
      BY <2>3, <3>1, ZenonT(60) DEF IInv, ListsDisjoint, CurrentSyncQueued, SyncExclusive,
                        OnlyFrontContinues, QueueStates, StopStates, Has
    <3>3. Accounted' /\ StubStates' /\ IdStates' /\ PeerStates'
      BY <2>1, <2>3, <3>1, SMTT(60) DEF IInv, Accounted, StubStates, OrderStub, IdStates, IdState,
                              PeerStates, PeerState, Has, Denotes
    <3> QED BY <3>1, <3>2, <3>3, Zenon DEF IInv
  <2> QED BY <1>2, <2>2, <2>3, Zenon DEF Response
<1>3. CASE CancelOldest
  <2>1. PICK i : i = Head(order)
    OBVIOUS
  <2>2. /\ pc = "idle" /\ stopping /\ order # <<>> /\ doCancel(i, "failed")
        /\ peer' = peer
    BY <1>3, <2>1, ZenonT(60) DEF CancelOldest
  <2>3. i \in Range(order)
    BY <2>1, <2>2, TailList DEF IInv, TypeOK
  <2> QED BY <2>2, <2>3, CancelStep
<1> QED BY <1>1, <1>2, <1>3, ZenonT(60)

\* A stopping connection gives a resendable message back to the pool.
LEMMA FetchStep == ASSUME IInv, UniqueMod = 0, FetchResendable PROVE IInv'
<1>1. PICK k \in 1..Len(order) :
        /\ order' = Erase(order, order[k])
        /\ pool' = <<message_vec[order[k]].msg>> \o pool
        /\ life' = [life EXCEPT ![message_vec[order[k]].msg] = "pool"]
        /\ message_vec' =
             [message_vec EXCEPT ![order[k]] = Cleared(message_vec[order[k]])]
  BY Zenon DEF FetchResendable
<1>2. PICK i : i = order[k]
  OBVIOUS
<1>3. /\ stopping /\ UNCHANGED <<write, cache, current_sync, pc, packet, stopping, handle>>
      /\ peer' = peer
  BY DEF FetchResendable, IInv, StopStates
<1>4. i \in Range(order) /\ TypeOK
  BY <1>2, ListElements, ZenonT(60) DEF IInv
<1>5. pool' \in Seq(Msgs)
  <2>1. message_vec[i].msg \in Msgs /\ pool \in Seq(Msgs)
    BY <1>4, CompletedOnce, ZenonT(60) DEF IInv, TypeOK
  <2> QED BY <1>1, <1>2, <2>1
<1>6. "pool" \in Lives \ {"new", "accepted", "twice"}
  BY DEF Lives
<1> QED BY <1>1, <1>2, <1>3, <1>4, <1>5, <1>6, StoppingClear, ZenonT(60)
-----------------------------------------------------------------------------
\* enqueue takes a stub that is in no list any id of which is older than it.
LEMMA EnqueuePlaces ==
    ASSUME IInv, NEW m \in Msgs, Enqueue(m)
    PROVE  \E idx \in Nat \ {0}, uniq \in Nat :
             LET stub == [msg |-> m, flags |-> FlagsOf(m), unique |-> uniq,
                          packet_count |-> 0, ser |-> FALSE, rem |-> 0]
             IN  /\ message_vec' \in Seq(Stubs) /\ Slots' = Slots \cup {idx}
                 /\ message_vec'[idx] = stub
                 /\ \A j \in Slots : j # idx => message_vec'[j] = message_vec[j]
                 /\ idx \notin Range(order) /\ idx \notin Range(write)
                 /\ cache' \in Seq(Slots) /\ IsInjective(cache')
                 /\ Range(cache') = Range(cache) \ {idx}
                 /\ order' = Append(order, idx) /\ write' = Append(write, idx)
                 /\ handle' = [handle EXCEPT ![m] = [index |-> idx, unique |-> uniq]]
                 /\ \A x \in Msgs : life[x] # "new" /\ handle[x].index = idx
                                      => handle[x].unique < uniq
<1>1. TypeOK /\ ~stopping /\ Range(order) \subseteq Slots /\ Range(write) \subseteq Slots
      /\ Range(cache) \subseteq Slots
  BY ListElements, Zenon DEF IInv, Enqueue
<1>2. cache \in Seq(Slots) /\ IsInjective(cache) /\ message_vec \in Seq(Stubs)
  BY <1>1, ZenonT(60) DEF IInv, ListsDisjoint, TypeOK
<1>3. \A x \in Msgs : life[x] # "new" => IdState(x) /\ handle[x].unique \in Nat
  BY <1>1 DEF IInv, IdStates, TypeOK, MessageIds
<1>4. FlagsOf(m) \in SUBSET Flags
  BY DEF FlagsOf, Flags
<1>5. CASE cache # <<>>
  <2>1. PICK idx : idx = Head(cache)
    OBVIOUS
  <2>2. PICK uniq : uniq = message_vec[idx].unique
    BY Zenon
  <2> DEFINE stub == [msg |-> m, flags |-> FlagsOf(m), unique |-> uniq,
                      packet_count |-> 0, ser |-> FALSE, rem |-> 0]
  <2>3. /\ message_vec' = Placed(idx, stub) /\ cache' = Tail(cache)
        /\ order' = Append(order, idx) /\ write' = Append(write, idx)
        /\ handle' = [handle EXCEPT ![m] = [index |-> idx, unique |-> uniq]]
    BY <1>5, <2>1, <2>2, Zenon DEF Enqueue, PushBack
  <2>4. /\ idx \in Slots /\ idx \in Range(cache) /\ cache' \in Seq(Slots)
        /\ IsInjective(cache') /\ Range(cache') = Range(cache) \ {idx}
    BY <1>2, <1>5, <2>1, <2>3, TailList, ZenonT(60)
  <2>5. idx \in Nat \ {0} /\ message_vec[idx] \in Stubs
    BY <1>2, <2>4 DEF Slots
  <2>6. uniq \in Nat
    BY <2>2, <2>5, ZenonT(60) DEF Stubs
  <2>7. stub \in Stubs
    BY <1>4, <2>6 DEF Stubs
  <2>8. /\ message_vec' \in Seq(Stubs) /\ Slots' = Slots /\ message_vec'[idx] = stub
        /\ \A j \in Slots : j # idx => message_vec'[j] = message_vec[j]
    <3> HIDE DEF stub
    <3>1. message_vec' = [message_vec EXCEPT ![idx] = stub]
      BY <2>3, <2>4, ZenonT(60) DEF Placed
    <3> QED BY <1>1, <2>4, <2>7, <3>1, StubReplaced, ZenonT(60)
  <2>9. idx \notin Range(order) /\ idx \notin Range(write) /\ ~Has(idx, "Canceled")
    BY <1>1, <2>4, ZenonT(60) DEF IInv, ListsDisjoint, QueueStates, Has
  <2>10. \A x \in Msgs : life[x] # "new" /\ handle[x].index = idx
                           => handle[x].unique < uniq
    BY <1>3, <2>2, <2>6, <2>9, SMTT(60) DEF IdState
  <2>11. Slots' = Slots \cup {idx}
    BY <2>4, <2>8
  <2> QED BY <2>3, <2>4, <2>5, <2>6, <2>8, <2>9, <2>10, <2>11, ZenonT(60)
<1>6. CASE cache = <<>>
  <2>1. PICK idx : idx = Len(message_vec) + 1
    BY ZenonT(60)
  <2> DEFINE stub == [msg |-> m, flags |-> FlagsOf(m), unique |-> 0,
                      packet_count |-> 0, ser |-> FALSE, rem |-> 0]
  <2>2. /\ message_vec' = Placed(idx, stub) /\ cache' = cache
        /\ order' = Append(order, idx) /\ write' = Append(write, idx)
        /\ handle' = [handle EXCEPT ![m] = [index |-> idx, unique |-> 0]]
    BY <1>6, <2>1, SMTT(60) DEF Enqueue, PushBack
  <2>3. idx \in Nat \ {0} /\ idx \notin Slots
    BY <1>2, <2>1 DEF Slots
  <2>4. stub \in Stubs
    BY <1>4, ZenonT(60) DEF Stubs
  <2>5. message_vec' = Append(message_vec, stub)
    BY <2>2, <2>3, ZenonT(60) DEF Placed
  <2> HIDE DEF stub
  <2>6. /\ message_vec' \in Seq(Stubs) /\ Slots' = Slots \cup {idx}
        /\ message_vec'[idx] = stub
        /\ \A j \in Slots : j # idx => message_vec'[j] = message_vec[j]
    <3>1. /\ message_vec' \in Seq(Stubs) /\ Len(message_vec') = Len(message_vec) + 1
          /\ \A j \in 1..Len(message_vec) : message_vec'[j] = message_vec[j]
          /\ message_vec'[Len(message_vec) + 1] = stub /\ Len(message_vec) \in Nat
      BY <1>2, <2>4, <2>5, AppendList, SMTT(60)
    <3>2. Slots = 1..Len(message_vec) /\ Slots' = 1..Len(message_vec')
      BY <1>2, <3>1 DEF Slots
    <3> QED BY <2>1, <3>1, <3>2, SMTT(60)
  <2>7. idx \notin Range(order) /\ idx \notin Range(write)
        /\ Range(cache') = Range(cache) \ {idx}
    BY <1>1, <2>2, <2>3, ZenonT(60)
  <2>8. \A x \in Msgs : life[x] # "new" /\ handle[x].index = idx
                           => handle[x].unique < 0
    BY <1>3, <2>3 DEF IdState
  <2>9. 0 \in Nat
    BY ZenonT(60)
  <2> QED BY <1>2, <2>2, <2>3, <2>6, <2>7, <2>8, <2>9, ZenonT(60) DEF stub
<1> QED BY <1>5, <1>6, ZenonT(60)

\* enqueue puts the message behind the others of order and write.
LEMMA EnqueueStep == ASSUME IInv, NEW m \in Msgs, Enqueue(m) PROVE IInv'
<1>1. PICK idx \in Nat \ {0}, uniq \in Nat :
        /\ message_vec' \in Seq(Stubs) /\ Slots' = Slots \cup {idx}
        /\ message_vec'[idx] = [msg |-> m, flags |-> FlagsOf(m), unique |-> uniq,
                                packet_count |-> 0, ser |-> FALSE, rem |-> 0]
        /\ \A j \in Slots : j # idx => message_vec'[j] = message_vec[j]
        /\ idx \notin Range(order) /\ idx \notin Range(write)
        /\ cache' \in Seq(Slots) /\ IsInjective(cache')
        /\ Range(cache') = Range(cache) \ {idx}
        /\ order' = Append(order, idx) /\ write' = Append(write, idx)
        /\ handle' = [handle EXCEPT ![m] = [index |-> idx, unique |-> uniq]]
        /\ \A x \in Msgs : life[x] # "new" /\ handle[x].index = idx
                             => handle[x].unique < uniq
  BY EnqueuePlaces, ZenonT(60)
<1>2. /\ pc \in {"idle", "complete"} /\ ~stopping /\ TakesMessage(m)
      /\ life' = [life EXCEPT ![m] = "accepted"]
      /\ UNCHANGED <<current_sync, pc, packet, stopping, peer, pool>>
  BY DEF Enqueue
<1>3. /\ TypeOK /\ Range(order) \subseteq Slots /\ Range(write) \subseteq Slots
      /\ Range(cache) \subseteq Slots
      /\ \A k \in 1..Len(write) : write[k] \in Range(write)
      /\ Len(write) \in Nat
  BY ListElements, ZenonT(60) DEF IInv
<1>4. /\ message_vec'[idx].msg = m /\ ~message_vec'[idx].ser
      /\ message_vec'[idx].unique = uniq /\ message_vec'[idx].packet_count = 0
      /\ ~Has(idx, "Canceled")' /\ ~Has(idx, "DoneSend")'
      /\ Has(idx, "WaitResponse")' => m \in Request
  BY <1>1 DEF Has, FlagsOf
<1>5. /\ order \in Seq(Slots') /\ write \in Seq(Slots') /\ cache' \in Seq(Slots')
      /\ idx \in Slots' /\ IsInjective(order) /\ IsInjective(write)
  <2>1. Slots \subseteq Slots' /\ idx \in Slots'
    BY <1>1
  <2>2. \A q \in Seq(Slots) : q \in Seq(Slots')
    BY <2>1, WiderList, ZenonT(60)
  <2> QED BY <1>1, <1>2, <1>3, <2>1, <2>2, ZenonT(60) DEF TypeOK, IInv, ListsDisjoint
<1>6. /\ order' \in Seq(Slots') /\ IsInjective(order')
      /\ Range(order') = Range(order) \cup {idx}
      /\ write' \in Seq(Slots') /\ IsInjective(write')
      /\ Range(write') = Range(write) \cup {idx}
      /\ Len(write') = Len(write) + 1 /\ write'[Len(write) + 1] = idx
      /\ \A k \in 1..Len(write) : write'[k] = write[k]
  BY <1>1, <1>5, AppendList, SMTT(60)
<1>7. /\ handle' \in [Msgs -> MessageIds] /\ life' \in [Msgs -> Lives]
      /\ handle'[m].index = idx /\ handle'[m].unique = uniq /\ life'[m] = "accepted"
      /\ \A x \in Msgs : x # m => handle'[x] = handle[x] /\ life'[x] = life[x]
  <2>1. [index |-> idx, unique |-> uniq] \in MessageIds /\ "accepted" \in Lives
    BY Zenon DEF MessageIds, Lives
  <2> QED BY <1>1, <1>2, <1>3, <2>1, ZenonT(60) DEF TypeOK
<1>8. \A j \in Range(order) : /\ j \in Slots /\ j # idx /\ OrderStub(j)
                              /\ message_vec[j].msg # m
  <2>1. life[m] # "accepted"
    BY <1>2, Zenon DEF TakesMessage
  <2> QED BY <1>1, <1>3, <2>1, ZenonT(60) DEF IInv, StubStates, Accounted
<1>9. m \notin peer
  BY <1>2, <1>3, MsgsAssumption, ZenonT(60) DEF IInv, PeerStates, TypeOK, TakesMessage
<1>vec. /\ Slots' = Slots \cup {idx} /\ idx \notin Range(order) /\ idx \notin Range(write)
        /\ \A j \in Slots : j # idx => message_vec'[j] = message_vec[j]
        /\ Range(cache') = Range(cache) \ {idx} /\ IsInjective(cache')
  BY <1>1, Zenon
<1>age. \A x \in Msgs : life[x] # "new" /\ handle[x].index = idx
                          => handle[x].unique < uniq
  BY <1>1, Zenon
<1>10. TypeOK'
  <2>1. current_sync' \in Slots' \cup {NoSlot}
    BY <1>vec, <1>2, <1>3, ZenonT(60) DEF TypeOK
  <2>2. stopping' \in BOOLEAN /\ peer' \subseteq Request /\ pool' \in Seq(Msgs)
        /\ pc' \in PCs /\ PacketOK'
    BY <1>2, <1>3, SMTT(60) DEF TypeOK, PacketOK, packet
  <2>3. message_vec' \in Seq(Stubs)
    BY <1>1, ZenonT(60)
  <2> QED BY <1>5, <1>6, <1>7, <2>1, <2>2, <2>3, ZenonT(60) DEF TypeOK, PacketOK
<1>11. ListsDisjoint'
  BY <1>vec, <1>2, <1>3, <1>4, <1>6, ZenonT(60) DEF IInv, ListsDisjoint, Has
<1>12. CurrentSyncQueued' /\ SyncExclusive'
  BY <1>vec, <1>2, <1>3, <1>4, <1>6, ZenonT(60) DEF IInv, CurrentSyncQueued, SyncExclusive, Has
<1>13. OnlyFrontContinues'
  <2> SUFFICES ASSUME NEW k \in 1..Len(write'), message_vec'[write'[k]].packet_count # 0
               PROVE  k = 1
    BY Zenon DEF OnlyFrontContinues
  <2>1. k # Len(write) + 1
    BY <1>4, <1>6, ZenonT(60)
  <2>2. k \in 1..Len(write)
    BY <1>3, <1>6, <2>1, SMTT(60)
  <2>3. write'[k] = write[k] /\ write[k] \in Slots /\ write[k] # idx
    BY <1>vec, <1>3, <1>6, <2>2, ZenonT(60)
  <2> QED BY <1>vec, <1>2, <2>2, <2>3, ZenonT(60) DEF IInv, OnlyFrontContinues
<1>14. Accounted'
  <2> SUFFICES ASSUME NEW x \in Msgs
               PROVE  /\ life'[x] # "twice"
                      /\ life'[x] = "accepted"
                            <=> \E j \in Range(order') : message_vec'[j].msg = x
    BY Zenon DEF Accounted
  <2>1. CASE x = m
    BY <1>4, <1>6, <1>7, <2>1, ZenonT(60)
  <2>2. CASE x # m
    <3>1. /\ life[x] # "twice"
          /\ life[x] = "accepted" <=> \E j \in Range(order) : message_vec[j].msg = x
      BY Zenon DEF IInv, Accounted
    <3>2. \A j \in Range(order) : message_vec'[j].msg = message_vec[j].msg
      BY <1>vec, <1>8, ZenonT(60)
    <3>3. (\E j \in Range(order) : message_vec[j].msg = x)
             <=> \E j \in Range(order') : message_vec'[j].msg = x
      BY <1>4, <1>6, <2>2, <3>2, ZenonT(60)
    <3> QED BY <1>7, <2>2, <3>1, <3>3, ZenonT(60)
  <2> QED BY <2>1, <2>2, ZenonT(60)
<1>15. StubStates'
  <2>1. ASSUME NEW j \in Range(order) PROVE OrderStub(j)'
    <3>1. OrderStub(j) /\ message_vec'[j] = message_vec[j] /\ message_vec[j].msg # m
          /\ j \in Slots
      BY <1>vec, <1>8, Zenon
    <3> QED BY <1>vec, <1>7, <3>1, ZenonT(60) DEF OrderStub, Has, Denotes
  <2>2. OrderStub(idx)'
    BY <1>4, <1>5, <1>7 DEF OrderStub, Denotes
  <2>3. ASSUME NEW j \in Slots', j \notin Range(order') PROVE message_vec'[j].msg = NoMsg
    BY <1>vec, <1>6, <2>3, ZenonT(60) DEF IInv, StubStates
  <2> QED BY <1>6, <2>1, <2>2, <2>3, ZenonT(60) DEF StubStates
<1>16. QueueStates'
  <2>1. \A j \in Slots : j # idx => (\A flag : Has(j, flag)' <=> Has(j, flag))
    BY <1>vec, Zenon DEF Has
  <2>2. \A j \in Range(cache') : ~message_vec'[j].ser /\ message_vec'[j].flags = {}
    BY <1>vec, <1>2, <1>3, ZenonT(60) DEF IInv, QueueStates
  <2>3. \A j \in Range(write') :
          /\ j \in Range(order') => ~Has(j, "DoneSend")'
          /\ ~message_vec'[j].ser => message_vec'[j].packet_count = 0
    BY <1>vec, <1>2, <1>3, <1>4, <1>6, <2>1, ZenonT(60) DEF IInv, QueueStates
  <2>4. \A j \in Range(order') : j \notin Range(write') =>
          ~message_vec'[j].ser /\ Has(j, "DoneSend")' /\ Has(j, "WaitResponse")'
    BY <1>vec, <1>2, <1>3, <1>6, <2>1, ZenonT(60) DEF IInv, QueueStates
  <2> QED BY <2>2, <2>3, <2>4, Zenon DEF QueueStates
<1>17. ASSUME NEW x \in Msgs, life'[x] # "new" PROVE IdState(x)'
  <2>1. CASE x = m
    BY <1>4, <1>5, <1>6, <1>7, <2>1, SMTT(60) DEF IdState
  <2>2. CASE x # m
    <3>1. handle'[x] = handle[x] /\ IdState(x) /\ handle[x].unique \in Nat
          /\ life[x] # "new"
      BY <1>3, <1>7, <1>17, <2>2, ZenonT(60) DEF IInv, IdStates, TypeOK, MessageIds
    <3>2. CASE handle[x].index = idx
      <4>1. handle[x].unique < uniq
        BY <1>age, <3>1, <3>2, ZenonT(60)
      <4>2. handle[x].unique <= uniq /\ handle[x].unique # uniq
        BY <3>1, <4>1
      <4> QED BY <1>4, <1>5, <3>1, <3>2, <4>2, ZenonT(60) DEF IdState
    <3>3. CASE handle[x].index # idx
      BY <1>vec, <1>6, <3>1, <3>3, ZenonT(60) DEF IdState, Has
    <3> QED BY <3>2, <3>3, ZenonT(60)
  <2> QED BY <2>1, <2>2, ZenonT(60)
<1>18. ASSUME NEW x \in peer PROVE life'[x] # "new" /\ PeerState(x)'
  <2>1. x \in Msgs /\ x # m /\ life[x] # "new" /\ PeerState(x)
    BY <1>3, <1>9, MsgsAssumption, ZenonT(60) DEF IInv, PeerStates, TypeOK
  <2>2. handle'[x] = handle[x] /\ life'[x] = life[x] /\ handle[x].unique \in Nat
    BY <1>3, <1>7, <2>1, ZenonT(60) DEF TypeOK, MessageIds
  <2>3. ~Denotes(handle[x], idx)'
    <3>1. handle[x].index = idx => handle[x].unique # uniq
      BY <1>age, <2>1, <2>2, SMTT(60)
    <3> QED BY <1>4, <2>2, <3>1, ZenonT(60) DEF Denotes
  <2> QED BY <1>vec, <2>1, <2>2, <2>3, ZenonT(60) DEF PeerState, Has, Denotes
<1>19. IdStates' /\ PeerStates' /\ StopStates'
  BY <1>2, <1>17, <1>18, ZenonT(60) DEF IInv, IdStates, PeerStates, StopStates
<1> QED BY <1>10, <1>11, <1>12, <1>13, <1>14, <1>15, <1>16, <1>19, ZenonT(60) DEF IInv
-----------------------------------------------------------------------------
\* The invariant is inductive, one action at a time.
LEMMA NextIInv ==
    ASSUME IInv, UniqueMod = 0, ~CancelUnstarted, [Next]_vars PROVE IInv'
<1>1. ASSUME NEW m \in Msgs, Enqueue(m) PROVE IInv'
  BY <1>1, EnqueueStep
<1>2. ASSUME NEW m \in Msgs, Cancel(m) \/ Response(m) PROVE IInv'
  BY <1>2, CancelSteps
<1>3. CASE CancelOldest
  BY <1>3, CancelSteps
<1>4. ASSUME NEW k \in BOOLEAN, StartWrite(k) PROVE IInv'
  BY <1>4, PacketSteps, Zenon
<1>5. CASE PacketStep \/ Callback \/ SerializeFails \/ FillDone \/ FetchDone
  BY <1>5, PacketSteps, ZenonT(60)
<1>6. CASE RotateSync
  BY <1>6, RotateSyncStep
<1>7. CASE DropCanceled
  BY <1>7, DropCanceledStep
<1>8. CASE SerializePart
  BY <1>8, SerializePartStep, ZenonT(60)
<1>9. CASE SerializeLast
  BY <1>9, SerializeLastStep
<1>10. ASSUME NEW fetch \in BOOLEAN, Stop(fetch) PROVE IInv'
  BY <1>10, StopStep, ZenonT(60)
<1>11. CASE FetchResendable
  BY <1>11, FetchStep
<1>12. CASE Stopped \/ UNCHANGED vars
  <2>1. UNCHANGED <<lists, outside>> /\ UNCHANGED <<packet, pc>>
    BY <1>12, ZenonT(60) DEF Stopped, vars
  <2>2. PacketOK' /\ pc' \in PCs /\ StopStates'
    BY <2>1 DEF IInv, TypeOK, PacketOK, StopStates, packet, outside
  <2> QED BY <2>1, <2>2, PacketOnly, Zenon
<1> QED BY <1>1, <1>2, <1>3, <1>4, <1>5, <1>6, <1>7, <1>8, <1>9, <1>10, <1>11, <1>12, ZenonT(60)
        DEF Next, FillStep

\* The invariant holds in every reachable state.
THEOREM Invariance == UniqueMod = 0 /\ ~CancelUnstarted /\ Spec => []IInv
<1> SUFFICES ASSUME UniqueMod = 0, ~CancelUnstarted PROVE Spec => []IInv
  OBVIOUS
<1>1. IInv /\ [Next]_vars => IInv'
  BY NextIInv
<1> QED BY <1>1, InitIInv, PTL DEF Spec

\* The shape of the writer's state, for any messages and any limits.
THEOREM TypeCorrect == UniqueMod = 0 /\ ~CancelUnstarted /\ Spec => []TypeOK
<1>1. IInv => TypeOK
  BY Zenon DEF IInv
<1> QED BY <1>1, Invariance, PTL

\* The lists sharing a link never share a stub, and no stub is lost.
THEOREM ListsStayDisjoint == UniqueMod = 0 /\ ~CancelUnstarted /\ Spec => []ListsDisjoint
<1>1. IInv => ListsDisjoint
  BY DEF IInv
<1> QED BY <1>1, Invariance, PTL

\* At most one synchronous message is on the wire, and the one that holds the
\* synchronous slot is queued, so that the others cannot wait for it for ever.
THEOREM OneSynchronous ==
    UniqueMod = 0 /\ ~CancelUnstarted /\ Spec => [](SyncExclusive /\ CurrentSyncQueued)
<1>1. IInv => SyncExclusive /\ CurrentSyncQueued
  BY DEF IInv
<1> QED BY <1>1, Invariance, PTL

\* A continued packet always continues the message of the packet before it.
THEOREM ContinuesTheFront ==
    UniqueMod = 0 /\ ~CancelUnstarted /\ Spec => []OnlyFrontContinues
<1>1. IInv => OnlyFrontContinues
  BY ZenonT(60) DEF IInv
<1> QED BY <1>1, Invariance, PTL

\* Every message that was accepted is completed at most once and is not lost.
THEOREM CompletedAtMostOnce == UniqueMod = 0 /\ ~CancelUnstarted /\ Spec => []Accounted
<1>1. IInv => Accounted
  BY ZenonT(60) DEF IInv
<1> QED BY <1>1, Invariance, PTL

\* A MessageId never denotes another message than its own.
THEOREM IdsStayUnique == UniqueMod = 0 /\ ~CancelUnstarted /\ Spec => []IdsNeverAlias
<1>1. IInv => IdsNeverAlias
  <2> SUFFICES ASSUME IInv, NEW m \in Msgs, NEW i \in Slots, life[m] # "new",
                      Denotes(handle[m], i)
               PROVE  \/ message_vec[i].msg = m
                      \/ message_vec[i].msg = NoMsg /\ life[m] # "accepted"
    BY Zenon DEF IdsNeverAlias
  <2>1. CASE ~Has(i, "Canceled")
    BY <2>1, DenotesLive, ZenonT(60)
  <2>2. CASE Has(i, "Canceled")
    <3>1. i \notin Range(order) /\ message_vec[i].msg = NoMsg
      BY <2>2, Zenon DEF IInv, StubStates, OrderStub
    <3>2. ASSUME life[m] = "accepted" PROVE FALSE
      <4>1. PICK j \in Range(order) : message_vec[j].msg = m
        BY <3>2, ZenonT(60) DEF IInv, Accounted
      <4>2. j = i
        BY <4>1 DEF IInv, StubStates, OrderStub, Denotes
      <4> QED BY <3>1, <4>2, ZenonT(60)
    <3> QED BY <3>1, <3>2, Zenon
  <2> QED BY <2>1, <2>2, Zenon
<1> QED BY <1>1, Invariance, PTL

\* While a packet is filled, freesz is ahead of the room that is left by the bytes of
\* the switches, one for every message but the first.
SwitchBytes == IF pkt = <<>> THEN 0 ELSE Len(pkt) - 1
Uncounted == pc \in {"fill", "complete"} => room = freesz - SwitchBytes

LEMMA AppendedSwitch ==
    ASSUME IInv, Filling, Uncounted, NEW n \in Int, NEW x \in Chunks, pkt' = Append(pkt, x),
           room' = RoomAfterSwitch - n, freesz' = freesz - n
    PROVE  Uncounted'
<1>1. pkt \in Seq(Chunks) /\ room \in Int /\ freesz \in Int /\ room = freesz - SwitchBytes
  BY FrontFacts, SMTT(60) DEF PacketOK, Filling, Uncounted
<1>2. pkt' # <<>> /\ Len(pkt') = Len(pkt) + 1 /\ Len(pkt) \in Nat
  BY <1>1
<1>3. SwitchBytes' = Len(pkt)
  BY <1>2 DEF SwitchBytes
<1>4. pkt = <<>> => Len(pkt) = 0
  OBVIOUS
<1>5. RoomAfterSwitch = freesz - Len(pkt)
  BY <1>1, <1>2, <1>4 DEF RoomAfterSwitch, SwitchBytes
<1> QED BY <1>1, <1>2, <1>3, <1>5 DEF Uncounted

LEMMA ChunkUncounted ==
    ASSUME IInv, Uncounted, NEW i, NEW n \in Int, Chunk(i, n) PROVE Uncounted'
<1>1. /\ Filling /\ i = Head(write) /\ n > 0
      /\ pkt' = Append(pkt, [type |-> MsgSwitch(i), msg |-> message_vec[i].msg, n |-> n])
      /\ room' = RoomAfterSwitch - n /\ freesz' = freesz - n
  BY DEF Chunk, FreeAfter
<1>2. message_vec[i] \in Stubs /\ MsgSwitch(i) \in SwitchTypes
  BY <1>1, ChunkFacts, FrontFacts, ZenonT(60)
<1>3. [type |-> MsgSwitch(i), msg |-> message_vec[i].msg, n |-> n] \in Chunks
  BY <1>1, <1>2, SMTT(60) DEF Chunks, Stubs
<1> QED BY <1>1, <1>3, AppendedSwitch, Zenon

LEMMA NextUncounted == ASSUME IInv, Uncounted, [Next]_vars PROVE Uncounted'
<1>1. CASE UNCHANGED <<pkt, room, freesz>> /\ (pc' = pc \/ pc = "complete")
  BY <1>1 DEF Uncounted, SwitchBytes
<1>2. CASE pc' \notin {"fill", "complete"}
  BY <1>2 DEF Uncounted
<1>3. CASE BeginPacket
  BY <1>3 DEF BeginPacket, Uncounted, SwitchBytes, IInv, TypeOK
<1>4. CASE DropCanceled
  <2>1. PICK i : /\ i = Head(write) /\ Filling /\ room' = RoomAfterSwitch /\ UNCHANGED freesz
                 /\ pkt' = Append(pkt, [type |-> MsgSwitch(i), msg |-> NoMsg, n |-> 0])
    BY <1>4 DEF DropCanceled
  <2>2. RoomAfterSwitch \in Int /\ freesz \in Int /\ MsgSwitch(i) \in SwitchTypes
    BY <2>1, FrontFacts DEF PacketOK
  <2>3. [type |-> MsgSwitch(i), msg |-> NoMsg, n |-> 0] \in Chunks
    BY <2>2 DEF Chunks
  <2>4. room' = RoomAfterSwitch - 0 /\ freesz' = freesz - 0
    BY <2>1, <2>2
  <2> QED BY <2>1, <2>3, <2>4, AppendedSwitch
<1>5. CASE SerializePart
  <2>1. Filling /\ Chunk(Head(write), RoomAfterSwitch)
    BY <1>5 DEF SerializePart, Chunk
  <2>2. RoomAfterSwitch \in Int
    BY <2>1, FrontFacts, Zenon
  <2> QED BY <2>1, <2>2, ChunkUncounted, Zenon
<1>6. CASE SerializeLast
  <2>1. PICK i : i = Head(write) /\ Filling /\ ~Has(i, "Canceled") /\ Chunk(i, Remaining(i))
    BY <1>6 DEF SerializeLast, Chunk
  <2>2. i \in Slots /\ i \in Range(write) /\ ~stopping
    BY <2>1, FrontFacts, ZenonT(60)
  <2>3. i \in Range(order)
    BY <2>1, <2>2, SMTT(60) DEF IInv, ListsDisjoint
  <2>4. message_vec[i] \in Stubs /\ message_vec[i].msg \in Msgs
    BY <2>2, <2>3, SMTT(60) DEF IInv, StubStates, OrderStub, TypeOK, Slots
  <2>5. Remaining(i) \in Int
    BY <2>4, MsgsAssumption, SMTT(60) DEF Remaining, Stubs
  <2> QED BY <2>1, <2>5, ChunkUncounted, Zenon
<1>7. ASSUME NEW m \in Msgs, Enqueue(m) \/ Cancel(m) \/ Response(m)
      PROVE  UNCHANGED <<pkt, room, freesz, pc>>
  BY <1>7, ZenonT(60) DEF Enqueue, Cancel, Response, doCancel, packet
<1>8. CASE RotateSync \/ FetchResendable \/ CancelOldest \/ Stopped \/ UNCHANGED vars
  <2>1. UNCHANGED <<pkt, room, freesz, pc>>
    BY <1>8, ZenonT(60) DEF RotateSync, FetchResendable, CancelOldest, doCancel, Stopped, vars, packet
  <2> QED BY <1>1, <2>1, Zenon
<1>9. CASE Callback
  <2>1. UNCHANGED <<pkt, room, freesz>> /\ pc = "complete"
    BY <1>9, ZenonT(60) DEF Callback, CompleteReturns
  <2> QED BY <1>1, <2>1, Zenon
<1>10. CASE \/ \E k \in BOOLEAN : StartWrite(k)
            \/ SerializeFails \/ FillDone \/ FetchDone \/ EmptyPacket \/ CompressFails \/ WriteReturns
            \/ \E s \in 1..BufSize : StorePacket(s)
            \/ \E fetch \in BOOLEAN : Stop(fetch)
  <2>1. pc' \in {"write", "bogus", "packet", "idle", "return", "stop", "fetch"}
    BY <1>10, ZenonT(60) DEF StartWrite, SerializeFails, FillDone, FetchDone, EmptyPacket, CompressFails,
       WriteReturns, StorePacket, Stop
  <2> QED BY <1>2, <2>1
<1> QED BY <1>1, <1>3, <1>4, <1>5, <1>6, <1>7, <1>8, <1>9, <1>10, ZenonT(60)
        DEF Next, FillStep, PacketStep

\* For any messages, buffer and limits, a message finds no room where freesz promises some
\* only in a packet that already has MinFree messages: while packets have fewer, the switch
\* bytes doFillPacket does not count are harmless.
THEOREM RoomUnlessCrowded ==
    UniqueMod = 0 /\ ~CancelUnstarted /\ Spec => []NoRoomOnlyWhenCrowded
<1> SUFFICES ASSUME UniqueMod = 0, ~CancelUnstarted PROVE Spec => []NoRoomOnlyWhenCrowded
  OBVIOUS
<1>1. Init => Uncounted
  BY DEF Init, Uncounted
<1>2. IInv /\ Uncounted /\ [Next]_vars => Uncounted'
  BY NextUncounted
<1>3. IInv /\ Uncounted => NoRoomOnlyWhenCrowded
  <2> SUFFICES ASSUME IInv, Uncounted, Filling, RoomAfterSwitch <= 0 PROVE Len(pkt) >= MinFree
    BY Zenon DEF NoRoomOnlyWhenCrowded
  <2>1. pkt \in Seq(Chunks) /\ room \in Int /\ freesz \in Int /\ freesz >= MinFree
        /\ room = freesz - SwitchBytes
    BY FrontFacts, SMTT(60) DEF PacketOK, Filling, Uncounted
  <2>2. Len(pkt) \in Nat /\ MinFree \in Nat \ {0} /\ (pkt = <<>> => Len(pkt) = 0)
    BY <2>1, BoundsAssumption
  <2>3. RoomAfterSwitch = freesz - Len(pkt)
    BY <2>1, <2>2 DEF RoomAfterSwitch, SwitchBytes
  <2> QED BY <2>1, <2>2, <2>3
<1>4. Spec => []IInv
  BY Invariance, Zenon
<1> QED BY <1>1, <1>2, <1>3, <1>4, PTL DEF Spec
=============================================================================
