------------------------- MODULE MessageWriterInv --------------------------
(***************************************************************************)
(* The inductive invariant of MessageWriter, and the steps that keep it by *)
(* filling packets: those that rotate the write list, stop the connection  *)
(* or free a stub, and those that put a message in a packet.               *)
(***************************************************************************)
EXTENDS MessageWriter, InnerListProofs

\* A stub in order holds a message that is not completed ...
OrderStub(i) ==
    LET m == message_vec[i].msg IN
    /\ m \in Msgs
    /\ ~Has(i, "Canceled")
    /\ Denotes(handle[m], i)
    /\ life[m] # "new"
    /\ Has(i, "WaitResponse") => m \in Request

\* ... and any other stub holds none.
StubStates ==
    /\ IsInjective(order)
    /\ \A i \in Range(order) : OrderStub(i)
    /\ \A i \in Slots : i \notin Range(order) => message_vec[i].msg = NoMsg

\* What the lists a stub is in say about how far its message is.
QueueStates ==
    ~stopping =>
        /\ \A i \in Range(cache) : ~message_vec[i].ser /\ message_vec[i].flags = {}
        /\ \A i \in Range(write) :
             /\ i \in Range(order) => ~Has(i, "DoneSend")
             /\ ~message_vec[i].ser => message_vec[i].packet_count = 0
        /\ \A i \in Range(order) : i \notin Range(write) =>
             ~message_vec[i].ser /\ Has(i, "DoneSend") /\ Has(i, "WaitResponse")

\* A MessageId is never ahead of its stub, and when it still denotes the stub
\* the stub holds its message or was cancelled.
IdState(m) ==
    LET i == handle[m].index IN
    /\ i \in Slots
    /\ handle[m].unique <= message_vec[i].unique
    /\ handle[m].unique = message_vec[i].unique =>
          Has(i, "Canceled") \/ (i \in Range(order) /\ message_vec[i].msg = m)
IdStates == \A m \in Msgs : life[m] # "new" => IdState(m)

\* A request the peer can answer was sent completely.
PeerState(m) ==
    \A i \in Slots : Denotes(handle[m], i) =>
        ~message_vec[i].ser /\ Has(i, "DoneSend") /\ ~Has(i, "Canceled")
PeerStates == \A m \in peer : life[m] # "new" /\ PeerState(m)

\* write() is over when the connection stops.
StopStates ==
    /\ stopping => pc \in {"idle", "fetch"}
    /\ pc = "fetch" => stopping

\* The inductive invariant.
IInv ==
    /\ TypeOK /\ ListsDisjoint /\ CurrentSyncQueued /\ SyncExclusive
    /\ OnlyFrontContinues /\ Accounted
    /\ StubStates /\ QueueStates /\ IdStates /\ PeerStates /\ StopStates
-----------------------------------------------------------------------------
\* The part of the type invariant that speaks of the packet being filled.
PacketOK ==
    /\ pkt \in Seq(Chunks) /\ out \in Seq(Packets)
    /\ room \in Int /\ freesz \in Int /\ data \in Int
    /\ err \in BOOLEAN /\ keep \in BOOLEAN

\* Steps of write() between two messages change neither stubs nor lists.
LEMMA PacketOnly ==
    ASSUME IInv, UNCHANGED <<lists, outside>>, PacketOK', pc' \in PCs,
           StopStates'
    PROVE  IInv'
<1> USE DEF lists, outside
<1>1. TypeOK'
  BY Zenon DEF IInv, TypeOK, PacketOK, Slots
<1>2. ListsDisjoint' /\ CurrentSyncQueued' /\ SyncExclusive' /\ OnlyFrontContinues'
  BY SMTT(60) DEF IInv, ListsDisjoint, CurrentSyncQueued, SyncExclusive, OnlyFrontContinues,
         Slots, Has
<1>3. Accounted' /\ StubStates' /\ QueueStates' /\ IdStates' /\ PeerStates'
  BY DEF IInv, Accounted, StubStates, OrderStub, QueueStates, IdStates, IdState,
         PeerStates, PeerState, Slots, Has, Denotes
<1> QED BY <1>1, <1>2, <1>3 DEF IInv

\* A stub is overwritten, the others stay.
LEMMA StubReplaced ==
    ASSUME TypeOK, NEW i \in Slots, NEW stub \in Stubs,
           message_vec' = [message_vec EXCEPT ![i] = stub]
    PROVE  /\ message_vec' \in Seq(Stubs) /\ Slots' = Slots
           /\ message_vec'[i] = stub
           /\ \A j \in Slots : j # i => message_vec'[j] = message_vec[j]
BY ExceptList DEF TypeOK, Slots

\* The stub doUnprepareMessageStub leaves.
LEMMA ClearedStub ==
    ASSUME TypeOK, NEW i \in Slots, UniqueMod = 0
    PROVE  LET stub == Cleared(message_vec[i])
           IN  /\ stub \in Stubs /\ stub.msg = NoMsg /\ stub.flags = {} /\ ~stub.ser
               /\ stub.packet_count = 0
               /\ stub.unique = message_vec[i].unique + 1
               /\ message_vec[i].unique \in Nat
<1>1. message_vec[i] \in Stubs
  BY DEF TypeOK, Slots
<1> QED BY <1>1 DEF Stubs, Cleared, NextUnique

\* The elements of the three lists are slots.
LEMMA ListElements ==
    ASSUME TypeOK
    PROVE  /\ Range(order) \subseteq Slots /\ Range(write) \subseteq Slots
           /\ Range(cache) \subseteq Slots
           /\ \A k \in 1..Len(write) : write[k] \in Range(write)
           /\ \A k \in 1..Len(order) : order[k] \in Range(order)
           /\ Len(write) \in Nat /\ Len(order) \in Nat
BY DEF TypeOK, Range

\* A writer that was just prepared: no stubs, empty lists.
LEMMA InitIInv == Init => IInv
<1> SUFFICES ASSUME Init PROVE IInv
  OBVIOUS
<1>1. /\ Slots = {} /\ Range(order) = {} /\ Range(write) = {} /\ Range(cache) = {}
      /\ IsInjective(order) /\ IsInjective(write) /\ IsInjective(cache)
      /\ Len(write) = 0
  BY DEF Init, Slots, Range, IsInjective
<1>2. TypeOK
  <2>1. err \in BOOLEAN /\ keep \in BOOLEAN /\ stopping \in BOOLEAN
    BY Zenon DEF Init
  <2>2. handle \in [Msgs -> MessageIds] /\ life \in [Msgs -> Lives]
    BY DEF Init, MessageIds, Lives, NoSlot
  <2>3. <<>> \in Seq(Stubs) /\ <<>> \in Seq(Slots) /\ <<>> \in Seq(Chunks)
        /\ <<>> \in Seq(Packets) /\ <<>> \in Seq(Msgs)
    OBVIOUS
  <2> QED BY <2>1, <2>2, <2>3 DEF Init, TypeOK, PCs
<1>3. ListsDisjoint /\ CurrentSyncQueued /\ SyncExclusive /\ OnlyFrontContinues
  BY <1>1 DEF Init, ListsDisjoint, CurrentSyncQueued, SyncExclusive, OnlyFrontContinues
<1>4. Accounted /\ StubStates /\ QueueStates /\ IdStates /\ PeerStates /\ StopStates
  BY <1>1 DEF Init, Accounted, StubStates, QueueStates, IdStates, PeerStates, StopStates
<1> QED BY <1>2, <1>3, <1>4 DEF IInv

\* The steps of write() that only fill, store or drop the packet.
LEMMA PacketSteps ==
    ASSUME IInv,
           \/ \E k \in BOOLEAN : StartWrite(k)
           \/ PacketStep \/ Callback \/ SerializeFails \/ FillDone \/ FetchDone
    PROVE  IInv'
<1>1. TypeOK /\ PacketOK /\ StopStates
  BY DEF IInv, TypeOK, PacketOK
<1> SUFFICES UNCHANGED <<lists, outside>> /\ PacketOK' /\ pc' \in PCs /\ StopStates'
  BY PacketOnly
<1>2. ASSUME NEW k \in BOOLEAN, StartWrite(k)
      PROVE UNCHANGED <<lists, outside>> /\ PacketOK' /\ pc' \in PCs /\ StopStates'
  <2>1. err' \in BOOLEAN /\ keep' \in BOOLEAN
    BY <1>2, Zenon DEF StartWrite
  <2>2. out' \in Seq(Packets) /\ UNCHANGED <<lists, outside, pkt, freesz, data>>
        /\ room' = BufSize /\ pc = "idle" /\ pc' = "write" /\ ~stopping
    BY <1>2 DEF StartWrite
  <2> QED BY <1>1, <2>1, <2>2, BoundsAssumption DEF PacketOK, PCs, StopStates, outside
<1>3. CASE BeginPacket
  BY <1>1, <1>3, BoundsAssumption DEF BeginPacket, PacketOK, PCs, StopStates, outside
<1>4. ASSUME NEW z \in 1..BufSize, StorePacket(z)
      PROVE UNCHANGED <<lists, outside>> /\ PacketOK' /\ pc' \in PCs /\ StopStates'
  <2>1. [chunks |-> pkt, size |-> z] \in Packets
    BY <1>1 DEF PacketOK, Packets
  <2>2. out' \in Seq(Packets)
    BY <1>1, <1>4, <2>1, SMTT(60) DEF StorePacket, PacketOK
  <2>3. UNCHANGED <<lists, outside, freesz, data, err, keep>> /\ pkt' = <<>>
        /\ room' = data - z /\ pc = "packet" /\ pc' = "write"
    BY <1>4 DEF StorePacket
  <2> QED BY <1>1, <2>2, <2>3 DEF PacketOK, PCs, StopStates, outside
<1>5. CASE EmptyPacket
  BY <1>1, <1>5, BoundsAssumption, SMTT(60) DEF EmptyPacket, PacketOK, PCs, StopStates, outside
<1>6. CASE CompressFails
  BY <1>1, <1>6, BoundsAssumption DEF CompressFails, PacketOK, PCs, StopStates, outside
<1>7. CASE WriteReturns
  <2>1. keep' \in BOOLEAN
    BY <1>7, Zenon DEF WriteReturns
  <2>2. out' \in Seq(Packets) /\ UNCHANGED <<lists, outside, pkt, err>>
        /\ room' = 0 /\ freesz' = 0 /\ data' = 0
        /\ pc \in {"return", "write"} /\ pc' \in {"idle", "stop"}
    BY <1>7 DEF WriteReturns
  <2> QED BY <1>1, <2>1, <2>2 DEF PacketOK, PCs, StopStates, outside
<1>8. ASSUME NEW e \in BOOLEAN, CompleteReturns(e)
      PROVE UNCHANGED <<lists, outside>> /\ PacketOK' /\ pc' \in PCs /\ StopStates'
  BY <1>1, <1>8, SMTT(60) DEF CompleteReturns, PacketOK, PCs, StopStates, outside
<1>9. CASE SerializeFails
  BY <1>1, <1>9, SMTT(60) DEF SerializeFails, Filling, PacketOK, PCs, StopStates, packet, outside
<1>10. CASE FillDone
  BY <1>1, <1>10 DEF FillDone, PacketOK, PCs, StopStates, packet, outside
<1>11. CASE FetchDone
  BY <1>1, <1>11 DEF FetchDone, PacketOK, PCs, StopStates, packet, outside
<1> QED BY <1>2, <1>3, <1>4, <1>5, <1>6, <1>7, <1>8, <1>9, <1>10, <1>11, ZenonT(60)
        DEF PacketStep, Callback

\* Moving a stub that has sent no packet in a row from the front of write to its
\* back keeps the lists.
LEMMA RotateSyncStep == IInv /\ RotateSync => IInv'
<1> SUFFICES ASSUME IInv, RotateSync PROVE IInv'
  OBVIOUS
<1>1. /\ write # <<>> /\ write' = Rotate(write) /\ MustWait(Head(write)) /\ pc = "fill"
      /\ UNCHANGED <<message_vec, order, cache, current_sync, pc, packet, outside>>
  BY DEF RotateSync, Filling
<1>2. TypeOK /\ ~stopping /\ Slots' = Slots
  BY <1>1 DEF IInv, StopStates, Slots
<1>3. /\ write' \in Seq(Slots) /\ Len(write') = Len(write) /\ Len(write) \in Nat
      /\ \A k \in 1..Len(write) - 1 : write'[k] = write[k + 1]
      /\ write'[Len(write)] = Head(write)
      /\ IsInjective(write) => IsInjective(write') /\ Range(write') = Range(write)
  BY <1>1, <1>2, RotateList, SMTT(60) DEF TypeOK
<1>4. IsInjective(write) /\ Head(write) \in Range(write) /\ Head(write) = write[1]
  BY <1>1, <1>2, TailList, Zenon DEF IInv, ListsDisjoint, TypeOK
<1>5. message_vec[Head(write)].packet_count = 0
  BY <1>1, <1>2, <1>4, Zenon DEF IInv, MustWait, SyncExclusive, QueueStates, Has
<1> USE DEF outside, packet
<1>6. TypeOK'
  BY <1>1, <1>2, <1>3, Zenon DEF TypeOK
<1>7. ListsDisjoint' /\ CurrentSyncQueued' /\ SyncExclusive'
  BY <1>1, <1>2, <1>3, <1>4, ZenonT(60)
     DEF IInv, ListsDisjoint, CurrentSyncQueued, SyncExclusive, Has
<1>8. OnlyFrontContinues'
  <2>1. ASSUME NEW k \in 1..Len(write) PROVE message_vec[write'[k]].packet_count = 0
    <3>1. CASE k = Len(write)
      BY <1>3, <1>5, <3>1, Zenon
    <3>2. CASE k # Len(write)
      <4>1. k \in 1..Len(write) - 1 /\ k + 1 \in 1..Len(write) /\ k + 1 # 1
        BY <1>3, <3>2, SMTT(60)
      <4> QED BY <1>2, <1>3, <4>1, SMTT(60) DEF IInv, OnlyFrontContinues
    <3> QED BY <3>1, <3>2
  <2> QED BY <1>1, <1>3, <2>1, SMTT(60) DEF OnlyFrontContinues
<1>9. Accounted' /\ StubStates' /\ QueueStates' /\ IdStates' /\ PeerStates' /\ StopStates'
  BY <1>1, <1>2, <1>3, <1>4
     DEF IInv, Accounted, StubStates, OrderStub, QueueStates, IdStates, IdState,
         PeerStates, PeerState, StopStates, Has, Denotes
<1> QED BY <1>6, <1>7, <1>8, <1>9 DEF IInv

\* doStop changes neither the stubs nor the lists.
LEMMA StopStep == IInv /\ (\E fetch \in BOOLEAN : Stop(fetch)) => IInv'
<1> SUFFICES ASSUME IInv, NEW fetch \in BOOLEAN, Stop(fetch) PROVE IInv'
  OBVIOUS
<1>1. /\ stopping' = TRUE /\ pc' \in {"fetch", "idle"}
      /\ UNCHANGED <<lists, packet, handle, peer, pool, life>>
  BY DEF Stop
<1>2. stopping' \in BOOLEAN
  BY <1>1, Zenon
<1> USE DEF lists, packet
<1>3. TypeOK' /\ Slots' = Slots
  BY <1>1, <1>2, ZenonT(60) DEF IInv, TypeOK, Slots, PCs
<1>4. ListsDisjoint' /\ CurrentSyncQueued' /\ SyncExclusive' /\ OnlyFrontContinues'
      /\ QueueStates' /\ StopStates'
  BY <1>1, ZenonT(60) DEF ListsDisjoint, CurrentSyncQueued, SyncExclusive, OnlyFrontContinues,
              QueueStates, StopStates
<1>5. Accounted' /\ StubStates' /\ IdStates' /\ PeerStates'
  BY <1>1, <1>3, SMTT(60) DEF IInv, Accounted, StubStates, OrderStub, IdStates, IdState,
                     PeerStates, PeerState, Has, Denotes
<1> QED BY <1>3, <1>4, <1>5 DEF IInv

-----------------------------------------------------------------------------
\* t is the list s without i; what stays moves towards the front, if at all.
Without(s, t, i) ==
    /\ t \in Seq(Slots) /\ IsInjective(t) /\ Range(t) = Range(s) \ {i}
    /\ \A k \in 1..Len(t) : \E l \in 1..Len(s) : l >= k /\ t[k] = s[l]

\* erase leaves the list without the one element.
LEMMA EraseWithout ==
    ASSUME NEW s \in Seq(Slots), IsInjective(s), NEW i
    PROVE  Without(s, Erase(s, i), i)
BY EraseList DEF Without

\* popFront leaves the list without its front.
LEMMA TailWithout ==
    ASSUME NEW s \in Seq(Slots), IsInjective(s), s # <<>>
    PROVE  Without(s, Tail(s), Head(s))
<1>1. /\ Tail(s) \in Seq(Slots) /\ Len(Tail(s)) = Len(s) - 1 /\ Len(s) \in Nat
      /\ \A k \in 1..Len(s) - 1 : Tail(s)[k] = s[k + 1]
      /\ IsInjective(Tail(s)) /\ Range(Tail(s)) = Range(s) \ {Head(s)}
  BY TailList
<1>2. ASSUME NEW k \in 1..Len(Tail(s))
      PROVE  k + 1 \in 1..Len(s) /\ k + 1 >= k /\ Tail(s)[k] = s[k + 1]
  BY <1>1
<1> QED BY <1>1, <1>2 DEF Without

\* The message of a stub in order is completed with how, or put back in the
\* pool, once; a stub out of order has no message.
Ends(i, how) ==
    \/ i \notin Range(order) /\ life' = life
    \/ i \in Range(order) /\ life' = [life EXCEPT ![message_vec[i].msg] = how]

\* What becomes of the messages and their ids when stub i is cleared.
LEMMA ClearStep ==
    ASSUME IInv, UniqueMod = 0, NEW i \in Slots,
           message_vec' = [message_vec EXCEPT ![i] = Cleared(message_vec[i])],
           Without(order, order', i),
           NEW how \in Lives \ {"new", "accepted", "twice"}, Ends(i, how),
           handle' = handle, peer' \subseteq peer
    PROVE  /\ message_vec' \in Seq(Stubs) /\ Slots' = Slots
           /\ message_vec'[i].flags = {} /\ ~message_vec'[i].ser
           /\ \A j \in Slots : j # i => message_vec'[j] = message_vec[j]
           /\ life' \in [Msgs -> Lives]
           /\ Accounted' /\ StubStates' /\ IdStates' /\ PeerStates'
<1>1. TypeOK /\ Range(order) \subseteq Slots
  BY ListElements, Zenon DEF IInv
<1>2. /\ Cleared(message_vec[i]) \in Stubs /\ Cleared(message_vec[i]).msg = NoMsg
      /\ Cleared(message_vec[i]).flags = {} /\ ~Cleared(message_vec[i]).ser
      /\ Cleared(message_vec[i]).unique = message_vec[i].unique + 1
      /\ message_vec[i].unique \in Nat
  BY <1>1, ClearedStub
<1>3. /\ message_vec' \in Seq(Stubs) /\ Slots' = Slots
      /\ message_vec'[i] = Cleared(message_vec[i])
      /\ \A j \in Slots : j # i => message_vec'[j] = message_vec[j]
  BY <1>1, <1>2, StubReplaced, Zenon
<1>4. IsInjective(order') /\ Range(order') = Range(order) \ {i}
  BY DEF Without
<1>5. \A j \in Range(order) : OrderStub(j)
  BY ZenonT(60) DEF IInv, StubStates
<1>6. \A j \in Range(order') : j \in Slots /\ message_vec'[j] = message_vec[j]
                               /\ (i \in Range(order) =>
                                        message_vec[j].msg # message_vec[i].msg)
  BY <1>1, <1>3, <1>4, <1>5 DEF OrderStub, Denotes
<1>7. life \in [Msgs -> Lives]
  BY <1>1, ZenonT(60) DEF TypeOK
<1>8. /\ life' \in [Msgs -> Lives]
      /\ \A m \in Msgs : \/ life'[m] = life[m]
                         \/ /\ i \in Range(order) /\ m = message_vec[i].msg
                            /\ life'[m] = how
      /\ i \in Range(order) => life'[message_vec[i].msg] = how
  <2>1. CASE i \notin Range(order) /\ life' = life
    BY <1>7, <2>1, Zenon
  <2>2. CASE i \in Range(order) /\ life' = [life EXCEPT ![message_vec[i].msg] = how]
    <3>1. message_vec[i].msg \in Msgs
      BY <1>5, <2>2, Zenon DEF OrderStub
    <3> QED BY <1>7, <2>2, <3>1, Zenon
  <2> QED BY <2>1, <2>2 DEF Ends
<1>9. \A m \in Msgs : life'[m] = "new" <=> life[m] = "new"
  BY <1>5, <1>8, Zenon DEF OrderStub
<1>10. Accounted'
  <2> SUFFICES ASSUME NEW m \in Msgs
               PROVE  /\ life'[m] # "twice"
                      /\ life'[m] = "accepted"
                            <=> \E j \in Range(order') : message_vec'[j].msg = m
    BY Zenon DEF Accounted
  <2>1. /\ life[m] # "twice"
        /\ life[m] = "accepted" <=> \E j \in Range(order) : message_vec[j].msg = m
    BY Zenon DEF IInv, Accounted
  <2>2. CASE i \in Range(order) /\ m = message_vec[i].msg
    BY <1>6, <1>8, <2>2, Zenon
  <2>3. CASE ~(i \in Range(order) /\ m = message_vec[i].msg)
    BY <1>4, <1>6, <1>8, <2>1, <2>3, Zenon
  <2> QED BY <2>2, <2>3, Zenon
<1>11. StubStates'
  <2>1. ASSUME NEW j \in Range(order') PROVE OrderStub(j)'
    <3>1. OrderStub(j) /\ message_vec'[j] = message_vec[j]
      BY <1>4, <1>5, <1>6, Zenon
    <3> QED BY <1>3, <1>9, <3>1 DEF OrderStub, Has, Denotes
  <2>2. ASSUME NEW j \in Slots, j \notin Range(order') PROVE message_vec'[j].msg = NoMsg
    BY <1>2, <1>3, <1>4, <2>2, Zenon DEF IInv, StubStates
  <2> QED BY <1>3, <1>4, <2>1, <2>2, ZenonT(60) DEF StubStates
<1>12. ASSUME NEW m \in Msgs, life[m] # "new" PROVE IdState(m)'
  <2>1. IdState(m) /\ handle[m].unique \in Nat
    BY <1>1, <1>12, ZenonT(60) DEF IInv, IdStates, TypeOK, MessageIds
  <2>2. CASE handle[m].index = i
    BY <1>2, <1>3, <2>1, <2>2 DEF IdState
  <2>3. CASE handle[m].index # i
    BY <1>3, <1>4, <2>1, <2>3, ZenonT(60) DEF IdState, Has
  <2> QED BY <2>2, <2>3, Zenon
<1>13. ASSUME NEW m \in peer PROVE life[m] # "new" /\ m \in Msgs /\ PeerState(m)'
  <2>1. m \in Msgs /\ life[m] # "new" /\ PeerState(m)
    BY <1>1, MsgsAssumption, Zenon DEF IInv, PeerStates, TypeOK
  <2>2. IdState(m) /\ handle[m].unique \in Nat
    BY <1>1, <2>1, ZenonT(60) DEF IInv, IdStates, TypeOK, MessageIds
  <2>3. ~Denotes(handle[m], i)'
    BY <1>2, <1>3, <2>2, SMTT(60) DEF IdState, Denotes
  <2> QED BY <1>3, <2>1, <2>3, ZenonT(60) DEF PeerState, Has, Denotes
<1>14. IdStates' /\ PeerStates'
  BY <1>9, <1>12, <1>13, Zenon DEF IdStates, PeerStates
<1> QED BY <1>2, <1>3, <1>8, <1>10, <1>11, <1>14, Zenon

\* Stub i leaves order and write and becomes free.
LEMMA FreeStep ==
    ASSUME IInv, UniqueMod = 0, ~stopping, NEW i \in Slots,
           doUnprepareMessageStub(i), i \notin Range(cache),
           Without(order, order', i), Without(write, write', i),
           NEW how \in Lives \ {"new", "accepted", "twice"}, Ends(i, how),
           current_sync' = IF current_sync = i THEN NoSlot ELSE current_sync,
           stopping' = stopping, handle' = handle, peer' \subseteq peer,
           pool' \in Seq(Msgs), PacketOK', pc' \in PCs \ {"fetch"}
    PROVE  IInv'
<1>1. /\ message_vec' = [message_vec EXCEPT ![i] = Cleared(message_vec[i])]
      /\ cache' = PushFront(cache, i)
  BY DEF doUnprepareMessageStub
<1>2. /\ message_vec' \in Seq(Stubs) /\ Slots' = Slots
      /\ message_vec'[i].flags = {} /\ ~message_vec'[i].ser
      /\ \A j \in Slots : j # i => message_vec'[j] = message_vec[j]
      /\ life' \in [Msgs -> Lives]
      /\ Accounted' /\ StubStates' /\ IdStates' /\ PeerStates'
  BY <1>1, ClearStep, Zenon
<1>3. /\ TypeOK /\ Range(order) \subseteq Slots /\ Range(write) \subseteq Slots
      /\ Range(cache) \subseteq Slots
  BY ListElements, ZenonT(60) DEF IInv
<1>4. cache' \in Seq(Slots) /\ IsInjective(cache') /\ Range(cache') = Range(cache) \cup {i}
  <2>1. cache \in Seq(Slots) /\ IsInjective(cache)
    BY <1>3, Zenon DEF IInv, TypeOK, ListsDisjoint
  <2> QED BY <1>1, <2>1, PushFrontList
<1>5. /\ IsInjective(order') /\ Range(order') = Range(order) \ {i}
      /\ IsInjective(write') /\ Range(write') = Range(write) \ {i}
      /\ order' \in Seq(Slots) /\ write' \in Seq(Slots)
  BY Zenon DEF Without
<1>6. TypeOK'
  <2>1. current_sync' \in Slots \cup {NoSlot} /\ stopping' \in BOOLEAN
        /\ handle' \in [Msgs -> MessageIds] /\ peer' \subseteq Request
    BY <1>3, ZenonT(60) DEF TypeOK
  <2> QED BY <1>2, <1>4, <1>5, <2>1, ZenonT(60) DEF TypeOK, PacketOK
<1>7. ListsDisjoint'
  BY <1>2, <1>3, <1>4, <1>5, ZenonT(60) DEF IInv, ListsDisjoint, Has
<1>8. CurrentSyncQueued' /\ SyncExclusive'
  <2>1. CurrentSyncQueued'
    BY <1>2, <1>3, <1>5, Zenon DEF IInv, CurrentSyncQueued, Has
  <2>2. SyncExclusive'
    BY <1>2, <1>3, <1>5, Zenon DEF IInv, SyncExclusive, Has
  <2> QED BY <2>1, <2>2, Zenon
<1>9. OnlyFrontContinues'
  <2> SUFFICES ASSUME NEW k \in 1..Len(write'), message_vec'[write'[k]].packet_count # 0
               PROVE  k = 1
    BY Zenon DEF OnlyFrontContinues
  <2>1. PICK l \in 1..Len(write) : l >= k /\ write'[k] = write[l]
    BY ZenonT(60) DEF Without
  <2>2. write'[k] \in Slots /\ write'[k] # i
    <3>1. write'[k] \in Range(write')
      BY <1>5, ElementInRange, Zenon
    <3> QED BY <1>3, <1>5, <3>1, Zenon
  <2>3. l = 1
    BY <1>2, <2>1, <2>2, Zenon DEF IInv, OnlyFrontContinues
  <2> QED BY <1>5, <2>1, <2>3, FrontPlace, Zenon
<1>10. QueueStates'
  <2>1. \A j \in Range(cache') : ~message_vec'[j].ser /\ message_vec'[j].flags = {}
    BY <1>2, <1>3, <1>4, ZenonT(60) DEF IInv, QueueStates
  <2>2. \A j \in Range(write') :
          /\ j \in Range(order') => ~Has(j, "DoneSend")'
          /\ ~message_vec'[j].ser => message_vec'[j].packet_count = 0
    BY <1>2, <1>3, <1>5, ZenonT(60) DEF IInv, QueueStates, Has
  <2>3. \A j \in Range(order') : j \notin Range(write') =>
          ~message_vec'[j].ser /\ (Has(j, "DoneSend") /\ Has(j, "WaitResponse"))'
    BY <1>2, <1>3, <1>5, ZenonT(60) DEF IInv, QueueStates, Has
  <2> QED BY <2>1, <2>2, <2>3, ZenonT(60) DEF QueueStates
<1>11. StopStates'
  BY DEF StopStates
<1> QED BY <1>2, <1>6, <1>7, <1>8, <1>9, <1>10, <1>11, ZenonT(60) DEF IInv

(***************************************************************************)
(* The steps of doFillPacket that put a message in a packet                *)
(***************************************************************************)

\* What a step of doFillPacket begins with.
LEMMA FrontFacts ==
    ASSUME IInv, Filling
    PROVE  /\ TypeOK /\ PacketOK /\ ~stopping /\ pc = "fill" /\ write # <<>>
           /\ Head(write) \in Slots /\ Head(write) \in Range(write)
           /\ Head(write) = write[1] /\ Head(write) \notin Range(cache)
           /\ Head(write) # NoSlot
           /\ IsInjective(order) /\ IsInjective(write)
           /\ Without(write, Tail(write), Head(write))
           /\ MsgSwitch(Head(write)) \in SwitchTypes /\ RoomAfterSwitch \in Int
<1>1. TypeOK /\ PacketOK /\ ~stopping /\ pc = "fill" /\ write # <<>>
  BY SMTT(60) DEF IInv, TypeOK, PacketOK, StopStates, Filling
<1>2. write \in Seq(Slots) /\ IsInjective(write) /\ IsInjective(order)
  BY <1>1 DEF IInv, TypeOK, ListsDisjoint
<1>3. Head(write) \in Slots /\ Head(write) \in Range(write) /\ Head(write) = write[1]
  BY <1>1, <1>2, TailList
<1>4. Head(write) \notin Range(cache)
  BY <1>1, <1>3 DEF IInv, ListsDisjoint
<1>5. Without(write, Tail(write), Head(write))
  BY <1>1, <1>2, TailWithout
<1>6. MsgSwitch(Head(write)) \in SwitchTypes /\ RoomAfterSwitch \in Int
  BY <1>1 DEF MsgSwitch, SwitchTypes, RoomAfterSwitch, PacketOK
<1>7. Head(write) # NoSlot
  BY <1>1, <1>3, SMTT(60) DEF TypeOK, Slots, NoSlot
<1> QED BY <1>1, <1>2, <1>3, <1>4, <1>5, <1>6, <1>7

\* Releasing the synchronous slot frees it from the message that leaves write.
LEMMA ReleasedSync ==
    ASSUME IInv, Filling, NEW i, i = Head(write), ~MustWait(i)
    PROVE  Released(i, Claimed(i)) = IF current_sync = i THEN NoSlot ELSE current_sync
BY FrontFacts DEF Released, Claimed, MustWait, NoSlot

\* A cancelled message leaves write: its stub was out of order, and is free.
LEMMA DropCanceledStep == ASSUME IInv, UniqueMod = 0, DropCanceled PROVE IInv'
<1>1. PICK i : i = Head(write)
  OBVIOUS
<1>2. /\ Filling /\ write' = Tail(write) /\ Has(i, "Canceled") /\ ~MustWait(i)
      /\ pkt' = Append(pkt, [type |-> MsgSwitch(i), msg |-> NoMsg, n |-> 0])
      /\ room' = RoomAfterSwitch /\ doUnprepareMessageStub(i)
      /\ current_sync' = Released(i, Claimed(i))
      /\ UNCHANGED <<order, pc, freesz, data, out, err, keep, outside>>
  BY <1>1 DEF DropCanceled
<1>3. /\ TypeOK /\ PacketOK /\ ~stopping /\ pc = "fill"
      /\ i \in Slots /\ i \notin Range(cache) /\ IsInjective(order)
      /\ Without(write, write', i)
      /\ MsgSwitch(i) \in SwitchTypes /\ RoomAfterSwitch \in Int
  BY <1>1, <1>2, FrontFacts, ZenonT(60)
<1>4. i \notin Range(order)
  BY <1>2 DEF IInv, StubStates, OrderStub
<1>5. Without(order, order', i)
  <2>1. order' = Erase(order, i) /\ order \in Seq(Slots)
    BY <1>2, <1>3, <1>4, SMTT(60) DEF Erase, TypeOK
  <2> QED BY <1>3, <2>1, EraseWithout
<1>6. PacketOK'
  <2>1. [type |-> MsgSwitch(i), msg |-> NoMsg, n |-> 0] \in Chunks
    BY <1>3 DEF Chunks
  <2> QED BY <1>2, <1>3, <2>1 DEF PacketOK
<1>7. current_sync' = IF current_sync = i THEN NoSlot ELSE current_sync
  BY <1>1, <1>2, ReleasedSync, SMTT(60)
<1>8. "sent" \in Lives \ {"new", "accepted", "twice"} /\ Ends(i, "sent")
  BY <1>2, <1>4, SMTT(60) DEF Lives, Ends, outside
<1>9. stopping' = stopping /\ handle' = handle /\ peer' \subseteq peer
      /\ pool' \in Seq(Msgs) /\ pc' \in PCs \ {"fetch"}
  BY <1>2, <1>3 DEF outside, TypeOK, PCs
<1> QED BY <1>2, <1>3, <1>5, <1>6, <1>7, <1>8, <1>9, FreeStep
-----------------------------------------------------------------------------
\* A message in order is not completed, so completing it records how.
LEMMA CompletedOnce ==
    ASSUME IInv, NEW i \in Range(order), NEW how
    PROVE  /\ message_vec[i].msg \in Msgs
           /\ Completed(message_vec[i].msg, how)
                = [life EXCEPT ![message_vec[i].msg] = how]
<1>1. message_vec[i].msg \in Msgs /\ life[message_vec[i].msg] = "accepted"
  BY DEF IInv, StubStates, OrderStub, Accounted
<1> QED BY <1>1, SMTT(60) DEF Completed

\* What a chunk of a message does to the packet, and what is known of its stub.
LEMMA ChunkFacts ==
    ASSUME IInv, NEW i, NEW n \in Int, Chunk(i, n)
    PROVE  /\ Filling /\ ~MustWait(i) /\ i = Head(write) /\ TypeOK /\ ~stopping
           /\ i \in Slots /\ i \in Range(write) /\ i \in Range(order)
           /\ message_vec[i] \in Stubs /\ OrderStub(i) /\ ~Has(i, "DoneSend")
           /\ Remaining(i) \in Nat /\ CountAfter(i) \in Nat
           /\ PacketOK' /\ AfterChunk \in PCs \ {"fetch"}
           /\ UNCHANGED <<stopping, handle, pool>>
<1>1. /\ Filling /\ ~MustWait(i) /\ i = Head(write) /\ ~Has(i, "Canceled") /\ n > 0
      /\ pkt' = Append(pkt, [type |-> MsgSwitch(i), msg |-> message_vec[i].msg, n |-> n])
      /\ room' = RoomAfterSwitch - n /\ freesz' = freesz - n
      /\ UNCHANGED <<data, out, err, keep, stopping, handle, pool>>
  BY DEF Chunk, FreeAfter
<1>2. /\ TypeOK /\ PacketOK /\ ~stopping /\ i \in Slots /\ i \in Range(write)
      /\ MsgSwitch(i) \in SwitchTypes /\ RoomAfterSwitch \in Int
  BY <1>1, FrontFacts, ZenonT(60)
<1>3. i \in Range(order)
  BY <1>1, <1>2, SMTT(60) DEF IInv, ListsDisjoint
<1>4. message_vec[i] \in Stubs /\ OrderStub(i)
  BY <1>2, <1>3 DEF IInv, StubStates, TypeOK, Slots
<1>5. Remaining(i) \in Nat /\ CountAfter(i) \in Nat
  <2>1. message_vec[i].rem \in Nat /\ message_vec[i].packet_count \in Nat
        /\ Size[message_vec[i].msg] \in Nat
    BY <1>4, MsgsAssumption DEF Stubs, OrderStub
  <2> QED BY <2>1, SMTT(60) DEF Remaining, CountAfter
<1>6. PacketOK'
  <2>1. [type |-> MsgSwitch(i), msg |-> message_vec[i].msg, n |-> n] \in Chunks
    BY <1>1, <1>2, <1>4, SMTT(60) DEF Chunks, OrderStub
  <2>2. pkt' \in Seq(Chunks)
    BY <1>1, <1>2, <2>1, SMTT(60) DEF PacketOK
  <2>3. room' \in Int /\ freesz' \in Int
    BY <1>1, <1>2 DEF PacketOK
  <2> QED BY <1>1, <1>2, <2>2, <2>3, ZenonT(60) DEF PacketOK
<1>7. ~Has(i, "DoneSend") /\ AfterChunk \in PCs \ {"fetch"}
  BY <1>2, <1>3, ZenonT(60) DEF IInv, QueueStates, AfterChunk, PCs
<1> QED BY <1>1, <1>2, <1>3, <1>4, <1>5, <1>6, <1>7, ZenonT(60)

\* The front stub of write is overwritten by one with the same message and id.
LEMMA FrontStubStep ==
    ASSUME IInv, NEW i \in Slots, i \in Range(write), i \in Range(order),
           NEW stub \in Stubs,
           stub.msg = message_vec[i].msg, stub.unique = message_vec[i].unique,
           "Canceled" \notin stub.flags,
           "WaitResponse" \in stub.flags => Has(i, "WaitResponse"),
           message_vec' = [message_vec EXCEPT ![i] = stub],
           UNCHANGED <<order, handle, life>>
    PROVE  /\ message_vec' \in Seq(Stubs) /\ Slots' = Slots
           /\ message_vec'[i] = stub
           /\ \A j \in Slots : j # i => message_vec'[j] = message_vec[j]
           /\ Accounted' /\ StubStates' /\ IdStates'
           /\ \A m \in Msgs : life[m] # "new" /\ Denotes(handle[m], i)
                                => m = message_vec[i].msg
<1>1. TypeOK /\ Range(order) \subseteq Slots
  BY ListElements DEF IInv
<1>2. /\ message_vec' \in Seq(Stubs) /\ Slots' = Slots /\ message_vec'[i] = stub
      /\ \A j \in Slots : j # i => message_vec'[j] = message_vec[j]
  BY <1>1, StubReplaced, ZenonT(60)
<1>3. \A j \in Slots : /\ message_vec'[j].msg = message_vec[j].msg
                       /\ message_vec'[j].unique = message_vec[j].unique
  BY <1>2, ZenonT(60)
<1>4. Accounted'
  BY <1>1, <1>3 DEF IInv, Accounted
<1>5. ASSUME NEW j \in Range(order) PROVE OrderStub(j)'
  <2>1. OrderStub(j) /\ j \in Slots
    BY <1>1, Zenon DEF IInv, StubStates
  <2> QED BY <1>2, <1>3, <2>1, ZenonT(60) DEF OrderStub, Has, Denotes
<1>6. StubStates'
  BY <1>2, <1>3, <1>5, ZenonT(60) DEF IInv, StubStates
<1>7. ASSUME NEW m \in Msgs, life[m] # "new" PROVE IdState(m)'
  <2>1. IdState(m)
    BY <1>7, ZenonT(60) DEF IInv, IdStates
  <2>2. ~Has(i, "Canceled")
    BY DEF IInv, StubStates, OrderStub
  <2> QED BY <1>2, <1>3, <2>1, <2>2 DEF IdState, Has
<1>8. ASSUME NEW m \in Msgs, life[m] # "new", Denotes(handle[m], i)
      PROVE  m = message_vec[i].msg
  <2>1. IdState(m) /\ ~Has(i, "Canceled")
    BY <1>8, Zenon DEF IInv, IdStates, StubStates, OrderStub
  <2> QED BY <1>8, <2>1, Zenon DEF IdState, Denotes
<1> QED BY <1>2, <1>4, <1>6, <1>7, <1>8, ZenonT(60) DEF IdStates

\* A part of the front message goes out: the message keeps the front of write,
\* or goes to its back with a new count.
LEMMA SerializePartStep == ASSUME IInv, SerializePart PROVE IInv'
<1>1. PICK i : i = Head(write)
  OBVIOUS
<1>2. PICK n : n = RoomAfterSwitch
  OBVIOUS
<1>3. /\ Chunk(i, n) /\ n < Remaining(i)
      /\ message_vec' = [message_vec EXCEPT ![i] = StartedStub(i, n)]
      /\ write' = (IF LastInARow(i) THEN Rotate(write) ELSE write)
      /\ current_sync' = Claimed(i) /\ pc' = AfterChunk
      /\ UNCHANGED <<order, cache, peer, life>>
  BY <1>1, <1>2, ZenonT(60) DEF SerializePart
<1>4. n \in Int
  BY <1>2, <1>3, FrontFacts DEF Chunk
<1>5. /\ Filling /\ ~MustWait(i) /\ TypeOK /\ ~stopping
      /\ i \in Slots /\ i \in Range(write) /\ i \in Range(order)
      /\ message_vec[i] \in Stubs /\ OrderStub(i) /\ ~Has(i, "DoneSend")
      /\ Remaining(i) \in Nat /\ CountAfter(i) \in Nat
      /\ PacketOK' /\ AfterChunk \in PCs \ {"fetch"}
      /\ UNCHANGED <<stopping, handle, pool>>
  BY <1>3, <1>4, ChunkFacts, ZenonT(60)
<1>6. /\ write # <<>> /\ i = write[1] /\ i # NoSlot
      /\ write \in Seq(Slots) /\ IsInjective(write) /\ Len(write) \in Nat
  BY <1>1, <1>5, FrontFacts DEF TypeOK
<1>7. LET stub == StartedStub(i, n)
      IN  /\ stub \in Stubs /\ stub.msg = message_vec[i].msg
          /\ stub.unique = message_vec[i].unique /\ stub.ser
          /\ stub.flags = message_vec[i].flags \cup {"StartedSend"}
          /\ stub.packet_count = CountAfter(i)
  <2>1. Remaining(i) - n \in Nat
    BY <1>3, <1>4, <1>5
  <2>2. "StartedSend" \in Flags
    BY DEF Flags
  <2> HIDE DEF Flags
  <2> QED BY <1>5, <2>1, <2>2, ZenonT(60) DEF StartedStub, Stubs
<1>8. /\ message_vec' \in Seq(Stubs) /\ Slots' = Slots
      /\ message_vec'[i] = StartedStub(i, n)
      /\ \A j \in Slots : j # i => message_vec'[j] = message_vec[j]
      /\ Accounted' /\ StubStates' /\ IdStates'
      /\ \A m \in Msgs : life[m] # "new" /\ Denotes(handle[m], i)
                           => m = message_vec[i].msg
  <2>1. /\ "Canceled" \notin StartedStub(i, n).flags
        /\ "WaitResponse" \in StartedStub(i, n).flags => Has(i, "WaitResponse")
    BY <1>5, <1>7, ZenonT(60) DEF OrderStub, Has
  <2> HIDE DEF StartedStub
  <2> QED BY <1>3, <1>5, <1>7, <2>1, FrontStubStep, ZenonT(60)
<1>9. message_vec'[i].ser /\ message_vec'[i].packet_count = CountAfter(i)
      /\ \A flag : Has(i, flag)' <=> Has(i, flag) \/ flag = "StartedSend"
  BY <1>7, <1>8 DEF Has
<1>10. /\ write' \in Seq(Slots) /\ IsInjective(write') /\ Range(write') = Range(write)
       /\ Len(write') = Len(write)
  BY <1>3, <1>6, RotateList, ZenonT(60)
<1>11. Range(order) \subseteq Slots /\ Range(write) \subseteq Slots
       /\ Range(cache) \subseteq Slots /\ i \notin Range(cache)
  BY <1>1, <1>5, ListElements, FrontFacts, SMTT(60)
<1>12. TypeOK'
  <2>1. current_sync' \in Slots
           \cup {NoSlot}
    BY <1>3, <1>5, ZenonT(60) DEF Claimed, TypeOK
  <2>2. stopping' \in BOOLEAN /\ handle' \in [Msgs -> MessageIds] /\ peer' \subseteq Request
        /\ pool' \in Seq(Msgs) /\ life' \in [Msgs -> Lives] /\ order' \in Seq(Slots)
        /\ cache' \in Seq(Slots) /\ pc' \in PCs
    BY <1>3, <1>5, Zenon DEF TypeOK
  <2> QED BY <1>5, <1>8, <1>10, <2>1, <2>2, ZenonT(60) DEF TypeOK, PacketOK
<1>13. ListsDisjoint'
  <2>1. ~Has(i, "Canceled") /\ ~Has(i, "Canceled")'
    BY <1>5, <1>9, SMTT(60) DEF OrderStub
  <2> QED BY <1>3, <1>5, <1>8, <1>10, <1>11, <2>1, ZenonT(60) DEF IInv, ListsDisjoint, Has
<1>14. CurrentSyncQueued' /\ SyncExclusive'
  <2>1. CASE Has(i, "Synchronous")
    <3>1. current_sync' = i /\ current_sync \in {NoSlot, i} /\ Has(i, "Synchronous")'
      BY <1>3, <1>5, <1>9, <2>1, ZenonT(60) DEF Claimed, MustWait
    <3>2. CurrentSyncQueued'
      BY <1>5, <1>9, <1>10, <3>1, ZenonT(60) DEF CurrentSyncQueued
    <3>3. ASSUME NEW j \in Range(write), j # i, message_vec[j].ser, Has(j, "Synchronous")
          PROVE  FALSE
      <4>1. j = current_sync /\ j \in Slots
        BY <1>5, <1>11, <3>3, ZenonT(60) DEF IInv, SyncExclusive
      <4> QED BY <1>5, <3>1, <3>3, <4>1, SMTT(60) DEF NoSlot, Slots, TypeOK
    <3>4. SyncExclusive'
      BY <1>8, <1>10, <1>11, <3>1, <3>3, ZenonT(60) DEF SyncExclusive, Has
    <3> QED BY <3>2, <3>4, Zenon
  <2>2. CASE ~Has(i, "Synchronous")
    <3>1. current_sync' = current_sync /\ ~Has(i, "Synchronous")'
      BY <1>3, <1>9, <2>2, ZenonT(60) DEF Claimed
    <3>2. current_sync # NoSlot => current_sync # i
      BY <1>5, <2>2, Zenon DEF IInv, CurrentSyncQueued
    <3>3. CurrentSyncQueued'
      BY <1>5, <1>8, <1>10, <1>11, <3>1, <3>2, ZenonT(60) DEF IInv, CurrentSyncQueued, Has
    <3>4. SyncExclusive'
      BY <1>5, <1>8, <1>10, <1>11, <3>1, ZenonT(60) DEF IInv, SyncExclusive, Has
    <3> QED BY <3>3, <3>4
  <2> QED BY <2>1, <2>2, SMTT(60)
<1>15. OnlyFrontContinues'
  <2>1. \A k \in 2..Len(write) : write[k] \in Slots /\ write[k] # i
                                 /\ message_vec'[write[k]].packet_count = 0
    <3> SUFFICES ASSUME NEW k \in 2..Len(write)
                 PROVE  write[k] \in Slots /\ write[k] # i
                        /\ message_vec'[write[k]].packet_count = 0
      OBVIOUS
    <3>1. k \in 1..Len(write) /\ k # 1 /\ 1 \in 1..Len(write)
      BY <1>6, SMTT(60)
    <3>2. write[k] \in Slots /\ write[k] # i
      BY <1>6, <3>1 DEF IsInjective
    <3> QED BY <1>5, <1>8, <3>1, <3>2, ZenonT(60) DEF IInv, OnlyFrontContinues
  <2>2. CASE LastInARow(i)
    <3>1. CountAfter(i) = 0 /\ write' = Rotate(write)
      BY <1>3, <2>2, ZenonT(60) DEF CountAfter
    <3>2. ASSUME NEW k \in 1..Len(write) PROVE message_vec'[write'[k]].packet_count = 0
      <4>1. CASE k = Len(write)
        BY <1>1, <1>6, <1>9, <3>1, <4>1, RotateList, ZenonT(60)
      <4>2. CASE k # Len(write)
        <5>1. k \in 1..Len(write) - 1 /\ k + 1 \in 2..Len(write)
          BY <1>6, <4>2
        <5>2. write'[k] = write[k + 1]
          BY <1>6, <3>1, <5>1, RotateList, ZenonT(60)
        <5> QED BY <2>1, <5>1, <5>2, SMTT(60)
      <4> QED BY <4>1, <4>2, Zenon
    <3> QED BY <1>10, <3>2, SMTT(60) DEF OnlyFrontContinues
  <2>3. CASE ~LastInARow(i)
    <3>1. write' = write
      BY <1>3, <2>3, ZenonT(60)
    <3> QED BY <1>6, <2>1, <3>1 DEF OnlyFrontContinues
  <2> QED BY <2>2, <2>3, ZenonT(60)
<1>16. QueueStates'
  <2>1. QueueStates /\ ~stopping /\ order' = order /\ cache' = cache
    BY <1>3, <1>5, Zenon DEF IInv
  <2>2. \A j \in Range(cache) : message_vec'[j] = message_vec[j]
    BY <1>8, <1>11, Zenon
  <2>3. \A j \in Range(order) \cup Range(write) : j # i => message_vec'[j] = message_vec[j]
    BY <1>8, <1>11, Zenon
  <2>4. ~Has(i, "DoneSend")' /\ message_vec'[i].ser
    BY <1>5, <1>9, <2>1, Zenon DEF QueueStates
  <2>5. \A j \in Range(write') : /\ j \in Range(order') => ~Has(j, "DoneSend")'
                                 /\ ~message_vec'[j].ser => message_vec'[j].packet_count = 0
    BY <1>10, <2>1, <2>3, <2>4, ZenonT(60) DEF QueueStates, Has
  <2>6. \A j \in Range(order') : j \notin Range(write') =>
          ~message_vec'[j].ser /\ Has(j, "DoneSend")' /\ Has(j, "WaitResponse")'
    BY <1>5, <1>10, <2>1, <2>3, Zenon DEF QueueStates, Has
  <2> QED BY <2>1, <2>2, <2>5, <2>6, Zenon DEF QueueStates
<1>17. PeerStates'
  <2> SUFFICES ASSUME NEW m \in peer PROVE life[m] # "new" /\ PeerState(m)'
    BY <1>3, Zenon DEF PeerStates
  <2>1. m \in Msgs /\ life[m] # "new" /\ PeerState(m)
    BY <1>5, MsgsAssumption, Zenon DEF IInv, PeerStates, TypeOK
  <2>2. ~Denotes(handle[m], i)
    BY <1>5, <2>1, Zenon DEF PeerState
  <2>3. ~Denotes(handle[m], i)'
    BY <1>5, <1>7, <1>8, <2>2, Zenon DEF Denotes
  <2> QED BY <1>5, <1>8, <2>1, <2>3, ZenonT(60) DEF PeerState, Denotes, Has
<1>18. StopStates'
  BY <1>3, <1>5, Zenon DEF StopStates
<1> QED BY <1>8, <1>12, <1>13, <1>14, <1>15, <1>16, <1>17, <1>18, ZenonT(60) DEF IInv

\* The last part of a request goes out: the request leaves write, not order.
LEMMA AwaitResponseStep ==
    ASSUME IInv, NEW i, NEW n \in Int, Chunk(i, n), write' = Tail(write),
           current_sync' = Released(i, Claimed(i)),
           Has(i, "WaitResponse"), AwaitResponse(i)
    PROVE  IInv'
<1>1. /\ message_vec' = [message_vec EXCEPT ![i] = SentStub(message_vec[i])]
      /\ peer' = peer \cup {message_vec[i].msg} /\ pc' = AfterChunk
      /\ UNCHANGED <<order, cache, life>>
  BY SMTT(60) DEF AwaitResponse
<1>2. /\ Filling /\ ~MustWait(i) /\ TypeOK /\ ~stopping /\ i = Head(write)
      /\ i \in Slots /\ i \in Range(write) /\ i \in Range(order)
      /\ message_vec[i] \in Stubs /\ OrderStub(i)
      /\ PacketOK' /\ AfterChunk \in PCs \ {"fetch"}
      /\ UNCHANGED <<stopping, handle, pool>>
  BY ChunkFacts
<1>3. LET stub == SentStub(message_vec[i])
      IN  /\ stub \in Stubs /\ stub.msg = message_vec[i].msg
          /\ stub.unique = message_vec[i].unique /\ ~stub.ser
          /\ stub.flags = (message_vec[i].flags \ {"StartedSend"}) \cup {"DoneSend"}
  <2>1. "DoneSend" \in Flags
    BY DEF Flags
  <2> QED BY <1>2, <2>1, ZenonT(60) DEF SentStub, Stubs
<1>4. /\ message_vec' \in Seq(Stubs) /\ Slots' = Slots
      /\ message_vec'[i] = SentStub(message_vec[i])
      /\ \A j \in Slots : j # i => message_vec'[j] = message_vec[j]
      /\ Accounted' /\ StubStates' /\ IdStates'
      /\ \A m \in Msgs : life[m] # "new" /\ Denotes(handle[m], i)
                           => m = message_vec[i].msg
  <2>1. /\ "Canceled" \notin SentStub(message_vec[i]).flags
        /\ "WaitResponse" \in SentStub(message_vec[i]).flags => Has(i, "WaitResponse")
    BY <1>2, <1>3, ZenonT(60) DEF OrderStub, Has
  <2> QED BY <1>1, <1>2, <1>3, <2>1, FrontStubStep, ZenonT(60)
<1>5. ~message_vec'[i].ser /\ Has(i, "DoneSend")' /\ Has(i, "WaitResponse")'
      /\ ~Has(i, "Canceled")'
  <2>1. /\ ~message_vec'[i].ser
        /\ message_vec'[i].flags = (message_vec[i].flags \ {"StartedSend"}) \cup {"DoneSend"}
    BY <1>3, <1>4, Zenon
  <2>2. ~Has(i, "Canceled")
    BY <1>2, Zenon DEF OrderStub
  <2> QED BY <2>1, <2>2, Zenon DEF Has
<1>6. /\ write' \in Seq(Slots) /\ IsInjective(write') /\ Range(write') = Range(write) \ {i}
      /\ \A k \in 1..Len(write') : \E l \in 1..Len(write) : l >= k /\ write'[k] = write[l]
  BY <1>2, FrontFacts, Zenon DEF Without
<1>7. current_sync' = IF current_sync = i THEN NoSlot ELSE current_sync
  BY <1>2, ReleasedSync, ZenonT(60)
<1>8. Range(order) \subseteq Slots /\ Range(write) \subseteq Slots
      /\ Range(cache) \subseteq Slots /\ i \notin Range(cache)
  BY <1>2, ListElements, FrontFacts
<1>9. TypeOK'
  <2>1. current_sync' \in Slots \cup {NoSlot}
    BY <1>2, <1>7, ZenonT(60) DEF TypeOK
  <2>2. stopping' \in BOOLEAN /\ handle' \in [Msgs -> MessageIds]
        /\ pool' \in Seq(Msgs) /\ life' \in [Msgs -> Lives] /\ order' \in Seq(Slots)
        /\ cache' \in Seq(Slots) /\ pc' \in PCs
    BY <1>1, <1>2, ZenonT(60) DEF TypeOK
  <2>3. peer' \subseteq Request
    BY <1>1, <1>2, ZenonT(60) DEF TypeOK, OrderStub
  <2> QED BY <1>2, <1>4, <1>6, <2>1, <2>2, <2>3, ZenonT(60) DEF TypeOK, PacketOK
<1>10. ListsDisjoint'
  <2>1. ListsDisjoint /\ ~stopping /\ order' = order /\ cache' = cache /\ Slots' = Slots
    BY <1>1, <1>2, <1>4, FrontFacts, Zenon DEF IInv
  <2>2. \A j \in Range(write') :
          j # i /\ j \in Range(write) /\ message_vec'[j] = message_vec[j]
    BY <1>4, <1>6, <1>8, Zenon
  <2>3. Range(order') \cup Range(write') \cup Range(cache') = Slots'
    BY <1>2, <1>6, <2>1, Zenon DEF ListsDisjoint
  <2>4. \A j \in Range(write') :
          j \notin Range(order') <=> (message_vec'[j].ser /\ Has(j, "Canceled")')
    BY <2>1, <2>2, Zenon DEF ListsDisjoint, Has
  <2> QED BY <1>6, <2>1, <2>3, <2>4, Zenon DEF ListsDisjoint
<1>11. CurrentSyncQueued' /\ SyncExclusive'
  BY <1>2, <1>4, <1>6, <1>7, <1>8, ZenonT(60) DEF IInv, CurrentSyncQueued, SyncExclusive, Has
<1>12. OnlyFrontContinues'
  <2> SUFFICES ASSUME NEW k \in 1..Len(write'), message_vec'[write'[k]].packet_count # 0
               PROVE  k = 1
    BY Zenon DEF OnlyFrontContinues
  <2>1. PICK l \in 1..Len(write) : l >= k /\ write'[k] = write[l]
    BY <1>6, ZenonT(60)
  <2>2. write'[k] \in Slots /\ write'[k] # i
    <3>1. write'[k] \in Range(write')
      BY <1>6, ElementInRange, Zenon
    <3> QED BY <1>6, <1>8, <3>1, Zenon
  <2>3. l = 1
    BY <1>2, <1>4, <2>1, <2>2, ZenonT(60) DEF IInv, OnlyFrontContinues
  <2> QED BY <1>6, <2>1, <2>3, FrontPlace, Zenon
<1>13. QueueStates'
  <2>1. /\ \A j \in Range(cache) : ~message_vec[j].ser /\ message_vec[j].flags = {}
        /\ \A j \in Range(write) :
             /\ j \in Range(order) => ~Has(j, "DoneSend")
             /\ ~message_vec[j].ser => message_vec[j].packet_count = 0
        /\ \A j \in Range(order) : j \notin Range(write) =>
             ~message_vec[j].ser /\ Has(j, "DoneSend") /\ Has(j, "WaitResponse")
    BY <1>2, Zenon DEF IInv, QueueStates
  <2>2. \A j \in Slots : j # i => message_vec'[j] = message_vec[j]
    BY <1>4, Zenon
  <2>3. Range(write') = Range(write) \ {i} /\ cache' = cache /\ order' = order
    BY <1>1, <1>6, ZenonT(60)
  <2> QED BY <1>5, <1>8, <2>1, <2>2, <2>3, ZenonT(60) DEF QueueStates, Has
<1>14. PeerStates'
  <2> SUFFICES ASSUME NEW m \in peer' PROVE life[m] # "new" /\ PeerState(m)'
    BY <1>1, Zenon DEF PeerStates
  <2>1. m \in Msgs /\ life[m] # "new"
    BY <1>1, <1>2, MsgsAssumption, ZenonT(60) DEF IInv, PeerStates, TypeOK, OrderStub
  <2>2. ASSUME NEW j \in Slots, j # i, Denotes(handle[m], j)' PROVE m \in peer
    <3>1. ~Denotes(handle[m], i)
      BY <1>2, <2>2, ZenonT(60) DEF Denotes
    <3> QED BY <1>1, <1>2, <3>1, ZenonT(60) DEF OrderStub
  <2>3. ASSUME NEW j \in Slots, j # i, Denotes(handle[m], j)'
        PROVE  ~message_vec'[j].ser /\ Has(j, "DoneSend")' /\ ~Has(j, "Canceled")'
    <3>1. Denotes(handle[m], j)
      BY <1>2, <1>4, <2>3, ZenonT(60) DEF Denotes
    <3>2. m \in peer
      BY <2>2, <2>3, ZenonT(60)
    <3>3. PeerState(m)
      BY <3>2, ZenonT(60) DEF IInv, PeerStates
    <3> QED BY <1>4, <2>3, <3>1, <3>3, ZenonT(60) DEF PeerState, Has
  <2> QED BY <1>4, <1>5, <2>1, <2>3, ZenonT(60) DEF PeerState
<1>15. StopStates'
  BY <1>1, <1>2, ZenonT(60) DEF StopStates
<1> QED BY <1>4, <1>9, <1>10, <1>11, <1>12, <1>13, <1>14, <1>15, ZenonT(60) DEF IInv

\* The last part of any other message goes out: the message is completed and
\* its stub is free.
LEMMA CompleteSentStep ==
    ASSUME IInv, UniqueMod = 0, NEW i, NEW n \in Int, Chunk(i, n),
           write' = Tail(write), current_sync' = Released(i, Claimed(i)),
           CompleteSent(i)
    PROVE  IInv'
<1>1. /\ order' = Erase(order, i) /\ doUnprepareMessageStub(i) /\ peer' = peer
      /\ life' = Completed(message_vec[i].msg, "sent") /\ pc' = "complete"
  BY Zenon DEF CompleteSent
<1>2. /\ Filling /\ ~MustWait(i) /\ TypeOK /\ ~stopping /\ i = Head(write)
      /\ i \in Slots /\ i \in Range(order) /\ PacketOK'
      /\ UNCHANGED <<stopping, handle, pool>>
  BY ChunkFacts, Zenon
<1>3. i \notin Range(cache) /\ Without(write, write', i)
  BY <1>2, FrontFacts, Zenon
<1>4. Without(order, order', i)
  BY <1>1, <1>2, EraseWithout, Zenon DEF IInv, StubStates, TypeOK
<1>5. current_sync' = IF current_sync = i THEN NoSlot ELSE current_sync
  BY <1>2, ReleasedSync, Zenon
<1>6. "sent" \in Lives \ {"new", "accepted", "twice"} /\ Ends(i, "sent")
  BY <1>1, <1>2, CompletedOnce, Zenon DEF Lives, Ends
<1>7. pool' \in Seq(Msgs) /\ pc' \in PCs \ {"fetch"} /\ peer' \subseteq peer
  BY <1>1, <1>2, ZenonT(60) DEF TypeOK, PCs
<1> QED BY <1>1, <1>2, <1>3, <1>4, <1>5, <1>6, <1>7, FreeStep, ZenonT(60)

\* The last part of a message goes out: a request waits, any other is completed.
LEMMA SerializeLastStep == ASSUME IInv, UniqueMod = 0, SerializeLast PROVE IInv'
<1>1. PICK i : i = Head(write)
  OBVIOUS
<1>2. PICK n : n = Remaining(i)
  BY Zenon
<1>3. /\ Chunk(i, n) /\ write' = Tail(write) /\ current_sync' = Released(i, Claimed(i))
      /\ \/ Has(i, "WaitResponse") /\ AwaitResponse(i)
         \/ CompleteSent(i)
  BY <1>1, <1>2, ZenonT(60) DEF SerializeLast
<1>4. n \in Int
  <2>1. TypeOK /\ i \in Slots /\ i \in Range(write) /\ ~stopping /\ ~Has(i, "Canceled")
    BY <1>1, <1>3, FrontFacts, ZenonT(60) DEF Chunk
  <2>2. message_vec[i].msg \in Msgs
    BY <2>1, ZenonT(60) DEF IInv, ListsDisjoint, StubStates, OrderStub
  <2>3. message_vec[i] \in Stubs
    BY <2>1, SMTT(60) DEF TypeOK, Slots
  <2>4. message_vec[i].rem \in Nat
    BY <2>3 DEF Stubs
  <2> QED BY <1>2, <2>2, <2>4, MsgsAssumption, SMTT(60) DEF Remaining
<1> QED BY <1>3, <1>4, AwaitResponseStep, CompleteSentStep
=============================================================================
