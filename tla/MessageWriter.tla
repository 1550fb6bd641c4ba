--------------------------- MODULE MessageWriter ---------------------------
(***************************************************************************)
(* The sending half of an mpipc connection: class MessageWriter, driven by *)
(* the Connection that owns it.  Messages taken from the connection pool   *)
(* sit in the stubs of message_vec; three intrusive lists link the stubs:  *)
(*   order  every message not completed yet, oldest first;                 *)
(*   write  the messages multiplexed on the wire, next one to send first;  *)
(*   cache  the free stubs.  It SHARES ITS LINK with write.                *)
(* All of it runs on the reactor thread of the connection.  write() is     *)
(* broken into one step per iteration of its loops because the completion  *)
(* callback, called in the middle of a packet, polls the pool, and the     *)
(* pool enqueues more messages.                                            *)
(***************************************************************************)
EXTENDS Integers, FiniteSets, InnerLists

CONSTANTS
    Msgs,             \* the messages the pool may hand to this connection
    NoMsg,            \* the null message pointer
    Sync,             \* messages sent with the Synchronous flag
    Request,          \* messages sent with the WaitResponse flag
    Idempotent,       \* messages that may be sent again on another connection
    Reusable,         \* messages the application sends over and over
    Size,             \* serialized size of every message
    MaxMultiplex,     \* max_message_count_multiplex
    MaxResponseWait,  \* max_message_count_response_wait
    MaxContinuous,    \* max_message_continuous_packet_count
    BufSize,          \* capacity of the send buffer
    HeaderSize,       \* PacketHeader::SizeOfE
    MinFree,          \* minimumFreePacketDataSize
    UniqueMod,        \* values of a stub's unique counter, 0: it never wraps
    \* What the environment of a run does:
    MayCancel,        \* messages the application may cancel
    CancelUnstarted,  \* ... also requests of which nothing was sent yet
    Compresses,       \* inplace_compress_fnc shrinks, or fails on, a packet
    SerializerFails,  \* a message may fail to serialize
    PollFails,        \* pollPoolForUpdates may return an error
    MayStop           \* the connection may stop

ASSUME MsgsAssumption ==
    /\ NoMsg \notin Msgs
    /\ Sync \subseteq Msgs /\ Request \subseteq Msgs /\ Idempotent \subseteq Msgs
    /\ Reusable \subseteq Msgs \ Request /\ MayCancel \subseteq Msgs
    /\ Size \in [Msgs -> Nat \ {0}]

ASSUME BoundsAssumption ==
    /\ MaxMultiplex \in Nat \ {0} /\ MaxResponseWait \in Nat
    /\ MaxContinuous \in Nat \ {0}
    /\ HeaderSize \in Nat \ {0} /\ MinFree \in Nat \ {0}
    /\ BufSize \in Nat /\ BufSize >= HeaderSize + MinFree
    /\ UniqueMod \in Nat

ASSUME SwitchesAssumption ==
    /\ CancelUnstarted \in BOOLEAN /\ Compresses \in BOOLEAN
    /\ SerializerFails \in BOOLEAN /\ PollFails \in BOOLEAN /\ MayStop \in BOOLEAN

VARIABLES
    message_vec,   \* the stubs
    order,         \* order_inner_list, front first
    write,         \* write_inner_list, front first
    cache,         \* cache_inner_list, front first
    current_sync,  \* current_synchronous_message_idx
    pc,            \* where write() is
    pkt,           \* the chunks put in the packet being filled
    room,          \* _pbufend - pbufpos, the bytes really left
    freesz,        \* the bytes doFillPacket believes are left
    data,          \* _pbufend - pbufdata, the room the packet's data began with
    out,           \* the packets of this call to write()
    err,           \* _rerror
    keep,          \* _keep_alive
    stopping,      \* Connection::isStopping()
    handle,        \* the last MessageId enqueue returned for a message
    peer,          \* requests the peer has received and not answered
    pool,          \* messages put back in the pool, front first
    life           \* what became of every message

lists == <<message_vec, order, write, cache, current_sync>>
packet == <<pkt, room, freesz, data, out, err, keep>>
outside == <<stopping, handle, peer, pool, life>>
vars == <<lists, pc, packet, outside>>

NoSlot == 0
Flags == {"Synchronous", "WaitResponse", "Idempotent",
          "StartedSend", "DoneSend", "Canceled"}
SwitchTypes == {"New", "Old", "Continued", "OldCanceled", "ContinuedCanceled"}
Lives == {"new", "accepted", "sent", "answered", "canceled", "failed",
          "pool", "twice"}
Slots == DOMAIN message_vec
-----------------------------------------------------------------------------
\* Definitions marked "variant" are wrong on purpose: each stands in for the
\* definition that follows it to show that a property notices the mistake.

FlagsOf(m) == (IF m \in Sync THEN {"Synchronous"} ELSE {})
              \cup (IF m \in Request THEN {"WaitResponse"} ELSE {})
              \cup (IF m \in Idempotent THEN {"Idempotent"} ELSE {})

Has(i, flag) == flag \in message_vec[i].flags

\* MessageStub::clear
NextUnique(u) == IF UniqueMod = 0 THEN u + 1 ELSE (u + 1) % UniqueMod
ClearedKeepsUnique(stub) ==  \* variant
    [stub EXCEPT !.msg = NoMsg, !.flags = {}, !.packet_count = 0, !.ser = FALSE]
Cleared(stub) ==
    [msg |-> NoMsg, flags |-> {}, unique |-> NextUnique(stub.unique),
     packet_count |-> 0, ser |-> FALSE, rem |-> 0]

\* MessageWriter::doUnprepareMessageStub
doUnprepareMessageStub(i) ==
    /\ message_vec' = [message_vec EXCEPT ![i] = Cleared(@)]
    /\ cache' = PushFront(cache, i)

\* The completion callback of a message; a message is completed once.
Completed(m, how) ==
    [life EXCEPT ![m] = IF @ = "accepted" THEN how ELSE "twice"]

TakesMessage(m) == life[m] = "new" \/ (m \in Reusable /\ life[m] \in {"sent", "canceled"})

\* The limits enqueue respects.
Accepts(m) ==
    /\ Len(write) < MaxMultiplex
    /\ m \in Request => Len(order) < MaxMultiplex + MaxResponseWait

\* The stub vector with a stub put in a free or in a new place.
PlacedNoGrowth(idx, stub) == [message_vec EXCEPT ![idx] = stub]  \* variant
Placed(idx, stub) == IF idx \in Slots THEN [message_vec EXCEPT ![idx] = stub]
                     ELSE Append(message_vec, stub)

\* MessageWriter::enqueue, called by the pool before a write and, from the
\* completion callback, in the middle of one.
Enqueue(m) ==
    /\ pc \in {"idle", "complete"} /\ ~stopping
    /\ TakesMessage(m)
    /\ Accepts(m)
    /\ LET cached == cache # <<>>
           idx    == IF cached THEN Head(cache) ELSE Len(message_vec) + 1
           uniq   == IF cached THEN message_vec[idx].unique ELSE 0
           stub   == [msg |-> m, flags |-> FlagsOf(m), unique |-> uniq,
                      packet_count |-> 0, ser |-> FALSE, rem |-> 0]
       IN  /\ message_vec' = Placed(idx, stub)
           /\ cache' = IF cached THEN Tail(cache) ELSE cache
           /\ order' = PushBack(order, idx)
           /\ write' = PushBack(write, idx)
           /\ handle' = [handle EXCEPT ![m] = [index |-> idx, unique |-> uniq]]
    /\ life' = [life EXCEPT ![m] = "accepted"]
    /\ UNCHANGED <<current_sync, pc, packet, stopping, peer, pool>>

\* The stub a MessageId still denotes.
Denotes(id, i) == i \in Slots /\ id.index = i /\ id.unique = message_vec[i].unique

\* The stub holds a request nothing of which was sent.
Unstarted(i) == Has(i, "WaitResponse") /\ ~message_vec[i].ser /\ ~Has(i, "DoneSend")

\* doCancel takes a message that waits to be sent out of the write list; a
\* request it takes to be waiting for its response.
WriteUnlinkedNot(i) == write  \* variant
WriteUnlinked(i) == IF Has(i, "WaitResponse") THEN write ELSE Erase(write, i)

\* A message of which a part was sent stays queued until the peer is told.
CanceledStub(stub) ==
    [stub EXCEPT !.msg = NoMsg, !.flags = @ \cup {"Canceled"}, !.rem = 0]

\* MessageWriter::doCancel.  Once the connection is stopping write() is never
\* called again and nothing reads write or cache any more: the model lets them
\* rest.
doCancel(i, how) ==
    /\ ~Has(i, "Canceled")
    /\ order' = Erase(order, i)
    /\ life' = Completed(message_vec[i].msg, how)
    /\ \/ /\ message_vec[i].ser
          /\ message_vec' = [message_vec EXCEPT ![i] = CanceledStub(@)]
          /\ UNCHANGED <<write, cache>>
       \/ /\ ~message_vec[i].ser /\ ~stopping
          /\ write' = WriteUnlinked(i)
          /\ doUnprepareMessageStub(i)
       \/ /\ ~message_vec[i].ser /\ stopping
          /\ message_vec' = [message_vec EXCEPT ![i] = Cleared(@)]
          /\ UNCHANGED <<write, cache>>
    /\ UNCHANGED <<current_sync, pc, packet, stopping, handle, pool>>

\* Connection::doHandleEventCancelConnMessage
Cancel(m) ==
    /\ pc = "idle" /\ m \in MayCancel /\ life[m] # "new"
    /\ \E i \in Slots : /\ Denotes(handle[m], i)
                        /\ Unstarted(i) /\ ~stopping => CancelUnstarted
                        /\ doCancel(i, "canceled")
    /\ UNCHANGED peer

\* Connection::doCompleteMessage for a response: the request it answers is
\* taken out of the writer with cancel(); it may be gone.
Response(m) ==
    /\ pc = "idle" /\ m \in peer
    /\ peer' = peer \ {m}
    /\ \/ \E i \in Slots : Denotes(handle[m], i) /\ doCancel(i, "answered")
       \/ /\ \A i \in Slots : ~(Denotes(handle[m], i) /\ ~Has(i, "Canceled"))
          /\ UNCHANGED <<lists, pc, packet, stopping, handle, pool, life>>
-----------------------------------------------------------------------------
\* MessageWriter::write, called by Connection::doSend
StartWrite(keepalive) ==
    /\ pc = "idle" /\ ~stopping
    /\ pc' = "write"
    /\ room' = BufSize /\ out' = <<>> /\ err' = FALSE /\ keep' = keepalive
    /\ UNCHANGED <<lists, pkt, freesz, data, outside>>

BeginPacket ==
    /\ pc = "write" /\ room >= HeaderSize + MinFree
    /\ pc' = "fill"
    /\ pkt' = <<>>
    /\ room' = room - HeaderSize /\ freesz' = room' /\ data' = room'
    /\ UNCHANGED <<lists, out, err, keep, outside>>

\* The head of the loop of doFillPacket.
Filling == pc = "fill" /\ write # <<>> /\ freesz >= MinFree

\* A synchronous message has to wait for the current one.
MustWaitNever(i) == FALSE  \* variant
MustWait(i) == Has(i, "Synchronous") /\ current_sync \notin {NoSlot, i}

RotateSync ==
    /\ Filling /\ MustWait(Head(write))
    /\ write' = Rotate(write)
    /\ UNCHANGED <<message_vec, order, cache, current_sync, pc, packet, outside>>

\* MessageWriter::doPrepareMessageForSending: how the message enters the packet.
MsgSwitch(i) ==
    CASE ~message_vec[i].ser -> "New"
      [] Has(i, "Canceled") /\ message_vec[i].packet_count = 0 -> "OldCanceled"
      [] Has(i, "Canceled") /\ message_vec[i].packet_count # 0 -> "ContinuedCanceled"
      [] OTHER -> IF message_vec[i].packet_count = 0 THEN "Old" ELSE "Continued"

\* The switch of the first message of a packet is its header's type; the other
\* switches take a byte each, which freesz does not account for.
RoomAfterSwitch == IF pkt = <<>> THEN room ELSE room - 1

Claimed(i) == IF Has(i, "Synchronous") THEN i ELSE current_sync
Released(i, sync) == IF sync = i THEN NoSlot ELSE sync

\* The front message was cancelled while it was being sent: only the switch
\* that tells the peer so is written.
DropCanceled ==
    /\ Filling
    /\ LET i == Head(write) IN
       /\ ~MustWait(i) /\ Has(i, "Canceled") /\ RoomAfterSwitch >= 0
       /\ pkt' = Append(pkt, [type |-> MsgSwitch(i), msg |-> NoMsg, n |-> 0])
       /\ write' = Tail(write)
       /\ doUnprepareMessageStub(i)
       /\ current_sync' = Released(i, Claimed(i))
    /\ room' = RoomAfterSwitch
    /\ UNCHANGED <<order, pc, freesz, data, out, err, keep, outside>>

\* What the serializer of the message still has to write.
Remaining(i) == IF message_vec[i].ser THEN message_vec[i].rem
                ELSE Size[message_vec[i].msg]

FreeUnchanged(n) == freesz  \* variant
FreeAfter(n) == freesz - n

\* The front message gets a chunk of n bytes in the packet.
Chunk(i, n) ==
    /\ Filling /\ i = Head(write)
    /\ ~MustWait(i) /\ ~Has(i, "Canceled")
    /\ n > 0
    /\ pkt' = Append(pkt, [type |-> MsgSwitch(i), msg |-> message_vec[i].msg, n |-> n])
    /\ room' = RoomAfterSwitch - n
    /\ freesz' = FreeAfter(n)
    /\ UNCHANGED <<data, out, err, keep, stopping, handle, pool>>

AfterChunk == IF err THEN "packet" ELSE "fill"

\* The packets a message has had in a row; at the limit it is rotated.
LastInARow(i) == message_vec[i].packet_count + 1 >= MaxContinuous
CountNotReset(i) == message_vec[i].packet_count + 1  \* variant
CountAfter(i) == IF LastInARow(i) THEN 0 ELSE message_vec[i].packet_count + 1

StartedStub(i, n) ==
    [message_vec[i] EXCEPT !.flags = @ \cup {"StartedSend"}, !.ser = TRUE,
                           !.rem = Remaining(i) - n, !.packet_count = CountAfter(i)]

\* doTryCompleteMessageAfterSerialization, the message is not done: the packet
\* is full.
SerializePart ==
    LET i == Head(write)
        n == RoomAfterSwitch
    IN  /\ Chunk(i, n)
        /\ n < Remaining(i)
        /\ message_vec' = [message_vec EXCEPT ![i] = StartedStub(i, n)]
        /\ write' = IF LastInARow(i) THEN Rotate(write) ELSE write
        /\ current_sync' = Claimed(i)
        /\ pc' = AfterChunk
        /\ UNCHANGED <<order, cache, peer, life>>

\* A request that is sent waits for its response ...
SentStub(stub) == [stub EXCEPT !.flags = (@ \ {"StartedSend"}) \cup {"DoneSend"},
                               !.ser = FALSE, !.rem = 0]
AwaitAndComplete(i) ==  \* variant
    /\ message_vec' = [message_vec EXCEPT ![i] = SentStub(@)]
    /\ peer' = peer \cup {message_vec[i].msg}
    /\ life' = Completed(message_vec[i].msg, "sent")
    /\ pc' = AfterChunk
    /\ UNCHANGED <<order, cache>>
AwaitResponse(i) ==
    /\ message_vec' = [message_vec EXCEPT ![i] = SentStub(@)]
    /\ peer' = peer \cup {message_vec[i].msg}
    /\ pc' = AfterChunk
    /\ UNCHANGED <<order, cache, life>>

\* ... and any other message is completed at once.
CompleteSent(i) ==
    /\ order' = Erase(order, i)
    /\ doUnprepareMessageStub(i)
    /\ life' = Completed(message_vec[i].msg, "sent")
    /\ pc' = "complete"
    /\ UNCHANGED peer

\* doTryCompleteMessageAfterSerialization, the message is done.
SerializeLast ==
    LET i == Head(write) IN
    /\ Chunk(i, Remaining(i))
    /\ Remaining(i) <= RoomAfterSwitch
    /\ write' = Tail(write)
    /\ current_sync' = Released(i, Claimed(i))
    /\ \/ Has(i, "WaitResponse") /\ AwaitResponse(i)
       \/ ~Has(i, "WaitResponse") /\ CompleteSent(i)

\* The completion callback returns what pollPoolForUpdates returned.
CompleteReturns(e) ==
    /\ pc = "complete"
    /\ e => PollFails
    /\ err' = e
    /\ pc' = IF e THEN "packet" ELSE "fill"
    /\ UNCHANGED <<lists, pkt, room, freesz, data, out, keep, outside>>

\* The message does not serialize, or the switch bytes have used up the room
\* freesz promised: doFillPacket returns a null pointer, or has written past
\* the end of the buffer, and write() computes the packet's size from that.
SerializeFails ==
    /\ Filling
    /\ LET i == Head(write) IN
       /\ ~MustWait(i)
       /\ \/ Has(i, "Canceled") /\ RoomAfterSwitch < 0
          \/ ~Has(i, "Canceled") /\ (SerializerFails \/ RoomAfterSwitch <= 0)
    /\ pc' = "bogus"
    /\ UNCHANGED <<lists, packet, outside>>

FillDone ==
    /\ pc = "fill" /\ ~Filling
    /\ pc' = "packet"
    /\ UNCHANGED <<lists, packet, outside>>

\* What inplace_compress_fnc may make of a packet's data (external).
StoredSizes(size) == IF Compresses THEN {1, size} ELSE {size}

\* The packet goes into the buffer behind its header ...
StorePacket(size) ==
    /\ pc = "packet" /\ room # data
    /\ size \in StoredSizes(data - room)
    /\ out' = Append(out, [chunks |-> pkt, size |-> size])
    /\ room' = data - size
    /\ pkt' = <<>>
    /\ pc' = "write"
    /\ UNCHANGED <<lists, freesz, data, err, keep, outside>>

\* ... unless it has no data: then write() has nothing more to send, and a
\* packet that holds only the switch of a cancelled message is dropped ...
EmptyPacket ==
    /\ pc = "packet" /\ room = data
    /\ pkt' = <<>> /\ room' = data + HeaderSize /\ pc' = "return"
    /\ UNCHANGED <<lists, freesz, data, out, err, keep, outside>>

\* ... or its compression fails.
CompressFails ==
    /\ pc = "packet" /\ room # data /\ Compresses
    /\ err' = TRUE
    /\ pkt' = <<>> /\ room' = data + HeaderSize /\ pc' = "return"
    /\ UNCHANGED <<lists, freesz, data, out, keep, outside>>

KeepAlive == [chunks |-> <<>>, size |-> 0]

\* What write() leaves in the buffer for the socket.
Sent == IF out = <<>> /\ ~err /\ keep THEN <<KeepAlive>> ELSE out

\* write() returns; doSend gives the buffer to the socket and, on an error,
\* stops the connection.
WriteReturns ==
    /\ pc = "return" \/ (pc = "write" /\ room < HeaderSize + MinFree)
    /\ pc' = IF err THEN "stop" ELSE "idle"
    /\ out' = <<>> /\ room' = 0 /\ freesz' = 0 /\ data' = 0 /\ keep' = FALSE
    /\ UNCHANGED <<lists, pkt, err, outside>>
-----------------------------------------------------------------------------
\* Connection::doStop.  Unless the pool is closing fast it takes back the
\* messages that may still be sent on another connection.
Stop(fetch) ==
    /\ pc = "stop" \/ (pc = "idle" /\ MayStop)
    /\ ~stopping
    /\ stopping' = TRUE
    /\ pc' = IF fetch THEN "fetch" ELSE "idle"
    /\ UNCHANGED <<lists, packet, handle, peer, pool, life>>

\* The condition of Service::doPushFrontMessageToPool.
Resendable(i) == \/ Has(i, "Idempotent")
                 \/ ~Has(i, "StartedSend") /\ ~Has(i, "DoneSend")

\* forEveryMessagesNewerToOlder visits the messages from the front of order to
\* its back; a resendable one moves to the front of the pool.
FetchResendable ==
    /\ pc = "fetch"
    /\ \E k \in 1..Len(order) :
         LET i == order[k] IN
         /\ Resendable(i) /\ \A j \in 1..k - 1 : ~Resendable(order[j])
         /\ order' = Erase(order, i)
         /\ pool' = <<message_vec[i].msg>> \o pool
         /\ life' = [life EXCEPT ![message_vec[i].msg] = "pool"]
         /\ message_vec' = [message_vec EXCEPT ![i] = Cleared(@)]
    /\ UNCHANGED <<write, cache, current_sync, pc, packet, stopping, handle, peer>>

FetchDone ==
    /\ pc = "fetch" /\ \A k \in 1..Len(order) : ~Resendable(order[k])
    /\ pc' = "idle"
    /\ UNCHANGED <<lists, packet, outside>>

CancelOldestRetries ==  \* variant
    /\ pc = "idle" /\ stopping /\ order # <<>>
    /\ UNCHANGED vars

\* MessageWriter::cancelOldest, from Connection::doCompleteAllMessages
CancelOldest ==
    /\ pc = "idle" /\ stopping /\ order # <<>>
    /\ doCancel(Head(order), "failed")
    /\ UNCHANGED peer

\* A stopped connection with nothing left to complete, or a failed assertion.
Stopped ==
    /\ pc = "bogus" \/ (pc = "idle" /\ stopping /\ order = <<>>)
    /\ UNCHANGED vars
-----------------------------------------------------------------------------
Init ==
    /\ message_vec = <<>> /\ order = <<>> /\ write = <<>> /\ cache = <<>>
    /\ current_sync = NoSlot
    /\ pc = "idle"
    /\ pkt = <<>> /\ room = 0 /\ freesz = 0 /\ data = 0 /\ out = <<>>
    /\ err = FALSE /\ keep = FALSE
    /\ stopping = FALSE
    /\ handle = [m \in Msgs |-> [index |-> NoSlot, unique |-> 0]]
    /\ peer = {} /\ pool = <<>>
    /\ life = [m \in Msgs |-> "new"]

FillStep == RotateSync \/ DropCanceled \/ SerializePart \/ SerializeLast
            \/ SerializeFails \/ FillDone
PacketStep == BeginPacket \/ (\E s \in 1..BufSize : StorePacket(s)) \/ EmptyPacket
              \/ CompressFails \/ WriteReturns
Callback == \E e \in BOOLEAN : CompleteReturns(e)

Next ==
    \/ \E m \in Msgs : Enqueue(m) \/ Cancel(m) \/ Response(m)
    \/ \E k \in BOOLEAN : StartWrite(k)
    \/ FillStep \/ PacketStep \/ Callback
    \/ \E fetch \in BOOLEAN : Stop(fetch)
    \/ FetchResendable \/ FetchDone \/ CancelOldest \/ Stopped

Spec == Init /\ [][Next]_vars
-----------------------------------------------------------------------------
MessageIds == [index : Nat, unique : Nat]
Stubs == [msg : Msgs \cup {NoMsg}, flags : SUBSET Flags, unique : Nat,
          packet_count : Nat, ser : BOOLEAN, rem : Nat]
Chunks == [type : SwitchTypes, msg : Msgs \cup {NoMsg}, n : Nat]
Packets == [chunks : Seq(Chunks), size : Nat]
PCs == {"idle", "write", "fill", "complete", "packet", "return", "bogus",
        "stop", "fetch"}

\* Type invariant: the shape of the writer's state and of the buffer.
TypeOK ==
    /\ message_vec \in Seq(Stubs)
    /\ order \in Seq(Slots) /\ write \in Seq(Slots) /\ cache \in Seq(Slots)
    /\ current_sync \in Slots \cup {NoSlot}
    /\ pc \in PCs
    /\ pkt \in Seq(Chunks) /\ out \in Seq(Packets)
    /\ room \in Int /\ freesz \in Int /\ data \in Int
    /\ err \in BOOLEAN /\ keep \in BOOLEAN /\ stopping \in BOOLEAN
    /\ handle \in [Msgs -> MessageIds]
    /\ peer \subseteq Request /\ pool \in Seq(Msgs)
    /\ life \in [Msgs -> Lives]

\* The three lists partition the stubs the way the shared link demands: no stub
\* is twice in a list, none is free and queued, none is lost; a stub is out of
\* order but still in write exactly when its message was cancelled while it was
\* being sent (doCancel, doFillPacket, doTryCompleteMessageAfterSerialization).
ListsDisjoint ==
    ~stopping =>
        /\ IsInjective(order) /\ IsInjective(write) /\ IsInjective(cache)
        /\ Range(cache) \cap (Range(write) \cup Range(order)) = {}
        /\ Range(order) \cup Range(write) \cup Range(cache) = Slots
        /\ \A i \in Range(write) : i \notin Range(order)
                                   <=> (message_vec[i].ser /\ Has(i, "Canceled"))

\* The current synchronous message is in the write list and has begun: without
\* that doFillPacket would rotate the waiting synchronous messages for ever.
CurrentSyncQueued ==
    ~stopping /\ current_sync # NoSlot =>
        /\ current_sync \in Range(write)
        /\ message_vec[current_sync].ser /\ Has(current_sync, "Synchronous")

\* At most one synchronous message is on the wire at any time, a cancelled one
\* whose cancellation was not written yet included.
SyncExclusive ==
    ~stopping =>
        \A i \in Range(write) : message_vec[i].ser /\ Has(i, "Synchronous")
                                => i = current_sync

\* Only the message at the front of the write list can be in the middle of its
\* run of continuous packets: ContinuedMessageTypeE names no message, the reader
\* takes it to be the one of the previous packet.
OnlyFrontContinues ==
    ~stopping => \A k \in 1..Len(write) :
                    message_vec[write[k]].packet_count # 0 => k = 1

\* No completion callback is called twice for a message, and a message that was
\* accepted stays reachable from the order list until it is completed or goes
\* back to the pool, however enqueue, cancel, responses and stop interleave.
Accounted ==
    \A m \in Msgs :
        /\ life[m] # "twice"
        /\ life[m] = "accepted" <=> \E i \in Range(order) : message_vec[i].msg = m

\* A MessageId held by the application or by the peer never denotes another
\* message than the one it was given for.
IdsNeverAlias ==
    \A m \in Msgs, i \in Slots :
        life[m] # "new" /\ Denotes(handle[m], i) =>
            \/ message_vec[i].msg = m
            \/ message_vec[i].msg = NoMsg /\ life[m] # "accepted"

\* doFillPacket finds no room for the next message although freesz promises MinFree
\* bytes only when the packet already has MinFree messages: every switch but the first
\* takes a byte that freesz does not count.
NoRoomOnlyWhenCrowded == Filling /\ RoomAfterSwitch <= 0 => Len(pkt) >= MinFree

\* Round robin: a message that need not wait for synchronous ones is sent (or
\* completed otherwise) even when others are enqueued for ever.
AsyncProgress ==
    \A m \in Msgs \ (Sync \cup Request) : life[m] = "accepted" ~> life[m] # "accepted"

\* A stopping connection completes every message it still holds.
StopCompletesAll == stopping ~> (\A m \in Msgs : life[m] # "accepted")

\* Synchronous messages go out in the order they were sent: none has begun while
\* an older one is not completely on the wire (doFillPacket).
SynchronousInOrder ==
    ~stopping => \A j, k \in 1..Len(order) :
        /\ j < k
        /\ Has(order[j], "Synchronous") /\ Has(order[k], "Synchronous")
        /\ message_vec[order[k]].ser \/ Has(order[k], "DoneSend")
        => Has(order[j], "DoneSend")
=============================================================================
