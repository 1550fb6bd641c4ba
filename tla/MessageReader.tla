--------------------------- MODULE MessageReader ---------------------------
(***************************************************************************)
(* The receiving half of an mpipc connection: class MessageReader, fed by  *)
(* Connection::onRecv.  A packet is a record of its chunks and of the size *)
(* of its data; the bytes themselves do not matter, only how many of them  *)
(* have arrived.  message_q holds the messages being received, the current *)
(* one in front.  A chunk does not say which message it belongs to: the    *)
(* reader infers that from the type of the switch before it.  Once it has  *)
(* inferred another message than the one that was sent it is astray: it    *)
(* goes on, and any message may come out of the bytes.                     *)
(***************************************************************************)
EXTENDS Integers, Sequences

CONSTANTS
    Msgs, NoMsg, Size,
    HeaderSize,      \* PacketHeader::SizeOfE
    MaxMultiplex,    \* max_message_count_multiplex
    PointerSize,     \* bytes of a message after which message_ptr is set
    MaxPacket        \* the most data a packet holds

VARIABLES
    net,        \* the packets sent and not consumed yet
    got,        \* how many of their bytes have been received
    state,      \* MessageReader::state
    rpc,        \* where read() is
    chunks,     \* what doConsumePacket has not consumed of the packet
    message_q,  \* the messages being received
    delivered,  \* the messages given to the completion function, in order
    astray      \* bytes of one message were taken for those of another

vars == <<net, got, state, rpc, chunks, message_q, delivered, astray>>
queue == <<message_q, delivered, astray>>

Empty == [msg |-> NoMsg, n |-> 0]
HasPointer(stub) == stub.msg # NoMsg /\ stub.n >= PointerSize
Front == Head(message_q)
IsKeepAlive(packet) == packet.chunks = <<>>
PacketSize == HeaderSize + Head(net).size
Rest == Tail(net)
-----------------------------------------------------------------------------
\* Connection::onRecv is called with n more bytes and calls read().
Receive(n) ==
    /\ rpc = "idle" /\ n > 0
    /\ got' = got + n
    /\ rpc' = "read"
    /\ UNCHANGED <<net, state, chunks, queue>>

\* read() returns: it has used up the buffer, or has only a part of a header ...
ReadReturns ==
    /\ rpc = "read" /\ (got = 0 \/ (state = "header" /\ got < HeaderSize))
    /\ rpc' = "idle"
    /\ UNCHANGED <<net, got, state, chunks, queue>>

\* ... or only a part of the packet's data.
AwaitData ==
    /\ rpc = "read" /\ got >= HeaderSize /\ got < PacketSize
    /\ state' = "data"
    /\ rpc' = "idle"
    /\ UNCHANGED <<net, got, chunks, queue>>

\* In DataReadState the header is loaded without asking whether all of it has
\* arrived; its missing bytes are what the buffer happens to hold.
LoadPartialHeader ==
    /\ rpc = "read" /\ state = "data" /\ got \in 1..HeaderSize - 1
    /\ rpc' = "bogus"
    /\ UNCHANGED <<net, got, state, chunks, queue>>

ReadKeepAlive ==
    /\ rpc = "read" /\ got >= HeaderSize /\ IsKeepAlive(Head(net))
    /\ state' = "data"
    /\ got' = got - HeaderSize /\ net' = Rest
    /\ UNCHANGED <<rpc, chunks, queue>>

\* A packet is complete: doConsumePacket is called.
BeginConsumeOne ==  \* variant
    /\ rpc = "read" /\ got >= HeaderSize /\ got >= PacketSize /\ ~IsKeepAlive(Head(net))
    /\ state' = "data" /\ rpc' = "consume" /\ chunks' = <<Head(Head(net).chunks)>>
    /\ UNCHANGED <<net, got, queue>>
BeginConsume ==
    /\ rpc = "read" /\ got >= HeaderSize /\ got >= PacketSize /\ ~IsKeepAlive(Head(net))
    /\ state' = "data"
    /\ rpc' = "consume"
    /\ chunks' = Head(net).chunks
    /\ UNCHANGED <<net, got, queue>>
-----------------------------------------------------------------------------
\* The rest of doConsumePacket is one step per iteration of its loop.
Consuming(types) == rpc = "consume" /\ chunks # <<>> /\ Head(chunks).type \in types
Old == {"Old", "OldCanceled"}
Continued == {"Continued", "ContinuedCanceled"}
Canceled == {"OldCanceled", "ContinuedCanceled"}

\* The queue after the switch.  A new message takes the front; a switch to an old
\* one brings the next of the queue there; the message that was in front, if
\* there was one, goes to the back.
RequeuedNever == Tail(message_q)  \* variant
Requeued == IF HasPointer(Front) THEN Append(Tail(message_q), Front) ELSE Tail(message_q)

Switched == CASE Consuming({"New"}) -> <<[msg |-> Head(chunks).msg, n |-> 0]>> \o Requeued
              [] Consuming(Old) -> Requeued
              [] Consuming(Continued) -> message_q

\* What the reader checks of a switch.
TooMany == Consuming({"New"}) /\ HasPointer(Front) /\ Len(message_q) = MaxMultiplex
NothingToContinue == Consuming(Continued) /\ ~HasPointer(Front)

\* It does not check that there is an old message to switch to.
NothingOld == Consuming(Old) /\ Switched = <<>>
Followed == ~TooMany /\ ~NothingToContinue /\ ~NothingOld

\* The loop ends before the switch of a cancelled message when that is the last
\* byte of the packet.
TrailingCancel == Consuming(Canceled) /\ Len(chunks) = 1

\* The chunk is for the message the switch has brought to the front.
InTurn == Head(Switched).msg = Head(chunks).msg

\* The deserializer of the front message runs on the chunk: it is done with the
\* message when it has all its bytes.
Deserialize ==
    /\ Consuming({"New", "Old", "Continued"}) /\ Followed
    /\ InTurn /\ ~astray
    /\ LET chunk == Head(chunks)
           front == [Head(Switched) EXCEPT !.n = @ + chunk.n]
           done  == front.n = Size[chunk.msg]
       IN  /\ message_q' = <<IF done THEN Empty ELSE front>> \o Tail(Switched)
           /\ delivered' = IF done THEN Append(delivered, chunk.msg) ELSE delivered
    /\ chunks' = Tail(chunks)
    /\ UNCHANGED <<net, got, state, rpc, astray>>

\* The rest of a packet some of whose chunks were read with the one before them: a
\* byte of it is taken for a switch.
Misread == {<<>>} \cup {[SubSeq(chunks, k, Len(chunks)) EXCEPT ![1].type = t] :
                          k \in 2..Len(chunks), t \in {"New", "Old", "Continued"} \cup Canceled}

\* Bytes of one message are taken for those of another one: the deserializer reports an
\* error, or goes on, and may be done with that message.
Garble ==
    /\ Consuming({"New", "Old", "Continued"}) /\ Followed
    /\ astray \/ ~InTurn
    /\ astray' = TRUE
    /\ \/ rpc' = "error" /\ UNCHANGED <<chunks, message_q, delivered>>
       \/ /\ chunks' \in Misread
          /\ \/ message_q' = Switched /\ UNCHANGED delivered
             \/ /\ message_q' = <<Empty>> \o Tail(Switched)
                /\ delivered' = Append(delivered, Head(Switched).msg)
          /\ UNCHANGED rpc
    /\ UNCHANGED <<net, got, state>>

\* As DropFront below, without the clearing of the message
DropFrontKeeps ==  \* variant
    /\ Consuming(Canceled) /\ ~TrailingCancel /\ Followed
    /\ message_q' = Switched
    /\ chunks' = Tail(chunks)
    /\ UNCHANGED <<net, got, state, rpc, delivered, astray>>

\* The message of the switch is dropped.
DropFront ==
    /\ Consuming(Canceled) /\ ~TrailingCancel /\ Followed
    /\ message_q' = <<Empty>> \o Tail(Switched)
    /\ chunks' = Tail(chunks)
    /\ UNCHANGED <<net, got, state, rpc, delivered, astray>>

IgnoreSwitch ==
    /\ TrailingCancel
    /\ chunks' = <<>>
    /\ UNCHANGED <<net, got, state, rpc, queue>>

\* An error stops the connection; an assertion, or the front of an empty queue, the program.
ConsumeFails ==
    /\ ~Followed /\ ~TrailingCancel
    /\ rpc' = IF TooMany THEN "error" ELSE "bogus"
    /\ UNCHANGED <<net, got, state, chunks, queue>>

EndConsume ==
    /\ rpc = "consume" /\ chunks = <<>>
    /\ state' = "header"
    /\ got' = got - PacketSize /\ net' = Rest
    /\ rpc' = "read"
    /\ UNCHANGED <<chunks, queue>>
-----------------------------------------------------------------------------
\* MessageReader::prepare puts an empty message in the queue.
Init ==
    /\ net = <<>> /\ got = 0
    /\ state = "header" /\ rpc = "idle"
    /\ chunks = <<>> /\ message_q = <<Empty>>
    /\ delivered = <<>> /\ astray = FALSE

Read ==
    \/ ReadReturns \/ AwaitData \/ LoadPartialHeader \/ ReadKeepAlive
    \/ BeginConsume \/ EndConsume
    \/ Deserialize \/ Garble \/ DropFront \/ IgnoreSwitch \/ ConsumeFails

=============================================================================
