------------------------------- MODULE Wire -------------------------------
(***************************************************************************)
(* One direction of an mpipc connection: the MessageWriter of one process, *)
(* the stream of bytes, and the MessageReader of the other process.  The   *)
(* writer and the reader share no state.  They have to agree, packet after *)
(* packet, on the message every chunk belongs to, which only the types of  *)
(* the switches tell.                                                      *)
(***************************************************************************)
EXTENDS MessageWriter

CONSTANTS
    PointerSize,  \* bytes of a message after which the reader's message_ptr is set
    MaxInFlight,  \* packets on the wire before the sender's socket would block
    MayKeepAlive  \* the sender's inactivity timer may ask for keep-alive packets

ASSUME WireAssumption ==
    PointerSize \in Nat \ {0} /\ MaxInFlight \in Nat \ {0} /\ MayKeepAlive \in BOOLEAN

VARIABLES net, got, state, rpc, chunks, message_q, delivered, astray

R == INSTANCE MessageReader WITH MaxPacket <- BufSize

reader == <<got, state, rpc, chunks, message_q, delivered, astray>>
wireVars == <<vars, net, reader>>

WireSize == LET Bytes[k \in 0..Len(net)] ==
                    IF k = 0 THEN 0 ELSE Bytes[k - 1] + HeaderSize + net[k].size
            IN  Bytes[Len(net)]

\* doSend calls write() only when the previous buffer is sent.
WireStart(keepalive) ==
    /\ Len(net) < MaxInFlight
    /\ keepalive => MayKeepAlive
    /\ StartWrite(keepalive)
    /\ UNCHANGED <<net, reader>>

\* The buffer write() has filled goes to the stream, also when write() fails.
WireSend == WriteReturns /\ net' = net \o Sent /\ UNCHANGED reader

\* The other steps of write().
WireWrite ==
    /\ FillStep \/ Callback \/ BeginPacket \/ EmptyPacket \/ CompressFails
       \/ \E s \in 1..BufSize : StorePacket(s)
    /\ UNCHANGED <<net, reader>>

WireEnqueue(m) == Enqueue(m) /\ UNCHANGED <<net, reader>>
WireCancel(m) == Cancel(m) /\ UNCHANGED <<net, reader>>

\* The peer answers a request it has received; the answer comes on the other
\* direction of the connection.
WireResponse(m) ==
    /\ \E k \in 1..Len(delivered) : delivered[k] = m
    /\ Response(m)
    /\ UNCHANGED <<net, reader>>

WireReceive(n) == n <= WireSize - got /\ R!Receive(n) /\ UNCHANGED vars
WireRead == R!Read /\ UNCHANGED vars

WireInit == Init /\ R!Init

\* The connection stops, after an error or a failed assertion.
WireDone ==
    /\ pc \in {"bogus", "stop"} \/ rpc \in {"bogus", "error"}
    /\ UNCHANGED wireVars

WireNext ==
    \/ \E k \in BOOLEAN : WireStart(k)
    \/ WireSend \/ WireWrite
    \/ \E m \in Msgs : WireEnqueue(m) \/ WireCancel(m) \/ WireResponse(m)
    \/ \E n \in 1..WireSize - got : WireReceive(n)
    \/ WireRead
    \/ WireDone

WireSpec == WireInit /\ [][WireNext]_wireVars

\* The network delivers what was sent, the reader's reactor runs, and doSend is
\* called again as long as there is something to send.
WireFairness ==
    /\ WF_wireVars(WireRead) /\ WF_wireVars(\E n \in 1..WireSize - got : WireReceive(n))
    /\ WF_wireVars(WireSend) /\ WF_wireVars(WireWrite)
    /\ WF_wireVars(write # <<>> /\ \E k \in BOOLEAN : WireStart(k))
-----------------------------------------------------------------------------
\* A message some part of which is between the two applications.
InPackets(m, packets) == \E j \in 1..Len(packets) :
                            \E k \in 1..Len(packets[j].chunks) : packets[j].chunks[k].msg = m
OnItsWay(m) ==
    \/ \E k \in 1..Len(pkt) : pkt[k].msg = m
    \/ InPackets(m, out) \/ InPackets(m, net)
    \/ \E k \in 1..Len(message_q) : message_q[k].msg = m

status == [m \in Msgs |->
    CASE \E k \in 1..Len(delivered) : delivered[k] = m -> "delivered"
      [] life[m] = "new" -> "new"
      [] life[m] = "canceled" /\ ~OnItsWay(m) -> "dropped"
      [] OTHER -> "accepted"]

Channel == INSTANCE MessageChannel

\* The reader never takes bytes for those of another message, never meets a
\* switch it cannot follow (the assertions of doConsumePacket) and, having the
\* writer's limit of multiplexed messages, never has too many of them.
Intact == ~astray /\ rpc \notin {"bogus", "error"}

\* Between packets the reader's queue is the writer's: the same messages, in the
\* order in which their next chunks will come, with the bytes that are missing.
Begun == SelectSeq(write, LAMBDA i : message_vec[i].ser)
Receiving == SelectSeq(message_q, R!HasPointer)
NextInLine == IF Receiving = <<>> \/ ~R!HasPointer(Head(message_q))
                 \/ message_vec[Head(write)].packet_count # 0
              THEN Receiving ELSE Rotate(Receiving)
InStep ==
    pc = "idle" /\ rpc = "idle" /\ net = <<>> =>
        /\ Len(Begun) = Len(Receiving)
        /\ \A k \in 1..Len(Begun) :
              LET stub == message_vec[Begun[k]] IN
              NextInLine[k] = [msg |-> stub.msg, n |-> Size[stub.msg] - stub.rem]

=============================================================================
