------------------------------ MODULE MCWires ------------------------------
(***************************************************************************)
(* Two instances of Wire side by side, over the same variables: a working  *)
(* connection, whose constants the configuration gives, and one on which   *)
(* messages are cancelled while they are sent and packets and messages     *)
(* fail.  In every behaviour one of the two runs.                          *)
(***************************************************************************)
EXTENDS MCWire

VARIABLES
    part,  \* the instance that runs: "working" or "faults"
    lost   \* the notice of a cancelled message was dropped or not read

F == INSTANCE Wire WITH Request <- {a}, BufSize <- 8, HeaderSize <- 2, MayCancel <- {b, c}, Compresses <- TRUE,
        SerializerFails <- TRUE, PollFails <- TRUE, PointerSize <- 4, MaxInFlight <- 1

Working == part = "working"
wiresVars == <<part, lost, wireVars>>

WiresInit ==
    /\ part \in {"working", "faults"}
    /\ \/ Working /\ WireInit
       \/ ~Working /\ F!WireInit
    /\ lost = FALSE

\* write() drops a packet that has the switch of a cancelled message and no data; the
\* reader leaves the packet before it looks at such a switch in its last byte.
LosesNotice ==
    \/ pc = "packet" /\ pc' = "return" /\ room = data /\ pkt # <<>>
    \/ R!TrailingCancel /\ chunks' = <<>>

WiresNext ==
    /\ \/ Working /\ WireNext
       \/ ~Working /\ F!WireNext
    /\ lost' = (lost \/ LosesNotice)
    /\ UNCHANGED part

\* Only of the working connection something is promised.
WiresSpec == WiresInit /\ [][WiresNext]_wiresVars /\ (Working => WireFairness)
-----------------------------------------------------------------------------
\* The reader of a working connection never takes bytes for those of another
\* message, never meets a switch it cannot follow (the assertions of
\* doConsumePacket) and, having the writer's limit of multiplexed messages,
\* never has too many of them.
WorkingIntact == Working => Intact

\* Between packets the reader's queue is the writer's: the same messages, in the
\* order in which their next chunks will come, with the bytes that are missing
\* (doPrepareMessageForSending, doConsumePacket).
WorkingInStep == Working => InStep

\* A working connection is a channel: every message is delivered whole, once,
\* or was cancelled before any of it was sent (write, doFillPacket,
\* doConsumePacket).
ImplementsChannel ==
    /\ Working => Channel!Init
    /\ [][Working => Channel!Next]_<<status, delivered>>
    /\ Working => Channel!Fairness

\* Whatever is cancelled while it is being sent, and whatever fails, the reader takes no
\* bytes for those of another message and finds no fault with a packet unless the notice of
\* a cancelled message was lost: write() drops it when it is all a packet has, and
\* doConsumePacket does not look at it in the last byte of one.
AstrayOnlyByLostNotice == ~lost => ~astray /\ rpc # "error"
=============================================================================
