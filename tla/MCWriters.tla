----------------------------- MODULE MCWriters -----------------------------
(***************************************************************************)
(* Three instances of MessageWriter side by side: one with every kind of   *)
(* message and everything that may go wrong with it, whose constants the   *)
(* configuration gives, one on which two messages are sent over and over,  *)
(* packets shrink and compression fails, and one on which a message of one *)
(* byte is sent over and over, so that packets are crowded.  In every      *)
(* behaviour one of them runs and the others stay where they begin; the    *)
(* last two have the same variables.                                       *)
(***************************************************************************)
EXTENDS MessageWriter

CONSTANTS a, b, c, d  \* messages

SizesEvents == [m \in Msgs |-> CASE m = a -> 1 [] m = b -> 16 [] m = c -> 4 [] OTHER -> 9]

VARIABLES
    part,  \* the instance that runs: "events", "traffic" or "crowd"
    t_message_vec, t_order, t_write, t_cache, t_current_sync, t_pc, t_pkt, t_room, t_freesz,
    t_data, t_out, t_err, t_keep, t_stopping, t_handle, t_peer, t_pool, t_life

Traffic ==
    INSTANCE MessageWriter WITH
        Msgs <- {a, b, c}, Sync <- {b}, Request <- {}, Idempotent <- {}, Reusable <- {a, b},
        Size <- [m \in {a, b, c} |-> CASE m = a -> 1 [] m = b -> 16 [] OTHER -> 9],
        UniqueMod <- 1, MayCancel <- {}, Compresses <- TRUE,
        SerializerFails <- FALSE, PollFails <- FALSE, MayStop <- FALSE,
        message_vec <- t_message_vec, order <- t_order, write <- t_write, cache <- t_cache,
        current_sync <- t_current_sync, pc <- t_pc, pkt <- t_pkt, room <- t_room, freesz <-
        t_freesz, data <- t_data, out <- t_out, err <- t_err, keep <- t_keep, stopping <-
        t_stopping, handle <- t_handle, peer <- t_peer, pool <- t_pool, life <- t_life

Crowd ==
    INSTANCE MessageWriter WITH
        Msgs <- {a, b, c}, Sync <- {}, Request <- {}, Idempotent <- {}, Reusable <- {a},
        Size <- [m \in {a, b, c} |-> CASE m = a -> 1 [] m = b -> 16 [] OTHER -> 9],
        BufSize <- 9, UniqueMod <- 1, MayCancel <- {}, Compresses <- FALSE,
        SerializerFails <- FALSE, PollFails <- FALSE, MayStop <- FALSE,
        message_vec <- t_message_vec, order <- t_order, write <- t_write, cache <- t_cache,
        current_sync <- t_current_sync, pc <- t_pc, pkt <- t_pkt, room <- t_room, freesz <-
        t_freesz, data <- t_data, out <- t_out, err <- t_err, keep <- t_keep, stopping <-
        t_stopping, handle <- t_handle, peer <- t_peer, pool <- t_pool, life <- t_life

trafficVars ==
    <<t_message_vec, t_order, t_write, t_cache, t_current_sync, t_pc, t_pkt, t_room, t_freesz,
      t_data, t_out, t_err, t_keep, t_stopping, t_handle, t_peer, t_pool, t_life>>
writersVars == <<part, vars, trafficVars>>

HasTraffic == part = "traffic"

WritersInit == part \in {"events", "traffic", "crowd"} /\ Init /\ Traffic!Init

WritersNext ==
    /\ \/ part = "events" /\ Next /\ UNCHANGED trafficVars
       \/ HasTraffic /\ Traffic!Next /\ UNCHANGED vars
       \/ part = "crowd" /\ Crowd!Next /\ UNCHANGED vars
    /\ UNCHANGED part

\* The steps of one call of write() follow each other and the callback returns; the
\* connection calls write() again while it has something to send (onSend and the repeat
\* loop of doSend); doStop runs after an error, and doCompleteAllMessages posts itself
\* until the writer is empty.  Only Traffic promises something for which that is needed.
Rest == HasTraffic /\ UNCHANGED <<part, vars>>
WriteRuns == Traffic!FillStep \/ Traffic!PacketStep \/ Traffic!Callback
WriteAgain == t_write # <<>> /\ \E k \in BOOLEAN : Traffic!StartWrite(k)
StopRuns == \/ \E fetch \in BOOLEAN : Traffic!Stop(fetch)
            \/ Traffic!FetchResendable \/ Traffic!FetchDone \/ Traffic!CancelOldest

WritersSpec ==
    /\ WritersInit /\ [][WritersNext]_writersVars
    /\ WF_writersVars(Rest /\ WriteRuns)
    /\ WF_writersVars(Rest /\ WriteAgain)
    /\ WF_writersVars(Rest /\ StopRuns)
-----------------------------------------------------------------------------
\* A packet outgrows the buffer, or a message finds no room in it, only when the packet already
\* has as many messages as the minimum free size has bytes (the switch byte doFillPacket stores
\* and does not subtract from freesz; the assertion of write() before packet_header.size is called).
PacketsFit ==
    /\ NoRoomOnlyWhenCrowded
    /\ HasTraffic => Traffic!NoRoomOnlyWhenCrowded
    /\ part = "crowd" => Crowd!NoRoomOnlyWhenCrowded

\* A message that need not wait for synchronous ones is sent, or completed otherwise, although
\* others are enqueued for ever (the round robin of doFillPacket).
NoneStarves == HasTraffic => Traffic!AsyncProgress

\* A connection that stops, here because compression failed, completes every message it still
\* holds (doStop, doCompleteAllMessages).
StopCompletes == HasTraffic => Traffic!StopCompletesAll
=============================================================================
