----------------------------- MODULE RecvBuffer -----------------------------
(***************************************************************************)
(* The receive buffer of mpipc::Connection.                                *)
(*                                                                         *)
(* In the raw state its owner takes what it wants of what came and the     *)
(* rest stays for the next RecvRaw.  Afterwards onRecv hands the buffer to *)
(* the message reader, which takes whole packets, and moves the rest to    *)
(* the front.  The units of the peer's stream are numbered, so that the    *)
(* buffer's content says which of them it holds.  The two ends configure   *)
(* their buffers apart, so that a packet may be longer than this one.      *)
(***************************************************************************)
EXTENDS Integers

CONSTANTS
    RecvCapacity,  \* recvBufferCapacity()
    StreamLength,  \* units the peer sends
    BufferRaces    \* situations the code does not survive

BufferAssumption ==
    /\ RecvCapacity \in Nat \ {0} /\ StreamLength \in Nat
    /\ BufferRaces \subseteq {"leftover"}

VARIABLES
    ends,          \* the units that end a packet
    mode,          \* "raw", or "messages" after EnterActive or EnterPassive
    recv_buf, recv_buf_off, cons_buf_off,
    want,          \* the pending receive: where it writes, and how much it may
    came, taken    \* units received, and given to the owner or to the reader

buffervars == <<ends, mode, recv_buf, recv_buf_off, cons_buf_off, want, came, taken>>

NoWant == [at |-> 0, room |-> 0]

BufferInit ==
    /\ ends \in SUBSET (1..StreamLength)
    /\ mode = "raw"
    /\ recv_buf = [i \in 0..RecvCapacity - 1 |-> 0] /\ recv_buf_off = 0 /\ cons_buf_off = 0
    /\ want = NoWant /\ came = 0 /\ taken = 0

\* The socket writes the next n units of the stream where the pending receive wants them.
Written(n) ==
    [i \in 0..RecvCapacity - 1 |->
        IF i >= want.at /\ i < want.at + n THEN came + 1 + (i - want.at) ELSE recv_buf[i]]

\* As many as it has, up to the room there is
Arrivals == {n \in 1..want.room : came + n <= StreamLength}

(***************************************************************************)
(* The raw state                                                           *)
(***************************************************************************)
\* doHandleEventRecvRaw with nothing left in the buffer
PostRaw ==
    /\ mode = "raw" /\ want = NoWant /\ recv_buf_off = cons_buf_off
    /\ want' = [at |-> 0, room |-> RecvCapacity]
    /\ UNCHANGED <<ends, mode, recv_buf, recv_buf_off, cons_buf_off, came, taken>>

\* As LeftRaw below, without the reset of both offsets
LeftRawRuns ==
    /\ mode = "raw" /\ want = NoWant /\ recv_buf_off # cons_buf_off
    /\ \E used \in 0..recv_buf_off - cons_buf_off :
          taken' = taken + used /\ cons_buf_off' = cons_buf_off + used /\ recv_buf_off' = recv_buf_off
    /\ UNCHANGED <<ends, mode, recv_buf, want, came>>

\* doHandleEventRecvRaw with something left
LeftRaw ==
    /\ mode = "raw" /\ want = NoWant /\ recv_buf_off # cons_buf_off
    /\ \E used \in 0..recv_buf_off - cons_buf_off :
          /\ taken' = taken + used
          /\ IF cons_buf_off + used = recv_buf_off
             THEN cons_buf_off' = 0 /\ recv_buf_off' = 0
             ELSE cons_buf_off' = cons_buf_off + used /\ recv_buf_off' = recv_buf_off
    /\ UNCHANGED <<ends, mode, recv_buf, want, came>>

onRecvSomeRaw ==
    /\ mode = "raw" /\ want # NoWant
    /\ \E n \in Arrivals : \E used \in 0..n :
          /\ recv_buf' = Written(n)
          /\ came' = came + n /\ taken' = taken + used
          /\ IF used < n
             THEN recv_buf_off' = n /\ cons_buf_off' = used
             ELSE UNCHANGED <<recv_buf_off, cons_buf_off>>
    /\ want' = NoWant
    /\ UNCHANGED <<ends, mode>>

\* The first receive for messages writes at the start of the buffer, over what is left of the raw
\* data ("leftover").
EnterMessages ==
    /\ mode = "raw" /\ want = NoWant
    /\ recv_buf_off = cons_buf_off \/ "leftover" \in BufferRaces
    /\ mode' = "messages" /\ want' = [at |-> 0, room |-> RecvCapacity]
    /\ UNCHANGED <<ends, recv_buf, recv_buf_off, cons_buf_off, came, taken>>

(***************************************************************************)
(* Messages                                                                *)
(***************************************************************************)
\* msg_reader.read(): the units up to the last packet that is complete
Read(upto) ==
    {n \in 0..upto - taken :
        /\ n > 0 => taken + n \in ends
        /\ \A x \in ends : x <= upto => x <= taken + n}

\* memcpy or memmove of the rest to the start
Moved(buf, from, n) == [i \in 0..RecvCapacity - 1 |-> IF i < n THEN buf[from + i] ELSE buf[i]]

\* As Optimized below, without doOptimizeRecvBufferForced
OptimizedSome(buf, off, cons, bufsz) ==
    IF off - cons <= cons
    THEN [buf |-> Moved(buf, cons, off - cons), off |-> off - cons, cons |-> 0]
    ELSE [buf |-> buf, off |-> off, cons |-> cons]

\* doOptimizeRecvBufferForced on its condition, and doOptimizeRecvBuffer
Optimized(buf, off, cons, bufsz) ==
    IF cons < bufsz \/ off - cons <= cons
    THEN [buf |-> Moved(buf, cons, off - cons), off |-> off - cons, cons |-> 0]
    ELSE [buf |-> buf, off |-> off, cons |-> cons]

\* The buffer when n units came and the reader took some
After(n, used) == Optimized(Written(n), recv_buf_off + n, cons_buf_off + used, recv_buf_off + n - cons_buf_off)

\* One turn of the loop of onRecv, and the receive it ends with
onRecv ==
    /\ mode = "messages" /\ want # NoWant
    /\ \E n \in Arrivals : \E used \in Read(came + n) :
          /\ came' = came + n /\ taken' = taken + used
          /\ recv_buf' = After(n, used).buf
          /\ recv_buf_off' = After(n, used).off /\ cons_buf_off' = After(n, used).cons
          /\ want' = [at |-> After(n, used).off, room |-> RecvCapacity - After(n, used).off]
    /\ UNCHANGED <<ends, mode>>

BufferNext == PostRaw \/ LeftRaw \/ onRecvSomeRaw \/ EnterMessages \/ onRecv

BufferSpec == BufferInit /\ [][BufferNext]_buffervars

(***************************************************************************)
(* Properties                                                              *)
(***************************************************************************)
\* What lies between the two offsets is the next part of the peer's stream that nobody has been
\* given yet, whole and in order: nothing was overwritten, moved wrongly or counted twice.
BufferHolds ==
    /\ came = taken + (recv_buf_off - cons_buf_off)
    /\ \A i \in cons_buf_off..recv_buf_off - 1 : recv_buf[i] = taken + 1 + (i - cons_buf_off)

\* A receive never writes past the buffer and asks for zero units, which the stream takes for the
\* end of the connection (doTryRecv reports error_stream_shutdown), only when the packet that is
\* coming is longer than the whole buffer.
RoomLeft ==
    want # NoWant =>
        /\ want.at >= recv_buf_off /\ want.at + want.room <= RecvCapacity
        /\ want.room > 0 \/ (\A x \in ends : x <= taken \/ x > taken + RecvCapacity)

=============================================================================
