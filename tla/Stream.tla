------------------------------- MODULE Stream -------------------------------
(***************************************************************************)
(* aio::Stream over a plain or a secure socket: at most one receive and    *)
(* one send are pending, and they are tried by three kinds of calls that   *)
(* come in any order: readiness events of the kernel, which are edge       *)
(* triggered, posted calls of the object itself, and errors.  A callback   *)
(* may start the next receive or send before the handler that called it    *)
(* returns.  Over a secure socket a receive may have to wait until the     *)
(* socket can be written and a send until it can be read.                  *)
(***************************************************************************)
EXTENDS Integers, Sequences, FiniteSets

CONSTANTS
    RecvBuf, SendBuf,  \* what the kernel keeps for the socket in each direction
    RecvCap, SendLen,  \* of one receive and of one send
    MaxRecord,         \* of a record of the secure protocol
    MaxArrivals,       \* units the peer sends
    MaxStreamCalls     \* calls of the object that owns the stream

StreamAssumption ==
    /\ RecvBuf \in Nat \ {0} /\ SendBuf \in Nat \ {0} /\ RecvCap \in Nat \ {0} /\ SendLen \in Nat \ {0}
    /\ MaxRecord \in Nat \ {0}
    /\ MaxArrivals \in Nat /\ MaxStreamCalls \in Nat

VARIABLES
    kern,      \* the kernel's socket
    ssl,       \* whether the socket is secure; the four want flags; what SSL has read and not yet
               \* given, and what it has still to write of the record it was given
    recv,      \* recv_fnc, recv_buf_cp and recv_is_posted
    send,      \* send_fnc, send_buf_cp, send_buf_sz and send_is_posted
    exeq,      \* posted calls
    loop,      \* where the reactor is, and what the handler it runs still has to do
    incall,    \* the code of the owner runs: a callback, or onEvent
    scheduled, \* calls that returned false, per direction
    answered,  \* callbacks
    calls

streamvars == <<kern, ssl, recv, send, exeq, loop, incall, scheduled, answered, calls>>

Directions == {"recv", "send"}
Nobody == [fnc |-> "none", cp |-> 0, sz |-> 0, posted |-> FALSE]
Dummy == [Nobody EXCEPT !.fnc = "dummy"]
Smaller(a, b) == IF a < b THEN a ELSE b

StreamInit ==
    /\ kern \in {[st |-> st, rbuf |-> 0, came |-> 0, fin |-> FALSE, space |-> SendBuf,
                  full |-> FALSE, ready |-> st = "up"] : st \in {"none", "up"}}
    /\ ssl \in {[on |-> on, want |-> [d \in Directions |-> "none"], held |-> 0, out |-> 0] : on \in BOOLEAN}
    /\ recv = Nobody /\ send = Nobody
    /\ exeq = <<>> /\ loop = [phase |-> "io", todo |-> <<>>, left |-> 0] /\ incall = FALSE
    /\ scheduled = [d \in Directions |-> 0] /\ answered = [d \in Directions |-> 0] /\ calls = 0

(***************************************************************************)
(* The kernel.  "ready" is the socket's place in the ready list of epoll:  *)
(* a new edge puts it there, and epoll_wait takes it out and reports what  *)
(* is true at that time.                                                   *)
(***************************************************************************)
Readable == kern.rbuf > 0 \/ kern.fin \/ kern.st = "down"
Writable == kern.st \in {"up", "down"} /\ (kern.space > 0 \/ kern.st = "down")

PeerSends ==
    /\ kern.st = "up" /\ ~kern.fin /\ kern.rbuf < RecvBuf /\ kern.came < MaxArrivals
    /\ kern' = [kern EXCEPT !.rbuf = @ + 1, !.came = @ + 1, !.ready = TRUE]

PeerCloses ==
    /\ kern.st = "up" /\ ~kern.fin
    /\ kern' = [kern EXCEPT !.fin = TRUE, !.ready = TRUE]

\* Space in the send buffer is an edge only after a send or an epoll_wait that found none.
PeerReads ==
    /\ kern.st = "up" /\ kern.space < SendBuf
    /\ kern' = [kern EXCEPT !.space = @ + 1, !.ready = @ \/ kern.full, !.full = FALSE]

PeerResets ==
    /\ kern.st \in {"connecting", "up"}
    /\ kern' = [kern EXCEPT !.st = "down", !.ready = TRUE]

PeerAccepts ==
    /\ kern.st = "connecting"
    /\ kern' = [kern EXCEPT !.st = "up", !.ready = TRUE]

OnlyKernel == UNCHANGED <<ssl, recv, send, exeq, loop, incall, scheduled, answered, calls>>

Peer == (PeerSends \/ PeerCloses \/ PeerReads \/ PeerResets \/ PeerAccepts) /\ OnlyKernel

(***************************************************************************)
(* One try.  After an error the call is complete: it has an error to tell. *)
(***************************************************************************)
Want(d, what) == [ssl EXCEPT !.want[d] = what]

\* SSL wants to read when it has read all there is, and to write when there is no more space; a
\* record that is read may be one of a handshake, and then SSL may have to answer it.
WantRead(d) == IF kern.fin THEN {} ELSE {[done |-> FALSE, kern |-> [kern EXCEPT !.rbuf = 0], ssl |-> Want(d, "read")]}
WantWrite(d) == {[done |-> FALSE, kern |-> [kern EXCEPT !.rbuf = @ - n, !.space = 0, !.full = TRUE], ssl |-> Want(d, "write")] :
                    n \in 0..kern.rbuf}

\* SSL_read gives what it holds before it reads another record.
SSL_read(cp) ==
    IF ssl.held > 0
    THEN {[done |-> TRUE, kern |-> kern, ssl |-> [Want("recv", "none") EXCEPT !.held = @ - Smaller(@, cp)]]}
    ELSE {[done |-> TRUE, kern |-> [kern EXCEPT !.rbuf = @ - n],
           ssl |-> [Want("recv", "none") EXCEPT !.held = n - Smaller(n, cp)]] : n \in 1..kern.rbuf}
         \union WantRead("recv") \union WantWrite("recv")

\* SSL_accept, SSL_connect and SSL_shutdown
SSL_handshake(d) ==
    {[done |-> TRUE, kern |-> [kern EXCEPT !.rbuf = @ - n], ssl |-> Want(d, "none")] : n \in 0..kern.rbuf}
        \union WantRead(d) \union WantWrite(d)

\* SSL_write writes one record at a time, and goes on with the one it has begun.
Record(o) == Smaller(MaxRecord, o.cp - o.sz)
Unwritten(o) == IF ssl.out = 0 THEN Record(o) ELSE ssl.out

SSL_write(o) ==
    (IF kern.space >= Unwritten(o)
     THEN {[kern |-> [kern EXCEPT !.space = @ - Unwritten(o)], ssl |-> [Want("send", "none") EXCEPT !.out = 0],
            sz |-> o.sz + Record(o), cp |-> o.cp]}
     ELSE {[kern |-> [kern EXCEPT !.space = 0, !.full = TRUE],
            ssl |-> [Want("send", "write") EXCEPT !.out = Unwritten(o) - kern.space], sz |-> o.sz, cp |-> o.cp]})
    \union {[kern |-> w.kern, ssl |-> w.ssl, sz |-> o.sz, cp |-> o.cp] :
               w \in IF ssl.out = 0 THEN WantRead("send") ELSE {}}

doTryRecv(cp) ==
    IF kern.st = "down" \/ cp = 0 \/ (kern.rbuf = 0 /\ kern.fin /\ ssl.held = 0)
    THEN {[done |-> TRUE, kern |-> kern, ssl |-> Want("recv", "none")]}
    ELSE IF ssl.on THEN SSL_read(cp)
    ELSE {[done |-> kern.rbuf > 0, kern |-> [kern EXCEPT !.rbuf = @ - Smaller(@, cp)], ssl |-> ssl]}

doTrySend(o) ==
    IF kern.st # "up" \/ o.cp = 0
    THEN {[kern |-> kern, ssl |-> Want("send", "none"), sz |-> 0, cp |-> 0]}
    ELSE IF ssl.on THEN SSL_write(o)
    ELSE {[kern |-> [kern EXCEPT !.space = @ - Smaller(@, o.cp - o.sz), !.full = @ \/ kern.space < o.cp - o.sz],
           ssl |-> ssl, sz |-> o.sz + Smaller(kern.space, o.cp - o.sz), cp |-> o.cp]}

\* secureAccept is a receive, secureConnect and secureShutdown are sends.
doTrySecure(d) ==
    IF kern.st # "up" \/ (kern.rbuf = 0 /\ kern.fin)
    THEN {[done |-> TRUE, kern |-> kern, ssl |-> Want(d, "none")]}
    ELSE SSL_handshake(d)

(***************************************************************************)
(* Calls of the owner, from a callback or from onEvent.  They change       *)
(* nothing (error_already) while the same direction has a call pending.    *)
(***************************************************************************)
Schedule(d) == scheduled' = [scheduled EXCEPT ![d] = @ + 1]

postRecvSome ==
    /\ recv.fnc = "none"
    /\ recv' = [fnc |-> "recv", cp |-> RecvCap, sz |-> 0, posted |-> TRUE]
    /\ exeq' = Append(exeq, "recv")
    /\ Schedule("recv")
    /\ UNCHANGED <<kern, ssl, send>>

recvSome ==
    /\ recv.fnc = "none"
    /\ \E try \in doTryRecv(RecvCap) :
           /\ kern' = try.kern /\ ssl' = try.ssl
           /\ IF try.done
              THEN UNCHANGED <<recv, scheduled>>
              ELSE recv' = [recv EXCEPT !.fnc = "recv", !.cp = RecvCap] /\ Schedule("recv")
    /\ UNCHANGED <<send, exeq>>

postSendAll ==
    /\ send.fnc = "none"
    /\ send' = [fnc |-> "send", cp |-> SendLen, sz |-> 0, posted |-> TRUE]
    /\ exeq' = Append(exeq, "send")
    /\ Schedule("send")
    /\ UNCHANGED <<kern, ssl, recv>>

sendAll ==
    /\ send.fnc = "none"
    /\ \E try \in doTrySend([cp |-> SendLen, sz |-> 0]) :
           /\ kern' = try.kern /\ ssl' = try.ssl
           /\ IF try.sz = try.cp
              THEN UNCHANGED <<send, scheduled>>
              ELSE /\ send' = [send EXCEPT !.fnc = "send", !.cp = try.cp, !.sz = try.sz]
                   /\ Schedule("send")
    /\ UNCHANGED <<recv, exeq>>

connect ==
    /\ send.fnc = "none" /\ kern.st = "none"
    /\ \/ \E st \in {"up", "down"} : kern' = [kern EXCEPT !.st = st, !.ready = TRUE] /\ UNCHANGED <<send, scheduled>>
       \/ /\ kern' = [kern EXCEPT !.st = "connecting"]
          /\ send' = [send EXCEPT !.fnc = "connect"]
          /\ Schedule("send")
    /\ UNCHANGED <<ssl, recv, exeq>>

\* secureAccept
secureRecv ==
    /\ ssl.on /\ recv.fnc = "none"
    /\ \E try \in doTrySecure("recv") :
           /\ kern' = try.kern /\ ssl' = try.ssl
           /\ IF try.done
              THEN UNCHANGED <<recv, scheduled>>
              ELSE recv' = [recv EXCEPT !.fnc = "secure"] /\ Schedule("recv")
    /\ UNCHANGED <<send, exeq>>

\* secureConnect and secureShutdown
secureSend ==
    /\ ssl.on /\ send.fnc = "none"
    /\ \E try \in doTrySecure("send") :
           /\ kern' = try.kern /\ ssl' = try.ssl
           /\ IF try.done
              THEN UNCHANGED <<send, scheduled>>
              ELSE send' = [send EXCEPT !.fnc = "secure"] /\ Schedule("send")
    /\ UNCHANGED <<recv, exeq>>

shutdown ==
    /\ kern.st = "up"
    /\ kern' = [kern EXCEPT !.st = "down", !.ready = TRUE]
    /\ UNCHANGED <<ssl, recv, send, exeq, scheduled>>

\* An owner waits until it is connected before it receives or sends.
OwnerCalls ==
    /\ incall /\ calls < MaxStreamCalls
    /\ calls' = calls + 1
    /\ \/ connect
       \/ /\ kern.st \notin {"none", "connecting"} /\ (ssl.on => send.fnc # "connect")
          /\ postRecvSome \/ recvSome \/ postSendAll \/ sendAll \/ secureRecv \/ secureSend \/ shutdown
    /\ UNCHANGED <<loop, incall, answered>>

OwnerReturns ==
    /\ incall
    /\ incall' = FALSE
    /\ UNCHANGED <<kern, ssl, recv, send, exeq, loop, scheduled, answered, calls>>

(***************************************************************************)
(* Handlers                                                                *)
(***************************************************************************)
Answer(d) ==
    /\ answered' = [answered EXCEPT ![d] = @ + 1]
    /\ incall' = TRUE

NoAnswer == UNCHANGED <<answered, incall>>

\* As doClearRecv below, without the line that empties recv_fnc
doClearRecvNot(o) == [o EXCEPT !.cp = 0, !.sz = 0]

doClearRecv(o) == [o EXCEPT !.fnc = "none", !.cp = 0, !.sz = 0]

doClearSend(o) == [o EXCEPT !.fnc = "none", !.cp = 0, !.sz = 0]

\* SecureAcceptFunctor for a receive, SecureConnectFunctor and SecureShutdownFunctor for a send
SecureFnc(d, o) ==
    \E try \in doTrySecure(d) :
        /\ kern' = try.kern /\ ssl' = try.ssl
        /\ IF d = "recv"
           THEN recv' = IF try.done THEN doClearRecv(o) ELSE o
           ELSE send' = IF try.done THEN doClearSend(o) ELSE o
        /\ IF try.done THEN Answer(d) ELSE NoAnswer

\* recv_fnc called, with RecvSomeFunctor
RecvFnc(o) ==
    \/ /\ o.fnc = "recv"
       /\ \E try \in doTryRecv(o.cp) :
            /\ kern' = try.kern /\ ssl' = try.ssl
            /\ IF try.done THEN recv' = doClearRecv(o) /\ Answer("recv") ELSE recv' = o /\ NoAnswer
    \/ o.fnc = "secure" /\ SecureFnc("recv", o)
    \/ /\ o.fnc \in {"none", "dummy"}
       /\ UNCHANGED <<kern, ssl>> /\ recv' = o /\ NoAnswer

\* send_fnc called, with ConnectFunctor and SendAllFunctor
SendFnc(o) ==
    \/ /\ o.fnc = "connect"
       /\ UNCHANGED <<kern, ssl>> /\ send' = doClearSend(o) /\ Answer("send")
    \/ /\ o.fnc = "send"
       /\ \E try \in doTrySend(o) :
            /\ kern' = try.kern /\ ssl' = try.ssl
            /\ IF try.sz = try.cp
               THEN send' = doClearSend(o) /\ Answer("send")
               ELSE send' = [o EXCEPT !.sz = try.sz] /\ NoAnswer
    \/ o.fnc = "secure" /\ SecureFnc("send", o)
    \/ /\ o.fnc \in {"none", "dummy"}
       /\ UNCHANGED <<kern, ssl>> /\ send' = o /\ NoAnswer

doRecv ==
    /\ IF recv.posted THEN UNCHANGED <<kern, ssl, recv>> /\ NoAnswer ELSE RecvFnc(recv)
    /\ UNCHANGED send

doSend ==
    /\ IF send.posted THEN UNCHANGED <<kern, ssl, send>> /\ NoAnswer ELSE SendFnc(send)
    /\ UNCHANGED recv

\* The two halves of doError
doErrorSend == SendFnc([send EXCEPT !.cp = 0, !.sz = 0]) /\ UNCHANGED recv
doErrorRecv == RecvFnc([recv EXCEPT !.cp = 0, !.sz = 0]) /\ UNCHANGED send

doClear ==
    /\ recv' = [Dummy EXCEPT !.posted = recv.posted] /\ send' = [Dummy EXCEPT !.posted = send.posted]
    /\ UNCHANGED <<kern, ssl>> /\ NoAnswer

Handle ==
    /\ ~incall /\ loop.todo # <<>>
    /\ loop' = [loop EXCEPT !.todo = Tail(@)]
    /\ \/ Head(loop.todo) = "recv" /\ doRecv
       \/ Head(loop.todo) = "send" /\ doSend
       \/ Head(loop.todo) = "errsend" /\ doErrorSend
       \/ Head(loop.todo) = "errrecv" /\ doErrorRecv
       \/ Head(loop.todo) = "clear" /\ doClear
    /\ UNCHANGED <<exeq, scheduled, calls>>

(***************************************************************************)
(* The reactor                                                             *)
(***************************************************************************)
Free == ~incall /\ loop.todo = <<>>

\* As filterReactorEvents below, with the operation of the other direction left out
filterReactorEventsOne(evt) == evt

\* Which operations an event that says the socket can be read, written or both is for
filterReactorEvents(evt) ==
    LET wants(d, what) == ssl.want[d] \in what
        any == {"read", "write"}
    IN  CASE evt = <<"recv">> /\ wants("send", {"read"}) ->
               IF wants("recv", {"read"}) THEN <<"send", "recv">> ELSE <<"send">>
          [] evt = <<"send">> /\ wants("recv", {"write"}) ->
               IF wants("send", {"write"}) THEN <<"recv", "send">> ELSE <<"recv">>
          [] evt = <<"recv", "send">> /\ wants("send", any) ->
               IF wants("recv", any)
               THEN IF wants("send", {"read"}) THEN <<"send", "recv">> ELSE evt
               ELSE <<"send">>
          [] evt = <<"recv", "send">> /\ wants("recv", any) /\ ~wants("send", any) -> <<"recv">>
          [] OTHER -> evt

\* What on_completion does with the events of epoll_wait
on_completion ==
    CASE kern.st \in {"none", "connecting"} -> <<>>
      [] kern.st = "down" -> <<"errsend", "errrecv">>
      [] OTHER -> filterReactorEvents(CASE Readable /\ Writable -> <<"recv", "send">>
                                        [] Readable /\ ~Writable -> <<"recv">>
                                        [] ~Readable /\ Writable -> <<"send">>
                                        [] OTHER -> <<>>)

doCompleteIo ==
    /\ Free /\ loop.phase = "io"
    /\ loop' = [loop EXCEPT !.phase = "events",
                            !.todo = IF kern.ready /\ recv.fnc # "dummy" THEN on_completion ELSE <<>>]
    /\ kern' = [kern EXCEPT !.ready = FALSE, !.full = @ \/ (kern.ready /\ kern.space = 0)]
    /\ UNCHANGED <<ssl, recv, send, exeq, incall, scheduled, answered, calls>>

\* The owner has an event to handle, or nothing to do.
doCompleteEvents ==
    /\ Free /\ loop.phase = "events"
    /\ incall' \in {FALSE, calls < MaxStreamCalls /\ recv.fnc # "dummy"}
    /\ loop' = [loop EXCEPT !.phase = "exec", !.left = Len(exeq)]
    /\ UNCHANGED <<kern, ssl, recv, send, exeq, scheduled, answered, calls>>

\* stop_object, among the posted calls
doStopObject ==
    /\ Free /\ loop.phase = "exec" /\ recv.fnc # "dummy"
    /\ loop' = [loop EXCEPT !.todo = <<"clear">>]
    /\ UNCHANGED <<kern, ssl, recv, send, exeq, incall, scheduled, answered, calls>>

\* on_posted_recv_some and on_posted_send_all
doCompleteExec ==
    /\ Free /\ loop.phase = "exec"
    /\ IF loop.left = 0
       THEN loop' = [loop EXCEPT !.phase = "io"] /\ UNCHANGED <<recv, send, exeq>>
       ELSE /\ loop' = [loop EXCEPT !.left = @ - 1, !.todo = <<Head(exeq)>>]
            /\ exeq' = Tail(exeq)
            /\ recv' = IF Head(exeq) = "recv" THEN [recv EXCEPT !.posted = FALSE] ELSE recv
            /\ send' = IF Head(exeq) = "send" THEN [send EXCEPT !.posted = FALSE] ELSE send
    /\ UNCHANGED <<kern, ssl, incall, scheduled, answered, calls>>

StreamReactor == OwnerReturns \/ Handle \/ doCompleteIo \/ doCompleteEvents \/ doStopObject \/ doCompleteExec

StreamNext == Peer \/ OwnerCalls \/ StreamReactor

StreamSpec == StreamInit /\ [][StreamNext]_streamvars

(***************************************************************************)
(* Properties                                                              *)
(***************************************************************************)
Has(s, what) == \E i \in DOMAIN s : s[i] \in what

\* A try that a posted call or the running handler will make, or the kernel's edge
Soon(d) ==
    Has(exeq, {d}) \/ Has(loop.todo, {d, IF d = "recv" THEN "errrecv" ELSE "errsend", "clear"})

WillTry(d) == kern.ready \/ Soon(d)

Pending(d) == (IF d = "recv" THEN recv ELSE send).fnc \notin {"none", "dummy"}

\* What a pending operation waits for is there.
Ready(d) ==
    \/ ssl.want[d] = "read" /\ Readable
    \/ ssl.want[d] = "write" /\ Writable
    \/ ssl.want[d] = "none" /\ IF d = "recv" THEN Readable \/ ssl.held > 0 ELSE Writable

\* The socket is watched edge triggered, so an event that comes while nothing is pending, or
\* while the call is posted (doRecv and doSend return early), or that filterReactorEvents gives
\* to the other operation, is gone.  No operation is left waiting on a socket that can do what
\* it waits for, and no receive for what SSL has read, without a try that is still to come.
StreamWakes == \A d \in Directions : Pending(d) /\ Ready(d) => WillTry(d)

\* A call that returned false is answered by exactly one callback, whatever events, posted calls
\* and errors meet it, and whatever the callback itself starts: the functors empty the function
\* before they call it.  Only clearing the stream drops calls.
AnsweredOnce ==
    \A d \in Directions :
        LET o == IF d = "recv" THEN recv ELSE send
        IN  o.fnc # "dummy" => scheduled[d] - answered[d] = (IF o.fnc = "none" THEN 0 ELSE 1)

=============================================================================
