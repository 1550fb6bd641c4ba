------------------------------ MODULE Datagram ------------------------------
(***************************************************************************)
(* aio::Datagram over a plain socket.  As in Stream, a receive and a send  *)
(* are tried by edge triggered events, posted calls and errors; here a try *)
(* takes or sends one whole datagram, and the functors look at the error   *)
(* of the reactor context before they try.                                 *)
(***************************************************************************)
EXTENDS Integers, Sequences, FiniteSets

CONSTANTS
    Capacity,          \* of the owner's receive buffer: a datagram has 0 to Capacity units
    QueueLen,          \* datagrams the kernel keeps in each direction
    MaxDatagrams,      \* datagrams the peers send
    MaxDatagramCalls

DatagramAssumption ==
    Capacity \in Nat \ {0} /\ QueueLen \in Nat \ {0} /\ MaxDatagrams \in Nat /\ MaxDatagramCalls \in Nat

VARIABLES
    sock,     \* the kernel's socket
    rcv,      \* recv_fnc, recv_buf_cp and recv_is_posted
    snd,      \* send_fnc and send_is_posted
    dexeq,    \* posted calls
    dloop,    \* where the reactor is, and what the handler it runs still has to do
    err,      \* the error of the reactor context
    inowner,  \* the code of the owner runs: a callback, or onEvent
    crossed,  \* a send ended while the receive that is pending waited
    got,      \* datagrams the owner was given
    dcalls

datagramvars == <<sock, rcv, snd, dexeq, dloop, err, inowner, crossed, got, dcalls>>

NoCall == [fnc |-> "none", cp |-> 0, posted |-> FALSE]

DatagramInit ==
    /\ sock = [q |-> <<>>, came |-> 0, space |-> QueueLen, full |-> FALSE, error |-> FALSE, failed |-> FALSE, ready |-> TRUE]
    /\ rcv = NoCall /\ snd = NoCall
    /\ dexeq = <<>> /\ dloop = [phase |-> "io", todo |-> <<>>, left |-> 0]
    /\ err = FALSE /\ inowner = FALSE /\ crossed = FALSE /\ got = 0 /\ dcalls = 0

(***************************************************************************)
(* The kernel, with its ready list as in Stream                            *)
(***************************************************************************)
Arrive ==
    /\ Len(sock.q) < QueueLen /\ sock.came < MaxDatagrams
    /\ \E size \in 0..Capacity :
          sock' = [sock EXCEPT !.q = Append(@, size), !.came = @ + 1, !.ready = TRUE]

Leave ==
    /\ sock.space < QueueLen
    /\ sock' = [sock EXCEPT !.space = @ + 1, !.ready = @ \/ sock.full, !.full = FALSE]

\* An error of an earlier send comes back, once.
Unreachable ==
    /\ ~sock.failed
    /\ sock' = [sock EXCEPT !.error = TRUE, !.failed = TRUE, !.ready = TRUE]

OnlySock == UNCHANGED <<rcv, snd, dexeq, dloop, err, inowner, crossed, got, dcalls>>

Network == (Arrive \/ Leave \/ Unreachable) /\ OnlySock

(***************************************************************************)
(* The system calls: what they return, and the socket afterwards           *)
(***************************************************************************)
SysRecv(cp) ==
    CASE sock.error    -> [rv |-> "error", sock |-> [sock EXCEPT !.error = FALSE]]
      [] ~sock.error /\ sock.q = <<>> -> [rv |-> "retry", sock |-> sock]
      [] OTHER -> [rv |-> IF cp = 0 \/ Head(sock.q) = 0 THEN "zero"
                          ELSE IF Head(sock.q) < cp THEN "part" ELSE "all",
                   sock |-> [sock EXCEPT !.q = Tail(@)]]

SysSend ==
    CASE sock.error -> [rv |-> "error", sock |-> [sock EXCEPT !.error = FALSE]]
      [] ~sock.error /\ sock.space = 0 -> [rv |-> "retry", sock |-> [sock EXCEPT !.full = TRUE]]
      [] OTHER -> [rv |-> "all", sock |-> [sock EXCEPT !.space = @ - 1]]

(***************************************************************************)
(* Calls of the owner                                                      *)
(***************************************************************************)
postRecvFrom ==
    /\ rcv.fnc = "none"
    /\ rcv' = [fnc |-> "recv", cp |-> Capacity, posted |-> TRUE]
    /\ dexeq' = Append(dexeq, "recv") /\ err' = FALSE /\ crossed' = FALSE
    /\ UNCHANGED <<sock, snd, got>>

\* A datagram shorter than the buffer is taken for the end of the socket.
recvFrom ==
    /\ rcv.fnc = "none"
    /\ LET r == SysRecv(Capacity)
       IN  /\ sock' = r.sock
           /\ got' = IF r.rv = "all" THEN got + 1 ELSE got
           /\ err' = (r.rv \in {"error", "part", "zero"})
           /\ rcv' = IF r.rv = "retry" THEN [rcv EXCEPT !.fnc = "recv", !.cp = Capacity] ELSE rcv
    /\ crossed' = FALSE
    /\ UNCHANGED <<snd, dexeq>>

postSendTo ==
    /\ snd.fnc = "none"
    /\ snd' = [fnc |-> "send", cp |-> Capacity, posted |-> TRUE]
    /\ dexeq' = Append(dexeq, "send") /\ err' = FALSE
    /\ UNCHANGED <<sock, rcv, crossed, got>>

sendTo ==
    /\ snd.fnc = "none"
    /\ sock' = SysSend.sock
    /\ err' = (SysSend.rv = "error")
    /\ snd' = IF SysSend.rv = "retry" THEN [snd EXCEPT !.fnc = "send", !.cp = Capacity] ELSE snd
    /\ UNCHANGED <<rcv, dexeq, crossed, got>>

DatagramCalls ==
    /\ inowner /\ dcalls < MaxDatagramCalls
    /\ dcalls' = dcalls + 1
    /\ postRecvFrom \/ recvFrom \/ postSendTo \/ sendTo
    /\ UNCHANGED <<dloop, inowner>>

DatagramReturns ==
    /\ inowner
    /\ inowner' = FALSE
    /\ UNCHANGED <<sock, rcv, snd, dexeq, dloop, err, crossed, got, dcalls>>

(***************************************************************************)
(* Handlers                                                                *)
(***************************************************************************)
\* As RecvFromFunctor below, with doClearRecv before the system call
RecvFromClears(e) ==
    LET r == IF e THEN [rv |-> "skip", sock |-> sock] ELSE SysRecv(0)
    IN  /\ sock' = r.sock
        /\ got' = (IF r.rv \in {"part", "all"} THEN got + 1 ELSE got)
        /\ err' = (e \/ r.rv \in {"error", "zero"})
        /\ rcv' = [rcv EXCEPT !.fnc = "none", !.cp = 0] /\ inowner' = TRUE
        /\ UNCHANGED crossed

\* The size of the buffer is whatever recv_buf_cp is by now.
RecvFromFunctor(e) ==
    LET r == IF e THEN [rv |-> "skip", sock |-> sock] ELSE SysRecv(rcv.cp)
    IN  /\ sock' = r.sock
        /\ got' = IF r.rv \in {"part", "all"} THEN got + 1 ELSE got
        /\ err' = (e \/ r.rv \in {"error", "zero"})
        /\ IF r.rv = "retry"
           THEN UNCHANGED <<rcv, inowner>>
           ELSE rcv' = [rcv EXCEPT !.fnc = "none", !.cp = 0] /\ inowner' = TRUE
        /\ UNCHANGED crossed

\* doClearSend() clears recv_buf_cp, of a receive that may be pending.
SendToFunctor(e) ==
    LET r == IF e THEN [rv |-> "skip", sock |-> sock] ELSE SysSend
    IN  /\ sock' = r.sock
        /\ err' = (e \/ r.rv = "error")
        /\ IF r.rv = "retry"
           THEN UNCHANGED <<rcv, snd, inowner, crossed>>
           ELSE /\ snd' = [snd EXCEPT !.fnc = "none"] /\ rcv' = [rcv EXCEPT !.cp = 0]
                /\ inowner' = TRUE
                /\ crossed' = (crossed \/ rcv.fnc = "recv")
        /\ UNCHANGED got

NoTry == UNCHANGED <<sock, rcv, snd, err, inowner, crossed, got>>

TryRecv(e) == IF rcv.fnc = "recv" THEN RecvFromFunctor(e) /\ UNCHANGED snd ELSE NoTry
TrySend(e) == IF snd.fnc = "send" THEN SendToFunctor(e) ELSE NoTry

doRecv == IF rcv.posted THEN NoTry ELSE TryRecv(FALSE)
doSend == IF snd.posted THEN NoTry ELSE TrySend(FALSE)

DatagramHandle ==
    /\ ~inowner /\ dloop.todo # <<>>
    /\ dloop' = [dloop EXCEPT !.todo = Tail(@)]
    /\ \/ Head(dloop.todo) = "recv" /\ doRecv
       \/ Head(dloop.todo) = "send" /\ doSend
       \/ Head(dloop.todo) = "errsend" /\ TrySend(TRUE)
       \/ Head(dloop.todo) = "errrecv" /\ TryRecv(err)
    /\ UNCHANGED <<dexeq, dcalls>>

(***************************************************************************)
(* The reactor                                                             *)
(***************************************************************************)
Between == ~inowner /\ dloop.todo = <<>>

\* systemEventsToReactorEvents() has no case for an error with one direction ready.
HalfReady == (sock.q # <<>>) # (sock.space > 0)

on_completion ==
    CASE sock.error /\ ~HalfReady -> <<"errsend", "errrecv">>
      [] sock.error /\ HalfReady  -> <<>>
      [] ~sock.error /\ sock.q # <<>> /\ sock.space > 0 -> <<"recv", "send">>
      [] ~sock.error /\ sock.q # <<>> /\ sock.space = 0 -> <<"recv">>
      [] ~sock.error /\ sock.q = <<>> /\ sock.space > 0 -> <<"send">>
      [] OTHER -> <<>>

DatagramIo ==
    /\ Between /\ dloop.phase = "io"
    /\ dloop' = [dloop EXCEPT !.phase = "events", !.todo = IF sock.ready THEN on_completion ELSE <<>>]
    /\ sock' = [sock EXCEPT !.ready = FALSE]
    /\ err' = (sock.ready /\ sock.error)
    /\ UNCHANGED <<rcv, snd, dexeq, inowner, crossed, got, dcalls>>

DatagramEvents ==
    /\ Between /\ dloop.phase = "events"
    /\ inowner' \in {FALSE, dcalls < MaxDatagramCalls}
    /\ dloop' = [dloop EXCEPT !.phase = "exec", !.left = Len(dexeq)]
    /\ err' = FALSE
    /\ UNCHANGED <<sock, rcv, snd, dexeq, crossed, got, dcalls>>

\* on_posted_recv and on_posted_send
DatagramExec ==
    /\ Between /\ dloop.phase = "exec"
    /\ err' = FALSE
    /\ IF dloop.left = 0
       THEN dloop' = [dloop EXCEPT !.phase = "io"] /\ UNCHANGED <<rcv, snd, dexeq>>
       ELSE /\ dloop' = [dloop EXCEPT !.left = @ - 1, !.todo = <<Head(dexeq)>>]
            /\ dexeq' = Tail(dexeq)
            /\ rcv' = IF Head(dexeq) = "recv" THEN [rcv EXCEPT !.posted = FALSE] ELSE rcv
            /\ snd' = IF Head(dexeq) = "send" THEN [snd EXCEPT !.posted = FALSE] ELSE snd
    /\ UNCHANGED <<sock, inowner, crossed, got, dcalls>>

DatagramNext ==
    \/ Network \/ DatagramCalls \/ DatagramReturns
    \/ DatagramHandle \/ DatagramIo \/ DatagramEvents \/ DatagramExec

DatagramSpec == DatagramInit /\ [][DatagramNext]_datagramvars

(***************************************************************************)
(* Properties                                                              *)
(***************************************************************************)
\* A datagram a receive takes from the kernel is given to the owner, or an error is instead, and
\* the error exactly when it is empty, when recvFrom() meets one shorter than the buffer, or when
\* a send ended while the receive waited: only these lose a datagram.
DatagramTaken ==
    Len(sock'.q) < Len(sock.q) =>
        IF Head(sock.q) = 0 \/ (rcv.fnc = "none" /\ Head(sock.q) < Capacity) \/ (rcv.fnc = "recv" /\ crossed)
        THEN err' /\ got' = got
        ELSE ~err' /\ got' = got + 1

DatagramsTaken == [][DatagramTaken]_datagramvars

\* As NoLostWakeup of Stream: a pending receive or send that could be done has a try to come.  It
\* is not so after an error of the socket, whose event the reactor may not know.
DatagramWakes ==
    LET coming(d, e) ==
            \/ sock.ready
            \/ \E i \in DOMAIN dexeq : dexeq[i] = d
            \/ \E i \in DOMAIN dloop.todo : dloop.todo[i] \in {d, e}
    IN  ~sock.failed =>
            /\ rcv.fnc = "recv" /\ sock.q # <<>> => coming("recv", "errrecv")
            /\ snd.fnc = "send" /\ sock.space > 0 => coming("send", "errsend")

=============================================================================
