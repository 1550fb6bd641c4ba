------------------------------ MODULE Acceptor ------------------------------
(***************************************************************************)
(* aio::Listener with the object that uses it in mpipc: Listener accepts   *)
(* up to four connections in one callback, posts an accept to go on, and   *)
(* after an error waits on a timer before it tries again.                  *)
(***************************************************************************)
EXTENDS Integers, Sequences

CONSTANTS
    Backlog,      \* connections the kernel keeps
    MaxPeers,     \* connections that come
    MaxShortages  \* times the process runs out of descriptors

AcceptorAssumption == Backlog \in Nat \ {0} /\ MaxPeers \in Nat /\ MaxShortages \in Nat

VARIABLES
    queue,     \* the kernel's listening socket
    f,         \* Listener::f: "none", "onAccept" or "dummy"
    postq,     \* posted on_posted_accept calls
    timer,     \* the timer of mpipc::Listener waits
    repeatcnt, \* the loop of onAccept, 0 when it does not run
    outcome,   \* what the accept before this turn of it returned
    phase, left,
    accepted   \* devices given to acceptIncomingConnection

acceptorvars == <<queue, f, postq, timer, repeatcnt, outcome, phase, left, accepted>>

Repeat == 4

AcceptorInit ==
    /\ queue = [n |-> 0, came |-> 0, nofile |-> FALSE, shortages |-> 0, alarm |-> "none", ready |-> FALSE]
    /\ f = "idle" /\ postq = 0 /\ timer = FALSE
    /\ repeatcnt = 0 /\ outcome = "none" /\ phase = "io" /\ left = 0 /\ accepted = 0

(***************************************************************************)
(* The kernel                                                              *)
(***************************************************************************)
PeerConnects ==
    /\ queue.n < Backlog /\ queue.came < MaxPeers
    /\ queue' = [queue EXCEPT !.n = @ + 1, !.came = @ + 1, !.ready = TRUE]

NoFiles ==
    /\ ~queue.nofile /\ queue.shortages < MaxShortages
    /\ queue' = [queue EXCEPT !.nofile = TRUE, !.shortages = @ + 1]

FilesAgain == queue.nofile /\ queue' = [queue EXCEPT !.nofile = FALSE]

\* The listening socket has an error or a hangup, for good.
Alarm ==
    /\ queue.alarm = "none"
    /\ \E a \in {"error", "hangup"} : queue' = [queue EXCEPT !.alarm = a, !.ready = TRUE]

OnlyQueue == UNCHANGED <<f, postq, timer, repeatcnt, outcome, phase, left, accepted>>

System == (PeerConnects \/ NoFiles \/ FilesAgain \/ Alarm) /\ OnlyQueue

Refuses == queue.nofile \/ queue.alarm = "hangup"

\* SocketDevice::accept()
Accepts ==
    CASE Refuses -> [rv |-> "error", queue |-> queue]
      [] ~Refuses /\ queue.n = 0 -> [rv |-> "retry", queue |-> queue]
      [] OTHER -> [rv |-> "ok", queue |-> [queue EXCEPT !.n = @ - 1]]

(***************************************************************************)
(* Listener                                                                *)
(***************************************************************************)
\* The callback onAccept(_rctx, sd) starts with what accept() returned.
Calls(rv) == repeatcnt' = Repeat /\ outcome' = rv

\* systemEventsToReactorEvents(), which knows a hangup with a connection waiting and not an
\* error with one
Event ==
    CASE ~queue.ready \/ (queue.alarm = "none" /\ queue.n = 0) -> "none"
      [] queue.ready /\ queue.alarm = "none" /\ queue.n > 0 -> "Recv"
      [] OTHER -> IF queue.alarm = "error" /\ queue.n > 0 THEN "none" ELSE "Hangup"

\* on_completion with doAccept; after an error or a hangup the callback gets an empty device and
\* no error.
on_completion ==
    IF Event # "none" /\ f = "onAccept"
    THEN LET a == IF Event = "Recv" THEN Accepts ELSE [rv |-> "ok", queue |-> queue]
         IN  f' = "none" /\ queue' = [a.queue EXCEPT !.ready = FALSE] /\ Calls(a.rv)
    ELSE queue' = [queue EXCEPT !.ready = FALSE] /\ UNCHANGED <<f, repeatcnt, outcome>>

on_posted_accept ==
    IF f = "onAccept" /\ Accepts.rv # "retry"
    THEN f' = "none" /\ queue' = Accepts.queue /\ Calls(Accepts.rv)
    ELSE UNCHANGED <<f, queue, repeatcnt, outcome>>

(***************************************************************************)
(* mpipc::Listener                                                         *)
(***************************************************************************)

\* A turn of the loop of onAccept after a connection, with sock.accept(), or with
\* sock.postAccept() after the last one
AcceptMore ==
    /\ repeatcnt > 0 /\ outcome = "ok"
    /\ accepted' = accepted + 1
    /\ IF repeatcnt = 1
       THEN /\ f' = "onAccept" /\ postq' = postq + 1
            /\ repeatcnt' = 0 /\ outcome' = "none" /\ UNCHANGED queue
       ELSE IF Accepts.rv = "retry"
       THEN /\ f' = "onAccept"
            /\ repeatcnt' = 0 /\ outcome' = "none" /\ UNCHANGED <<queue, postq>>
       ELSE /\ repeatcnt' = repeatcnt - 1 /\ outcome' = Accepts.rv /\ queue' = Accepts.queue
            /\ UNCHANGED <<f, postq>>
    /\ UNCHANGED <<timer, phase, left>>

AcceptFails ==
    /\ repeatcnt > 0 /\ outcome = "error"
    /\ timer' = TRUE
    /\ repeatcnt' = 0 /\ outcome' = "none"
    /\ UNCHANGED <<queue, f, postq, phase, left, accepted>>

\* onEvent for Start and for the timer
postAccept ==
    IF f \in {"none", "idle"}
    THEN f' = "onAccept" /\ postq' = postq + 1
    ELSE UNCHANGED <<f, postq>>

(***************************************************************************)
(* The reactor                                                             *)
(***************************************************************************)
Turn(from, to) == repeatcnt = 0 /\ phase = from /\ phase' = to

AcceptorIo ==
    /\ Turn("io", "timer")
    /\ on_completion
    /\ UNCHANGED <<postq, timer, left, accepted>>

AcceptorTimer ==
    /\ Turn("timer", "events")
    /\ \/ timer /\ timer' = FALSE /\ postAccept
       \/ UNCHANGED <<timer, f, postq>>
    /\ UNCHANGED <<queue, repeatcnt, outcome, left, accepted>>

\* Start, Kill with the doClear it leads to, or nothing
AcceptorEvents ==
    /\ Turn("events", "exec")
    /\ left' = postq
    /\ \/ f = "idle" /\ postAccept /\ UNCHANGED timer
       \/ f \notin {"idle", "dummy"} /\ f' = "dummy" /\ timer' = FALSE /\ UNCHANGED postq
       \/ UNCHANGED <<f, postq, timer>>
    /\ UNCHANGED <<queue, repeatcnt, outcome, accepted>>

AcceptorExec ==
    /\ repeatcnt = 0 /\ phase = "exec"
    /\ IF left = 0
       THEN phase' = "io" /\ UNCHANGED <<queue, f, repeatcnt, outcome, postq, left>>
       ELSE left' = left - 1 /\ postq' = postq - 1 /\ on_posted_accept /\ UNCHANGED phase
    /\ UNCHANGED <<timer, accepted>>

AcceptorReactor == AcceptMore \/ AcceptFails \/ AcceptorIo \/ AcceptorTimer \/ AcceptorEvents \/ AcceptorExec

AcceptorNext == System \/ AcceptorReactor

AcceptorSpec == AcceptorInit /\ [][AcceptorNext]_acceptorvars 

(***************************************************************************)
(* Properties                                                              *)
(***************************************************************************)
\* An accept pending on a listener with connections has a try to come, unless the socket had an
\* error, which the reactor does not know together with a connection; and a listener without a
\* pending accept has its callback or its timer running.
AcceptorWakes ==
    /\ f = "onAccept" /\ queue.n > 0 /\ queue.alarm # "error" => queue.ready \/ postq > 0
    /\ f = "none" => repeatcnt > 0 \/ timer


=============================================================================
