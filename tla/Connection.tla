----------------------------- MODULE Connection -----------------------------
(***************************************************************************)
(* The timers of mpipc::Connection, at both ends of one connection.        *)
(*                                                                         *)
(* A connection has one timer.  A client's sends a keep alive packet after *)
(* a time without sends, and then waits for an answer before it is set     *)
(* again.  A server's closes a connection that shows no activity, or too   *)
(* many keep alive packets, between two of its expiries.  A connection     *)
(* that stops uses the same timer to wait for its turn to stop.            *)
(* ConnectionPool has what stopping means to the pool; here it is one      *)
(* question with three answers.                                            *)
(***************************************************************************)
EXTENDS Integers, Sequences, SequencesExt

CONSTANTS
    Inactivity,      \* connection_inactivity_timeout_seconds
    Keepalive,       \* connection_keepalive_timeout_seconds
    KeepaliveCount,  \* connection_inactivity_keepalive_count
    StopWait,        \* the time connectionStopping() asks a client to wait
    Delay,           \* what a packet or a late thread takes at most
    MaxPushes,       \* messages sent
    ConnectionRaces  \* situations the code does not survive

ConnectionAssumption ==
    /\ Inactivity \in Nat \ {0} /\ Keepalive \in Nat \ {0} /\ KeepaliveCount \in Nat
    /\ StopWait \in Nat \ {0} /\ Delay \in Nat /\ MaxPushes \in Nat
    /\ ConnectionRaces \subseteq {"message"}

VARIABLES
    conn,    \* the two ends
    net,     \* packets on their way to each end, with their age
    broken,  \* the peer is gone: a socket error
    pushes

connectionvars == <<conn, net, broken, pushes>>

Ends == {"client", "server"}
Other(e) == IF e = "client" THEN "server" ELSE "client"
NoTimer == [f |-> "none", left |-> 0]

NewEnd == [st |-> "new", posts |-> <<>>, timer |-> NoTimer, unsent |-> 0, pend |-> FALSE,
           waitka |-> FALSE, keepalive |-> FALSE, activity |-> FALSE, count |-> 0, age |-> 0, failed |-> FALSE, why |-> "none"]

ConnectionInit ==
    /\ conn = [e \in Ends |-> NewEnd]
    /\ net = [e \in Ends |-> <<>>] /\ broken = FALSE /\ pushes = 0

Stopping(c) == c.st \in {"stopping", "stopped"}

(***************************************************************************)
(* Timers.  waitFor() replaces whatever the timer was waiting for.         *)
(***************************************************************************)
waitFor(c, f, time) == [c EXCEPT !.timer = [f |-> f, left |-> time]]
Posted(c, what) == [c EXCEPT !.posts = Append(@, what)]

doResetTimerStart(c, e) ==
    IF e = "server"
    THEN waitFor([c EXCEPT !.count = 0, !.activity = FALSE], "inactivity", Inactivity)
    ELSE waitFor([c EXCEPT !.waitka = TRUE], "keepalive", Keepalive)

doResetTimerSend(c, e) ==
    IF e = "server" THEN [c EXCEPT !.activity = TRUE]
    ELSE IF c.waitka THEN waitFor(c, "keepalive", Keepalive) ELSE c

doResetTimerRecv(c, e) ==
    IF e = "server" THEN [c EXCEPT !.activity = TRUE]
    ELSE IF c.waitka THEN c ELSE waitFor([c EXCEPT !.waitka = TRUE], "keepalive", Keepalive)

(***************************************************************************)
(* Stopping: connectionStopping() lets the connection stop, lets it wait,  *)
(* or has it called again.                                                 *)
(***************************************************************************)
Answers(e) == IF e = "server" THEN {"stop"} ELSE {"stop", "wait", "again"}

Asked(c, answer) ==
    CASE answer = "stop"  -> Posted(c, "onStopped")
      [] answer = "wait"  -> waitFor(c, "doContinueStopping", StopWait)
      [] answer = "again" -> Posted(c, "doContinueStopping")

doStop(c, why, answer) ==
    IF Stopping(c) THEN c ELSE Asked([c EXCEPT !.st = "stopping", !.why = why], answer)

(***************************************************************************)
(* Sending                                                                 *)
(***************************************************************************)
\* What msg_writer.write() puts into the buffer: messages if there are any, else a keep alive
\* packet if one is asked for.
Packet(c) == IF c.unsent > 0 THEN <<"msg">> ELSE IF c.keepalive THEN <<"keepalive">> ELSE <<>>

MaySend(c) == ~Stopping(c) /\ ~c.pend

\* A keep alive packet due is not sent, and not answered, when messages go out instead ("message").
SendRestriction(c) == MaySend(c) /\ c.unsent > 0 /\ c.keepalive => "message" \in ConnectionRaces

\* The connection after doSend(); the socket takes the packet at once, or keeps the send pending.
doSend(c, e, atonce) ==
    IF ~MaySend(c) THEN c
    ELSE LET sent == [c EXCEPT !.unsent = 0, !.keepalive = FALSE]
         IN  IF Packet(c) = <<>> THEN sent
             ELSE IF atonce THEN doResetTimerSend(sent, e) ELSE [sent EXCEPT !.pend = TRUE]

Aged(packets) == [i \in DOMAIN packets |-> [what |-> packets[i], age |-> 0]]

Transmit(c, e) ==
    net' = [net EXCEPT ![Other(e)] = IF MaySend(c) /\ ~broken THEN @ \o Aged(Packet(c)) ELSE @]

(***************************************************************************)
(* Events                                                                  *)
(***************************************************************************)
\* EnterActive or EnterPassive at the end of the start
Enter(e) ==
    /\ conn[e].st = "new"
    /\ conn' = [conn EXCEPT ![e] = doResetTimerStart(Posted([@ EXCEPT !.st = "up"], "doSend"), e)]
    /\ UNCHANGED <<net, broken, pushes>>

\* NewPoolMessage
Push(e) ==
    /\ conn[e].st = "up" /\ pushes < MaxPushes
    /\ pushes' = pushes + 1
    /\ \E atonce \in BOOLEAN :
          LET c == [conn[e] EXCEPT !.unsent = @ + 1]
          IN  SendRestriction(c) /\ conn' = [conn EXCEPT ![e] = doSend(c, e, atonce)] /\ Transmit(c, e)
    /\ UNCHANGED broken

\* onSend
Sent(e) ==
    /\ conn[e].pend /\ ~broken
    /\ \E atonce \in BOOLEAN :
          LET d == [conn[e] EXCEPT !.pend = FALSE]
              c == IF Stopping(d) THEN d ELSE doResetTimerSend(d, e)
          IN  SendRestriction(c) /\ conn' = [conn EXCEPT ![e] = doSend(c, e, atonce)] /\ Transmit(c, e)
    /\ UNCHANGED <<broken, pushes>>

Kill(e) ==
    /\ conn[e].st = "up"
    /\ \E a \in Answers(e) : conn' = [conn EXCEPT ![e] = doStop(@, "killed", a)]
    /\ UNCHANGED <<net, broken, pushes>>

\* A posted call
Exec(e) ==
    /\ conn[e].posts # <<>>
    /\ LET c == [conn[e] EXCEPT !.posts = Tail(@)]
       IN  \/ /\ Head(conn[e].posts) = "doSend"
              /\ SendRestriction(c)
              /\ \E atonce \in BOOLEAN : conn' = [conn EXCEPT ![e] = doSend(c, e, atonce)] /\ Transmit(c, e)
              /\ UNCHANGED broken
           \/ /\ Head(conn[e].posts) = "doStop"
              /\ \E a \in Answers(e) : conn' = [conn EXCEPT ![e] = doStop(c, "toomany", a)]
              /\ UNCHANGED <<net, broken>>
           \/ /\ Head(conn[e].posts) = "doContinueStopping"
              /\ \E a \in Answers(e) : conn' = [conn EXCEPT ![e] = Asked(c, a)]
              /\ UNCHANGED <<net, broken>>
           \/ /\ Head(conn[e].posts) = "onStopped"
              /\ conn' = [conn EXCEPT ![e] = [c EXCEPT !.st = "stopped", !.timer = NoTimer, !.posts = <<>>, !.pend = FALSE]]
              /\ broken' = TRUE /\ UNCHANGED net
    /\ UNCHANGED pushes

(***************************************************************************)
(* Receiving                                                               *)
(***************************************************************************)
\* As doCompleteKeepalive below, with one packet more allowed for
doCompleteKeepaliveLess(c, e) ==
    IF e = "client" THEN c
    ELSE IF c.count + 2 < KeepaliveCount
    THEN Posted([c EXCEPT !.count = @ + 1, !.keepalive = TRUE], "doSend")
    ELSE Posted([c EXCEPT !.count = 0], "doStop")

doCompleteKeepalive(c, e) ==
    IF e = "client" THEN c
    ELSE IF c.count + 1 < KeepaliveCount
    THEN Posted([c EXCEPT !.count = @ + 1, !.keepalive = TRUE], "doSend")
    ELSE Posted([c EXCEPT !.count = 0], "doStop")

\* What the reader completes: a message, or a keep alive packet
Complete(c, e, what) ==
    IF what = "msg" THEN Posted(c, "doSend") ELSE doCompleteKeepalive(c, e)

onRecv(e) ==
    /\ conn[e].st \in {"up", "stopping"} /\ ~conn[e].failed /\ net[e] # <<>>
    /\ LET c == Complete(doResetTimerRecv(conn[e], e), e, Head(net[e]).what)
       IN  conn' = [conn EXCEPT ![e] = doResetTimerRecv(c, e)]
    /\ net' = [net EXCEPT ![e] = Tail(@)]
    /\ UNCHANGED <<broken, pushes>>

\* A socket error: onSend of a pending send comes first, then onRecv with the error.
SocketError(e) ==
    /\ broken /\ conn[e].st \in {"up", "stopping"} /\ ~conn[e].failed
    /\ \E a \in Answers(e) :
          conn' = [conn EXCEPT ![e] =
              LET c == [@ EXCEPT !.pend = FALSE, !.failed = TRUE]
              IN  IF @.pend THEN doResetTimerRecv(doStop(c, "error", a), e)
                  ELSE doStop(doResetTimerRecv(c, e), "error", a)]
    /\ net' = [net EXCEPT ![e] = <<>>]
    /\ UNCHANGED <<broken, pushes>>

\* The network fails.
Break ==
    /\ ~broken /\ \A e \in Ends : conn[e].st = "up"
    /\ broken' = TRUE
    /\ UNCHANGED <<conn, net, pushes>>

(***************************************************************************)
(* Time                                                                    *)
(***************************************************************************)

onTimerInactivity(c, e) ==
    IF c.activity
    THEN waitFor([c EXCEPT !.activity = FALSE, !.count = 0], "inactivity", Inactivity)
    ELSE doStop(c, "inactivity", "stop")

onTimerKeepalive(c) == Posted([c EXCEPT !.keepalive = TRUE, !.waitka = FALSE], "doSend")

Expire(e) ==
    /\ conn[e].timer.f # "none" /\ conn[e].timer.left = 0
    /\ LET c == [conn[e] EXCEPT !.timer = NoTimer]
       IN  \/ conn[e].timer.f = "keepalive" /\ conn' = [conn EXCEPT ![e] = onTimerKeepalive(c)]
           \/ conn[e].timer.f = "inactivity" /\ conn' = [conn EXCEPT ![e] = onTimerInactivity(c, e)]
           \/ /\ conn[e].timer.f = "doContinueStopping"
              /\ \E a \in Answers(e) : conn' = [conn EXCEPT ![e] = Asked(c, a)]
    /\ UNCHANGED <<net, broken, pushes>>

\* Packets take up to Delay; a server starts up to Delay after its client; the reactors keep up.
Tick ==
    /\ \A e \in Ends :
          /\ conn[e].posts = <<>> /\ ~conn[e].pend
          /\ conn[e].timer.f # "none" => conn[e].timer.left > 0
          /\ \A i \in DOMAIN net[e] : net[e][i].age < Delay \/ Stopping(conn[e])
          /\ conn[e].st = "new" => conn[e].age < Delay
    /\ conn' = [e \in Ends |-> [conn[e] EXCEPT
                    !.timer.left = IF conn[e].timer.f = "none" THEN 0 ELSE @ - 1,
                    !.age = IF conn[e].st = "new" THEN @ + 1 ELSE 0]]
    /\ net' = [e \in Ends |-> [i \in DOMAIN net[e] |->
                    [net[e][i] EXCEPT !.age = IF @ < Delay THEN @ + 1 ELSE @]]]
    /\ UNCHANGED <<broken, pushes>>

ConnectionNext ==
    \/ Tick \/ Break
    \/ \E e \in Ends : Enter(e) \/ Push(e) \/ Kill(e) \/ Sent(e) \/ Exec(e) \/ onRecv(e) \/ SocketError(e) \/ Expire(e)

ConnectionSpec == ConnectionInit /\ [][ConnectionNext]_connectionvars

(***************************************************************************)
(* Properties                                                              *)
(***************************************************************************)
\* A server does not close a connection whose client runs and whose network is up for being idle: the
\* client's keep alive packets come at least once per period of its timer, and not too often.
IdleStays ==
    [][conn["server"].why = "none" /\ conn'["server"].why \in {"inactivity", "toomany"}
            => broken \/ Stopping(conn["client"])]_connectionvars


=============================================================================
