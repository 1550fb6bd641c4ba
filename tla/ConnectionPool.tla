--------------------------- MODULE ConnectionPool ---------------------------
(***************************************************************************)
(* A connection pool of mpipc::Service and the connections that serve it.  *)
(*                                                                         *)
(* The messages for a peer wait in the slots of the pool, linked in the    *)
(* lists order and async (or cache, when free).  A connection takes them   *)
(* over when it polls the pool.  A connection that stops hands back those  *)
(* that may be sent again, and the last one either cleans the pool and     *)
(* restarts or completes everything that is left.                          *)
(*                                                                         *)
(* Every function of the service runs under the mutex of the pool and is   *)
(* one step.  Connections run on reactors: events reach them in order,     *)
(* handlers run to their end, and what they post for themselves is a step  *)
(* of its own.  One index of the table of pools is modelled; gen is its    *)
(* unique.  An operator on states takes and returns a record of the        *)
(* pool p, the connections c, the number of completions d and the          *)
(* assertions that failed, f.                                              *)
(***************************************************************************)
EXTENDS Integers, FiniteSets, InnerLists, SequencesExt

CONSTANTS
    Msgs, NoMsg,      \* the messages the application sends, each of them once
    Delay, Force,     \* the empty messages of the two ways to close a pool
    Sync, Request, Idempotent, OneShot,
    Direct,           \* messages sent to a connection, not to a pool
    Cancelable,       \* messages sent with a message id
    MaxConns,         \* connections ever created; then startObject() fails
    MaxActive, MaxPending,       \* pool_max_..._connection_count
    MaxQueue,         \* pool_max_message_queue_size
    MaxMultiplex, MaxResponseWait,
    MaxAddrs,         \* addresses a name is resolved to
    MayClose,         \* the ways the application closes the pool
    Roles,            \* the configurations: "client" (isClientOnly), "server" (isServerOnly)
    Faults,           \* what may go wrong, of FaultNames
    \* Situations that break the pool, see the hazards
    Races

Closes == {Delay, Force}
Bundles == Msgs \cup Closes
FaultNames == {"resolve", "connect", "break", "kill", "stop", "receive"}
RaceNames == {"leaving", "slowleave", "cancelheld", "cleaning", "direct", "nostart", "refused"}

ASSUME PoolMsgsAssumption ==
    /\ NoMsg \notin Bundles /\ Delay # Force /\ Closes \cap Msgs = {} /\ IsFiniteSet(Msgs)
    /\ Sync \subseteq Msgs /\ Request \subseteq Msgs /\ Idempotent \subseteq Msgs
    /\ OneShot \subseteq Msgs /\ Direct \subseteq Msgs /\ Cancelable \subseteq Msgs

ASSUME PoolBoundsAssumption ==
    /\ MaxConns \in Nat \ {0} /\ MaxActive \in Nat \ {0} /\ MaxPending \in Nat \ {0}
    /\ MaxQueue \in Nat \ {0} /\ MaxMultiplex \in Nat \ {0} /\ MaxResponseWait \in Nat
    /\ MaxAddrs \in Nat /\ MayClose \subseteq Closes
    /\ Roles \subseteq {"client", "server"} /\ Roles # {}
    /\ Races \subseteq RaceNames /\ Faults \subseteq FaultNames

VARIABLES
    pool,      \* ConnectionPoolStub
    conn,      \* the connections
    done,      \* how often the completion callback of a bundle was called
    failed,    \* the assertions that have failed
    sent,      \* what became of the calls that send or close
    starts,    \* on how many connections a message was begun
    running,   \* Service::isRunning()
    role       \* the configuration of this service

vars == <<pool, conn, done, failed, sent, starts, running, role>>

Conns == 1..MaxConns
NoConn == 0
NoCursor == 0       \* InvalidIndex()
NoContext == -1     \* an event without a cursor
NoId == [i |-> 0, u |-> 0]

IsAsync(m) == m \notin Sync \cup {Force}
IsOneShot(m) == m \in OneShot \cup Direct
IsNull(m) == m \notin Msgs

Event(k, id, m, n) == [k |-> k, id |-> id, m |-> m, n |-> n]
Plain(k) == Event(k, NoId, NoMsg, 0)

EmptyPool(g) ==
    [free |-> TRUE, gen |-> g, named |-> FALSE, listed |-> FALSE, main |-> NoConn,
     pending |-> 0, active |-> 0, stopping |-> 0, slots |-> <<>>, order |-> <<>>,
     async |-> <<>>, cache |-> <<>>, waitq |-> <<>>, flags |-> {}, retry |-> 0, addrs |-> 0]

NewConn(g) ==
    [life |-> "run", gen |-> g, active |-> FALSE, server |-> FALSE, connected |-> FALSE,
     sock |-> "none", poll |-> FALSE, inq |-> FALSE, post |-> {}, evs |-> <<>>,
     writer |-> <<>>, pend |-> <<>>, cursor |-> NoContext, canstop |-> FALSE, wait |-> FALSE,
     unresolved |-> FALSE]

NotSent == [st |-> "no", id |-> NoId, gen |-> 0, n |-> 0]

Init ==
    /\ pool = EmptyPool(0)
    /\ conn = [c \in Conns |-> [NewConn(0) EXCEPT !.life = "none"]]
    /\ done = [m \in Bundles |-> 0] /\ failed = {}
    /\ sent = [m \in Bundles |-> NotSent] /\ starts = [m \in Msgs |-> 0]
    /\ running = TRUE /\ role \in Roles

State == [p |-> pool, c |-> conn, d |-> done, f |-> failed]
Become(s) == pool' = s.p /\ conn' = s.c /\ done' = s.d /\ failed' = s.f

Asserts(s, b, name) == IF b THEN s ELSE [s EXCEPT !.f = @ \cup {name}]
Complete(s, m) == IF m = NoMsg THEN s ELSE [s EXCEPT !.d[m] = @ + 1]

(***************************************************************************)
(* The slots of the pool                                                   *)
(***************************************************************************)
NewSlot(m) == [msg |-> m, u |-> 0, cancelable |-> FALSE, canceled |-> FALSE,
               obj |-> NoConn, held |-> NoMsg]
Cleared(slot) == [NewSlot(NoMsg) EXCEPT !.u = slot.u + 1]
IdOf(p, i) == [i |-> i, u |-> p.slots[i].u]
Denotes(p, id) == id.i \in DOMAIN p.slots /\ p.slots[id.i].u = id.u

\* The slot insertMessage() takes.
NextSlot(p) == IF p.cache # <<>> THEN Head(p.cache) ELSE Len(p.slots) + 1

insertMessage(p, m) ==
    IF p.cache # <<>> THEN [p EXCEPT !.cache = Tail(@), !.slots[Head(p.cache)].msg = m]
                      ELSE [p EXCEPT !.slots = Append(@, NewSlot(m))]

pushBackMessage(p, m) ==
    [insertMessage(p, m) EXCEPT
        !.order = PushBack(@, NextSlot(p)),
        !.async = IF IsAsync(m) THEN PushBack(@, NextSlot(p)) ELSE @]

LinkFront(p, i, m) ==
    [p EXCEPT !.order = PushFront(@, i), !.async = IF IsAsync(m) THEN PushFront(@, i) ELSE @]

pushFrontMessage(p, m) == LinkFront(insertMessage(p, m), NextSlot(p), m)

Unlink(p, i) == [p EXCEPT !.order = Erase(@, i), !.async = Erase(@, i)]

clearAndCacheMessage(p, i) ==
    [p EXCEPT !.slots[i] = Cleared(@), !.cache = PushBack(@, i)]

\* Mutant: the message stays in the list of asynchronous messages.
clearPopAndCacheMessageKeepsAsync(p, i) ==
    clearAndCacheMessage([p EXCEPT !.order = Erase(@, i)], i)

clearPopAndCacheMessage(p, i) == clearAndCacheMessage(Unlink(p, i), i)

\* InnerList::previousIndex: towards the back; an erased index has no neighbour.
previousIndex(list, i) ==
    IF \E k \in 1..Len(list) - 1 : list[k] = i
    THEN list[(CHOOSE k \in 1..Len(list) - 1 : list[k] = i) + 1] ELSE NoCursor

hasNoMessage(p) == p.order = <<>> \/ IsNull(p.slots[Head(p.order)].msg)
hasNoConnection(p) == p.pending = 0 /\ p.active = 0 /\ p.stopping = 0
isLastConnection(p) == p.pending + p.active = 1
isFull(p) == p.cache = <<>> /\ Len(p.slots) >= MaxQueue
Has(p, flag) == flag \in p.flags

(***************************************************************************)
(* Manager::notify and the making of connections                           *)
(***************************************************************************)
\* After postStop() nobody can notify a connection any more.
Notifiable(s, c) == c \in Conns /\ s.c[c].life \notin {"none", "leaving", "gone"}

notify(s, c, e) == IF Notifiable(s, c) THEN [s EXCEPT !.c[c].evs = Append(@, e)] ELSE s

\* doTryNotifyPoolWaitingConnection drops the connections that are gone.
WaitersLeft(s) == {k \in DOMAIN s.p.waitq : Notifiable(s, s.p.waitq[k])}
doTryNotifyPoolWaitingConnection(s) ==
    IF WaitersLeft(s) = {} THEN [s EXCEPT !.p.waitq = <<>>]
    ELSE LET k == Min(WaitersLeft(s))
         IN  notify([s EXCEPT !.p.waitq = SubSeq(@, k + 1, Len(@))], s.p.waitq[k], Plain("poll"))

notifyAllWaiting(s) ==
    [s EXCEPT !.p.waitq = <<>>,
              !.c = [c \in Conns |->
                        IF c \in Range(s.p.waitq) /\ Notifiable(s, c)
                        THEN [s.c[c] EXCEPT !.evs = Append(@, Plain("poll"))] ELSE s.c[c]]]

\* startObject() gives a new connection, unless the service stops or the bound is reached.
Unused(s) == {c \in Conns : running /\ s.c[c].life = "none"}

CanCreate(s) ==
    /\ s.p.active < MaxActive /\ s.p.pending = 0 /\ ~hasNoMessage(s.p)
    /\ Len(s.p.waitq) < Len(s.p.order) /\ Unused(s) # {}

\* The new connection asks the resolver, or gets what is left of an earlier answer.
doTryCreateNewConnectionForPool(s) ==
    IF ~CanCreate(s) THEN s
    ELSE LET c == Min(Unused(s))
             n == s.p.addrs
             new == IF n = 0 THEN [NewConn(s.p.gen) EXCEPT !.sock = "resolving"]
                    ELSE [NewConn(s.p.gen) EXCEPT !.evs = <<Event("resolve", NoId, NoMsg, n)>>]
         IN  [s EXCEPT !.c[c] = new, !.p.pending = @ + 1, !.p.addrs = 0,
                       !.p.main = IF @ = NoConn THEN c ELSE @]

forwardResolveMessage(s, n) ==
    IF s.p.pending >= MaxPending THEN [s EXCEPT !.p.addrs = n - 1]
    ELSE IF Unused(s) = {} THEN s
    ELSE [s EXCEPT !.c[Min(Unused(s))] =
                       [NewConn(s.p.gen) EXCEPT !.evs = <<Event("resolve", NoId, NoMsg, n)>>],
                   !.p.pending = @ + 1]

(***************************************************************************)
(* Messages go to a connection, and come back when it stops                *)
(***************************************************************************)
Writing(k) == SelectSeq(k.writer, LAMBDA x : x.st # "wait")
WriterFull(k) == Len(Writing(k)) >= MaxMultiplex

\* MessageWriter::enqueue accepts
WriterTakes(k, m) ==
    /\ ~WriterFull(k)
    /\ m \in Request => Len(k.writer) < MaxMultiplex + MaxResponseWait

\* Both doTryPushMessageToConnection.  A message that can be cancelled keeps its slot.
Pushed(s, c, i) ==
    LET slot == s.p.slots[i]
        pid  == IF slot.cancelable THEN IdOf(s.p, i) ELSE NoId
        put  == [s EXCEPT !.c[c].writer = Append(@, [msg |-> slot.msg, pid |-> pid, st |-> "new"])]
    IN  IF slot.cancelable
        THEN [put EXCEPT !.p = [Unlink(s.p, i) EXCEPT !.slots[i].msg = NoMsg, !.slots[i].obj = c,
                                              !.slots[i].held = slot.msg]]
        ELSE [put EXCEPT !.p = clearPopAndCacheMessage(s.p, i)]

\* Pushes messages of a list until one is refused; a is a state and whether
\* the connection may take more.
PushList(a, c, list) ==
    FoldLeft(LAMBDA b, i :
                LET m  == b.s.p.slots[i].msg
                    s1 == Asserts(b.s, ~b.s.p.slots[i].canceled, "push canceled")
                IN  IF ~b.more THEN b
                    ELSE IF IsNull(m) \/ ~WriterTakes(s1.c[c], m) THEN [s |-> s1, more |-> FALSE]
                    ELSE [s |-> Pushed(s1, c, i), more |-> TRUE],
             a, list)

\* The messages sent to this very connection.  One whose id does not denote
\* it any more is skipped, against an assertion.
PushPending(a, c) ==
    LET drop(s) == [s EXCEPT !.c[c].pend = Tail(@)]
        step(b, id) ==
            LET ok == Denotes(b.s.p, id)
                s1 == Asserts(b.s, ok, "pending id")
                s2 == Asserts(s1, ~b.s.p.slots[id.i].canceled, "push canceled")
            IN  IF ~ok THEN [s |-> drop(s1), more |-> b.more, on |-> TRUE]
                ELSE IF WriterTakes(s2.c[c], s2.p.slots[id.i].msg)
                     THEN [s |-> drop(Pushed(s2, c, id.i)), more |-> TRUE, on |-> TRUE]
                     ELSE [s |-> s2, more |-> FALSE, on |-> FALSE]
        end == FoldLeft(LAMBDA b, id : IF b.on THEN step(b, id) ELSE b,
                        [s |-> a.s, more |-> a.more, on |-> TRUE], a.s.c[c].pend)
    IN  [s |-> end.s, more |-> end.more]

reinsertFrontMessage(s, id, m) ==
    [Asserts(s, Denotes(s.p, id) /\ s.p.slots[id.i].msg = NoMsg, "reinsert")
        EXCEPT !.p = [LinkFront(s.p, id.i, m) EXCEPT !.slots[id.i].msg = m]]

\* Mutant: a message that has been begun may be sent again.
ResendableAny(x) == x.st # "wait"

Resendable(x) == x.msg \in Idempotent \/ x.st = "new"

\* Mutant: the messages handed back stay in the writer.
FetchResendableKeeps(s, c) ==
    FoldLeft(LAMBDA a, x : IF x.pid = NoId THEN [a EXCEPT !.p = pushFrontMessage(@, x.msg)]
                           ELSE reinsertFrontMessage(a, x.pid, x.msg),
             s, SelectSeq(s.c[c].writer, Resendable))

\* doFetchResendableMessagesFromConnection: the writer is walked from the oldest
\* message on, so the newest one ends at the front of the pool.
FetchResendable(s, c) ==
    FoldLeft(LAMBDA a, x : IF x.pid = NoId THEN [a EXCEPT !.p = pushFrontMessage(@, x.msg)]
                           ELSE reinsertFrontMessage(a, x.pid, x.msg),
             [s EXCEPT !.c[c].writer = SelectSeq(@, LAMBDA x : ~Resendable(x))],
             SelectSeq(s.c[c].writer, Resendable))

(***************************************************************************)
(* Polling the pool                                                        *)
(***************************************************************************)
\* The first connection that notices takes over from a stopping main one.
TakeOver(s, c) ==
    IF Has(s.p, "mainstopping") /\ s.p.main # c
    THEN [notify(s, s.p.main, Plain("stopping")) EXCEPT
             !.p.main = c, !.p.flags = (@ \ {"mainstopping"}) \cup {"mainactive"}]
    ELSE s

cacheMessageId(s, id) ==
    IF id = NoId THEN s
    ELSE IF Denotes(s.p, id) THEN [s EXCEPT !.p = clearAndCacheMessage(@, id.i)]
    ELSE Asserts(s, FALSE, "cached id")

JoinWaiting(s, c) ==
    IF s.c[c].inq THEN s
    ELSE [s EXCEPT !.p.waitq = Append(@, c), !.c[c].inq = TRUE]

\* pollPoolForUpdates fails
PoolStops(s, c) ==
    Has(s.p, "fast") \/ (s.c[c].writer = <<>> /\ Has(s.p, "closing") /\ hasNoMessage(s.p))

\* What is polled when the pool does not stop: the pending messages, then the
\* list order by the main connection and the list async by any other.
PushAll(s, c) ==
    LET more == [s |-> s, more |-> ~WriterFull(s.c[c])]
        pushed == PushPending(more, c)
    IN  PushList(pushed, c, IF c = s.p.main THEN s.p.order ELSE s.p.async).s

pollPoolForUpdates(s, c, id) ==
    LET s1 == cacheMessageId(TakeOver(s, c), id)
    IN  IF s.p.gen # s.c[c].gen THEN [s |-> Asserts(s, FALSE, "poll gen"), err |-> TRUE]
        ELSE IF PoolStops(s1, c) THEN [s |-> s1, err |-> TRUE]
        ELSE [s |-> JoinWaiting(PushAll(s1, c), c), err |-> FALSE]

(***************************************************************************)
(* Stopping a connection                                                   *)
(***************************************************************************)

CountOut(s, c) ==
    [s EXCEPT !.p.active = IF s.c[c].active THEN @ - 1 ELSE @,
              !.p.pending = IF s.c[c].active THEN @ ELSE @ - 1,
              !.p.stopping = @ + 1]

MayStop(s, c) == [s EXCEPT !.c[c].canstop = TRUE]

doNonMainConnectionStopping(s, c) ==
    LET s1 == CountOut(s, c)
        s2 == IF isLastConnection(s1.p) /\ Has(s1.p, "mainstopping")
              THEN notify(s1, s1.p.main, Plain("stopping")) ELSE s1
        s3 == IF Has(s2.p, "fast") THEN s2
              ELSE doTryCreateNewConnectionForPool(FetchResendable(s2, c))
    IN  MayStop(s3, c)

doMainConnectionStoppingNotLast(s, c) ==
    LET s1 == [s EXCEPT !.p.flags = (@ \ {"mainactive"}) \cup {"mainstopping"}, !.c[c].wait = TRUE]
    IN  IF Has(s.p, "fast") THEN s1 ELSE FetchResendable(s1, c)

\* Completes one one-shot message and moves on to the next one in order.  The
\* message of a delayed close is completed only when it is alone.
doMainConnectionStoppingCleanOneShot(s, c) ==
    LET i  == s.c[c].cursor
        m  == s.p.slots[i].msg
        s1 == Asserts(s, Contains(s.p.order, i), "cursor")
        s2 == [s1 EXCEPT !.c[c].cursor = previousIndex(s.p.order, i)]
        done1 == IsOneShot(m) \/ (IsNull(m) /\ Len(s.p.order) = 1)
    IN  IF i \in {NoCursor, NoContext}
        THEN [Asserts(s, i = NoCursor, "cursor") EXCEPT !.p.flags = (@ \ {"oneshot"}) \cup {"restart"}, !.c[c].wait = s.p.addrs = 0]
        ELSE IF done1 THEN Complete([s2 EXCEPT !.p = clearPopAndCacheMessage(@, i)], m) ELSE s2

doMainConnectionStoppingCleanAll(s, c) ==
    IF s.p.order # <<>>
    THEN Complete([s EXCEPT !.p = clearPopAndCacheMessage(@, Head(s.p.order))],
                  s.p.slots[Head(s.p.order)].msg)
    ELSE MayStop([CountOut(s, c) EXCEPT !.p.flags = @ \ {"all"}], c)

doMainConnectionStoppingPrepareCleanOneShot(s, c) ==
    LET s1 == [FetchResendable(s, c) EXCEPT !.p.flags = @ \ {"mainactive"}]
    IN  IF s1.p.order # <<>>
        THEN [s1 EXCEPT !.p.flags = @ \cup {"oneshot"}, !.c[c].cursor = Head(s1.p.order)]
        ELSE MayStop(CountOut(s1, c), c)

doMainConnectionStoppingPrepareCleanAll(s) ==
    [s EXCEPT !.p.flags = (@ \ {"mainactive"}) \cup {"all", "fast", "closing"}]

\* Makes place for the next connection: when none can be made, the stopping
\* one stays the main connection and tries again after a while.
doMainConnectionRestarting(s, c) ==
    LET retry == IF s.c[c].connected THEN 0 ELSE s.p.retry
        s1  == [CountOut(s, c) EXCEPT !.p.main = NoConn, !.p.retry = retry]
        s2  == [s1 EXCEPT !.p.waitq = <<>>]
        s3  == IF retry = 0 THEN doTryCreateNewConnectionForPool(s2) ELSE s2
        s4  == [s3 EXCEPT !.p.retry = (retry + 1) % 2]
    IN  IF hasNoMessage(s.p) THEN MayStop(s1, c)
        ELSE IF s3 # s2 THEN MayStop(s4, c)
        ELSE [s EXCEPT !.p.waitq = <<>>, !.p.retry = (retry + 1) % 2, !.c[c].wait = TRUE]

connectionStopping(s0, c) ==
    LET s == [s0 EXCEPT !.c[c].canstop = FALSE, !.c[c].wait = FALSE]
    IN  IF s.p.gen # s.c[c].gen THEN Asserts(s, FALSE, "stopping gen")
        ELSE IF s.p.main # c THEN doNonMainConnectionStopping(s, c)
        ELSE IF ~isLastConnection(s.p) THEN doMainConnectionStoppingNotLast(s, c)
        ELSE IF Has(s.p, "oneshot") THEN doMainConnectionStoppingCleanOneShot(s, c)
        ELSE IF Has(s.p, "all") THEN doMainConnectionStoppingCleanAll(s, c)
        ELSE IF Has(s.p, "restart") /\ running THEN doMainConnectionRestarting(s, c)
        ELSE IF ~Has(s.p, "fast") /\ s.p.named /\ running /\ ~s.c[c].unresolved
             THEN doMainConnectionStoppingPrepareCleanOneShot(s, c)
        ELSE doMainConnectionStoppingPrepareCleanAll(s)

(***************************************************************************)
(* The handlers of a connection                                            *)
(***************************************************************************)
IsStopping(k) == k.life \notin {"none", "run"}

\* What follows when a stopping connection has no messages left.
GoOn(s, c) ==
    [s EXCEPT !.c[c].life = IF s.c[c].canstop THEN "leaving"
                            ELSE IF s.c[c].wait THEN "wait" ELSE "cont"]

HasMessages(k) == k.writer # <<>> \/ k.pend # <<>>

doStop(s, c) ==
    LET s1 == connectionStopping(s, c)
    IN  IF IsStopping(s.c[c]) THEN s
        ELSE IF HasMessages(s1.c[c]) THEN [s1 EXCEPT !.c[c].life = "cleanup"]
        ELSE GoOn(s1, c)

doContinueStopping(s, c) == GoOn(connectionStopping(s, c), c)

fetchCanceledMessage(s, id) ==
    LET s1 == Asserts(s, s.p.slots[id.i].canceled, "not canceled")
        s2 == Asserts(s1, ~Contains(s.p.order, id.i), "canceled in order")
    IN  IF ~Denotes(s.p, id) THEN s
        ELSE Complete([s2 EXCEPT !.p = clearAndCacheMessage(@, id.i)], s.p.slots[id.i].msg)

doCompleteAllMessages(s, c) ==
    LET k == s.c[c]
        s1 == IF k.writer # <<>>
              THEN Complete([s EXCEPT !.c[c].writer = Tail(@)], Head(k.writer).msg)
              ELSE IF k.pend # <<>>
              THEN fetchCanceledMessage([s EXCEPT !.c[c].pend = Tail(@)], Head(k.pend))
              ELSE s
    IN  IF HasMessages(s1.c[c]) THEN s1 ELSE GoOn(s1, c)

\* pollPoolForUpdates, and doStop when it fails
PollOrStop(s, c, id) ==
    LET r == pollPoolForUpdates(s, c, id) IN IF r.err THEN doStop(r.s, c) ELSE r.s

doSend(s, c) ==
    IF IsStopping(s.c[c]) \/ ~s.c[c].poll THEN s
    ELSE PollOrStop([s EXCEPT !.c[c].poll = FALSE], c, NoId)

SetPoll(s, c) == [s EXCEPT !.c[c].poll = TRUE]

\* Mutant: InPoolWaitQueue is not reset.
doHandleEventNewPoolMessageStaysIn(s, c) ==
    IF ~IsStopping(s.c[c]) THEN doSend(SetPoll(s, c), c) ELSE doTryNotifyPoolWaitingConnection(s)

doHandleEventNewPoolMessage(s, c) ==
    LET s1 == [s EXCEPT !.c[c].inq = FALSE]
    IN  IF ~IsStopping(s.c[c]) THEN doSend(SetPoll(s1, c), c)
        ELSE IF s.p.gen # s.c[c].gen THEN Asserts(s1, FALSE, "reject gen")
        ELSE doTryNotifyPoolWaitingConnection(s1)

doHandleEventNewConnMessage(s, c, id) ==
    IF IsStopping(s.c[c]) THEN fetchCanceledMessage(s, id)
    ELSE doSend(SetPoll([s EXCEPT !.c[c].pend = Append(@, id)], c), c)

\* MessageWriter::cancel gives back a message it still holds.
doHandleEventCancelConnMessage(s, c, m) ==
    IF \A x \in Range(s.c[c].writer) : x.msg # m THEN s
    ELSE Complete([s EXCEPT !.c[c].writer = SelectSeq(@, LAMBDA x : x.msg # m)], m)

\* Connecting may fail at once, in the middle of the handler.
doHandleEventResolve(s, c, n, refused) ==
    IF n = 0 THEN doStop([s EXCEPT !.c[c].unresolved = @ \/ ~IsStopping(s.c[c])], c)
    ELSE IF refused THEN forwardResolveMessage(doStop(s, c), n)
    ELSE forwardResolveMessage([s EXCEPT !.c[c].sock = "connecting"], n)

\* The timer of a stopping main connection is made to expire.
doHandleEventStopping(s, c) == IF s.c[c].life = "wait" THEN doContinueStopping(s, c) ELSE s

\* Mutant: the connection stays among the pending ones.
activateConnectionPending(s, c) ==
    IF s.p.active + 1 > MaxActive THEN [s |-> s, err |-> TRUE]
    ELSE [s |-> doTryCreateNewConnectionForPool([s EXCEPT !.p.active = @ + 1]), err |-> FALSE]

activateConnection(s, c) ==
    LET s1 == [s EXCEPT !.p.pending = @ - 1, !.p.active = @ + 1]
    IN  IF Has(s.p, "mainstopping") THEN [s |-> TakeOver(s1, c), err |-> FALSE]
        ELSE IF s.p.active + 1 > MaxActive THEN [s |-> s, err |-> TRUE]
        ELSE [s |-> doTryCreateNewConnectionForPool(s1), err |-> FALSE]

doHandleEventEnterActive(s, c) ==
    LET r == activateConnection(s, c)
    IN  IF IsStopping(s.c[c]) THEN s
        ELSE IF s.p.gen # s.c[c].gen THEN doStop(Asserts(s, FALSE, "activate gen"), c)
        ELSE IF r.err THEN doStop(r.s, c)
        ELSE [r.s EXCEPT !.c[c].active = TRUE, !.c[c].poll = @ \/ ~s.c[c].server,
                         !.c[c].post = @ \cup {"send"}]

connectionStop(s, c) ==
    LET s1 == [s EXCEPT !.p.stopping = @ - 1, !.p.flags = @ \ {"restart"}]
        s2 == Asserts(s1, s.p.order = <<>> /\ s.p.async = <<>>, "messages left")
    IN  IF s.p.gen # s.c[c].gen THEN Asserts(s, FALSE, "stop gen")
        ELSE IF hasNoConnection(s1.p) THEN [s2 EXCEPT !.p = EmptyPool(s.p.gen + 1)]
        ELSE s1

(***************************************************************************)
(* The application                                                         *)
(***************************************************************************)
\* The window in which the last connection of the pool is about to leave it.
Serving == "leaving" \in Races \/ pool.pending + pool.active > 0

\* The time in which the last connection completes one-shot messages and waits
\* to be replaced.
NotCleaning == "cleaning" \in Races \/ pool.flags \cap {"oneshot", "restart"} = {}

\* A call is the nth one.
Sent(m, st, id) ==
    sent' = [sent EXCEPT ![m] = [st |-> st, id |-> id, gen |-> pool.gen,
                                 n |-> 1 + Cardinality({b \in Bundles : sent[b] # NotSent})]]

makeCancelable(p, m, i) == [p EXCEPT !.slots[i].cancelable = @ \/ m \in Cancelable]

\* Whom doSendMessage() notifies about a message in slot i
NotifySent(s, m, i) ==
    LET one == Has(s.p, "oneshot") /\ IsOneShot(m)
        syn == ~IsAsync(m) /\ Has(s.p, "mainactive")
        e   == IF one THEN Event("new", IdOf(s.p, i), NoMsg, 0) ELSE Plain("poll")
        s1  == Asserts(s, one \/ syn => Notifiable(s, s.p.main), "main gone")
    IN  IF (one \/ syn) /\ Notifiable(s, s.p.main) THEN notify(s, s.p.main, e)
        ELSE IF ~IsAsync(m) THEN doTryCreateNewConnectionForPool(s1)
        ELSE IF WaitersLeft(s) # {} THEN doTryNotifyPoolWaitingConnection(s1)
        ELSE doTryCreateNewConnectionForPool([s1 EXCEPT !.p.waitq = <<>>])

\* sendMessage() to a name that has a pool
Send(m) ==
    /\ running /\ sent[m] = NotSent /\ m \in Msgs \ Direct /\ pool.listed /\ Serving
    /\ IsOneShot(m) \/ MaxActive > 1 => NotCleaning
    /\ IF isFull(pool) \/ Has(pool, "closing")
       THEN Sent(m, "refused", NoId) /\ UNCHANGED <<pool, conn, done, failed>>
       ELSE LET i == NextSlot(pool)
                p == makeCancelable(pushBackMessage(pool, m), m, i)
            IN  Sent(m, "sent", IdOf(p, i)) /\ Become(NotifySent([State EXCEPT !.p = p], m, i))
    /\ UNCHANGED <<starts, running, role>>

\* sendMessage() to a new name.  When no connection can be made the pool is
\* given back; only the list order is emptied before.
SendToNewPool(m) ==
    /\ running /\ sent[m] = NotSent /\ m \in Msgs \ Direct /\ pool.free /\ role = "client"
    /\ "nostart" \in Races \/ Unused(State) # {}
    /\ LET i == NextSlot(pool)
           p == [pushBackMessage(pool, m) EXCEPT !.free = FALSE, !.named = TRUE, !.listed = TRUE]
           s == doTryCreateNewConnectionForPool([State EXCEPT !.p = p])
       IN  IF s.c = conn
           THEN /\ Sent(m, "refused", NoId)
                /\ Become([Asserts(State, ~IsAsync(m), "async left") EXCEPT
                              !.p = EmptyPool(pool.gen + 1)])
           ELSE /\ Sent(m, "sent", IdOf(p, i))
                /\ Become([s EXCEPT !.p = makeCancelable(@, m, i)])
    /\ UNCHANGED <<starts, running, role>>

\* sendMessage() to a connection
SendTo(m, c) ==
    /\ running /\ sent[m] = NotSent /\ m \in Direct /\ conn[c].active
    /\ "direct" \in Races \/ ~pool.named
    /\ LET i  == NextSlot(pool)
           p  == IF pool.named THEN insertMessage(pool, m) ELSE pushBackMessage(pool, m)
           id == IdOf(p, i)
           e  == IF pool.named THEN Event("new", id, NoMsg, 0) ELSE Plain("poll")
       IN  IF conn[c].gen # pool.gen
           THEN Sent(m, "refused", NoId) /\ UNCHANGED <<pool, conn, done, failed>>
           ELSE IF Notifiable(State, c)
           THEN /\ Sent(m, "sent", id)
                /\ Become(notify([State EXCEPT !.p = makeCancelable(p, m, i)], c, e))
           ELSE /\ Sent(m, "refused", NoId)
                /\ Become([State EXCEPT !.p = clearPopAndCacheMessage(p, i)])
    /\ UNCHANGED <<starts, running, role>>

\* delayCloseConnectionPool() and forceCloseConnectionPool()
Close(m) ==
    /\ m \in MayClose /\ sent[m] = NotSent /\ ~pool.free /\ Serving
    /\ NotCleaning \/ ~hasNoMessage(pool)
    /\ LET i == NextSlot(pool)
           p == [pushBackMessage(pool, m) EXCEPT
                    !.flags = @ \cup {"closing"} \cup (IF m = Force THEN {"fast"} ELSE {}),
                    !.listed = FALSE]
       IN  Sent(m, "sent", IdOf(p, i)) /\ Become(notifyAllWaiting([State EXCEPT !.p = p]))
    /\ UNCHANGED <<starts, running, role>>

\* cancelMessage() of a message a connection holds, and of one in the pool
CancelHeld(s, id) ==
    LET slot == s.p.slots[id.i]
        s1 == Asserts(s, slot.msg = NoMsg, "held twice")
    IN  IF Notifiable(s, slot.obj)
        THEN [notify(s1, slot.obj, Event("cancelconn", NoId, slot.held, 0)) EXCEPT
                 !.p = clearAndCacheMessage(s.p, id.i)]
        ELSE [Asserts(s1, FALSE, "lost") EXCEPT !.p.slots[id.i].canceled = TRUE,
                                                !.p.slots[id.i].obj = NoConn]

\* Mutant: a cancelled message stays in the lists.
CancelWaitingLinked(s, id) ==
    [notify(s, s.p.main, Event("cancelpool", id, NoMsg, 0)) EXCEPT !.p.slots[id.i].canceled = TRUE]

CancelWaiting(s, id) ==
    IF Notifiable(s, s.p.main)
    THEN [notify(s, s.p.main, Event("cancelpool", id, NoMsg, 0)) EXCEPT
             !.p = [Unlink(s.p, id.i) EXCEPT !.slots[id.i].canceled = TRUE]]
    ELSE [Asserts(s, FALSE, "no main") EXCEPT !.p.slots[id.i].canceled = TRUE]

cancelMessage(m) ==
    LET id == sent[m].id
        slot == pool.slots[id.i]
    IN  /\ m \in Cancelable /\ sent[m].st = "sent" /\ NotCleaning /\ Serving
        /\ "cancelheld" \in Races \/ (Denotes(pool, id) => slot.obj = NoConn)
        /\ sent' = [sent EXCEPT ![m].st = "canceled"]
        /\ IF sent[m].gen # pool.gen \/ ~Denotes(pool, id) \/ slot.canceled
           THEN UNCHANGED <<pool, conn, done, failed>>
           ELSE IF slot.obj # NoConn THEN Become(CancelHeld(State, id))
           ELSE IF slot.msg # NoMsg THEN Become(CancelWaiting(State, id))
           ELSE UNCHANGED <<pool, conn, done, failed>>
        /\ UNCHANGED <<starts, running, role>>

\* closeConnection(); the application learns of a connection when it starts.
Kill(c) ==
    /\ "kill" \in Faults /\ conn[c].life = "run" /\ (conn[c].server \/ conn[c].connected)
    /\ Plain("kill") \notin Range(conn[c].evs)
    /\ Become(notify(State, c, Plain("kill"))) /\ UNCHANGED <<sent, starts, running, role>>

\* Mutant: only the active connections are told.
StopServiceActive ==
    /\ "stop" \in Faults /\ running /\ running' = FALSE
    /\ conn' = [c \in Conns |-> IF Notifiable(State, c) /\ conn[c].active
                                THEN [conn[c] EXCEPT !.evs = Append(@, Plain("kill"))] ELSE conn[c]]
    /\ UNCHANGED <<pool, done, failed, sent, starts, role>>

\* Service::stop()
StopService ==
    /\ "stop" \in Faults /\ running /\ running' = FALSE
    /\ conn' = [c \in Conns |-> IF Notifiable(State, c)
                                THEN [conn[c] EXCEPT !.evs = Append(@, Plain("kill"))] ELSE conn[c]]
    /\ UNCHANGED <<pool, done, failed, sent, starts, role>>

(***************************************************************************)
(* The world and the reactor                                               *)
(***************************************************************************)
\* When the connection cannot be started the pool is given back; MaxConns bounds how often.
acceptIncomingConnection ==
    /\ role = "server" /\ pool.free
    /\ LET c == Min(Unused(State))
       IN  IF Unused(State) # {}
           THEN /\ pool' = [pool EXCEPT !.free = FALSE, !.pending = @ + 1, !.main = c]
                /\ conn' = [conn EXCEPT ![c] = [NewConn(pool.gen) EXCEPT
                                !.server = TRUE, !.sock = "up", !.post = {"active"}]]
           ELSE pool.gen <= MaxConns /\ pool' = EmptyPool(pool.gen + 1) /\ UNCHANGED conn
    /\ UNCHANGED <<done, failed, sent, starts, running, role>>

Step(s) == Become(s) /\ UNCHANGED <<sent, starts, running, role>>

\* The resolver calls back with n addresses.
Resolved(c, n) ==
    /\ conn[c].sock = "resolving" /\ (n = 0 => "resolve" \in Faults)
    /\ Step(notify([State EXCEPT !.c[c].sock = "none"], c, Event("resolve", NoId, NoMsg, n)))

onConnect(c, ok) ==
    /\ conn[c].sock = "connecting" /\ Notifiable(State, c) /\ (ok \/ "connect" \in Faults)
    /\ IF ok THEN Step([State EXCEPT !.c[c].sock = "up", !.c[c].connected = TRUE,
                                     !.c[c].post = @ \cup {"active"}])
             ELSE Step(doStop([State EXCEPT !.c[c].sock = "none"], c))

\* Connecting fails at once, and the addresses that are left are passed on by a
\* connection that stops already.
MayRefuse == "refused" \in Races \/ (MaxPending = 1 /\ pool.order # <<>>)

\* Looking a name up takes longer than the last turn of a connection that leaves.
NoneLeaving(c) ==
    "slowleave" \in Races \/ \A d \in Conns \ {c} : conn[d].life # "leaving"

onEvent(s, c, e) ==
    CASE e.k = "poll"       -> doHandleEventNewPoolMessage(s, c)
      [] e.k = "new"        -> doHandleEventNewConnMessage(s, c, e.id)
      [] e.k = "cancelconn" -> doHandleEventCancelConnMessage(s, c, e.m)
      [] e.k = "cancelpool" -> fetchCanceledMessage(s, e.id)
      [] e.k = "stopping"   -> doHandleEventStopping(s, c)
      [] e.k = "kill"       -> doStop(s, c)

\* The reactor delivers the events of a connection in the order they were sent.
HandleEvent(c) ==
    /\ conn[c].life # "gone" /\ conn[c].evs # <<>>
    /\ LET e == Head(conn[c].evs)
           s == [State EXCEPT !.c[c].evs = Tail(@)]
       IN  IF e.k # "resolve" THEN Step(onEvent(s, c, e))
           ELSE /\ NoneLeaving(c)
                /\ \E refused \in {FALSE, MayRefuse} :
                        Step(doHandleEventResolve(s, c, e.n, refused))

RunPosted(c, what) ==
    /\ what \in conn[c].post /\ conn[c].life \notin {"leaving", "gone"}
    /\ LET s == [State EXCEPT !.c[c].post = @ \ {what}]
       IN  Step(IF what = "active" THEN doHandleEventEnterActive(s, c) ELSE doSend(s, c))

\* The writer begins message k of a connection.
Start(c, k) ==
    /\ conn[c].active /\ conn[c].life = "run" /\ k \in DOMAIN conn[c].writer
    /\ conn[c].writer[k].st = "new"
    /\ conn' = [conn EXCEPT ![c].writer[k].st = "started"]
    /\ starts' = [starts EXCEPT ![conn[c].writer[k].msg] = @ + 1]
    /\ UNCHANGED <<pool, done, failed, sent, running, role>>

\* The writer ends it: a request waits for the response, any other message is complete.
Finish(c, k) ==
    /\ conn[c].life = "run" /\ k \in DOMAIN conn[c].writer /\ conn[c].writer[k].st = "started"
    /\ LET x == conn[c].writer[k]
           s == Complete([State EXCEPT !.c[c].writer = RemoveAt(@, k)], x.msg)
       IN  Step(IF x.msg \in Request THEN [State EXCEPT !.c[c].writer[k].st = "wait"]
                ELSE PollOrStop(s, c, x.pid))

\* onRecv: a message that answers message k, or a new one
Receive(c, k) ==
    /\ conn[c].sock = "up" /\ conn[c].active /\ conn[c].life \notin {"leaving", "gone"}
    /\ LET s == [State EXCEPT !.c[c].poll = TRUE, !.c[c].post = @ \cup {"send"}]
       IN  \/ k = 0 /\ "receive" \in Faults /\ Step(s)
           \/ /\ k \in DOMAIN conn[c].writer /\ conn[c].writer[k].st = "wait"
              /\ Step(Complete([s EXCEPT !.c[c].writer = RemoveAt(@, k)], conn[c].writer[k].msg))

\* The peer closes, or an error of the socket
Break(c) ==
    /\ conn[c].sock = "up" /\ conn[c].life = "run" /\ "break" \in Faults
    /\ Step(doStop([State EXCEPT !.c[c].sock = "none"], c))

\* What a stopping connection has posted, or its timer
Cleanup(c) == conn[c].life = "cleanup" /\ Step(doCompleteAllMessages(State, c))
ContinueStopping(c) == conn[c].life \in {"cont", "wait"} /\ Step(doContinueStopping(State, c))

onStopped(c) ==
    /\ conn[c].life = "leaving" /\ conn[c].evs = <<>>
    /\ Step([connectionStop(State, c) EXCEPT !.c[c] = [NewConn(conn[c].gen) EXCEPT !.life = "gone"]])

Reactor(c) ==
    \/ HandleEvent(c) \/ Cleanup(c) \/ ContinueStopping(c) \/ onStopped(c)
    \/ \E what \in {"active", "send"} : RunPosted(c, what)
    \/ \E k \in DOMAIN conn[c].writer : Start(c, k) \/ Finish(c, k)
World(c) ==
    \/ \E n \in 0..MaxAddrs : Resolved(c, n)
    \/ \E ok \in BOOLEAN : onConnect(c, ok)

Next ==
    \/ \E m \in Msgs : Send(m) \/ SendToNewPool(m) \/ cancelMessage(m)
    \/ \E m \in Msgs, c \in Conns : SendTo(m, c)
    \/ \E m \in Closes : Close(m)
    \/ \E c \in Conns : Kill(c) \/ Reactor(c) \/ World(c) \/ Break(c)
    \/ \E c \in Conns : \E k \in 0..Cardinality(Msgs) : Receive(c, k)
    \/ StopService \/ acceptIncomingConnection

Spec == Init /\ [][Next]_vars

(***************************************************************************)
(* Properties                                                              *)
(***************************************************************************)
\* No assertion of Service fails (connectionStop, pollPoolForUpdates, activateConnection).
NoAssertFails == failed = {}

\* A slot is in one list at most, and what is free is in none but the cache.
SlotsOnce ==
    /\ IsInjective(pool.order \o pool.cache) /\ IsInjective(pool.async)
    /\ pool.async = SelectSeq(pool.order, LAMBDA i : IsAsync(pool.slots[i].msg))
    /\ \A i \in Range(pool.cache) : pool.slots[i].msg = NoMsg
    /\ \A i \in Range(pool.order) : pool.slots[i].msg # NoMsg

\* The places of a message: slots and writers
PlacesOf(m) ==
    {<<NoConn, i>> : i \in {i \in DOMAIN pool.slots : pool.slots[i].msg = m}}
        \cup UNION {{<<c, k>> : k \in {k \in DOMAIN conn[c].writer : conn[c].writer[k].msg = m}}
                    : c \in Conns}

\* A message that was accepted is in one place until its completion is called,
\* once, and in none after.
OnePlaceOrDone ==
    \A m \in Bundles :
        Cardinality(PlacesOf(m)) + done[m] = IF sent[m].st \in {"sent", "canceled"} THEN 1 ELSE 0

\* Every connection of the pool is in one of the three counters that decide
\* whether it is the last one: pending, active, or stopping once it may stop.
ConnectionsCounted ==
    LET Of(B(_)) == Cardinality({c \in Conns : conn[c].gen = pool.gen /\ B(conn[c])
                                               /\ conn[c].life \notin {"none", "gone"}})
    IN  /\ pool.stopping = Of(LAMBDA k : k.canstop)
        /\ pool.active = Of(LAMBDA k : ~k.canstop /\ k.active)
        /\ pool.pending = Of(LAMBDA k : ~k.canstop /\ ~k.active)

\* An active connection of a client is in the waiting queue or polls the pool
\* soon, so that it learns of a forced close and of a message it may take without
\* waiting for its timer; a synchronous message goes to the main connection only.
ClientsWaitOrPoll ==
    \A c \in Conns :
        conn[c].life = "run" /\ conn[c].active /\ ~conn[c].server =>
            \/ c \in Range(pool.waitq) \/ Plain("poll") \in Range(conn[c].evs)
            \/ conn[c].poll /\ "send" \in conn[c].post

\* A message that is not idempotent is begun once.
BasicSentOnce == \A m \in Msgs \ Idempotent : starts[m] <= 1

\* The synchronous messages of a pool are in the order they were sent in.
SyncOrder ==
    \A i, j \in DOMAIN pool.order :
        LET m(k) == pool.slots[pool.order[k]].msg
        IN  m(i) \in Sync /\ m(j) \in Sync /\ sent[m(i)].n < sent[m(j)].n => i < j
=============================================================================
