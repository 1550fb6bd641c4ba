------------------------------ MODULE Reactor ------------------------------
(***************************************************************************)
(* frame::Reactor and frame::aio::Reactor: the thread that runs the        *)
(* objects of a scheduler.  Other threads push new objects and raise       *)
(* events into two vectors under the reactor's mutex.  The thread takes    *)
(* both, turns them into entries of exeq and runs the entries; the entries *)
(* an object posts while exeq is run wait for the next round.              *)
(*                                                                         *)
(* An object stops itself with postStop(): the manager is told not to let  *)
(* anybody notify it any more, its handlers are deactivated, and the stop  *)
(* goes through exeq twice.                                                *)
(*                                                                         *)
(* The two reactors differ in how they wait and in where a round takes the *)
(* vectors; the variable aio tells them apart and never changes.            *)
(***************************************************************************)
EXTENDS Integers, Sequences, FiniteSets

CONSTANTS
    Objs, NoObj,   \* the objects, each started at most once
    MaxRaise       \* events raised for an object

ReactorAssumption ==
    /\ IsFiniteSet(Objs) /\ NoObj \notin Objs /\ MaxRaise \in Nat

VARIABLES
    aio,                    \* frame::aio::Reactor, not frame::Reactor
    pushvec, raisevec,      \* what the other threads have left
    uidstk, freeuid,        \* indexes to use again, and those not handed back yet
    crtidx,                 \* the next index never used
    objdq,                  \* the objects by index, with the unique of the index
    objcnt, exeq,
    running, must_stop,
    sz,                     \* entries of exeq left in this round
    pc,                     \* where run() is
    signal,                 \* the condition variable or the eventfd is signalled
    writes,                 \* aio: threads between unlocking and write()
    fd,                     \* aio: epoll_wait has returned the eventfd
    uid,                    \* ObjectBase::runId
    visits,                 \* the objects the manager lets others notify
    raised,                 \* how many events were raised for an object
    delivered,              \* the events onEvent got
    late                    \* stopped in a timer callback of frame::Reactor

mailbox == <<pushvec, raisevec>>
uids == <<uidstk, freeuid, crtidx>>
loop == <<objdq, objcnt, exeq, running, must_stop, sz, pc>>
waking == <<signal, writes, fd>>
objects == <<uid, visits, raised, delivered, late>>
vars == <<aio, mailbox, uids, loop, waking, objects>>

Index == 1..Cardinality(Objs)
Uid == [index : Index, unique : 0..Cardinality(Objs)]
NoUid == [index |-> 0, unique |-> 0]
Stub == [uid : Uid, fn : {"event", "repost", "stop"}, event : 0..MaxRaise]

Init ==
    /\ aio \in BOOLEAN
    /\ pushvec = <<>> /\ raisevec = <<>>
    /\ uidstk = <<>> /\ freeuid = <<>> /\ crtidx = 1
    /\ objdq = [n \in Index |-> [obj |-> NoObj, unique |-> 0]]
    /\ objcnt = 0 /\ exeq = <<>> /\ running = TRUE /\ must_stop = FALSE /\ sz = 0
    /\ pc = "wait" /\ signal = FALSE /\ writes = 0 /\ fd = FALSE
    /\ uid = [o \in Objs |-> NoUid] /\ visits = {}
    /\ raised = [o \in Objs |-> 0] /\ delivered = [o \in Objs |-> <<>>]
    /\ late = {}

Entry(u, fn, event) == [uid |-> u, fn |-> fn, event |-> event]

Asked == must_stop \/ ~running
Gone(o) == uid[o] # NoUid /\ objdq[uid[o].index].unique # uid[o].unique

(***************************************************************************)
(* The other threads                                                       *)
(***************************************************************************)

\* notify_one() wakes a thread that waits and is lost otherwise; the write to
\* the eventfd comes after the mutex is released.
Notify ==
    IF aio THEN writes' = writes + 1 /\ UNCHANGED <<signal, fd>>
           ELSE signal' = (signal \/ pc = "sleep") /\ UNCHANGED <<writes, fd>>

NotifyIf(b) == IF b THEN Notify ELSE UNCHANGED waking

Write ==
    /\ writes > 0
    /\ writes' = writes - 1 /\ signal' = TRUE
    /\ UNCHANGED <<aio, mailbox, uids, loop, fd, objects>>

Top == uidstk[Len(uidstk)]

popUid == IF uidstk = <<>> THEN [index |-> crtidx, unique |-> 0] ELSE Top

\* Called by the scheduler, which has not called stop() yet, while the
\* manager holds the mutex of the object: nobody notifies the object before.
push(o) ==
    /\ uid[o] = NoUid /\ ~Asked
    /\ uid' = [uid EXCEPT ![o] = popUid]
    /\ pushvec' = Append(pushvec, [obj |-> o, uid |-> popUid])
    /\ IF uidstk = <<>> THEN crtidx' = crtidx + 1 /\ UNCHANGED uidstk
                        ELSE uidstk' = SubSeq(uidstk, 1, Len(uidstk) - 1) /\ UNCHANGED crtidx
    /\ NotifyIf(pushvec = <<>>)
    /\ visits' = visits \union {o}
    /\ UNCHANGED <<aio, raisevec, freeuid, loop, raised, delivered, late>>

\* Manager::notify raises while it holds the mutex of the object.
raise(o) ==
    /\ o \in visits /\ raised[o] < MaxRaise
    /\ raised' = [raised EXCEPT ![o] = @ + 1]
    /\ raisevec' = Append(raisevec, Entry(uid[o], "event", raised[o] + 1))
    /\ NotifyIf(raisevec = <<>>)
    /\ UNCHANGED <<aio, pushvec, uids, loop, uid, visits, delivered, late>>

\* As stop below, without the notification
stopSilently ==  \* variant
    /\ ~Asked /\ (aio => \A o \in Objs : uid[o] = NoUid \/ Gone(o))
    /\ IF aio THEN running' = FALSE /\ UNCHANGED must_stop
              ELSE must_stop' = TRUE /\ UNCHANGED running
    /\ UNCHANGED <<aio, mailbox, uids, objdq, objcnt, exeq, sz, pc, waking, objects>>

\* aio::Reactor exits without a look at the vectors and relies on the order in
\* which things are stopped: services, manager, schedulers.
stop ==
    /\ ~Asked /\ (aio => \A o \in Objs : uid[o] = NoUid \/ Gone(o))
    /\ IF aio THEN running' = FALSE /\ UNCHANGED must_stop
              ELSE must_stop' = TRUE /\ UNCHANGED running
    /\ Notify
    /\ UNCHANGED <<aio, mailbox, uids, objdq, objcnt, exeq, sz, pc, objects>>

(***************************************************************************)
(* run()                                                                   *)
(***************************************************************************)
Pending == pushvec # <<>> \/ raisevec # <<>>

NewObject(n) == { pushvec[k].obj : k \in {j \in DOMAIN pushvec : pushvec[j].uid.index = n} }

\* doCompleteEvents(): new objects come before events.  Indexes are handed back
\* by aio::Reactor whenever it takes the vectors, else only with new objects.
doCompleteEvents ==
    /\ objcnt' = objcnt + Len(pushvec)
    /\ objdq' = [n \in Index |->
                    IF NewObject(n) = {} THEN objdq[n]
                    ELSE [objdq[n] EXCEPT !.obj = CHOOSE o \in NewObject(n) : TRUE]]
    /\ exeq' = exeq \o [k \in DOMAIN pushvec |-> Entry(pushvec[k].uid, "event", 0)] \o raisevec
    /\ pushvec' = <<>> /\ raisevec' = <<>>
    /\ IF pushvec # <<>> \/ (aio /\ raisevec # <<>>)
       THEN uidstk' = uidstk \o freeuid /\ freeuid' = <<>>
       ELSE UNCHANGED <<uidstk, freeuid>>
    /\ UNCHANGED <<crtidx, objects>>

\* frame: nothing to do, so wait on the condition variable
doWaitEvent ==
    /\ ~aio /\ pc = "wait"
    /\ ~Pending /\ ~must_stop /\ exeq = <<>>
    /\ pc' = "sleep" /\ signal' = FALSE
    /\ UNCHANGED <<aio, mailbox, uids, objdq, objcnt, exeq, running, must_stop, sz, writes, fd, objects>>

\* frame: the rest of doWaitEvent(), and doCompleteEvents().  The vectors are
\* taken under the mutex, and nobody else sees them afterwards.
TakeEvents ==
    /\ running' = (running /\ ~must_stop) /\ must_stop' = FALSE
    /\ doCompleteEvents
    /\ pc' = "timer"
    /\ UNCHANGED <<aio, sz, writes, fd>>

DontWait ==
    /\ ~aio /\ pc = "wait"
    /\ Pending \/ must_stop \/ exeq # <<>>
    /\ TakeEvents /\ UNCHANGED signal

\* A wait ends with a notification; it may also end for a timer.
Notified == ~aio /\ pc = "sleep" /\ signal /\ TakeEvents /\ signal' = FALSE
TimedOut == ~aio /\ pc = "sleep" /\ TakeEvents /\ signal' = FALSE

\* aio: epoll_wait() returns with the eventfd, without waiting when exeq has
\* entries, and for a timer or a device.
EpollReturns ==
    /\ aio /\ pc = "wait"
    /\ pc' = "io" /\ fd' = signal
    /\ UNCHANGED <<aio, mailbox, uids, objdq, objcnt, exeq, running, must_stop, sz, signal, writes, objects>>

Signalled == (signal \/ exeq # <<>>) /\ EpollReturns

\* EventHandler::on_completion reads the eventfd empty, then takes the vectors.
EventFd ==
    /\ pc = "io" /\ fd
    /\ fd' = FALSE /\ signal' = FALSE
    /\ doCompleteEvents
    /\ UNCHANGED <<aio, running, must_stop, sz, pc, writes>>

IoDone ==
    /\ pc = "io" /\ ~fd
    /\ pc' = "timer"
    /\ UNCHANGED <<aio, mailbox, uids, objdq, objcnt, exeq, running, must_stop, sz, waking, objects>>

postObjectStopOnce(o) == Entry(uid[o], "stop", 0)

\* The stop is not done right away: it goes to the end of exeq again.
postObjectStop(o) == Entry(uid[o], "repost", 0)

\* The callback of a timer or a device of o calls postStop().  A handler is
\* armed by its object only, and deactivated by doPrepareStop().
HandlerStops(o) ==
    /\ pc \in {"timer", "io"}
    /\ o \in visits /\ delivered[o] # <<>>
    /\ visits' = visits \ {o}
    /\ exeq' = Append(exeq, postObjectStop(o))
    /\ late' = IF aio THEN late ELSE late \union {o}
    /\ UNCHANGED <<aio, mailbox, uids, objdq, objcnt, running, must_stop, sz, pc, waking, uid, raised, delivered>>

\* aio takes the vectors once more before exeq is run.
TimersDone ==
    /\ pc = "timer"
    /\ pc' = "exec"
    /\ IF aio THEN doCompleteEvents
              ELSE UNCHANGED <<mailbox, uids, objdq, objcnt, exeq, objects>>
    /\ sz' = Len(exeq')
    /\ UNCHANGED <<aio, running, must_stop, waking>>

(***************************************************************************)
(* doCompleteExec()                                                        *)
(***************************************************************************)
Current == exeq[1]
Slot == objdq[Current.uid.index]
Alive == Slot.unique = Current.uid.unique

Run(fn) == pc = "exec" /\ sz > 0 /\ Alive /\ Current.fn = fn /\ sz' = sz - 1

\* onEvent(), which may call postStop()
call_object_on_event(stops) ==
    /\ Run("event")
    /\ delivered' = [delivered EXCEPT ![Slot.obj] = Append(@, Current.event)]
    /\ stops => Slot.obj \in visits
    /\ visits' = IF stops THEN visits \ {Slot.obj} ELSE visits
    /\ exeq' = Tail(exeq) \o (IF stops THEN <<postObjectStop(Slot.obj)>> ELSE <<>>)
    /\ UNCHANGED <<aio, mailbox, uids, objdq, objcnt, running, must_stop, pc, waking, uid, raised, late>>

stop_object_repost ==
    /\ Run("repost")
    /\ exeq' = Append(Tail(exeq), Entry(Current.uid, "stop", 0))
    /\ UNCHANGED <<aio, mailbox, uids, objdq, objcnt, running, must_stop, pc, waking, objects>>

stop_object ==
    /\ Run("stop")
    /\ objdq' = [objdq EXCEPT ![Current.uid.index] = [obj |-> NoObj, unique |-> @.unique + 1]]
    /\ objcnt' = objcnt - 1
    /\ freeuid' = Append(freeuid, [Current.uid EXCEPT !.unique = @ + 1])
    /\ exeq' = Tail(exeq)
    /\ UNCHANGED <<aio, mailbox, uidstk, crtidx, running, must_stop, pc, waking, objects>>

\* The object of the entry has stopped.
SkipEntry ==
    /\ pc = "exec" /\ sz > 0 /\ ~Alive
    /\ sz' = sz - 1 /\ exeq' = Tail(exeq)
    /\ UNCHANGED <<aio, mailbox, uids, objdq, objcnt, running, must_stop, pc, waking, objects>>

RunsOn == running \/ objcnt # 0 \/ exeq # <<>>

EndRound ==
    /\ pc = "exec" /\ sz = 0
    /\ pc' = IF RunsOn THEN "wait" ELSE "exited"
    /\ UNCHANGED <<aio, mailbox, uids, objdq, objcnt, exeq, running, must_stop, sz, waking, objects>>

Done == pc = "exited" /\ UNCHANGED vars

Round ==
    \/ doWaitEvent \/ DontWait \/ Notified \/ Signalled \/ EventFd \/ IoDone \/ TimersDone
    \/ call_object_on_event(FALSE) \/ stop_object_repost \/ stop_object \/ SkipEntry \/ EndRound

Next ==
    \/ Round \/ TimedOut \/ EpollReturns \/ Write \/ stop \/ Done
    \/ call_object_on_event(TRUE)
    \/ \E o \in Objs : push(o) \/ raise(o) \/ HandlerStops(o)

Spec == Init /\ [][Next]_vars

(***************************************************************************)
(* Properties                                                              *)
(***************************************************************************)

\* An event that was raised while the manager let others notify the object
\* has been delivered when the object is stopped, as the NOTEs of
\* postObjectStop() and of aio::Reactor::run() promise.
DeliveredBeforeStop == \A o \in Objs : Gone(o) => Len(delivered[o]) = raised[o] + 1

\* The same, but for objects that called postStop() in a timer callback of
\* frame::Reactor, which does not take the vectors between timers and exeq.
DeliveredUnlessLate ==
    \A o \in Objs \ late : Gone(o) => Len(delivered[o]) = raised[o] + 1

\* onEvent gets the event the object was started with first, then those
\* raised for it, in the order they were raised; an index that is used again
\* never brings an object the events of its predecessor.
InOrder == \A o \in Objs : \A k \in DOMAIN delivered[o] : delivered[o][k] = k - 1

\* The thread never sleeps on work: raise() and push() signal for the first
\* entry of a vector only, which has to be enough.
NoLostWakeup ==
    /\ pc = "sleep" /\ ~signal => ~Pending /\ ~must_stop /\ exeq = <<>>
    /\ aio /\ pc = "wait" /\ ~signal /\ writes = 0 => ~Pending

\* The thread leaves run() only when every object started on it has stopped:
\* none is lost in the vectors and none is dropped while it is registered.
ExitsEmpty == pc = "exited" => \A o \in Objs : uid[o] = NoUid \/ Gone(o)

\* What the thread still owes: an event raised for an object (unless the object
\* is late), the end of one that has called postStop(), and its own exit when
\* it was asked to stop and its objects have stopped.
Owed(o) ==
    \/ o \notin late /\ raised[o] >= 1 /\ Len(delivered[o]) <= raised[o]
    \/ uid[o] # NoUid /\ o \notin visits /\ ~Gone(o)
ExitOwed == Asked /\ pc # "exited" /\ \A o \in Objs : uid[o] = NoUid \/ Gone(o)
=============================================================================
