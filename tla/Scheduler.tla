----------------------------- MODULE Scheduler -----------------------------
(***************************************************************************)
(* frame::SchedulerBase: the threads of the reactors.  doStart() creates   *)
(* them and waits until each has prepared its reactor, doStop() stops the  *)
(* reactors and joins the threads, doStartObject() hands an object to a    *)
(* reactor without taking the mutex.  One condition variable is used by    *)
(* all, and not every change of the state is signalled to all.             *)
(***************************************************************************)
EXTENDS Integers, FiniteSets

CONSTANTS
    Reactors,       \* indexes of reactorvec
    Clients,        \* threads that call doStop
    Starters,       \* those of them that call doStart
    Users,          \* threads that call doStartObject, once each
    MaxStarts, MaxStops

SchedulerAssumption ==
    /\ IsFiniteSet(Reactors) /\ Reactors # {} /\ Reactors \subseteq Nat
    /\ IsFiniteSet(Users) /\ Starters \subseteq Clients /\ MaxStarts \in Nat /\ MaxStops \in Nat

VARIABLES
    status, reactorcnt, stopwaitcnt, usecnt,
    thr,         \* ReactorStub::thr is joinable
    preactor,    \* ReactorStub::preactor is set
    thread,      \* what the thread of a reactor is doing
    stopped,     \* reactors on which stop() was called
    pc,          \* what a client is doing
    asleep,      \* clients that wait on d.cnd
    use,         \* what a user is doing
    starts, stops

base == <<stopwaitcnt, usecnt>>
bound == <<starts, stops>>
vars == <<status, reactorcnt, base, thr, preactor, thread, stopped, pc, asleep, use, bound>>

Starting == {"startingwait", "startingerror"}

Init ==
    /\ status = "stopped" /\ reactorcnt = 0 /\ stopwaitcnt = 0 /\ usecnt = 0
    /\ thr = {} /\ preactor = {} /\ thread = [i \in Reactors |-> "none"] /\ stopped = {}
    /\ pc = [c \in Clients |-> "idle"] /\ asleep = {} /\ use = [u \in Users |-> "idle"]
    /\ starts = 0 /\ stops = 0

notify_all == asleep' = {}
notify_one == IF asleep = {} THEN asleep' = {} ELSE \E c \in asleep : asleep' = asleep \ {c}
Goto(c, where) == pc' = [pc EXCEPT ![c] = where]
Sleep(c, where) == Goto(c, where) /\ asleep' = asleep \union {c}

(***************************************************************************)
(* doStart                                                                 *)
(***************************************************************************)

\* The mutex is held from the test of the state to the first wait: the
\* threads are created, and if one is not, those before it are joined.
Launch(c) ==
    /\ stopped' = {} /\ UNCHANGED <<reactorcnt, preactor, base, use>>
    /\ \/ /\ thread' = [i \in Reactors |-> "created"] /\ thr' = Reactors
          /\ status' = "startingwait" /\ Sleep(c, "starting")
       \/ /\ \E k \in Reactors :
               LET created == { i \in Reactors : i < k } IN
               /\ thread' = [i \in Reactors |-> IF i \in created THEN "created" ELSE "none"]
               /\ thr' = created
          /\ Goto(c, "startjoin") /\ UNCHANGED <<status, asleep>>

CannotStart == status # "stopped" \/ stopwaitcnt > 0

doStart(c) ==
    /\ c \in Starters /\ pc[c] = "idle" /\ status # "running" /\ starts < MaxStarts
    /\ starts' = starts + 1 /\ UNCHANGED stops
    /\ IF CannotStart
       THEN /\ Sleep(c, "tostart")
            /\ UNCHANGED <<status, reactorcnt, base, thr, preactor, thread, stopped, use>>
       ELSE Launch(c)

StartAgain(c) ==
    /\ pc[c] = "tostart" /\ c \notin asleep /\ UNCHANGED bound
    /\ IF CannotStart
       THEN /\ Sleep(c, "tostart")
            /\ UNCHANGED <<status, reactorcnt, base, thr, preactor, thread, stopped, use>>
       ELSE Launch(c)

\* it->preactor->stop() for every reactor that is there
StopReactors == stopped' = stopped \union preactor

\* Nobody is notified when the state becomes StatusRunningE.
Started(c) ==
    /\ pc[c] = "starting" /\ c \notin asleep
    /\ CASE status = "startingwait" /\ reactorcnt # Cardinality(Reactors) ->
              Sleep(c, "starting") /\ UNCHANGED <<status, stopped>>
         [] status = "startingerror" ->
              /\ status' = "stoppingwait" /\ StopReactors
              /\ Goto(c, "startjoin") /\ UNCHANGED asleep
         [] OTHER -> status' = "running" /\ Goto(c, "idle") /\ UNCHANGED <<stopped, asleep>>
    /\ UNCHANGED <<reactorcnt, base, thr, preactor, thread, use, bound>>

(***************************************************************************)
(* The joins, without the mutex, and the end of doStart and doStop         *)
(***************************************************************************)

Joined(c) ==
    /\ pc[c] \in {"startjoin", "join"}
    /\ \A i \in thr : thread[i] = "done"
    /\ thr' = {} /\ preactor' = preactor \ thr
    /\ Goto(c, IF pc[c] = "join" THEN "end" ELSE "startend")
    /\ UNCHANGED <<status, reactorcnt, base, thread, stopped, asleep, use, bound>>

Ended(c) ==
    /\ pc[c] \in {"startend", "end"}
    /\ status' = "stopped" /\ notify_all /\ Goto(c, "idle")
    /\ UNCHANGED <<reactorcnt, base, thr, preactor, thread, stopped, use, bound>>

(***************************************************************************)
(* doStop                                                                  *)
(***************************************************************************)

\* From the test of the state to the end of the critical section.  In
\* StatusStoppingWaitE another client joins, and this one waits for it.
StopNow(c, wait) ==
    /\ UNCHANGED <<reactorcnt, usecnt, thr, preactor, thread, use>>
    /\ CASE status \in {"running", "stopping"} ->
              /\ status' = IF wait THEN "stoppingwait" ELSE "stopping"
              /\ IF status = "running" THEN StopReactors ELSE UNCHANGED stopped
              /\ Goto(c, IF wait THEN "users" ELSE "idle")
              /\ UNCHANGED <<stopwaitcnt, asleep>>
         [] status = "stoppingwait" /\ wait ->
              /\ stopwaitcnt' = stopwaitcnt + 1 /\ Sleep(c, "stopwait")
              /\ UNCHANGED <<status, stopped>>
         [] OTHER -> Goto(c, "idle") /\ UNCHANGED <<status, stopped, stopwaitcnt, asleep>>

Where(wait) == IF wait THEN "tostopwait" ELSE "tostop"

doStop(c, wait) ==
    /\ pc[c] = "idle" /\ stops < MaxStops
    /\ stops' = stops + 1 /\ UNCHANGED starts
    /\ IF status \in Starting
       THEN /\ Sleep(c, Where(wait))
            /\ UNCHANGED <<status, reactorcnt, base, thr, preactor, thread, stopped, use>>
       ELSE StopNow(c, wait)

StopAgain(c, wait) ==
    /\ pc[c] = Where(wait) /\ c \notin asleep /\ UNCHANGED bound
    /\ IF status \in Starting
       THEN /\ Sleep(c, Where(wait))
            /\ UNCHANGED <<status, reactorcnt, base, thr, preactor, thread, stopped, use>>
       ELSE StopNow(c, wait)

OtherStopped(c) ==
    /\ pc[c] = "stopwait" /\ c \notin asleep
    /\ IF status # "stopped" THEN Sleep(c, "stopwait") /\ UNCHANGED stopwaitcnt
       ELSE stopwaitcnt' = stopwaitcnt - 1 /\ notify_one /\ Goto(c, "idle")
    /\ UNCHANGED <<status, reactorcnt, usecnt, thr, preactor, thread, stopped, use, bound>>

\* As NoUsers below, without the wait for the users
NoUsersAny(c) ==
    /\ pc[c] = "users"
    /\ Goto(c, "join")
    /\ UNCHANGED <<status, reactorcnt, base, thr, preactor, thread, stopped, asleep, use, bound>>

\* while(d.usecnt) yield(): those who have seen StatusRunningE are done
NoUsers(c) ==
    /\ pc[c] = "users" /\ usecnt = 0
    /\ Goto(c, "join")
    /\ UNCHANGED <<status, reactorcnt, base, thr, preactor, thread, stopped, asleep, use, bound>>

(***************************************************************************)
(* doStartObject: three steps of atomic variables                          *)
(***************************************************************************)
Enter(u) ==
    /\ use[u] = "idle"
    /\ usecnt' = usecnt + 1 /\ use' = [use EXCEPT ![u] = "counted"]
    /\ UNCHANGED <<status, reactorcnt, stopwaitcnt, thr, preactor, thread, stopped, pc, asleep, bound>>

Look(u) ==
    /\ use[u] = "counted"
    /\ use' = [use EXCEPT ![u] = IF status = "running" THEN "uses" ELSE "leaves"]
    /\ UNCHANGED <<status, reactorcnt, base, thr, preactor, thread, stopped, pc, asleep, bound>>

Leave(u) ==
    /\ use[u] \in {"uses", "leaves"}
    /\ usecnt' = usecnt - 1 /\ use' = [use EXCEPT ![u] = "gone"]
    /\ UNCHANGED <<status, reactorcnt, stopwaitcnt, thr, preactor, thread, stopped, pc, asleep, bound>>

(***************************************************************************)
(* The threads: Worker::run()                                              *)
(***************************************************************************)
\* success: the reactor has started and the thread-enter function returned true
prepareThread(i, success) ==
    /\ thread[i] = "created"
    /\ IF success /\ status = "startingwait"
       THEN /\ preactor' = preactor \union {i}
            /\ reactorcnt' = reactorcnt + 1 /\ notify_all
            /\ thread' = [thread EXCEPT ![i] = "runs"]
            /\ UNCHANGED status
       ELSE /\ status' = "startingerror" /\ notify_one
            /\ thread' = [thread EXCEPT ![i] = "done"]
            /\ UNCHANGED <<preactor, reactorcnt>>
    /\ UNCHANGED <<base, thr, stopped, pc, use, bound>>

\* run() returns after stop(), when the objects of the reactor are gone.
unprepareThread(i) ==
    /\ thread[i] = "runs" /\ i \in stopped
    /\ preactor' = preactor \ {i}
    /\ reactorcnt' = reactorcnt - 1 /\ notify_one
    /\ thread' = [thread EXCEPT ![i] = "done"]
    /\ UNCHANGED <<status, base, thr, stopped, pc, use, bound>>

ClientStep(c) ==
    \/ StartAgain(c) \/ Started(c) \/ Joined(c) \/ Ended(c)
    \/ StopAgain(c, TRUE) \/ StopAgain(c, FALSE) \/ OtherStopped(c) \/ NoUsers(c)

WorkerStep(i) == unprepareThread(i) \/ \E success \in BOOLEAN : prepareThread(i, success)

Next ==
    \/ \E c \in Clients :
         \/ doStart(c) \/ ClientStep(c) \/ \E wait \in BOOLEAN : doStop(c, wait)
    \/ \E u \in Users : Enter(u) \/ Look(u) \/ Leave(u)
    \/ \E i \in Reactors : WorkerStep(i)

\* What threads that run do of themselves.  Calls of doStartObject() do not come
\* without end, so the yield loop of doStop() meets a moment without users.
Step ==
    \/ \E c \in Clients : ClientStep(c)
    \/ \E u \in Users : Look(u) \/ Leave(u)
    \/ \E i \in Reactors : WorkerStep(i)

Spec == Init /\ [][Next]_vars

(***************************************************************************)
(* Properties                                                              *)
(***************************************************************************)

\* A scheduler that runs has all its reactors: doStart() returned only when
\* every thread had prepared its own.
RunningIsComplete == status = "running" => preactor = Reactors /\ \A i \in Reactors : thread[i] = "runs"

\* doStartObject() works on reactorvec without the mutex: as long as it does no thread was
\* joined and the vector is not resized for another start.  It may still meet a null
\* preactor (unprepareThread() sets it under the mutex only), but only once a doStop() has
\* told the reactors to stop.
UsersHaveThreads ==
    (\E u \in Users : use[u] = "uses") =>
        /\ thr = Reactors /\ status \notin Starting
        /\ preactor # Reactors => status \in {"stopping", "stoppingwait"}

\* A scheduler that is stopped has no threads, but for those of a failed start
\* that is still joining them.
StoppedHasNoThreads ==
    status = "stopped" /\ (\A c \in Clients : pc[c] # "startjoin") =>
        \A i \in Reactors : thread[i] \in {"none", "done"}

\* The three together: no thread is joined while doStartObject() works on the vector, which
\* misses a reactor then only to a doStop() that overlaps, and no thread is left behind
\* (doStart, doStop, doStartObject).
UsedIsNotJoined == RunningIsComplete /\ UsersHaveThreads /\ StoppedHasNoThreads

\* A client that joins threads, or waits for another one to.  Those that wait while the
\* scheduler is starting are not among them: nobody is notified when the state becomes
\* StatusRunningE, and prepareThread() notifies of an error one client, perhaps not the one
\* in doStart(); a doStop() or another doStart() that overlaps may sleep on.
StopsNow(c) == pc[c] \in {"startjoin", "startend", "stopwait", "users", "join", "end"}
=============================================================================
