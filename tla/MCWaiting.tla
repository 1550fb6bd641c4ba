----------------------------- MODULE MCWaiting -----------------------------
(***************************************************************************)
(* The components in which somebody waits for somebody else, side by side: *)
(* in every behaviour one of them runs and the others stay where they      *)
(* begin.  They share no state, so what is shown of each is what its own   *)
(* specification does.                                                     *)
(***************************************************************************)
EXTENDS WorkPool, Scheduler, TimeStore

VARIABLES
    part,   \* the component that runs
    aio, pushvec, raisevec, uidstk, freeuid, crtidx, objdq, objcnt, exeq, running, must_stop,
    sz, rpc, signal, writes, fd, uid, visits, raised, delivered, late,
    stub, idxstk, fill, mask, raises, pathset, indexset, tempfill, tempcons, strg, pass,
    client, note, ids, asked

\* Two objects on a reactor of either kind, an event raised for each
R == INSTANCE Reactor WITH Objs <- {1, 2}, NoObj <- 0, MaxRaise <- 1, pc <- rpc

\* Two clients make every kind of call
F == INSTANCE FileStore WITH Clients <- 1..2, Paths <- {"pa", "pb"}, NoFile <- "nofile",
        Temp <- "temp", MaxIndex <- 2, MaxRequests <- 3, Capacity <- 2, Sizes <- {2},
        StoreCalls <- {"open", "temp", "insert", "get", "request", "convert"}, StoreRaces <- {}

ASSUME WaitingAssumption ==
    R!ReactorAssumption /\ TimeAssumption /\ SchedulerAssumption /\ WorkPoolAssumption
    /\ F!StoreAssumption

reactorvars ==
    <<aio, pushvec, raisevec, uidstk, freeuid, crtidx, objdq, objcnt, exeq, running, must_stop,
      sz, rpc, signal, writes, fd, uid, visits, raised, delivered, late>>
storevars ==
    <<stub, idxstk, fill, mask, raises, pathset, indexset, tempfill, tempcons, strg, pass,
      client, note, ids, asked>>
waitingvars == <<part, reactorvars, timevars, vars, wpvars, storevars>>

WaitingInit ==
    /\ part \in {"reactor", "timers", "scheduler", "workpool", "store"}
    /\ R!Init /\ (aio => part = "reactor")
    /\ TimeInit /\ Init /\ WorkPoolInit /\ F!StoreInit

Only(p) ==
    /\ part = p /\ UNCHANGED part
    /\ p # "reactor" => UNCHANGED reactorvars
    /\ p # "timers" => UNCHANGED timevars
    /\ p # "scheduler" => UNCHANGED vars
    /\ p # "workpool" => UNCHANGED wpvars
    /\ p # "store" => UNCHANGED storevars

WaitingNext ==
    \/ Only("reactor") /\ R!Next
    \/ Only("timers") /\ TimeNext
    \/ Only("scheduler") /\ Next
    \/ Only("workpool") /\ WorkPoolNext
    \/ Only("store") /\ F!StoreNext

\* Threads run: somebody in the running component who can go on does.
Runs ==
    \/ Only("reactor") /\ R!Round
    \/ Only("timers") /\ ReactorStep
    \/ Only("scheduler") /\ Step
    \/ Only("workpool") /\ PoolStep
    \/ Only("store") /\ F!Step

\* The thread that has left something for a reactor writes to its eventfd, and
\* time passes, however busy the reactor is.
Passes ==
    \/ Only("reactor") /\ R!Write
    \/ Only("timers") /\ Tick

WaitingSpec ==
    /\ WaitingInit /\ [][WaitingNext]_waitingvars
    /\ WF_waitingvars(Runs) /\ WF_waitingvars(Passes)

----------------------------------------------------------------------------
\* The clients of the store, the timers, the objects of the reactor and the threads
\* that stop the pool are interchangeable: 1 stands for all of them.  Of the clients
\* of the scheduler only 1 starts it, so 2 waits for itself; 2 is also the reactor
\* when it has to exit.
WaitsOn(n) ==
    \/ n = 1 /\ (F!WaitsFor(1) \/ Armed(1) \/ R!Owed(1) \/ WaitsForStop(1))
    \/ StopsNow(n)
    \/ n = 2 /\ R!ExitOwed

\* Whoever waits is served.  A client of the store gets its item once the others let
\* go (notifyObject(), doExecuteErase()); an armed timer is called or cancelled,
\* whatever callbacks do to the vector that pop() walks; an event that was raised is
\* delivered, an object that called postStop() is stopped and a reactor asked to stop
\* exits (run()); doStop() of the scheduler and of the work pool return.  Not asked for are
\* the end of a doStop() that overlaps doStart() and temporary files: the code may leave
\* either waiting (StopsNow, WaitsFor).
Served == \A n \in {1, 2} : WaitsOn(n) ~> ~WaitsOn(n)
=============================================================================
