------------------------------ MODULE WorkPool ------------------------------
(***************************************************************************)
(* WorkPool with the controller of aio::Resolver: a queue of jobs, workers *)
(* that pop and run them, and threads that push, start and stop.           *)
(*                                                                         *)
(* There is one step for each stretch of code under the mutex.  A thread   *)
(* that waits on a condition variable stays where it is until a            *)
(* notification moves it on, and then tests its condition again.           *)
(***************************************************************************)
EXTENDS Integers, Sequences, FiniteSets

CONSTANTS
    Jobs,
    Threads,     \* the threads there can be at a time
    MaxThr,      \* maxthrcnt of the controller
    PopMax,      \* the jobs a worker takes at a time: 1 for a SingleWorker
    Controllers, \* the threads that start and stop the pool
    MaxPoolStarts, \* calls of start()
    Overlap      \* whether start() and stop() of two threads may overlap

WorkPoolAssumption ==
    /\ IsFiniteSet(Threads) /\ IsFiniteSet(Jobs)
    /\ MaxThr \in Nat /\ PopMax \in Nat \ {0} /\ MaxPoolStarts \in Nat /\ Overlap \in BOOLEAN

VARIABLES
    poolst,      \* state()
    jobq, wkrcnt,
    worker,      \* where each worker is
    held,        \* the jobs it has taken
    ctl,         \* where each controlling thread is: "idle", or waiting in start() or stop()
    woken,       \* the controlling threads notified on thrcnd
    left,        \* the jobs not pushed yet
    outcome,     \* of each job: "none", "run" or, when the pool was stopping, "fail"
    poolstarts

wpvars == <<poolst, jobq, wkrcnt, worker, held, ctl, woken, left, outcome, poolstarts>>

Live == {w \in Threads : worker[w] \notin {"none", "gone"}}
Waiters == {w \in Threads : worker[w] = "wait"}
WaitsForStop(t) == ctl[t] # "idle"  \* stop(true), or start() of a stopping pool

WorkPoolInit ==
    /\ poolst = "stopped" /\ jobq = <<>> /\ wkrcnt = 0
    /\ worker = [w \in Threads |-> "none"] /\ held = [w \in Threads |-> <<>>]
    /\ ctl = [t \in Controllers |-> "idle"] /\ woken = {}
    /\ left = Jobs /\ outcome = [j \in Jobs |-> "none"] /\ poolstarts = 0

(***************************************************************************)
(* Pushing                                                                 *)
(***************************************************************************)
\* sigcnd.notify_one() and notify_all()
NotifyOne ==
    \/ Waiters = {} /\ UNCHANGED worker
    \/ \E w \in Waiters : worker' = [worker EXCEPT ![w] = "pop"]
NotifyAll(ws) == [w \in Threads |-> IF ws[w] = "wait" THEN "pop" ELSE ws[w]]

push(j) ==
    /\ j \in left
    /\ left' = left \ {j} /\ jobq' = Append(jobq, j)
    /\ NotifyOne
    /\ UNCHANGED <<poolst, wkrcnt, held, ctl, woken, outcome, poolstarts>>

pushAll(i, j) ==
    /\ {i, j} \subseteq left /\ i # j
    /\ left' = left \ {i, j} /\ jobq' = jobq \o <<i, j>>
    /\ worker' = NotifyAll(worker)
    /\ UNCHANGED <<poolst, wkrcnt, held, ctl, woken, outcome, poolstarts>>

(***************************************************************************)
(* Starting and stopping                                                   *)
(***************************************************************************)
\* The workers start(n) creates: the controller creates no more than it may.
Created(ws, n) ==
    LET k == IF n > MaxThr THEN MaxThr ELSE n
    IN  {S \in SUBSET {w \in Threads : ws[w] = "none"} : Cardinality(S) = k}

Running(t, ws, n) ==
    \E S \in Created(ws, n) :
        /\ poolst' = "running" /\ wkrcnt' = Cardinality(S)
        /\ worker' = [w \in Threads |-> IF w \in S THEN "new" ELSE ws[w]]
        /\ ctl' = [ctl EXCEPT ![t] = "idle"]

NobodyElse(t, what) == Overlap \/ \A u \in Controllers \ {t} : ctl[u] \notin what

start(t, n) ==
    /\ ctl[t] = "idle" /\ NobodyElse(t, {"starting", "stopping"})
    /\ poolstarts < MaxPoolStarts /\ poolstarts' = poolstarts + 1
    /\ \/ poolst = "running" /\ UNCHANGED <<poolst, wkrcnt, worker, ctl>>
       \/ poolst = "stopped" /\ Running(t, worker, n)
       \/ poolst = "stopping" /\ ctl' = [ctl EXCEPT ![t] = "starting"]
          /\ worker' = NotifyAll(worker) /\ UNCHANGED <<poolst, wkrcnt>>
    /\ woken' = IF poolst = "stopping" THEN woken \cup {t} ELSE woken
    /\ UNCHANGED <<jobq, held, left, outcome>>

\* As stop below, which says that the pool has stopped when nobody waits for it to
stopAtOnce(t, wait) ==
    /\ ctl[t] = "idle" /\ poolst # "stopped" /\ NobodyElse(t, {"starting"})
    /\ poolst' = IF wait THEN "stopping" ELSE "stopped"
    /\ worker' = NotifyAll(worker)
    /\ IF wait THEN ctl' = [ctl EXCEPT ![t] = "stopping"] /\ woken' = woken \cup {t}
               ELSE UNCHANGED <<ctl, woken>>
    /\ UNCHANGED <<jobq, wkrcnt, held, left, outcome, poolstarts>>

\* doStop() up to its loop; the loop itself is Waits.
stop(t, wait) ==
    /\ ctl[t] = "idle" /\ poolst # "stopped" /\ NobodyElse(t, {"starting"})
    /\ poolst' = "stopping"
    /\ worker' = NotifyAll(worker)
    /\ IF wait THEN ctl' = [ctl EXCEPT ![t] = "stopping"] /\ woken' = woken \cup {t}
               ELSE UNCHANGED <<ctl, woken>>
    /\ UNCHANGED <<jobq, wkrcnt, held, left, outcome, poolstarts>>

\* The loop waits while there are workers; then the threads are joined.
Waits(t, n) ==
    /\ ctl[t] # "idle" /\ t \in woken /\ woken' = woken \ {t}
    /\ IF wkrcnt # 0 THEN UNCHANGED <<poolst, wkrcnt, worker, ctl>>
       ELSE /\ Live = {}
            /\ LET joined == [w \in Threads |-> "none"]
               IN  IF ctl[t] = "starting" THEN Running(t, joined, n)
                   ELSE /\ poolst' = "stopped" /\ worker' = joined
                        /\ ctl' = [ctl EXCEPT ![t] = "idle"] /\ UNCHANGED wkrcnt
    /\ UNCHANGED <<jobq, held, left, outcome, poolstarts>>

(***************************************************************************)
(* Workers                                                                 *)
(***************************************************************************)
\* thrcnd.notify_all()
NotifyControllers == {t \in Controllers : WaitsForStop(t)}

enterWorker(w) ==
    /\ worker[w] = "new" /\ worker' = [worker EXCEPT ![w] = "pop"]
    /\ woken' = NotifyControllers
    /\ UNCHANGED <<poolst, jobq, wkrcnt, held, ctl, left, outcome, poolstarts>>

\* Both pop(): waits while there is no job and the pool is running, and takes
\* jobs even when it is not running any more.
pop(w) ==
    /\ worker[w] = "pop"
    /\ LET n == IF Len(jobq) < PopMax THEN Len(jobq) ELSE PopMax
       IN  IF jobq # <<>>
           THEN /\ held' = [held EXCEPT ![w] = SubSeq(jobq, 1, n)]
                /\ jobq' = SubSeq(jobq, n + 1, Len(jobq))
                /\ worker' = [worker EXCEPT ![w] = "run"]
           ELSE /\ worker' = [worker EXCEPT ![w] = IF poolst = "running" THEN "wait" ELSE "exit"]
                /\ UNCHANGED <<jobq, held>>
    /\ UNCHANGED <<poolst, wkrcnt, ctl, woken, left, outcome, poolstarts>>

\* execute() of the Resolver: the look-up fails when the pool is stopping.
execute(w) ==
    /\ worker[w] = "run"
    /\ outcome' = [j \in Jobs |-> IF \E k \in DOMAIN held[w] : held[w][k] = j
                                  THEN IF poolst = "stopping" THEN "fail" ELSE "run" ELSE outcome[j]]
    /\ held' = [held EXCEPT ![w] = <<>>]
    /\ worker' = [worker EXCEPT ![w] = "pop"]
    /\ UNCHANGED <<poolst, jobq, wkrcnt, ctl, woken, left, poolstarts>>

\* As exitWorker below, notifying only when it is the last
exitWorkerFirst(w) ==
    /\ worker[w] = "exit" /\ worker' = [worker EXCEPT ![w] = "gone"]
    /\ wkrcnt' = wkrcnt - 1
    /\ woken' = IF wkrcnt > 1 THEN NotifyControllers ELSE woken
    /\ UNCHANGED <<poolst, jobq, held, ctl, left, outcome, poolstarts>>

exitWorker(w) ==
    /\ worker[w] = "exit" /\ worker' = [worker EXCEPT ![w] = "gone"]
    /\ wkrcnt' = wkrcnt - 1
    /\ woken' = NotifyControllers
    /\ UNCHANGED <<poolst, jobq, held, ctl, left, outcome, poolstarts>>

WorkerSteps(w) == enterWorker(w) \/ pop(w) \/ execute(w) \/ exitWorker(w)

WorkPoolNext ==
    \/ \E j \in Jobs : push(j)
    \/ \E i, j \in Jobs : pushAll(i, j)
    \/ \E t \in Controllers, n \in 1..Cardinality(Threads) : start(t, n) \/ Waits(t, n)
    \/ \E t \in Controllers, wait \in BOOLEAN : stop(t, wait)
    \/ \E w \in Threads : WorkerSteps(w)

\* What threads that run do of themselves; nobody has to push, start or stop
PoolStep ==
    \/ \E w \in Threads : WorkerSteps(w)
    \/ \E t \in Controllers, n \in 1..Cardinality(Threads) : Waits(t, n)

WorkPoolSpec == WorkPoolInit /\ [][WorkPoolNext]_wpvars 

(***************************************************************************)
(* Properties                                                              *)
(***************************************************************************)
\* A stopped pool has no worker that holds a job or will take one: stop() waits for
\* all of them (doStop(), exitWorker(), wkrcnt).
StoppedQuiet == poolst = "stopped" => Live = {} /\ wkrcnt = 0

\* Nobody waits for what has happened: while jobs are queued in a running pool
\* with workers one of them is awake (push() notifies one worker only), and a
\* thread in doStop() or start() whose workers are all gone has been notified
\* (exitWorker()).
NoLostWakeup ==
    /\ poolst = "running" /\ jobq # <<>> /\ Live # {} => Live # Waiters
    /\ \A t \in Controllers : WaitsForStop(t) /\ wkrcnt = 0 => t \in woken

=============================================================================
