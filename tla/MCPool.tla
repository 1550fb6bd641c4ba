------------------------------- MODULE MCPool -------------------------------
(***************************************************************************)
(* Two instances of ConnectionPool side by side, over the same variables:  *)
(* one that is used in every way, whose constants the configuration gives, *)
(* and a smaller one whose service has to stop.  In every behaviour one of *)
(* the two runs.                                                           *)
(***************************************************************************)
EXTENDS ConnectionPool

CONSTANTS a, b, d  \* messages

VARIABLE part  \* the instance that runs: "used" or "stops"

\* One message, up to two active connections that do not break once they are up, a delayed close
F == INSTANCE ConnectionPool WITH Msgs <- {b}, Sync <- {}, Request <- {}, OneShot <- {},
        Direct <- {}, Cancelable <- {}, MaxActive <- 2, MaxPending <- 2, MayClose <- {Delay},
        Roles <- {"client"}, Faults <- {"resolve", "connect", "stop"}

Used == part = "used"
poolVars == <<part, vars>>

PoolInit ==
    /\ part \in {"used", "stops"}
    /\ \/ Used /\ Init
       \/ ~Used /\ F!Init

PoolNext ==
    /\ \/ Used /\ Next
       \/ ~Used /\ F!Next
    /\ UNCHANGED part

\* The reactor runs, and the world answers: a look-up, a connect and a wait end.
PoolSpec ==
    /\ PoolInit /\ [][PoolNext]_poolVars
    /\ WF_poolVars(~Used /\ UNCHANGED part /\ \E k \in Conns : F!Reactor(k) \/ F!World(k))
-----------------------------------------------------------------------------
\* A message that was accepted is in one place, a slot of the pool or the writer
\* of a connection, until its completion is called, once, and in none after
\* (pollPoolForUpdates, doFetchResendableMessagesFromConnection, cancelMessage).
MessageInOnePlace == IF Used THEN OnePlaceOrDone ELSE F!OnePlaceOrDone

\* A message that is not idempotent is begun once, however connections break
\* (doFetchResendableMessagesFromConnection).
BegunOnce == IF Used THEN BasicSentOnce ELSE F!BasicSentOnce

\* When the service stops the pool is emptied and given back, and with it every
\* message is completed (stop, connectionStopping, connectionStop).
StopEmpties == ~Used /\ ~running ~> pool.free
=============================================================================
