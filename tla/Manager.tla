------------------------------ MODULE Manager ------------------------------
(***************************************************************************)
(* frame::Manager: the registry of services and objects.  An object gets a *)
(* place in a chunk of its service and an id, the place and the unique of  *)
(* the place, by which anybody may notify it.  Services and the manager    *)
(* are stopped by killing their objects and waiting until they are gone.   *)
(*                                                                         *)
(* Every action is a critical section: the mutex of a service for what     *)
(* concerns its stub, the mutex of a chunk for its objects, d.mtx for the  *)
(* tables.  A lookup in a table is one step whatever copy it reads.        *)
(***************************************************************************)
EXTENDS Integers, Sequences, FiniteSets

CONSTANTS
    Services, Objects, Threads,
    None,           \* nullptr
    ChunkSize,      \* objchkcnt
    MaxStops,       \* calls of Manager::stop
    StartAnytime,   \* a service is started while others are stopping
    Reuse           \* what of an unregistered service may be used again

ASSUME ManagerAssumption ==
    /\ None \notin Services \union Objects
    /\ ChunkSize \in Nat \ {0} /\ MaxStops \in Nat
    /\ StartAnytime \in BOOLEAN /\ Reuse \subseteq {"stubs", "chunks"}

VARIABLES
    state,       \* d.state
    idx,         \* Service::idx, 0 for InvalidIndex()
    svc,         \* the service stubs
    svccache,    \* indexes of stubs to use again, the top first
    svccnt,
    chunk,       \* the chunks: the index of the service, and the places
    chkcache,    \* indexes of chunks to use again, the top first
    id,          \* the id registerObject() returned
    life,        \* what an object is doing
    killed,      \* objects that were sent the Kill event
    pc, at,      \* what a thread is doing, with the stub of which index
    asleep,      \* the threads that wait on d.cnd
    stops        \* calls of Manager::stop so far

tables == <<idx, svc, svccache, svccnt>>
places == <<chunk, chkcache>>
objects == <<id, life, killed>>
threads == <<pc, at, asleep>>
vars == <<state, tables, places, objects, threads, stops>>

NoId == [index |-> 0, unique |-> 0]
Vacant(u) == [obj |-> None, visits |-> FALSE, unique |-> u]

Init ==
    /\ state = "running" /\ idx = [s \in Services |-> 0]
    /\ svc = <<>> /\ svccache = <<>> /\ svccnt = 0 /\ chunk = <<>> /\ chkcache = <<>>
    /\ id = [o \in Objects |-> NoId] /\ life = [o \in Objects |-> "new"] /\ killed = {}
    /\ pc = [t \in Threads |-> "idle"] /\ at = [t \in Threads |-> 0]
    /\ asleep = {} /\ stops = 0

(***************************************************************************)
(* The registration of services                                            *)
(***************************************************************************)
Fresh(s) == [psvc |-> s, state |-> "running", objcnt |-> 0, chks |-> <<>>,
             objcache |-> <<>>, left |-> 0]
Reset == [Fresh(None) EXCEPT !.state = "stopped"]

\* svccache.top() is called where pop() is meant: the index stays in the cache.
registerService(s) ==
    /\ idx[s] = 0 /\ state = "running"
    /\ svccache = <<>> \/ "stubs" \in Reuse
    /\ IF svccache # <<>>
       THEN /\ idx' = [idx EXCEPT ![s] = Head(svccache)]
            /\ svc' = [svc EXCEPT ![Head(svccache)] = Fresh(s)]
       ELSE /\ idx' = [idx EXCEPT ![s] = Len(svc) + 1]
            /\ svc' = Append(svc, Fresh(s))
    /\ svccnt' = svccnt + 1
    /\ UNCHANGED <<state, svccache, places, objects, threads, stops>>

\* What doUnregisterService() pushes for every chunk of a service: the index
\* it has just advanced to, the one of the next chunk.
Pushed(chks) == [k \in DOMAIN chks |-> IF k < Len(chks) THEN chks[k + 1] ELSE 0]

Reversed(q) == [k \in DOMAIN q |-> q[Len(q) + 1 - k]]

\* Called by ~Service() after stop(true).
unregisterService(s) ==
    /\ idx[s] # 0
    /\ LET i == idx[s] IN
       /\ svc[i].psvc = s /\ svc[i].state = "stopped"
       /\ svccache' = <<i>> \o svccache
       /\ idx' = [idx EXCEPT ![s] = 0]
       /\ chkcache' = Reversed(Pushed(svc[i].chks)) \o chkcache
       /\ chunk' = [c \in DOMAIN chunk |->
                      IF \E k \in DOMAIN svc[i].chks : svc[i].chks[k] = c
                      THEN [chunk[c] EXCEPT !.svcidx = 0] ELSE chunk[c]]
       /\ svc' = [svc EXCEPT ![i] = Reset]
    /\ svccnt' = svccnt - 1
    /\ asleep' = IF svccnt' = 0 /\ state = "stopping" THEN {} ELSE asleep
    /\ UNCHANGED <<state, objects, pc, at, stops>>

(***************************************************************************)
(* The registration of objects                                             *)
(***************************************************************************)
ChunkOf(n) == n \div ChunkSize
PlaceOf(n) == n % ChunkSize

\* The place an object gets: one that was given back, the next one of the last
\* chunk, or the first one of another chunk.
NewChunk == IF chkcache # <<>> THEN Head(chkcache) ELSE Len(chunk) + 1

Place(stub) ==
    IF stub.objcache # <<>> THEN Head(stub.objcache)
    ELSE IF stub.left > 0 THEN stub.chks[Len(stub.chks)] * ChunkSize + ChunkSize - stub.left
    ELSE NewChunk * ChunkSize

Taken(stub) ==
    IF stub.objcache # <<>> THEN [stub EXCEPT !.objcache = Tail(@)]
    ELSE IF stub.left > 0 THEN [stub EXCEPT !.left = @ - 1]
    ELSE [stub EXCEPT !.left = ChunkSize - 1, !.chks = Append(@, NewChunk)]

\* The stub when one more object was registered
Joined(stub) == [Taken(stub) EXCEPT !.objcnt = @ + 1]

NeedsChunk(stub) == stub.objcache = <<>> /\ stub.left = 0

Full(svcidx) == [svcidx |-> svcidx, place |-> [k \in 0..ChunkSize - 1 |-> Vacant(0)]]

\* The mutex of the service is held to the end.  When the reactor refuses the
\* object its place goes back to the cache.  A place in no chunk, from an
\* invalid index in chkcache, is as far as the model goes.
registerObject(s, o, scheduled) ==
    /\ idx[s] # 0 /\ life[o] = "new"
    /\ LET i == idx[s]
           stub == svc[i]
           n == Place(stub)
           c == ChunkOf(n)
           chunks == IF c \in DOMAIN chunk THEN [chunk EXCEPT ![c].svcidx = i]
                     ELSE Append(chunk, Full(i))
       IN
       /\ stub.psvc = s /\ stub.state = "running"
       /\ NeedsChunk(stub) /\ chkcache # <<>> => "chunks" \in Reuse
       /\ chkcache' = IF NeedsChunk(stub) /\ chkcache # <<>> THEN Tail(chkcache) ELSE chkcache
       /\ scheduled => c # 0
       /\ IF scheduled
          THEN /\ svc' = [svc EXCEPT ![i] = Joined(stub)]
               /\ chunk' = [chunks EXCEPT ![c].place[PlaceOf(n)].obj = o,
                                          ![c].place[PlaceOf(n)].visits = TRUE]
               /\ id' = [id EXCEPT ![o] = [index |-> n,
                                           unique |-> chunks[c].place[PlaceOf(n)].unique]]
               /\ life' = [life EXCEPT ![o] = "live"]
          ELSE /\ svc' = [svc EXCEPT ![i] = [Taken(stub) EXCEPT !.objcache = <<n>> \o @]]
               /\ chunk' = chunks
               /\ UNCHANGED <<id, life>>
    /\ UNCHANGED <<state, idx, svccache, svccnt, killed, threads, stops>>

\* The object calls postStop(): when it was killed, or of its own accord.
disableObjectVisits(o) ==
    /\ life[o] = "live"
    /\ life' = [life EXCEPT ![o] = "closing"]
    /\ chunk' = [chunk EXCEPT ![ChunkOf(id[o].index)].place[PlaceOf(id[o].index)].visits = FALSE]
    /\ UNCHANGED <<state, tables, chkcache, id, killed, threads, stops>>

\* unregisterObject(), under the mutex of the chunk
LeaveChunkKeepsUnique(o) ==
    /\ life[o] = "closing"
    /\ life' = [life EXCEPT ![o] = "leaving"]
    /\ chunk' = [chunk EXCEPT ![ChunkOf(id[o].index)].place[PlaceOf(id[o].index)] =
                   Vacant(@.unique)]
    /\ UNCHANGED <<state, tables, chkcache, id, killed, threads, stops>>

LeaveChunk(o) ==
    /\ life[o] = "closing"
    /\ life' = [life EXCEPT ![o] = "leaving"]
    /\ chunk' = [chunk EXCEPT ![ChunkOf(id[o].index)].place[PlaceOf(id[o].index)] =
                   Vacant(@.unique + 1)]
    /\ UNCHANGED <<state, tables, chkcache, id, killed, threads, stops>>

\* unregisterObject(), under the mutex of the service
LeaveServiceSilently(o) ==
    /\ life[o] = "leaving"
    /\ life' = [life EXCEPT ![o] = "gone"]
    /\ LET i == chunk[ChunkOf(id[o].index)].svcidx IN
       svc' = [svc EXCEPT ![i].objcache = <<id[o].index>> \o @, ![i].objcnt = @ - 1]
    /\ UNCHANGED <<state, idx, svccache, svccnt, places, id, killed, threads, stops>>

LeaveService(o) ==
    /\ life[o] = "leaving"
    /\ life' = [life EXCEPT ![o] = "gone"]
    /\ LET i == chunk[ChunkOf(id[o].index)].svcidx IN
       /\ svc' = [svc EXCEPT ![i].objcache = <<id[o].index>> \o @, ![i].objcnt = @ - 1]
       /\ asleep' = IF svc'[i].objcnt = 0 /\ svc[i].state = "stopping" THEN {} ELSE asleep
    /\ UNCHANGED <<state, idx, svccache, svccnt, places, id, killed, pc, at, stops>>

(***************************************************************************)
(* Starting and stopping services                                          *)
(***************************************************************************)

\* The objects notify() reaches by an id
doVisit(n) ==
    { o \in Objects :
        /\ ChunkOf(n.index) \in DOMAIN chunk
        /\ chunk[ChunkOf(n.index)].place[PlaceOf(n.index)] =
             [obj |-> o, visits |-> TRUE, unique |-> n.unique] }

\* doForEachServiceObject() with the Kill event
Visited(i) ==
    { o \in Objects : \E j \in DOMAIN svc[i].chks : \E k \in 0..ChunkSize - 1 :
        chunk[svc[i].chks[j]].place[k].obj = o /\ chunk[svc[i].chks[j]].place[k].visits }

\* Without StartAnytime nothing is started while a thread is stopping something,
\* and no service of a manager that was stopped.
MayStart == StartAnytime \/ \A t \in Threads : pc[t] = "idle"

startService(s) ==
    /\ MayStart /\ (state = "running" \/ StartAnytime)
    /\ idx[s] # 0 /\ svc[idx[s]].state = "stopped"
    /\ svc' = [svc EXCEPT ![idx[s]].state = "running"]
    /\ UNCHANGED <<state, idx, svccache, svccnt, places, objects, threads, stops>>

\* The objects are killed.  One that is leaving is not visited any more and
\* still counts.
StopStubEarly(i) ==
    /\ killed' = killed \union Visited(i)
    /\ svc' = [svc EXCEPT ![i].state = IF Visited(i) = {} THEN "stopped" ELSE "stopping"]

StopStub(i) ==
    /\ killed' = killed \union Visited(i)
    /\ svc' = [svc EXCEPT ![i].state = IF svc[i].objcnt = 0 THEN "stopped" ELSE "stopping"]

\* The first test of while(rss.objcnt) d.cnd.wait(lock) belongs to the
\* critical section that leads to it.
Sleep(t, what, i) ==
    /\ pc' = [pc EXCEPT ![t] = what] /\ at' = [at EXCEPT ![t] = i]
    /\ asleep' = asleep \union {t}

stopService(t, s, wait) ==
    /\ pc[t] = "idle" /\ idx[s] # 0
    /\ LET i == idx[s] IN
       /\ \/ svc[i].state = "running" /\ StopStub(i)
          \/ /\ svc[i].state = "stopping" /\ wait
             /\ svc' = IF svc[i].objcnt = 0 THEN [svc EXCEPT ![i].state = "stopped"] ELSE svc
             /\ UNCHANGED killed
       /\ IF wait /\ svc'[i].state = "stopping"
          THEN Sleep(t, "service", i) ELSE UNCHANGED threads
    /\ UNCHANGED <<state, idx, svccache, svccnt, places, id, life, stops>>

\* A thread that waits for the objects of a service wakes up, in
\* stopService() or in the second loop of stop().
AfterWait(t) == IF pc[t] = "service" THEN "idle" ELSE "wait"

Wake(t) ==
    /\ pc[t] \in {"service", "objects"} /\ t \notin asleep
    /\ IF svc[at[t]].objcnt > 0
       THEN asleep' = asleep \union {t} /\ UNCHANGED <<svc, pc, at>>
       ELSE /\ svc' = [svc EXCEPT ![at[t]].state = "stopped"]
            /\ pc' = [pc EXCEPT ![t] = AfterWait(t)] /\ at' = [at EXCEPT ![t] = @ + 1]
            /\ UNCHANGED asleep
    /\ UNCHANGED <<state, idx, svccache, svccnt, places, objects, stops>>

(***************************************************************************)
(* Starting and stopping the manager                                       *)
(***************************************************************************)
start ==
    /\ MayStart /\ state = "stopped"
    /\ state' = "running"
    /\ UNCHANGED <<tables, places, objects, threads, stops>>

\* While another thread stops the manager: while(d.svccnt) d.cnd.wait(lock)
stop(t) ==
    /\ pc[t] = "idle" /\ state # "stopped" /\ stops < MaxStops
    /\ stops' = stops + 1
    /\ state' = "stopping"
    /\ IF state = "stopping" /\ svccnt > 0 THEN Sleep(t, "again", 0)
       ELSE /\ pc' = [pc EXCEPT ![t] = "broadcast"] /\ at' = [at EXCEPT ![t] = 1]
            /\ UNCHANGED asleep
    /\ UNCHANGED <<tables, places, objects>>

StopAgain(t) ==
    /\ pc[t] = "again" /\ t \notin asleep
    /\ IF svccnt > 0 THEN Sleep(t, "again", 0)
       ELSE /\ pc' = [pc EXCEPT ![t] = "broadcast"] /\ at' = [at EXCEPT ![t] = 1]
            /\ UNCHANGED asleep
    /\ UNCHANGED <<state, tables, places, objects, stops>>

\* broadcast to all objects to stop
Broadcast(t) ==
    /\ pc[t] = "broadcast" /\ at[t] <= Len(svc)
    /\ at' = [at EXCEPT ![t] = @ + 1]
    /\ IF svc[at[t]].psvc # None /\ svc[at[t]].state = "running"
       THEN StopStub(at[t]) ELSE UNCHANGED <<svc, killed>>
    /\ UNCHANGED <<state, idx, svccache, svccnt, places, id, life, pc, asleep, stops>>

BroadcastDone(t) ==
    /\ pc[t] = "broadcast" /\ at[t] > Len(svc)
    /\ pc' = [pc EXCEPT ![t] = "wait"] /\ at' = [at EXCEPT ![t] = 1]
    /\ UNCHANGED <<state, tables, places, objects, asleep, stops>>

\* wait for all services to stop
WaitService(t) ==
    /\ pc[t] = "wait" /\ at[t] <= Len(svc)
    /\ LET stub == svc[at[t]]
           stopping == stub.psvc # None /\ stub.state = "stopping" IN
       IF stopping /\ stub.objcnt > 0
       THEN Sleep(t, "objects", at[t]) /\ UNCHANGED svc
       ELSE /\ svc' = IF stopping THEN [svc EXCEPT ![at[t]].state = "stopped"] ELSE svc
            /\ at' = [at EXCEPT ![t] = @ + 1] /\ UNCHANGED <<pc, asleep>>
    /\ UNCHANGED <<state, idx, svccache, svccnt, places, objects, stops>>

StopDone(t) ==
    /\ pc[t] = "wait" /\ at[t] > Len(svc)
    /\ state' = "stopped" /\ asleep' = {}
    /\ pc' = [pc EXCEPT ![t] = "idle"]
    /\ UNCHANGED <<tables, places, objects, at, stops>>

Next ==
    \/ start
    \/ \E s \in Services :
         \/ registerService(s) \/ unregisterService(s) \/ startService(s)
         \/ \E o \in Objects, scheduled \in BOOLEAN : registerObject(s, o, scheduled)
         \/ \E t \in Threads, wait \in BOOLEAN : stopService(t, s, wait)
    \/ \E o \in Objects : disableObjectVisits(o) \/ LeaveChunk(o) \/ LeaveService(o)
    \/ \E t \in Threads :
         \/ stop(t) \/ StopAgain(t) \/ Wake(t) \/ Broadcast(t) \/ BroadcastDone(t)
         \/ WaitService(t) \/ StopDone(t)

Spec == Init /\ [][Next]_vars

(***************************************************************************)
(* Properties                                                              *)
(***************************************************************************)

\* The object found by an id is the one registerObject() returned the id for:
\* ids are unique over time, also when places are used again.
IdsAreUnique == \A o \in Objects : doVisit(id[o]) \subseteq {o}

\* A service that is stopped has no objects, not even one that has left its
\* chunk and is about to leave the service: ServiceShell relies on it to
\* destroy the service.  When Manager::stop() has returned all are stopped.
StoppedIsEmpty ==
    /\ \A o \in Objects : life[o] \in {"live", "closing", "leaving"} =>
          LET stub == svc[chunk[ChunkOf(id[o].index)].svcidx] IN
          stub.psvc # None /\ stub.state # "stopped"
    /\ state = "stopped" =>
          /\ \A i \in DOMAIN svc : svc[i].state = "stopped"
          /\ \A o \in Objects : life[o] \in {"new", "gone"}

\* A thread sleeps only while the service it waits for has objects: the one
\* that leaves last has woken it, whenever it leaves.
NoLostWakeup ==
    \A t \in asleep : pc[t] \in {"service", "objects"} => svc[at[t]].objcnt > 0
=============================================================================
