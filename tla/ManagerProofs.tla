--------------------------- MODULE ManagerProofs ---------------------------
(***************************************************************************)
(* Safety of Manager for any services, objects, threads, sizes of chunks   *)
(* and numbers of stops, as long as nothing of an unregistered service is  *)
(* used again (Reuse = {}, see registerService and Pushed) and, for what   *)
(* concerns stopping, nothing is started meanwhile (~StartAnytime).        *)
(***************************************************************************)
EXTENDS Manager, TLAPS

\* The objects that count: also one that has left its chunk and not yet its service.
Alive == {"live", "closing", "leaving"}
Lives == Alive \union {"new", "gone"}

\* Where the place with index n is, and what it holds
Spot(n) == <<ChunkOf(n), PlaceOf(n)>>
There(n) == chunk[ChunkOf(n)].place[PlaceOf(n)]

Members(i) ==
    { o \in Objects : life[o] \in Alive /\ chunk[ChunkOf(id[o].index)].svcidx = i }

\* A place of the last chunk of a service that was never given away
Beyond(stub, n) ==
    /\ stub.left > 0
    /\ ChunkOf(n) = stub.chks[Len(stub.chks)]
    /\ PlaceOf(n) >= ChunkSize - stub.left

SvcStates == {"running", "stopping", "stopped"}
Stubs == [psvc : Services \union {None}, state : SvcStates, objcnt : Nat, chks : Seq(Nat),
          objcache : Seq(Nat), left : Nat]
Places == [obj : Objects \union {None}, visits : BOOLEAN, unique : Nat]
Rows == [0..ChunkSize - 1 -> Places]
Chunks == [svcidx : Nat, place : Rows]
Ids == [index : Nat, unique : Nat]
Steps == {"idle", "service", "objects", "again", "broadcast", "wait"}

Stored ==
    /\ state \in SvcStates /\ idx \in [Services -> Nat]
    /\ svc \in Seq(Stubs) /\ svccache \in Seq(Nat)
    /\ chunk \in Seq(Chunks) /\ chkcache \in Seq(Nat)
    /\ id \in [Objects -> Ids] /\ life \in [Objects -> Lives]
Acting ==
    /\ pc \in [Threads -> Steps] /\ at \in [Threads -> Nat] /\ asleep \subseteq Threads
    /\ \A t \in Threads : /\ pc[t] \in {"service", "objects"} => at[t] \in DOMAIN svc
                          /\ pc[t] \in {"broadcast", "wait"} => at[t] >= 1
Types == Stored /\ Acting

\* A service that is registered owns its stub; the stub of none is stopped.
Registered ==
    /\ \A s \in Services : idx[s] # 0 => idx[s] \in DOMAIN svc /\ svc[idx[s]].psvc = s
    /\ \A i \in DOMAIN svc : svc[i].psvc = None => svc[i].state = "stopped"

\* objcnt counts the objects of the service, of which a stopped one has none.
Counts(i) ==
    /\ IsFiniteSet(Members(i)) /\ svc[i].objcnt = Cardinality(Members(i))
    /\ svc[i].state = "stopped" => svc[i].objcnt = 0
Counted == \A i \in DOMAIN svc : Counts(i)

\* What is used of the cardinality of finite sets: see CardinalsHold
Cardinals ==
    /\ IsFiniteSet({}) /\ Cardinality({}) = 0
    /\ \A S, x : IsFiniteSet(S) /\ x \notin S =>
         IsFiniteSet(S \union {x}) /\ Cardinality(S \union {x}) = Cardinality(S) + 1
    /\ \A S, x : IsFiniteSet(S) /\ x \in S =>
         /\ IsFiniteSet(S \ {x}) /\ Cardinality(S \ {x}) = Cardinality(S) - 1
         /\ Cardinality(S) # 0

\* The chunks of a service are its own.
Owns(i) ==
    /\ \A k \in DOMAIN svc[i].chks :
         svc[i].chks[k] \in DOMAIN chunk /\ chunk[svc[i].chks[k]].svcidx = i
    /\ svc[i].left \in 0..ChunkSize - 1
    /\ svc[i].left > 0 => svc[i].chks # <<>>
Owned == \A i \in DOMAIN svc : Owns(i)

\* Nobody has a place that is in the cache of its service, where it is once.
Free(i, n) ==
    /\ ChunkOf(n) \in DOMAIN chunk /\ chunk[ChunkOf(n)].svcidx = i /\ ~Beyond(svc[i], n)
    /\ \A o \in Objects : life[o] \in Alive => Spot(id[o].index) # Spot(n)
Once(q) == \A k, j \in DOMAIN q : k # j => Spot(q[k]) # Spot(q[j])
Caches(i) ==
    /\ \A k \in DOMAIN svc[i].objcache : Free(i, svc[i].objcache[k])
    /\ Once(svc[i].objcache)
Cached == \A i \in DOMAIN svc : Caches(i)

\* Each object has a place of its own, given away by a service.
Held(o) ==
    /\ chunk[ChunkOf(id[o].index)].svcidx \in DOMAIN svc
    /\ \A i \in DOMAIN svc : ~Beyond(svc[i], id[o].index)
    /\ \A p \in Objects : p # o /\ life[p] \in Alive => Spot(id[p].index) # Spot(id[o].index)

\* The unique of a place is that of the object there, and has passed those of its
\* predecessors.
Numbered(o) ==
    /\ life[o] = "new" => id[o] = NoId
    /\ life[o] # "new" => ChunkOf(id[o].index) \in DOMAIN chunk
    /\ life[o] \in {"live", "closing"} =>
          There(id[o].index).obj = o /\ There(id[o].index).unique = id[o].unique
    /\ life[o] \in {"leaving", "gone"} => id[o].unique < There(id[o].index).unique

Placed == \A o \in Objects : (life[o] \in Alive => Held(o)) /\ Numbered(o)

Registry == Types /\ Registered /\ Counted /\ Owned /\ Cached /\ Placed

\* How far a thread that stops the manager has come
Progress(t) ==
    /\ pc[t] \in {"service", "objects"} =>
          svc[at[t]].state # "running" /\ (t \in asleep => svc[at[t]].objcnt > 0)
    /\ pc[t] \in {"again", "broadcast", "wait", "objects"} => state # "running"
    /\ pc[t] = "broadcast" => \A i \in DOMAIN svc : i < at[t] => svc[i].state # "running"
    /\ pc[t] \in {"wait", "objects"} =>
          \A i \in DOMAIN svc : svc[i].state # "running" /\ (i < at[t] => svc[i].state = "stopped")

Stopping ==
    /\ \A t \in Threads : Progress(t)
    /\ state = "stopped" => \A i \in DOMAIN svc : svc[i].state = "stopped"

-----------------------------------------------------------------------------
(***************************************************************************)
(* Chunks and places                                                       *)
(***************************************************************************)

\* An index is a chunk and a place in it.
LEMMA SpotIn ==
    ASSUME ManagerAssumption, NEW n \in Nat
    PROVE  ChunkOf(n) \in Nat /\ PlaceOf(n) \in 0..ChunkSize - 1
BY DEF ManagerAssumption, ChunkOf, PlaceOf

\* Manager::registerObject() makes the index from the chunk and the place.
LEMMA SpotOfSum ==
    ASSUME ManagerAssumption, NEW c \in Nat, NEW k \in 0..ChunkSize - 1
    PROVE  /\ c * ChunkSize + k \in Nat
           /\ ChunkOf(c * ChunkSize + k) = c /\ PlaceOf(c * ChunkSize + k) = k
BY DEF ManagerAssumption, ChunkOf, PlaceOf

\* NoId is in no chunk.
LEMMA NoIdNowhere == ASSUME ManagerAssumption PROVE ChunkOf(NoId.index) = 0
BY DEF ManagerAssumption, ChunkOf, NoId

\* Counters and indexes
LEMMA AboveZero == ASSUME NEW n \in Nat, n # 0 PROVE n > 0
OBVIOUS

LEMMA InSeq ==
    ASSUME NEW S, NEW q \in Seq(S), NEW i \in Nat, i >= 1, i <= Len(q) PROVE i \in DOMAIN q
OBVIOUS

\* Uniques only grow.
LEMMA LessLess ==
    ASSUME NEW a \in Nat, NEW b \in Nat, NEW c \in Nat, a < b, b < c PROVE a < c
OBVIOUS

-----------------------------------------------------------------------------
(***************************************************************************)
(* Steps that change nothing but the states of services                    *)
(***************************************************************************)

SameStub(i) ==
    /\ svc'[i].psvc = svc[i].psvc /\ svc'[i].objcnt = svc[i].objcnt
    /\ svc'[i].chks = svc[i].chks /\ svc'[i].objcache = svc[i].objcache
    /\ svc'[i].left = svc[i].left

\* What the registry says of a stub does not depend on its state, but for that a
\* stopped service is empty and an unused stub is stopped.
LEMMA StatesKeep ==
    ASSUME Registered, Counted, Owned, Cached, Placed,
           UNCHANGED <<idx, chunk, id, life>>, DOMAIN svc' = DOMAIN svc,
           \A i \in DOMAIN svc : /\ SameStub(i)
                                 /\ svc'[i].state = "stopped" => svc[i].objcnt = 0
                                 /\ svc[i].psvc = None => svc'[i].state = "stopped"
    PROVE  Registered' /\ Counted' /\ Owned' /\ Cached' /\ Placed'
<1>1. \A i : Members(i)' = Members(i)
  BY Zenon DEF Members
<1>2. \A i \in DOMAIN svc : \A n : Beyond(svc'[i], n) = Beyond(svc[i], n)
  BY Zenon DEF Beyond, SameStub
<1>3. \A n : There(n)' = There(n)
  BY Zenon DEF There
<1>4. Registered'
  BY Zenon DEF Registered, SameStub
<1>5. Placed'
  <2>1. \A o : Held(o) => Held(o)'
    BY <1>2, Zenon DEF Held
  <2>2. \A o : Numbered(o) => Numbered(o)'
    BY <1>3, Zenon DEF Numbered
  <2> QED BY <2>1, <2>2, Zenon DEF Placed
<1> SUFFICES ASSUME NEW i \in DOMAIN svc PROVE Counts(i)' /\ Owns(i)' /\ Caches(i)'
  BY <1>4, <1>5, Zenon DEF Counted, Owned, Cached
<1>6. Counts(i)'
  BY <1>1, Zenon DEF Counted, Counts, SameStub
<1>7. Owns(i)'
  BY DEF Owned, Owns, SameStub
<1>8. Caches(i)'
  <2>1. \A n : Free(i, n) => Free(i, n)'
    BY <1>2, Zenon DEF Free
  <2> QED BY <2>1, Zenon DEF Cached, Caches, SameStub
<1> QED BY <1>6, <1>7, <1>8

\* One stub gets another state.
LEMMA SetState ==
    ASSUME Types, NEW k \in DOMAIN svc, NEW v \in SvcStates,
           svc' = [svc EXCEPT ![k].state = v]
    PROVE  /\ svc' \in Seq(Stubs) /\ DOMAIN svc' = DOMAIN svc /\ Len(svc') = Len(svc)
           /\ svc'[k].state = v
           /\ \A i \in DOMAIN svc : SameStub(i) /\ (i # k => svc'[i] = svc[i])
<1>1. svc \in Seq(Stubs) /\ svc[k] \in Stubs
  BY DEF Types, Stored
<1>2. [svc[k] EXCEPT !.state = v] \in Stubs
  BY <1>1, Zenon DEF Stubs
<1>3. svc' = [svc EXCEPT ![k] = [svc[k] EXCEPT !.state = v]]
  BY <1>1
<1>4. svc' \in Seq(Stubs) /\ DOMAIN svc' = DOMAIN svc /\ Len(svc') = Len(svc)
  BY <1>1, <1>2, <1>3
<1>5. svc'[k] = [svc[k] EXCEPT !.state = v] /\ \A i \in DOMAIN svc : i # k => svc'[i] = svc[i]
  BY <1>1, <1>3
<1> QED BY <1>1, <1>4, <1>5, Zenon DEF Stubs, SameStub

\* Stopping a stub: stopService() and Manager::stop() do it under its mutex.
LEMMA SetStateKeeps ==
    ASSUME Types, Registered, Counted, Owned, Cached, Placed,
           UNCHANGED <<idx, chunk, id, life>>,
           NEW k \in DOMAIN svc, NEW v \in SvcStates,
           svc' = [svc EXCEPT ![k].state = v],
           v = "stopped" => svc[k].objcnt = 0, svc[k].psvc = None => v = "stopped"
    PROVE  Registered' /\ Counted' /\ Owned' /\ Cached' /\ Placed'
<1>1. /\ DOMAIN svc' = DOMAIN svc /\ svc'[k].state = v
      /\ \A i \in DOMAIN svc : SameStub(i) /\ (i # k => svc'[i] = svc[i])
  BY SetState, Zenon
<1>2. \A i \in DOMAIN svc : /\ svc[i].state = "stopped" => svc[i].objcnt = 0
                            /\ svc[i].psvc = None => svc[i].state = "stopped"
  BY Zenon DEF Registered, Counted, Counts
<1>3. \A i \in DOMAIN svc : /\ svc'[i].state = "stopped" => svc[i].objcnt = 0
                            /\ svc[i].psvc = None => svc'[i].state = "stopped"
  BY <1>1, <1>2
<1> QED BY <1>1, <1>3, StatesKeep

-----------------------------------------------------------------------------
(***************************************************************************)
(* The registration of services                                            *)
(***************************************************************************)

\* A function on 1..n is a sequence.
LEMMA FunctionIsSeq ==
    ASSUME NEW S, NEW n \in Nat, NEW f \in [1..n -> S]
    PROVE  f \in Seq(S)
OBVIOUS

\* The fields of a stub
LEMMA StubTypes ==
    ASSUME Types, NEW i \in DOMAIN svc
    PROVE  /\ svc[i] \in Stubs /\ svc[i].psvc \in Services \union {None}
           /\ svc[i].state \in SvcStates /\ svc[i].objcnt \in Nat /\ svc[i].chks \in Seq(Nat)
           /\ svc[i].objcache \in Seq(Nat) /\ svc[i].left \in Nat
<1>1. svc[i] \in Stubs
  BY DEF Types, Stored
<1> QED BY <1>1 DEF Stubs

\* A chunk is given to a service, or taken from it.
LEMMA SetOwner ==
    ASSUME NEW c \in Chunks, NEW i \in Nat, NEW d, d = [c EXCEPT !.svcidx = i]
    PROVE  d \in Chunks /\ d.svcidx = i /\ d.place = c.place
BY DEF Chunks

\* The threads wait for the same stubs, or do not wait.
LEMMA ActingKeeps ==
    ASSUME Acting, UNCHANGED <<pc, at>>, asleep' \subseteq asleep, DOMAIN svc \subseteq DOMAIN svc'
    PROVE  Acting'
BY Zenon DEF Acting

\* Whether a service is registered depends on no more than psvc and state.
LEMMA RegisteredKeeps ==
    ASSUME Registered, UNCHANGED idx, DOMAIN svc' = DOMAIN svc,
           \A j \in DOMAIN svc : svc'[j].psvc = svc[j].psvc /\ svc'[j].state = svc[j].state
    PROVE  Registered'
BY Zenon DEF Registered

\* Manager::registerService() adds a stub, of which no object knows yet.
LEMMA registerServiceKeeps ==
    ASSUME ManagerAssumption, Cardinals, Reuse = {}, Registry, NEW s \in Services,
           registerService(s)
    PROVE  Registry'
<1> USE DEF Registry
<1>1. svc \in Seq(Stubs) /\ idx \in [Services -> Nat]
  BY DEF Types, Stored
<1>2. PICK l : l = Len(svc) + 1
  OBVIOUS
<1>3. /\ svc' = Append(svc, Fresh(s)) /\ idx' = [idx EXCEPT ![s] = l]
      /\ UNCHANGED <<state, svccache, chunk, chkcache, id, life, pc, at, asleep>>
  BY <1>2 DEF registerService, places, objects, threads
<1>4. Fresh(s) \in Stubs
  BY DEF Fresh, Stubs, SvcStates
<1>5. /\ svc' \in Seq(Stubs) /\ DOMAIN svc' = DOMAIN svc \union {l} /\ l \notin DOMAIN svc
      /\ svc'[l] = Fresh(s) /\ \A i \in DOMAIN svc : svc'[i] = svc[i]
      /\ l \in Nat /\ l # 0
  BY <1>2, <1>3, <1>4, <1>1
<1>6. Stored'
  BY <1>3, <1>1, <1>5 DEF Types, Stored
<1>7. Acting'
  BY <1>3, <1>5, ActingKeeps, Zenon DEF Types
<1>8. Registered'
  <2>1. \A r \in Services : r # s => idx'[r] = idx[r]
    BY <1>3, <1>1
  <2>2. idx'[s] = l /\ svc'[l].psvc = s /\ svc'[l].state = "running"
    BY <1>3, <1>1, <1>5 DEF Fresh
  <2>3. s # None
    BY DEF ManagerAssumption
  <2>4. \A r \in Services : idx'[r] # 0 => idx'[r] \in DOMAIN svc' /\ svc'[idx'[r]].psvc = r
    <3> SUFFICES ASSUME NEW r \in Services, r # s, idx[r] # 0
                 PROVE  idx[r] \in DOMAIN svc' /\ svc'[idx[r]].psvc = r
      BY <1>5, <2>1, <2>2
    <3> QED BY <1>5, Zenon DEF Registered
  <2>5. \A i \in DOMAIN svc' : svc'[i].psvc = None => svc'[i].state = "stopped"
    BY <1>5, <2>2, <2>3, ZenonT(60) DEF Registered
  <2> QED BY <2>4, <2>5, Zenon DEF Registered
<1>9. Members(l) = {}
  BY <1>5, Zenon DEF Placed, Held, Members
<1>10. \A i : Members(i)' = Members(i)
  BY <1>3, Zenon DEF Members
<1>11. \A n : ~Beyond(svc'[l], n)
  BY <1>5 DEF Beyond, Fresh
<1>12. Placed'
  <2>1. \A o : Held(o) => Held(o)'
    BY <1>3, <1>5, <1>11, Zenon DEF Held
  <2>2. \A o : Numbered(o) => Numbered(o)'
    BY <1>3, Zenon DEF Numbered, There
  <2> QED BY <1>3, <2>1, <2>2, Zenon DEF Placed
<1>13. ASSUME NEW i \in DOMAIN svc PROVE Counts(i)' /\ Owns(i)' /\ Caches(i)'
  <2>1. Counts(i)'
    BY <1>5, <1>10, Zenon DEF Counted, Counts
  <2>2. Owns(i)'
    BY <1>3, <1>5 DEF Owned, Owns
  <2>3. \A n : Free(i, n) => Free(i, n)'
    BY <1>3, <1>5, Zenon DEF Free
  <2>4. Caches(i)'
    BY <1>5, <2>3, Zenon DEF Cached, Caches
  <2> QED BY <2>1, <2>2, <2>4
<1>14. Counts(l)' /\ Owns(l)' /\ Caches(l)'
  <2>1. svc'[l].objcnt = 0 /\ svc'[l].state = "running" /\ svc'[l].left = 0
        /\ svc'[l].chks = <<>> /\ svc'[l].objcache = <<>>
    BY <1>5 DEF Fresh
  <2>2. Counts(l)'
    BY <1>9, <1>10, <2>1, Zenon DEF Counts, Cardinals
  <2>3. Owns(l)'
    BY <2>1 DEF Owns, ManagerAssumption
  <2>4. Caches(l)'
    BY <2>1 DEF Caches, Once
  <2> QED BY <2>2, <2>3, <2>4
<1>15. Counted' /\ Owned' /\ Cached'
  BY <1>5, <1>13, <1>14, Zenon DEF Counted, Owned, Cached
<1> QED BY <1>6, <1>7, <1>8, <1>12, <1>15 DEF Types

\* An unregistered service has no objects, so that nothing is left of it but places
\* of objects that are gone.
LEMMA unregisterServiceKeeps ==
    ASSUME ManagerAssumption, Cardinals, Registry, NEW s \in Services, unregisterService(s)
    PROVE  Registry'
<1> USE DEF Registry
<1>1. svc \in Seq(Stubs) /\ chunk \in Seq(Chunks) /\ idx \in [Services -> Nat]
  BY DEF Types, Stored
<1>2. PICK i : i = idx[s]
  OBVIOUS
<1>3. i \in DOMAIN svc /\ i # 0 /\ svc[i].psvc = s /\ svc[i].state = "stopped"
  BY <1>2, Zenon DEF unregisterService, Registered
<1>4. /\ svc' = [svc EXCEPT ![i] = Reset] /\ idx' = [idx EXCEPT ![s] = 0]
      /\ svccache' = <<i>> \o svccache /\ chkcache' = Reversed(Pushed(svc[i].chks)) \o chkcache
      /\ chunk' = [c \in DOMAIN chunk |->
                     IF \E k \in DOMAIN svc[i].chks : svc[i].chks[k] = c
                     THEN [chunk[c] EXCEPT !.svcidx = 0] ELSE chunk[c]]
      /\ UNCHANGED <<state, id, life, pc, at>> /\ asleep' \subseteq asleep
  BY <1>2 DEF unregisterService, objects
<1>5. Reset \in Stubs /\ Reset.psvc = None /\ Reset.state = "stopped" /\ Reset.objcnt = 0
      /\ Reset.left = 0 /\ Reset.chks = <<>> /\ Reset.objcache = <<>>
  <2>1. Reset = [psvc |-> None, state |-> "stopped", objcnt |-> 0, chks |-> <<>>,
                 objcache |-> <<>>, left |-> 0]
    BY DEF Reset, Fresh
  <2> QED BY <2>1 DEF Stubs, SvcStates
<1>6. /\ svc' \in Seq(Stubs) /\ DOMAIN svc' = DOMAIN svc
      /\ svc'[i] = Reset /\ \A j \in DOMAIN svc : j # i => svc'[j] = svc[j]
  BY <1>1, <1>3, <1>4, <1>5
<1>7. DOMAIN chunk' = DOMAIN chunk /\ chunk' \in Seq(Chunks)
  <2>1. \A c \in DOMAIN chunk : chunk'[c] \in Chunks
    <3> SUFFICES ASSUME NEW c \in DOMAIN chunk PROVE chunk'[c] \in Chunks
      OBVIOUS
    <3>1. chunk[c] \in Chunks
      BY <1>1
    <3>2. [chunk[c] EXCEPT !.svcidx = 0] \in Chunks
      BY <3>1, SetOwner
    <3> QED BY <1>4, <3>1, <3>2
  <2>2. Len(chunk) \in Nat /\ DOMAIN chunk = 1..Len(chunk)
    BY <1>1
  <2>3. chunk' \in [1..Len(chunk) -> Chunks]
    BY <1>4, <2>1, <2>2, Zenon
  <2> QED BY <1>4, <2>2, <2>3, FunctionIsSeq
<1>8. \A c \in DOMAIN chunk : /\ chunk'[c].place = chunk[c].place
                              /\ chunk'[c].svcidx # chunk[c].svcidx =>
                                   chunk[c].svcidx = i /\ chunk'[c].svcidx = 0
  <2> SUFFICES ASSUME NEW c \in DOMAIN chunk
               PROVE  /\ chunk'[c].place = chunk[c].place
                      /\ chunk'[c].svcidx # chunk[c].svcidx =>
                           chunk[c].svcidx = i /\ chunk'[c].svcidx = 0
    OBVIOUS
  <2>1. chunk[c] \in Chunks
    BY <1>1
  <2>2. CASE \E k \in DOMAIN svc[i].chks : svc[i].chks[k] = c
    <3>1. chunk'[c] = [chunk[c] EXCEPT !.svcidx = 0]
      BY <1>4, <2>2
    <3>2. chunk[c].svcidx = i
      BY <1>3, <2>2, ZenonT(60) DEF Owned, Owns
    <3> QED BY <2>1, <3>1, <3>2, SetOwner
  <2>3. CASE ~ \E k \in DOMAIN svc[i].chks : svc[i].chks[k] = c
    BY <1>4, <2>3
  <2> QED BY <2>2, <2>3
<1>9. 0 \notin DOMAIN svc
  BY <1>1
<1>10. Members(i) = {}
  BY <1>3, Zenon DEF Counted, Counts, Cardinals
<1>11. \A o \in Objects : life[o] # "new" => ChunkOf(id[o].index) \in DOMAIN chunk
  BY Zenon DEF Placed, Numbered
<1>12. \A o \in Objects : life[o] \in Alive =>
          chunk'[ChunkOf(id[o].index)].svcidx = chunk[ChunkOf(id[o].index)].svcidx
  BY <1>8, <1>10, <1>11, Zenon DEF Members, Alive
<1>13. \A j : Members(j)' = Members(j)
  BY <1>4, <1>12, Zenon DEF Members
<1>14. \A n : ~Beyond(svc'[i], n)
  BY <1>5, <1>6 DEF Beyond
<1>15. Stored'
  <2>1. chkcache' \in Seq(Nat)
    <3>1. svc[i].chks \in Seq(Nat) /\ chkcache \in Seq(Nat)
      BY <1>3, StubTypes, Zenon DEF Types, Stored
    <3>2. \A q \in Seq(Nat) : Pushed(q) \in Seq(Nat)
      <4> SUFFICES ASSUME NEW q \in Seq(Nat) PROVE Pushed(q) \in Seq(Nat)
        OBVIOUS
      <4>1. Len(q) \in Nat /\ DOMAIN q = 1..Len(q)
        OBVIOUS
      <4>2. Pushed(q) \in [1..Len(q) -> Nat]
        BY <4>1 DEF Pushed
      <4> QED BY <4>1, <4>2, FunctionIsSeq
    <3>3. \A q \in Seq(Nat) : Reversed(q) \in Seq(Nat)
      <4> SUFFICES ASSUME NEW q \in Seq(Nat) PROVE Reversed(q) \in Seq(Nat)
        OBVIOUS
      <4>1. Len(q) \in Nat /\ DOMAIN q = 1..Len(q)
        OBVIOUS
      <4>2. Reversed(q) \in [1..Len(q) -> Nat]
        BY <4>1 DEF Reversed
      <4> QED BY <4>1, <4>2, FunctionIsSeq
    <3> QED BY <1>4, <3>1, <3>2, <3>3
  <2>2. svccache' \in Seq(Nat)
    BY <1>1, <1>2, <1>4 DEF Types, Stored
  <2>3. idx' \in [Services -> Nat]
    BY <1>1, <1>4
  <2> QED BY <1>4, <1>6, <1>7, <2>1, <2>2, <2>3, Zenon DEF Types, Stored
<1>16. Acting'
  BY <1>4, <1>6, ActingKeeps, Zenon DEF Types
<1>17. Registered'
  <2>1. \A r \in Services : idx'[r] # 0 => idx'[r] \in DOMAIN svc' /\ svc'[idx'[r]].psvc = r
    <3> SUFFICES ASSUME NEW r \in Services, r # s, idx[r] # 0
                 PROVE  idx[r] \in DOMAIN svc' /\ svc'[idx[r]].psvc = r
      BY <1>1, <1>4
    <3>1. idx[r] \in DOMAIN svc /\ svc[idx[r]].psvc = r
      BY Zenon DEF Registered
    <3>2. idx[r] # i
      BY <1>3, <3>1
    <3> QED BY <1>6, <3>1, <3>2
  <2>2. \A j \in DOMAIN svc' : svc'[j].psvc = None => svc'[j].state = "stopped"
    BY <1>5, <1>6, Zenon DEF Registered
  <2> QED BY <2>1, <2>2, Zenon DEF Registered
<1>18. Placed'
  <2>1. \A o \in Objects : life[o] \in Alive /\ Held(o) => Held(o)'
    BY <1>4, <1>6, <1>12, <1>14, ZenonT(60) DEF Held
  <2>2. \A o \in Objects : Numbered(o) => Numbered(o)'
    <3>1. \A n : ChunkOf(n) \in DOMAIN chunk => There(n)' = There(n)
      BY <1>8, Zenon DEF There
    <3> QED BY <1>4, <1>7, <3>1, Zenon DEF Numbered, Lives, Alive
  <2> QED BY <1>4, <2>1, <2>2, Zenon DEF Placed
<1>19. ASSUME NEW j \in DOMAIN svc PROVE Counts(j)' /\ Owns(j)' /\ Caches(j)'
  <2>1. CASE j = i
    <3>1. Counts(i)'
      BY <1>5, <1>6, <1>10, <1>13, Zenon DEF Counts, Cardinals
    <3>2. Owns(i)'
      BY <1>5, <1>6 DEF Owns, ManagerAssumption
    <3>3. Caches(i)'
      BY <1>5, <1>6 DEF Caches, Once
    <3> QED BY <2>1, <3>1, <3>2, <3>3
  <2>2. CASE j # i
    <3>1. Counts(j)'
      BY <1>6, <1>13, <2>2, Zenon DEF Counted, Counts
    <3>2. \A c \in DOMAIN chunk : chunk[c].svcidx = j => chunk'[c].svcidx = j
      BY <1>8, <2>2, Zenon
    <3>3. Owns(j)'
      BY <1>6, <1>7, <2>2, <3>2, ZenonT(60) DEF Owned, Owns
    <3>4. \A n : Free(j, n) => Free(j, n)'
      BY <1>4, <1>6, <1>7, <2>2, <3>2, Zenon DEF Free
    <3>5. Caches(j)'
      BY <1>6, <2>2, <3>4, Zenon DEF Cached, Caches
    <3> QED BY <3>1, <3>3, <3>5
  <2> QED BY <2>1, <2>2
<1>20. Counted' /\ Owned' /\ Cached'
  BY <1>6, <1>19, Zenon DEF Counted, Owned, Cached
<1> QED BY <1>15, <1>16, <1>17, <1>18, <1>20 DEF Types

-----------------------------------------------------------------------------
(***************************************************************************)
(* The registration of objects                                             *)
(***************************************************************************)

\* Who holds a place depends on where it is.
LEMMA BeyondIsSpot ==
    ASSUME NEW stub, NEW n, NEW m, Spot(n) = Spot(m)
    PROVE  /\ ChunkOf(n) = ChunkOf(m) /\ PlaceOf(n) = PlaceOf(m)
           /\ Beyond(stub, n) = Beyond(stub, m)
BY DEF Spot, Beyond

\* What is beyond the last place a service gave away is in a chunk of the service.
LEMMA BeyondIsOwned ==
    ASSUME Types, Owned, NEW i \in DOMAIN svc, NEW n, Beyond(svc[i], n)
    PROVE  ChunkOf(n) \in DOMAIN chunk /\ chunk[ChunkOf(n)].svcidx = i
<1>1. svc[i].left > 0 /\ ChunkOf(n) = svc[i].chks[Len(svc[i].chks)]
  BY DEF Beyond
<1>2. svc[i].chks \in Seq(Nat) /\ svc[i].chks # <<>>
  BY <1>1, StubTypes DEF Owned, Owns
<1>3. Len(svc[i].chks) \in DOMAIN svc[i].chks
  BY <1>2
<1> QED BY <1>1, <1>3, Zenon DEF Owned, Owns

\* A place taken from the cache, and one given back to it
LEMMA OnceTail ==
    ASSUME NEW q \in Seq(Nat), q # <<>>, Once(q)
    PROVE  /\ Once(Tail(q)) /\ \A k \in DOMAIN Tail(q) : Spot(Tail(q)[k]) # Spot(Head(q))
           /\ \A k \in DOMAIN Tail(q) : \E j \in DOMAIN q : Tail(q)[k] = q[j]
<1>1. /\ 1 \in DOMAIN q /\ Head(q) = q[1]
      /\ \A k \in DOMAIN Tail(q) : /\ k + 1 \in DOMAIN q /\ Tail(q)[k] = q[k + 1] /\ k + 1 # 1
                                   /\ \A j \in DOMAIN Tail(q) : k # j => k + 1 # j + 1
  OBVIOUS
<1>2. \A k, j \in DOMAIN q : k # j => Spot(q[k]) # Spot(q[j])
  BY DEF Once
<1> HIDE DEF Spot
<1>3. \A k \in DOMAIN Tail(q) : Spot(Tail(q)[k]) # Spot(Head(q))
  BY <1>1, <1>2
<1>4. ASSUME NEW k \in DOMAIN Tail(q), NEW j \in DOMAIN Tail(q), k # j
      PROVE  Spot(Tail(q)[k]) # Spot(Tail(q)[j])
  <2>1. k + 1 \in DOMAIN q /\ j + 1 \in DOMAIN q /\ k + 1 # j + 1
        /\ Tail(q)[k] = q[k + 1] /\ Tail(q)[j] = q[j + 1]
    BY <1>1, <1>4
  <2> QED BY <1>2, <2>1
<1> QED BY <1>1, <1>3, <1>4 DEF Once

Cons(n, q) == <<n>> \o q

\* A place that is not in the cache is put into it.
LEMMA OnceCons ==
    ASSUME NEW q \in Seq(Nat), NEW n \in Nat, Once(q),
           \A k \in DOMAIN q : Spot(q[k]) # Spot(n),
           NEW r, r = Cons(n, q)
    PROVE  /\ r \in Seq(Nat) /\ Once(r)
           /\ \A k \in DOMAIN r : r[k] = n \/ \E j \in DOMAIN q : r[k] = q[j]
<1>1. /\ r \in Seq(Nat)
      /\ \A k \in DOMAIN r : \/ k = 1 /\ r[k] = n
                             \/ k # 1 /\ k - 1 \in DOMAIN q /\ r[k] = q[k - 1]
      /\ \A k, j \in DOMAIN r : k # j => k - 1 # j - 1
  BY SMTT(60) DEF Cons
<1>2. ASSUME NEW k \in DOMAIN r, NEW j \in DOMAIN r, k # j PROVE Spot(r[k]) # Spot(r[j])
  <2>1. CASE k = 1 \/ j = 1
    BY <1>1, <1>2, <2>1
  <2>2. CASE k # 1 /\ j # 1
    <3>1. k - 1 \in DOMAIN q /\ j - 1 \in DOMAIN q /\ k - 1 # j - 1
          /\ r[k] = q[k - 1] /\ r[j] = q[j - 1]
      BY <1>1, <1>2, <2>2
    <3> QED BY <3>1 DEF Once
  <2> QED BY <2>1, <2>2
<1>3. Once(r)
  BY <1>2 DEF Once
<1>4. \A k \in DOMAIN r : r[k] = n \/ \E j \in DOMAIN q : r[k] = q[j]
  BY <1>1
<1> QED BY <1>1, <1>3, <1>4

\* The place registerObject() takes is in a chunk of the service or in a new one;
\* nobody has it, it is in no cache and no part of a chunk still to be given away.
TakenWell(i, n, stub) ==
    LET c == ChunkOf(n) IN
    /\ n \in Nat /\ stub \in Stubs
    /\ stub.psvc = svc[i].psvc /\ stub.state = svc[i].state /\ stub.objcnt = svc[i].objcnt
    /\ (c \in DOMAIN chunk /\ chunk[c].svcidx = i) \/ c = Len(chunk) + 1
    /\ \A o \in Objects : life[o] \in Alive => Spot(id[o].index) # Spot(n)
    /\ \A j \in DOMAIN svc : j # i => ~Beyond(svc[j], n)
    /\ ~Beyond(stub, n)
    /\ \A m \in Nat : ChunkOf(m) \in DOMAIN chunk /\ Beyond(stub, m) => Beyond(svc[i], m)
    /\ \A k \in DOMAIN stub.chks :
         \/ stub.chks[k] = c
         \/ stub.chks[k] \in DOMAIN chunk /\ chunk[stub.chks[k]].svcidx = i
    /\ stub.left \in 0..ChunkSize - 1 /\ (stub.left > 0 => stub.chks # <<>>)
    /\ \A k \in DOMAIN stub.objcache : /\ Free(i, stub.objcache[k])
                                       /\ Spot(stub.objcache[k]) # Spot(n)
    /\ Once(stub.objcache)

\* registerObject() with a place that was given back
LEMMA TakeFromCache ==
    ASSUME ManagerAssumption, Registry, NEW i \in DOMAIN svc, svc[i].objcache # <<>>
    PROVE  TakenWell(i, Place(svc[i]), Taken(svc[i]))
<1> USE DEF Registry
<1> DEFINE q == svc[i].objcache
           n == Head(q)
           stub == [svc[i] EXCEPT !.objcache = Tail(q)]
<1>1. Place(svc[i]) = n /\ Taken(svc[i]) = stub
  BY DEF Place, Taken
<1>2. svc[i] \in Stubs /\ q \in Seq(Nat) /\ svc[i].chks \in Seq(Nat)
  BY StubTypes, Zenon
<1>3. n = q[1] /\ n \in Nat /\ 1 \in DOMAIN q
  BY <1>2
<1>4. Tail(q) \in Seq(Nat)
  BY <1>2
<1>5. /\ stub \in Stubs /\ stub.objcache = Tail(q)
      /\ stub.psvc = svc[i].psvc /\ stub.state = svc[i].state /\ stub.objcnt = svc[i].objcnt
      /\ stub.chks = svc[i].chks /\ stub.left = svc[i].left
  BY <1>2, <1>4, Zenon DEF Stubs
<1>6. Free(i, n) /\ \A k \in DOMAIN q : Free(i, q[k])
  BY <1>3, Zenon DEF Cached, Caches
<1>7. \A j \in DOMAIN svc : j # i => ~Beyond(svc[j], n)
  BY <1>6, BeyondIsOwned, Zenon DEF Free
<1>8. \A m : Beyond(stub, m) = Beyond(svc[i], m)
  BY <1>5, Zenon DEF Beyond
<1>9. Once(q)
  BY DEF Cached, Caches
<1>10. /\ Once(Tail(q))
       /\ \A k \in DOMAIN Tail(q) : Free(i, Tail(q)[k]) /\ Spot(Tail(q)[k]) # Spot(n)
  BY <1>2, <1>6, <1>9, OnceTail, ZenonT(60)
<1>11. Owns(i)
  BY DEF Owned
<1> HIDE DEF q, n, stub
<1>12. TakenWell(i, n, stub)
  <2>1. /\ ChunkOf(n) \in DOMAIN chunk /\ chunk[ChunkOf(n)].svcidx = i
        /\ \A o \in Objects : life[o] \in Alive => Spot(id[o].index) # Spot(n)
        /\ ~Beyond(stub, n)
    BY <1>6, <1>8, Zenon DEF Free
  <2>2. /\ stub.left \in 0..ChunkSize - 1 /\ (stub.left > 0 => stub.chks # <<>>)
        /\ \A k \in DOMAIN stub.chks : /\ stub.chks[k] \in DOMAIN chunk
                                       /\ chunk[stub.chks[k]].svcidx = i
    BY <1>5, <1>11 DEF Owns
  <2> QED BY <1>3, <1>5, <1>7, <1>8, <1>10, <2>1, <2>2, ZenonT(60) DEF TakenWell
<1> QED BY <1>1, <1>12

\* The next place of the last chunk is taken.
LEMMA SetLeft ==
    ASSUME NEW r \in Stubs, NEW left \in Nat, NEW stub, stub = [r EXCEPT !.left = left]
    PROVE  /\ stub \in Stubs /\ stub.left = left /\ stub.chks = r.chks
           /\ stub.objcache = r.objcache /\ stub.psvc = r.psvc /\ stub.state = r.state
           /\ stub.objcnt = r.objcnt
BY ZenonT(60) DEF Stubs

\* registerObject() with the next place of the last chunk
LEMMA TakeFromLast ==
    ASSUME ManagerAssumption, Registry, NEW i \in DOMAIN svc,
           svc[i].objcache = <<>>, svc[i].left > 0
    PROVE  TakenWell(i, Place(svc[i]), Taken(svc[i]))
<1> USE DEF Registry
<1>1. PICK chks, left : chks = svc[i].chks /\ left = svc[i].left
  OBVIOUS
<1>2. /\ svc[i] \in Stubs /\ chks \in Seq(Nat) /\ ChunkSize \in Nat
      /\ left \in 0..ChunkSize - 1 /\ left > 0 /\ chks # <<>>
  BY <1>1, StubTypes DEF Owned, Owns, ManagerAssumption
<1>3. PICK c \in Nat : c = chks[Len(chks)] /\ Len(chks) \in DOMAIN chks
  BY <1>2
<1>4. c \in DOMAIN chunk /\ chunk[c].svcidx = i
  BY <1>1, <1>3, Zenon DEF Owned, Owns
<1>5. PICK k \in 0..ChunkSize - 1 : k = ChunkSize - left
  BY <1>2
<1>6. PICK n : n = c * ChunkSize + k /\ n \in Nat /\ ChunkOf(n) = c /\ PlaceOf(n) = k
  BY SpotOfSum, Zenon
<1>7. Place(svc[i]) = n
  <2>1. Place(svc[i]) = c * ChunkSize + ChunkSize - left
    BY <1>1, <1>3 DEF Place
  <2>2. c * ChunkSize \in Nat
    BY <1>2
  <2> QED BY <1>2, <1>5, <1>6, <2>1, <2>2
<1>8. PICK stub : /\ Taken(svc[i]) = stub /\ stub \in Stubs
                  /\ stub.psvc = svc[i].psvc /\ stub.state = svc[i].state
                  /\ stub.objcnt = svc[i].objcnt
                  /\ stub.chks = chks /\ stub.objcache = <<>>
                  /\ stub.left = left - 1 /\ stub.left \in 0..ChunkSize - 1
  <2>1. Taken(svc[i]) = [svc[i] EXCEPT !.left = left - 1]
    BY <1>1 DEF Taken
  <2>2. left - 1 \in Nat /\ left - 1 \in 0..ChunkSize - 1
    BY <1>2
  <2> QED BY <1>1, <1>2, <2>1, <2>2, SetLeft, SMTT(60)
<1>9. Beyond(svc[i], n)
  BY <1>1, <1>2, <1>3, <1>5, <1>6 DEF Beyond
<1>10. ~Beyond(stub, n)
  <2>1. ~(k >= ChunkSize - stub.left)
    BY <1>2, <1>5, <1>8
  <2> QED BY <1>6, <2>1, Zenon DEF Beyond
<1>11. \A m \in Nat : Beyond(stub, m) => Beyond(svc[i], m)
  <2> SUFFICES ASSUME NEW m \in Nat, Beyond(stub, m) PROVE Beyond(svc[i], m)
    OBVIOUS
  <2>1. PlaceOf(m) \in 0..ChunkSize - 1
    BY SpotIn
  <2>2. PlaceOf(m) >= ChunkSize - stub.left /\ ChunkOf(m) = c
    BY <1>3, <1>8 DEF Beyond
  <2>3. PlaceOf(m) >= ChunkSize - left
    BY <1>2, <1>8, <2>1, <2>2
  <2> QED BY <1>1, <1>2, <1>3, <2>2, <2>3, Zenon DEF Beyond
<1>12. \A j \in DOMAIN svc : j # i => ~Beyond(svc[j], n)
  BY <1>4, <1>6, BeyondIsOwned, Zenon
<1>13. \A o \in Objects : life[o] \in Alive => Spot(id[o].index) # Spot(n)
  BY <1>9, BeyondIsSpot, Zenon DEF Placed, Held
<1>14. Owns(i)
  BY DEF Owned
<1>15. /\ stub.left > 0 => stub.chks # <<>>
       /\ \A j \in DOMAIN stub.chks : /\ stub.chks[j] \in DOMAIN chunk
                                      /\ chunk[stub.chks[j]].svcidx = i
  BY <1>1, <1>2, <1>8, <1>14, Zenon DEF Owns
<1>16. DOMAIN stub.objcache = {} /\ Once(stub.objcache)
  BY <1>8 DEF Once
<1> QED BY <1>4, <1>6, <1>7, <1>8, <1>10, <1>11, <1>12, <1>13, <1>15, <1>16, Zenon
        DEF TakenWell

\* The chunks of a service, with one more
LEMMA ChunkAppended ==
    ASSUME NEW q \in Seq(Nat), NEW c \in Nat
    PROVE  LET r == Append(q, c) IN
           /\ r \in Seq(Nat) /\ r # <<>> /\ r[Len(r)] = c
           /\ \A k \in DOMAIN r : r[k] = c \/ (k \in DOMAIN q /\ r[k] = q[k])
OBVIOUS

\* registerObject() with the first place of a new chunk
LEMMA TakeNewChunk ==
    ASSUME ManagerAssumption, Registry, NEW i \in DOMAIN svc, NeedsChunk(svc[i]), chkcache = <<>>
    PROVE  TakenWell(i, Place(svc[i]), Taken(svc[i]))
<1> USE DEF Registry
<1>1. /\ svc[i] \in Stubs /\ svc[i].chks \in Seq(Nat) /\ svc[i].objcache = <<>> /\ svc[i].left = 0
      /\ ChunkSize \in Nat \ {0} /\ chunk \in Seq(Chunks)
  BY StubTypes DEF NeedsChunk, ManagerAssumption, Types, Stored
<1>2. PICK c \in Nat : c = Len(chunk) + 1 /\ c \notin DOMAIN chunk
  BY <1>1
<1>3. PICK n : n = c * ChunkSize + 0 /\ n \in Nat /\ ChunkOf(n) = c /\ PlaceOf(n) = 0
  <2>1. 0 \in 0..ChunkSize - 1
    BY <1>1
  <2> QED BY <2>1, SpotOfSum, Zenon
<1>4. NewChunk = c
  BY <1>2 DEF NewChunk
<1>5. Place(svc[i]) = n
  <2>1. Place(svc[i]) = c * ChunkSize
    BY <1>1, <1>4 DEF Place
  <2>2. c * ChunkSize \in Nat
    BY <1>1
  <2> QED BY <1>3, <2>1, <2>2
<1>6. PICK chks : chks = Append(svc[i].chks, c)
  BY Zenon
<1>7. /\ chks \in Seq(Nat) /\ chks # <<>> /\ chks[Len(chks)] = c
      /\ \A k \in DOMAIN chks : \/ chks[k] = c
                                \/ k \in DOMAIN svc[i].chks /\ chks[k] = svc[i].chks[k]
  <2>1. PICK q \in Seq(Nat) : q = svc[i].chks
    BY <1>1
  <2>2. chks = Append(q, c)
    BY <1>6, <2>1
  <2>3. /\ chks \in Seq(Nat) /\ chks # <<>> /\ chks[Len(chks)] = c
        /\ \A k \in DOMAIN chks : chks[k] = c \/ (k \in DOMAIN q /\ chks[k] = q[k])
    BY <2>2, ChunkAppended, ZenonT(60)
  <2> QED BY <2>1, <2>3, Zenon
<1>8. PICK stub : stub = Taken(svc[i])
  OBVIOUS
<1>9. /\ stub \in Stubs
      /\ stub.psvc = svc[i].psvc /\ stub.state = svc[i].state
      /\ stub.objcnt = svc[i].objcnt
      /\ stub.chks = chks /\ stub.objcache = <<>>
      /\ stub.left = ChunkSize - 1 /\ stub.left \in 0..ChunkSize - 1
  <2>1. stub = [svc[i] EXCEPT !.left = ChunkSize - 1, !.chks = chks]
    BY <1>1, <1>4, <1>6, <1>8 DEF Taken
  <2>2. ChunkSize - 1 \in Nat /\ ChunkSize - 1 \in 0..ChunkSize - 1
    BY <1>1
  <2> QED BY <1>1, <1>7, <2>1, <2>2, Zenon DEF Stubs
<1>10. \A m : Beyond(stub, m) => ChunkOf(m) = c /\ PlaceOf(m) >= 1
  <2>1. ChunkSize - stub.left = 1
    BY <1>1, <1>9
  <2> QED BY <1>7, <1>9, <2>1, Zenon DEF Beyond
<1>11. ~Beyond(stub, n)
  <2>1. ~(PlaceOf(n) >= 1)
    BY <1>3
  <2> QED BY <1>10, <2>1
<1>12. \A j \in DOMAIN svc : ~Beyond(svc[j], n)
  BY <1>2, <1>3, BeyondIsOwned, Zenon
<1>13. \A o \in Objects : life[o] \in Alive => Spot(id[o].index) # Spot(n)
  <2>1. \A o \in Objects : life[o] \in Alive => ChunkOf(id[o].index) \in DOMAIN chunk
    BY DEF Placed, Numbered, Alive
  <2> QED BY <1>2, <1>3, <2>1, BeyondIsSpot, Zenon
<1>14. Owns(i)
  BY DEF Owned
<1>15. \A k \in DOMAIN stub.chks :
          \/ stub.chks[k] = c
          \/ stub.chks[k] \in DOMAIN chunk /\ chunk[stub.chks[k]].svcidx = i
  BY <1>7, <1>9, <1>14, ZenonT(60) DEF Owns
<1>16. DOMAIN stub.objcache = {} /\ Once(stub.objcache)
  BY <1>9 DEF Once
<1> QED BY <1>2, <1>3, <1>5, <1>7, <1>8, <1>9, <1>10, <1>11, <1>12, <1>13, <1>15, <1>16, ZenonT(60)
        DEF TakenWell

\* What registerObject() does to the tables, whether the reactor takes the object or not
Enlists(i, n, stub) ==
    /\ svc' \in Seq(Stubs) /\ DOMAIN svc' = DOMAIN svc
    /\ \A j \in DOMAIN svc : j # i => svc'[j] = svc[j]
    /\ svc'[i].psvc = svc[i].psvc /\ svc'[i].state = svc[i].state
    /\ svc'[i].chks = stub.chks /\ svc'[i].left = stub.left
    /\ chunk' \in Seq(Chunks) /\ DOMAIN chunk \subseteq DOMAIN chunk'
    /\ ChunkOf(n) \in DOMAIN chunk' /\ chunk'[ChunkOf(n)].svcidx = i
    /\ \A d \in DOMAIN chunk : chunk'[d].svcidx = chunk[d].svcidx

\* What holds whether the object is accepted or refused
LEMMA EnlistsKeeps ==
    ASSUME ManagerAssumption, Registry, NEW i \in DOMAIN svc, NEW n, NEW stub,
           TakenWell(i, n, stub), Enlists(i, n, stub), UNCHANGED <<idx, pc, at, asleep>>
    PROVE  /\ Registered' /\ Owned' /\ Acting'
           /\ \A j \in DOMAIN svc, m \in Nat :
                ChunkOf(m) \in DOMAIN chunk /\ Beyond(svc'[j], m) => Beyond(svc[j], m)
           /\ \A j \in DOMAIN svc : ~Beyond(svc'[j], n)
<1> USE DEF Registry
<1>1. Registered'
  <2>1. \A j \in DOMAIN svc : svc'[j].psvc = svc[j].psvc /\ svc'[j].state = svc[j].state
    BY Zenon DEF Enlists
  <2> QED BY <2>1, RegisteredKeeps, Zenon DEF Enlists
<1>2. Acting'
  BY ActingKeeps, Zenon DEF Types, Enlists
<1>3. ASSUME NEW j \in DOMAIN svc PROVE Owns(j)'
  <2>1. CASE j # i
    <3>1. Owns(j) /\ svc'[j] = svc[j]
      BY <2>1, Zenon DEF Owned, Enlists
    <3>2. \A d \in DOMAIN chunk : d \in DOMAIN chunk' /\ chunk'[d].svcidx = chunk[d].svcidx
      BY Zenon DEF Enlists
    <3> QED BY <3>1, <3>2 DEF Owns
  <2>2. CASE j = i
    <3>1. \A k \in DOMAIN stub.chks : /\ stub.chks[k] \in DOMAIN chunk'
                                      /\ chunk'[stub.chks[k]].svcidx = i
      BY Zenon DEF TakenWell, Enlists
    <3>2. stub.left \in 0..ChunkSize - 1 /\ (stub.left > 0 => stub.chks # <<>>)
      BY Zenon DEF TakenWell
    <3>3. svc'[i].chks = stub.chks /\ svc'[i].left = stub.left
      BY Zenon DEF Enlists
    <3> QED BY <2>2, <3>1, <3>2, <3>3 DEF Owns
  <2> QED BY <2>1, <2>2
<1>4. \A m : Beyond(svc'[i], m) = Beyond(stub, m)
  BY Zenon DEF Beyond, Enlists
<1>5. \A j \in DOMAIN svc, m \in Nat :
        ChunkOf(m) \in DOMAIN chunk /\ Beyond(svc'[j], m) => Beyond(svc[j], m)
  BY <1>4, Zenon DEF TakenWell, Enlists
<1>6. \A j \in DOMAIN svc : ~Beyond(svc'[j], n)
  BY <1>4, Zenon DEF TakenWell, Enlists
<1>7. Owned'
  BY <1>3, Zenon DEF Owned, Enlists
<1> QED BY <1>1, <1>2, <1>5, <1>6, <1>7

\* Place p of chunk c is written.
Put(ch, c, p, e) == [ch EXCEPT ![c] = [ch[c] EXCEPT !.place = [ch[c].place EXCEPT ![p] = e]]]

DiffersAt(w, ch, c, p, e) ==
    /\ w \in Seq(Chunks) /\ DOMAIN w = DOMAIN ch
    /\ w[c].place[p] = e
    /\ \A d \in DOMAIN ch :
         /\ w[d].svcidx = ch[d].svcidx
         /\ \A k \in 0..ChunkSize - 1 : <<d, k>> # <<c, p>> => w[d].place[k] = ch[d].place[k]

\* One place of one chunk is written.
LEMMA PutPlace ==
    ASSUME NEW ch \in Seq(Chunks), NEW c \in DOMAIN ch, NEW p \in 0..ChunkSize - 1,
           NEW e \in Places, NEW w, w = Put(ch, c, p, e)
    PROVE  DiffersAt(w, ch, c, p, e)
<1>1. PICK x : x = ch[c]
  OBVIOUS
<1>2. x \in Chunks /\ x.place \in Rows
  <2>1. x \in Chunks
    BY <1>1
  <2> QED BY <2>1 DEF Chunks
<1>3. PICK row : row = [x.place EXCEPT ![p] = e]
  BY Zenon
<1>4. row \in Rows /\ row[p] = e /\ \A k \in 0..ChunkSize - 1 : k # p => row[k] = x.place[k]
  BY <1>2, <1>3, Zenon DEF Rows
<1>5. PICK y : y = [x EXCEPT !.place = row]
  BY Zenon
<1>6. y \in Chunks /\ y.place = row /\ y.svcidx = x.svcidx
  BY <1>2, <1>4, <1>5 DEF Chunks
<1>7. w = [ch EXCEPT ![c] = y]
  BY <1>1, <1>3, <1>5 DEF Put
<1>8. /\ w \in Seq(Chunks) /\ DOMAIN w = DOMAIN ch
      /\ w[c] = y /\ \A d \in DOMAIN ch : d # c => w[d] = ch[d]
  BY <1>6, <1>7
<1>9. ASSUME NEW d \in DOMAIN ch
      PROVE  /\ w[d].svcidx = ch[d].svcidx
             /\ \A k \in 0..ChunkSize - 1 : <<d, k>> # <<c, p>> => w[d].place[k] = ch[d].place[k]
  <2>1. CASE d = c
    <3>1. w[d].svcidx = ch[d].svcidx /\ w[d].place = row /\ ch[d].place = x.place
      BY <1>1, <1>6, <1>8, <2>1, Zenon
    <3> QED BY <1>4, <2>1, <3>1
  <2>2. CASE d # c
    BY <1>8, <2>2, Zenon
  <2> QED BY <2>1, <2>2
<1> QED BY <1>4, <1>6, <1>8, <1>9, Zenon DEF DiffersAt

\* The tables when the reactor refuses an object
Refuses(i, n, stub) ==
    /\ Enlists(i, n, stub) /\ UNCHANGED <<id, life>>
    /\ svc'[i].objcnt = svc[i].objcnt /\ svc'[i].objcache = Cons(n, stub.objcache)
    /\ \A d \in DOMAIN chunk : chunk'[d].place = chunk[d].place

\* When the reactor refuses the object its place is free again.
LEMMA RefusedKeeps ==
    ASSUME ManagerAssumption, Registry, NEW i \in DOMAIN svc, NEW n, NEW stub,
           TakenWell(i, n, stub), Refuses(i, n, stub), UNCHANGED <<idx, pc, at, asleep>>
    PROVE  Counted' /\ Cached' /\ Placed'
<1> USE DEF Registry
<1>1. Enlists(i, n, stub) /\ UNCHANGED <<id, life>>
  BY Zenon DEF Refuses
<1>2. /\ \A j \in DOMAIN svc, m \in Nat :
           ChunkOf(m) \in DOMAIN chunk /\ Beyond(svc'[j], m) => Beyond(svc[j], m)
      /\ \A j \in DOMAIN svc : ~Beyond(svc'[j], n)
  BY <1>1, EnlistsKeeps, Zenon
<1>3. \A o \in Objects : life[o] # "new" => ChunkOf(id[o].index) \in DOMAIN chunk
  BY Zenon DEF Placed, Numbered
<1>4. \A o \in Objects : id[o].index \in Nat
  BY DEF Types, Stored, Ids
<1>5. \A j : Members(j)' = Members(j)
  BY <1>1, <1>3, Zenon DEF Members, Alive, Enlists
<1>6. \A j \in DOMAIN svc : svc'[j].objcnt = svc[j].objcnt /\ svc'[j].state = svc[j].state
  BY <1>1, Zenon DEF Enlists, Refuses
<1>7. Counted'
  BY <1>1, <1>5, <1>6, ZenonT(60) DEF Counted, Counts, Enlists
<1>8. Placed'
  <2>1. \A o \in Objects : life[o] \in Alive /\ Held(o) => Held(o)'
    BY <1>1, <1>2, <1>3, <1>4, ZenonT(60) DEF Held, Alive, Enlists
  <2>2. \A m : ChunkOf(m) \in DOMAIN chunk => There(m)' = There(m)
    BY Zenon DEF There, Refuses
  <2>3. \A o \in Objects : Numbered(o) => Numbered(o)'
    BY <1>1, <2>2, Zenon DEF Numbered, Enlists
  <2> QED BY <1>1, <2>1, <2>3, Zenon DEF Placed
<1>9. \A j \in DOMAIN svc, m \in Nat : Free(j, m) => Free(j, m)'
  BY <1>1, <1>2, Zenon DEF Free, Enlists
<1>10. ASSUME NEW j \in DOMAIN svc, j # i PROVE Caches(j)'
  <2>1. svc'[j] = svc[j] /\ Caches(j)
    BY <1>1, <1>10, Zenon DEF Enlists, Cached
  <2>2. \A k \in DOMAIN svc[j].objcache : svc[j].objcache[k] \in Nat
    BY StubTypes
  <2> QED BY <1>9, <2>1, <2>2, Zenon DEF Caches
<1>11. Caches(i)'
  <2>1. PICK q : q = stub.objcache
    OBVIOUS
  <2>2. q \in Seq(Nat) /\ n \in Nat
    BY <2>1 DEF TakenWell, Stubs
  <2>3. Once(q) /\ \A k \in DOMAIN q : Free(i, q[k]) /\ Spot(q[k]) # Spot(n)
    BY <2>1, Zenon DEF TakenWell
  <2>4. PICK r : r = Cons(n, q)
    OBVIOUS
  <2>5. Once(r) /\ \A k \in DOMAIN r : r[k] = n \/ \E j \in DOMAIN q : r[k] = q[j]
    <3>1. \A k \in DOMAIN q : Spot(q[k]) # Spot(n)
      BY <2>3, Zenon
    <3>2. Once(q)
      BY <2>3, Zenon
    <3>3. Once(r)
      BY <2>2, <2>4, <3>1, <3>2, OnceCons, Zenon
    <3>4. \A k \in DOMAIN r : r[k] = n \/ \E j \in DOMAIN q : r[k] = q[j]
      <4>1. \A k \in DOMAIN r : r[k] = n \/ (k - 1 \in DOMAIN q /\ r[k] = q[k - 1])
        BY <2>2, <2>4 DEF Cons
      <4> QED BY <4>1, Zenon
    <3> QED BY <3>3, <3>4
  <2>6. Free(i, n)'
    BY <1>1, <1>2, Zenon DEF Free, TakenWell, Enlists
  <2>7. \A k \in DOMAIN q : q[k] \in Nat
    BY <2>2
  <2>8. \A k \in DOMAIN r : Free(i, r[k])'
    BY <1>9, <2>3, <2>5, <2>6, <2>7, Zenon
  <2> QED BY <2>1, <2>4, <2>5, <2>8, Zenon DEF Caches, Refuses
<1>12. Cached'
  BY <1>1, <1>10, <1>11, Zenon DEF Cached, Enlists
<1> QED BY <1>7, <1>8, <1>12

\* The tables when an object is registered
Enters(i, n, stub, o, u) ==
    /\ Enlists(i, n, stub) /\ life[o] = "new" /\ svc[i].state # "stopped"
    /\ life' = [life EXCEPT ![o] = "live"]
    /\ id' = [id EXCEPT ![o] = [index |-> n, unique |-> u]]
    /\ svc'[i].objcnt = svc[i].objcnt + 1 /\ svc'[i].objcache = stub.objcache
    /\ There(n)'.obj = o /\ There(n)'.unique = u
    /\ \A d \in DOMAIN chunk, k \in 0..ChunkSize - 1 :
         /\ <<d, k>> # Spot(n) => chunk'[d].place[k] = chunk[d].place[k]
         /\ chunk'[d].place[k].unique = chunk[d].place[k].unique

\* When the reactor takes the object it has the place, and the unique found there.
LEMMA EnteredKeeps ==
    ASSUME ManagerAssumption, Cardinals, Registry, NEW i \in DOMAIN svc, NEW n, NEW stub,
           NEW o \in Objects, NEW u \in Nat,
           TakenWell(i, n, stub), Enters(i, n, stub, o, u), UNCHANGED <<idx, pc, at, asleep>>
    PROVE  Counted' /\ Cached' /\ Placed'
<1> USE DEF Registry
<1>1. Enlists(i, n, stub) /\ life[o] = "new"
  BY Zenon DEF Enters
<1>2. /\ \A j \in DOMAIN svc, m \in Nat :
           ChunkOf(m) \in DOMAIN chunk /\ Beyond(svc'[j], m) => Beyond(svc[j], m)
      /\ \A j \in DOMAIN svc : ~Beyond(svc'[j], n)
  BY <1>1, EnlistsKeeps, Zenon
<1>3. \A p \in Objects : life[p] # "new" => ChunkOf(id[p].index) \in DOMAIN chunk
  BY Zenon DEF Placed, Numbered
<1>4. \A p \in Objects : id[p].index \in Nat
  BY SMTT(60) DEF Types, Stored, Ids
<1>5. /\ life'[o] = "live" /\ id'[o].index = n /\ id'[o].unique = u
      /\ \A p \in Objects : p # o => life'[p] = life[p] /\ id'[p] = id[p]
  BY DEF Types, Stored, Enters
<1>6. "live" \in Alive /\ "new" \notin Alive
  BY DEF Alive
<1>7. Members(i)' = Members(i) \union {o} /\ o \notin Members(i)
      /\ \A j : j # i => Members(j)' = Members(j)
  <2>1. \A p \in Objects : p # o /\ life[p] \in Alive =>
          chunk'[ChunkOf(id[p].index)].svcidx = chunk[ChunkOf(id[p].index)].svcidx
    BY <1>1, <1>3, <1>6, Zenon DEF Enlists
  <2>2. chunk'[ChunkOf(id'[o].index)].svcidx = i
    BY <1>1, <1>5, Zenon DEF Enlists
  <2>3. \A j, p : p \in Members(j)' <=> p \in Members(j) \/ (p = o /\ j = i)
    <3> SUFFICES ASSUME NEW j, NEW p
                 PROVE  p \in Members(j)' <=> p \in Members(j) \/ (p = o /\ j = i)
      OBVIOUS
    <3>1. CASE p = o
      <4>1. o \in Members(j)' <=> j = i
        BY <1>5, <1>6, <2>2, Zenon DEF Members
      <4>2. o \notin Members(j)
        BY <1>1, <1>6, Zenon DEF Members
      <4> QED BY <3>1, <4>1, <4>2, Zenon
    <3>2. CASE p # o
      BY <1>5, <2>1, <3>2, Zenon DEF Members
    <3> QED BY <3>1, <3>2
  <2>4. o \notin Members(i)
    BY <1>1, <1>6, Zenon DEF Members
  <2>5. Members(i)' = Members(i) \union {o}
    BY <2>3, Zenon
  <2>6. \A j : j # i => Members(j)' = Members(j)
    <3> SUFFICES ASSUME NEW j, j # i PROVE Members(j)' = Members(j)
      OBVIOUS
    <3>1. \A p : p \in Members(j)' <=> p \in Members(j)
      BY <2>3, Zenon
    <3> QED BY <3>1, Zenon
  <2> QED BY <2>4, <2>5, <2>6
<1>8. Counts(i)'
  <2>1. Counts(i) /\ svc[i].objcnt \in Nat
    BY StubTypes, Zenon DEF Counted
  <2>2. IsFiniteSet(Members(i)') /\ Cardinality(Members(i)') = Cardinality(Members(i)) + 1
    <3>1. IsFiniteSet(Members(i))
      BY <2>1, Zenon DEF Counts
    <3>2. IsFiniteSet(Members(i) \union {o})
          /\ Cardinality(Members(i) \union {o}) = Cardinality(Members(i)) + 1
      BY <1>7, <3>1, Zenon DEF Cardinals
    <3> QED BY <1>7, <3>2, Zenon
  <2>3. svc'[i].state # "stopped"
    BY <1>1, ZenonT(60) DEF Enlists, Enters
  <2>4. svc'[i].objcnt = Cardinality(Members(i)')
    BY <2>1, <2>2 DEF Counts, Enters
  <2> QED BY <2>2, <2>3, <2>4, Zenon DEF Counts
<1>9. ASSUME NEW j \in DOMAIN svc, j # i PROVE Counts(j)'
  <2>1. svc'[j] = svc[j] /\ Members(j)' = Members(j) /\ Counts(j)
    BY <1>1, <1>7, <1>9, Zenon DEF Counted, Enlists
  <2> QED BY <2>1, Zenon DEF Counts
<1>10. Counted'
  BY <1>1, <1>8, <1>9, Zenon DEF Counted, Enlists
<1>11. \A j \in DOMAIN svc, m \in Nat : Free(j, m) /\ Spot(n) # Spot(m) => Free(j, m)'
  BY <1>1, <1>2, <1>5, ZenonT(60) DEF Free, Enlists
<1>12. ASSUME NEW j \in DOMAIN svc PROVE Caches(j)'
  <2>1. CASE j = i
    <3>1. PICK q : q = stub.objcache
      BY ZenonT(60)
    <3>2. \A k \in DOMAIN q : q[k] \in Nat
      BY <3>1, SMTT(60) DEF TakenWell, Stubs
    <3>3. Once(q) /\ \A k \in DOMAIN q : Free(i, q[k]) /\ Spot(q[k]) # Spot(n)
      BY <3>1, Zenon DEF TakenWell
    <3> QED BY <1>11, <2>1, <3>1, <3>2, <3>3, Zenon DEF Caches, Enters
  <2>2. CASE j # i
    <3>1. PICK q : q = svc[j].objcache
      OBVIOUS
    <3>2. svc'[j].objcache = q /\ Once(q) /\ \A k \in DOMAIN q : Free(j, q[k])
      BY <1>1, <2>2, <3>1, Zenon DEF Enlists, Cached, Caches
    <3>3. \A k \in DOMAIN q : q[k] \in Nat
      BY <3>1, StubTypes
    <3>4. \A m : Free(j, m) => Spot(n) # Spot(m)
      <4> SUFFICES ASSUME NEW m, Free(j, m), Spot(n) = Spot(m) PROVE FALSE
        OBVIOUS
      <4>1. ChunkOf(n) = ChunkOf(m)
        BY BeyondIsSpot, Zenon
      <4>2. chunk'[ChunkOf(m)].svcidx = j
        BY <1>1, Zenon DEF Free, Enlists
      <4>3. chunk'[ChunkOf(n)].svcidx = i
        BY <1>1, Zenon DEF Enlists
      <4> QED BY <2>2, <4>1, <4>2, <4>3, Zenon
    <3>5. \A k \in DOMAIN q : Free(j, q[k])'
      <4> SUFFICES ASSUME NEW k \in DOMAIN q PROVE Free(j, q[k])'
        OBVIOUS
      <4>1. PICK m : m = q[k]
        OBVIOUS
      <4>2. m \in Nat /\ Free(j, m) /\ Spot(n) # Spot(m)
        BY <3>2, <3>4, <3>3, <4>1, Zenon
      <4>3. Free(j, m)'
        BY <1>11, <4>2, Zenon
      <4> QED BY <4>1, <4>3, Zenon
    <3> QED BY <3>2, <3>5, Zenon DEF Caches
  <2> QED BY <2>1, <2>2
<1>13. Cached'
  BY <1>1, <1>12, Zenon DEF Cached, Enlists
<1>14. Held(o)'
  <2>1. chunk'[ChunkOf(n)].svcidx \in DOMAIN svc'
    BY <1>1, Zenon DEF Enlists
  <2>2. \A p \in Objects : p # o /\ life'[p] \in Alive => Spot(id'[p].index) # Spot(n)
    <3>1. \A p \in Objects : life[p] \in Alive => Spot(id[p].index) # Spot(n)
      BY Zenon DEF TakenWell
    <3> QED BY <1>5, <3>1, Zenon
  <2>3. \A j \in DOMAIN svc' : ~Beyond(svc'[j], n)
    BY <1>1, <1>2, Zenon DEF Enlists
  <2> QED BY <1>5, <2>1, <2>2, <2>3, Zenon DEF Held
<1>15. ASSUME NEW p \in Objects, p # o, life[p] \in Alive PROVE Held(p)'
  <2>1. Held(p) /\ ChunkOf(id[p].index) \in DOMAIN chunk /\ Spot(id[p].index) # Spot(n)
    BY <1>3, <1>6, <1>15, Zenon DEF Placed, TakenWell
  <2>2. \A j \in DOMAIN svc : ~Beyond(svc'[j], id[p].index)
    BY <1>2, <1>4, <2>1, Zenon DEF Held
  <2>3. chunk'[ChunkOf(id[p].index)].svcidx = chunk[ChunkOf(id[p].index)].svcidx
    BY <1>1, <2>1, Zenon DEF Enlists
  <2>4. \A r \in Objects : r # p /\ life'[r] \in Alive => Spot(id'[r].index) # Spot(id[p].index)
    BY <1>5, <2>1, Zenon DEF Held
  <2> QED BY <1>1, <1>5, <1>15, <2>1, <2>2, <2>3, <2>4, ZenonT(60) DEF Held, Enlists
<1>16. Numbered(o)'
  <2>1. /\ There(n)' = chunk'[ChunkOf(n)].place[PlaceOf(n)]
        /\ There(n)'.obj = o /\ There(n)'.unique = u
    BY Zenon DEF There, Enters
  <2>2. There(id[o].index)' = There(n)'
    BY <1>5, Zenon DEF There
  <2>3. ChunkOf(n) \in DOMAIN chunk'
    BY <1>1, Zenon DEF Enlists
  <2> QED BY <1>5, <2>1, <2>2, <2>3, Zenon DEF Numbered
<1>17. ASSUME NEW p \in Objects, p # o PROVE Numbered(p)'
  <2>1. PlaceOf(id[p].index) \in 0..ChunkSize - 1
    BY <1>4, SpotIn, Zenon
  <2>2. CASE life[p] = "new"
    BY <1>5, <1>17, <2>2, Zenon DEF Numbered, Placed
  <2>3. CASE life[p] # "new"
    <3>1. ChunkOf(id[p].index) \in DOMAIN chunk /\ Numbered(p)
      BY <1>3, <2>3, Zenon DEF Placed
    <3>2. PICK m, d, k : m = id[p].index /\ d = ChunkOf(m) /\ k = PlaceOf(m)
      OBVIOUS
    <3>3. There(id[p].index)' = chunk'[d].place[k] /\ There(id[p].index) = chunk[d].place[k]
      BY <1>5, <1>17, <3>2, Zenon DEF There
    <3>4. There(id[p].index)'.unique = There(id[p].index).unique
      <4>1. d \in DOMAIN chunk /\ k \in 0..ChunkSize - 1
        BY <2>1, <3>1, <3>2, Zenon
      <4>2. chunk'[d].place[k].unique = chunk[d].place[k].unique
        BY <4>1, Zenon DEF Enters
      <4> QED BY <3>3, <4>2, Zenon
    <3>5. ASSUME life[p] \in {"live", "closing"}
          PROVE  There(id[p].index)' = There(id[p].index)
      <4>1. Spot(id[p].index) # Spot(n)
        BY <3>5, Zenon DEF TakenWell, Alive
      <4>2. <<d, k>> # Spot(n)
        BY <3>2, <4>1, Zenon DEF Spot
      <4> QED BY <2>1, <3>1, <3>2, <3>3, <4>2, ZenonT(60) DEF Enters
    <3> QED BY <1>1, <1>5, <1>17, <2>3, <3>1, <3>4, <3>5, Zenon DEF Numbered, Enlists
  <2> QED BY <2>2, <2>3
<1>18. Placed'
  BY <1>5, <1>14, <1>15, <1>16, <1>17, ZenonT(60) DEF Placed
<1> QED BY <1>10, <1>13, <1>18

\* Manager::registerObject(), whichever place it finds and whatever the reactor says
LEMMA registerObjectKeeps ==
    ASSUME ManagerAssumption, Cardinals, Reuse = {}, Registry, NEW s \in Services,
           NEW o \in Objects, NEW scheduled \in BOOLEAN, registerObject(s, o, scheduled)
    PROVE  Registry'
<1> USE DEF Registry
<1>1. PICK i : i = idx[s]
  OBVIOUS
<1>2. PICK stub, n : stub = Taken(svc[i]) /\ n = Place(svc[i])
  OBVIOUS
<1>3. PICK c, p : c = ChunkOf(n) /\ p = PlaceOf(n)
  OBVIOUS
<1>4. PICK ch : ch = IF c \in DOMAIN chunk THEN [chunk EXCEPT ![c].svcidx = i]
                     ELSE Append(chunk, Full(i))
  BY ZenonT(60)
<1>5. /\ i # 0 /\ life[o] = "new" /\ svc[i].psvc = s /\ svc[i].state = "running"
      /\ NeedsChunk(svc[i]) => chkcache = <<>>
      /\ chkcache' = chkcache
      /\ \/ /\ svc' = [svc EXCEPT ![i] = [stub EXCEPT !.objcnt = @ + 1]]
            /\ chunk' = [ch EXCEPT ![c].place[p].obj = o, ![c].place[p].visits = TRUE]
            /\ id' = [id EXCEPT ![o] = [index |-> n, unique |-> ch[c].place[p].unique]]
            /\ life' = [life EXCEPT ![o] = "live"]
         \/ /\ svc' = [svc EXCEPT ![i] = [stub EXCEPT !.objcache = Cons(n, @)]]
            /\ chunk' = ch
            /\ UNCHANGED <<id, life>>
      /\ UNCHANGED <<state, idx, svccache, pc, at, asleep>>
  BY <1>1, <1>2, <1>3, <1>4, Zenon DEF registerObject, threads, Joined, Cons
<1>6. i \in DOMAIN svc
  BY <1>1, <1>5, Zenon DEF Registered
<1>7. TakenWell(i, n, stub)
  <2>1. svc[i].left \in Nat
    BY <1>6, StubTypes, Zenon
  <2>2. CASE svc[i].objcache # <<>>
    BY <1>2, <1>6, <2>2, TakeFromCache
  <2>3. CASE svc[i].objcache = <<>> /\ svc[i].left > 0
    BY <1>2, <1>6, <2>3, TakeFromLast, ZenonT(60)
  <2>4. CASE NeedsChunk(svc[i])
    BY <1>2, <1>5, <1>6, <2>4, TakeNewChunk
  <2> QED BY <2>1, <2>2, <2>3, <2>4 DEF NeedsChunk
<1>8. /\ chunk \in Seq(Chunks) /\ svc \in Seq(Stubs) /\ i \in Nat /\ n \in Nat
      /\ p \in 0..ChunkSize - 1 /\ stub \in Stubs
  <2>1. n \in Nat /\ stub \in Stubs
    BY <1>7, Zenon DEF TakenWell
  <2>2. p \in 0..ChunkSize - 1
    BY <1>3, <2>1, SpotIn, Zenon
  <2>3. chunk \in Seq(Chunks) /\ svc \in Seq(Stubs)
    BY DEF Types, Stored
  <2>4. i \in Nat
    BY <1>6, <2>3
  <2> QED BY <2>1, <2>2, <2>3, <2>4
<1>9. /\ ch \in Seq(Chunks) /\ DOMAIN chunk \subseteq DOMAIN ch /\ c \in DOMAIN ch
      /\ ch[c].svcidx = i
      /\ \A d \in DOMAIN chunk : ch[d].svcidx = chunk[d].svcidx /\ ch[d].place = chunk[d].place
  <2>1. CASE c \in DOMAIN chunk
    <3>1. chunk[c].svcidx = i
      <4>1. Len(chunk) + 1 \notin DOMAIN chunk
        BY <1>8
      <4> QED BY <1>3, <1>7, <2>1, <4>1, Zenon DEF TakenWell
    <3>2. PICK x, y : x = chunk[c] /\ y = [x EXCEPT !.svcidx = i]
      BY Zenon
    <3>3. x \in Chunks
      BY <1>8, <2>1, <3>2
    <3>4. y \in Chunks /\ y.svcidx = i /\ y.place = x.place
      BY <1>8, <3>2, <3>3, SetOwner
    <3>5. ch = [chunk EXCEPT ![c] = y]
      BY <1>4, <2>1, <3>2
    <3>6. /\ ch \in Seq(Chunks) /\ DOMAIN ch = DOMAIN chunk
          /\ ch[c] = y /\ \A d \in DOMAIN chunk : d # c => ch[d] = chunk[d]
      BY <1>8, <2>1, <3>4, <3>5
    <3> QED BY <2>1, <3>1, <3>2, <3>4, <3>6, Zenon
  <2>2. CASE c \notin DOMAIN chunk
    <3>1. c = Len(chunk) + 1
      BY <1>3, <1>7, <2>2, Zenon DEF TakenWell
    <3>2. Full(i) \in Chunks /\ Full(i).svcidx = i
      BY <1>8 DEF Full, Chunks, Rows, Vacant, Places
    <3>3. ch = Append(chunk, Full(i))
      BY <1>4, <2>2
    <3> QED BY <1>8, <3>1, <3>2, <3>3
  <2> QED BY <2>1, <2>2
<1>10. CASE /\ svc' = [svc EXCEPT ![i] = [stub EXCEPT !.objcache = Cons(n, @)]]
            /\ chunk' = ch
            /\ UNCHANGED <<id, life>>
  <2>1. PICK x : x = [stub EXCEPT !.objcache = Cons(n, @)]
    BY Zenon
  <2>2. Cons(n, stub.objcache) \in Seq(Nat)
    BY <1>8 DEF Cons, Stubs
  <2>3. /\ x \in Stubs /\ x.objcache = Cons(n, stub.objcache) /\ x.objcnt = stub.objcnt
        /\ x.psvc = stub.psvc /\ x.state = stub.state
        /\ x.chks = stub.chks /\ x.left = stub.left
    BY <1>8, <2>1, <2>2, Zenon DEF Stubs
  <2>4. /\ svc' \in Seq(Stubs) /\ DOMAIN svc' = DOMAIN svc /\ svc'[i] = x
        /\ \A j \in DOMAIN svc : j # i => svc'[j] = svc[j]
    BY <1>6, <1>8, <1>10, <2>1, <2>3
  <2>5. Enlists(i, n, stub)
    BY <1>3, <1>7, <1>9, <1>10, <2>3, <2>4, Zenon DEF Enlists, TakenWell
  <2>6. Refuses(i, n, stub)
    BY <1>7, <1>9, <1>10, <2>3, <2>4, <2>5, Zenon DEF Refuses, TakenWell
  <2>7. Registered' /\ Owned' /\ Acting'
    BY <1>5, <1>6, <1>7, <2>5, EnlistsKeeps, Zenon
  <2>8. Counted' /\ Cached' /\ Placed'
    BY <1>5, <1>6, <1>7, <2>6, RefusedKeeps, Zenon
  <2>9. Stored'
    BY <1>5, <1>9, <1>10, <2>4, Zenon DEF Types, Stored
  <2> QED BY <2>7, <2>8, <2>9 DEF Types
<1>11. CASE /\ svc' = [svc EXCEPT ![i] = [stub EXCEPT !.objcnt = @ + 1]]
            /\ chunk' = [ch EXCEPT ![c].place[p].obj = o, ![c].place[p].visits = TRUE]
            /\ id' = [id EXCEPT ![o] = [index |-> n, unique |-> ch[c].place[p].unique]]
            /\ life' = [life EXCEPT ![o] = "live"]
  <2>1. PICK x : x = [stub EXCEPT !.objcnt = @ + 1]
    BY Zenon
  <2>2. stub.objcnt + 1 \in Nat
    BY <1>8 DEF Stubs
  <2>3. /\ x \in Stubs /\ x.objcache = stub.objcache /\ x.objcnt = stub.objcnt + 1
        /\ x.psvc = stub.psvc /\ x.state = stub.state
        /\ x.chks = stub.chks /\ x.left = stub.left
    BY <1>8, <2>1, <2>2, Zenon DEF Stubs
  <2>4. /\ svc' \in Seq(Stubs) /\ DOMAIN svc' = DOMAIN svc /\ svc'[i] = x
        /\ \A j \in DOMAIN svc : j # i => svc'[j] = svc[j]
    BY <1>6, <1>8, <1>11, <2>1, <2>3
  <2>5. PICK e : e = ch[c].place[p]
    OBVIOUS
  <2>6. e \in Places /\ ch[c] \in Chunks /\ ch[c].place \in Rows
    <3>1. ch[c] \in Chunks
      BY <1>9
    <3>2. ch[c].place \in Rows
      BY <3>1 DEF Chunks
    <3> QED BY <1>8, <2>5, <3>1, <3>2 DEF Rows
  <2>7. PICK e0, e1 : e0 = [e EXCEPT !.obj = o] /\ e1 = [e0 EXCEPT !.visits = TRUE]
    BY Zenon
  <2>8. e0 \in Places /\ e1 \in Places /\ e1.obj = o /\ e1.unique = e.unique
    BY <2>6, <2>7, Zenon DEF Places
  <2>9. PICK w : w = [ch EXCEPT ![c].place[p].obj = o]
    BY Zenon
  <2>10. /\ chunk' \in Seq(Chunks) /\ DOMAIN chunk' = DOMAIN ch
         /\ chunk'[c].place[p] = e1
         /\ \A d \in DOMAIN ch :
              /\ chunk'[d].svcidx = ch[d].svcidx
              /\ \A k \in 0..ChunkSize - 1 :
                   <<d, k>> # <<c, p>> => chunk'[d].place[k] = ch[d].place[k]
    <3>1. w = Put(ch, c, p, e0)
      BY <2>5, <2>7, <2>9 DEF Put
    <3>2. DiffersAt(w, ch, c, p, e0)
      BY <1>8, <1>9, <2>8, <3>1, PutPlace, Zenon
    <3>3. w \in Seq(Chunks) /\ c \in DOMAIN w /\ w[c].place[p] = e0
      BY <1>9, <3>2, Zenon DEF DiffersAt
    <3>4. chunk' = [w EXCEPT ![c].place[p].visits = TRUE]
      BY <1>11, <2>9
    <3>5. chunk' = Put(w, c, p, e1)
      BY <2>7, <3>3, <3>4 DEF Put
    <3>6. DiffersAt(chunk', w, c, p, e1)
      BY <1>8, <2>8, <3>3, <3>5, PutPlace, Zenon
    <3> QED BY <3>2, <3>6, ZenonT(60) DEF DiffersAt
  <2>11. Enlists(i, n, stub)
    BY <1>3, <1>7, <1>9, <2>3, <2>4, <2>10, ZenonT(60) DEF Enlists, TakenWell
  <2>12. PICK u : u = e.unique
    OBVIOUS
  <2>13. u \in Nat
    BY <2>6, <2>12 DEF Places
  <2>14. Spot(n) = <<c, p>>
    BY <1>3, Zenon DEF Spot
  <2>15. There(n)'.obj = o /\ There(n)'.unique = u
    BY <1>3, <2>8, <2>10, <2>12, Zenon DEF There
  <2>16. ASSUME NEW d \in DOMAIN chunk, NEW k \in 0..ChunkSize - 1
         PROVE  /\ <<d, k>> # Spot(n) => chunk'[d].place[k] = chunk[d].place[k]
                /\ chunk'[d].place[k].unique = chunk[d].place[k].unique
    <3>1. d \in DOMAIN ch /\ ch[d].place[k] = chunk[d].place[k]
      BY <1>9, Zenon
    <3>2. CASE <<d, k>> # <<c, p>>
      BY <2>10, <2>14, <3>1, <3>2, Zenon
    <3>3. CASE d = c /\ k = p
      BY <2>5, <2>8, <2>10, <2>14, <3>1, <3>3, Zenon
    <3> QED BY <3>2, <3>3
  <2>17. Enters(i, n, stub, o, u)
    <3>1. svc'[i].objcnt = svc[i].objcnt + 1 /\ svc'[i].objcache = stub.objcache
      BY <1>7, <2>3, <2>4, ZenonT(60) DEF TakenWell
    <3>2. id' = [id EXCEPT ![o] = [index |-> n, unique |-> u]]
      BY <1>11, <2>5, <2>12, SMTT(60)
    <3>3. svc[i].state # "stopped"
      BY <1>5
    <3> QED BY <1>5, <1>11, <2>11, <2>15, <2>16, <3>1, <3>2, <3>3, Zenon DEF Enters
  <2>18. Registered' /\ Owned' /\ Acting'
    BY <1>5, <1>6, <1>7, <2>11, EnlistsKeeps, Zenon
  <2>19. Counted' /\ Cached' /\ Placed'
    BY <1>5, <1>6, <1>7, <2>13, <2>17, EnteredKeeps, Zenon
  <2>20. Stored'
    <3>1. life' \in [Objects -> Lives]
      BY <1>11 DEF Types, Stored, Lives, Alive
    <3>2. id' \in [Objects -> Ids]
      BY <1>8, <1>11, <2>5, <2>12, <2>13 DEF Types, Stored, Ids
    <3> QED BY <1>5, <2>4, <2>10, <3>1, <3>2, ZenonT(60) DEF Types, Stored
  <2> QED BY <2>18, <2>19, <2>20 DEF Types
<1> QED BY <1>5, <1>10, <1>11

-----------------------------------------------------------------------------
(***************************************************************************)
(* Objects that leave                                                      *)
(***************************************************************************)

\* The place of an object that is alive
LEMMA PlaceOfAlive ==
    ASSUME ManagerAssumption, Registry, NEW o \in Objects, life[o] # "new"
    PROVE  /\ chunk \in Seq(Chunks) /\ id[o].index \in Nat
           /\ ChunkOf(id[o].index) \in DOMAIN chunk /\ PlaceOf(id[o].index) \in 0..ChunkSize - 1
           /\ There(id[o].index) \in Places
<1> USE DEF Registry
<1>1. chunk \in Seq(Chunks) /\ id[o].index \in Nat
  BY DEF Types, Stored, Ids
<1>2. ChunkOf(id[o].index) \in DOMAIN chunk
  BY Zenon DEF Placed, Numbered
<1>3. PlaceOf(id[o].index) \in 0..ChunkSize - 1
  BY <1>1, SpotIn, Zenon
<1>4. PICK x : x = chunk[ChunkOf(id[o].index)]
  OBVIOUS
<1>5. x \in Chunks
  BY <1>1, <1>2, <1>4
<1>6. x.place \in Rows
  BY <1>5 DEF Chunks
<1>7. x.place[PlaceOf(id[o].index)] \in Places
  BY <1>3, <1>6, SMTT(60) DEF Rows
<1> QED BY <1>1, <1>2, <1>3, <1>4, <1>7, Zenon DEF There

\* An object that is alive changes its place and stays alive.
LEMMA WritePlaceKeeps ==
    ASSUME ManagerAssumption, Registry, NEW o \in Objects, NEW l \in Alive, NEW e \in Places,
           life[o] \in {"live", "closing"}, life' = [life EXCEPT ![o] = l],
           chunk' = Put(chunk, ChunkOf(id[o].index), PlaceOf(id[o].index), e),
           \/ l # "leaving" /\ e.obj = o /\ e.unique = There(id[o].index).unique
           \/ l = "leaving" /\ There(id[o].index).unique < e.unique,
           UNCHANGED <<state, idx, svc, svccache, chkcache, id, pc, at, asleep>>
    PROVE  Registry'
<1> USE DEF Registry
<1>1. /\ chunk \in Seq(Chunks) /\ ChunkOf(id[o].index) \in DOMAIN chunk
      /\ PlaceOf(id[o].index) \in 0..ChunkSize - 1
  BY PlaceOfAlive, ZenonT(60)
<1>2. PICK n : n = id[o].index
  OBVIOUS
<1>3. DiffersAt(chunk', chunk, ChunkOf(n), PlaceOf(n), e)
  BY <1>1, <1>2, PutPlace, Zenon
<1>4. /\ chunk' \in Seq(Chunks) /\ DOMAIN chunk' = DOMAIN chunk
      /\ \A d \in DOMAIN chunk : chunk'[d].svcidx = chunk[d].svcidx
      /\ There(n)' = e
  BY <1>3, ZenonT(60) DEF DiffersAt, There
<1>5. /\ life'[o] = l /\ \A p \in Objects : p # o => life'[p] = life[p]
      /\ life' \in [Objects -> Lives]
  BY ZenonT(60) DEF Types, Stored, Lives
<1>6. \A p \in Objects : life'[p] \in Alive <=> life[p] \in Alive
  BY <1>5, ZenonT(60) DEF Alive
<1>7. \A p \in Objects : life[p] # "new" => ChunkOf(id[p].index) \in DOMAIN chunk
  BY Zenon DEF Placed, Numbered
<1>8. "new" \notin Alive
  BY DEF Alive
<1>9. \A j : Members(j)' = Members(j)
  <2>1. \A p \in Objects : life[p] \in Alive =>
          chunk'[ChunkOf(id[p].index)].svcidx = chunk[ChunkOf(id[p].index)].svcidx
    BY <1>4, <1>7, <1>8, ZenonT(60)
  <2> QED BY <1>6, <2>1, Zenon DEF Members
<1>10. ASSUME NEW j \in DOMAIN svc PROVE Counts(j)' /\ Owns(j)' /\ Caches(j)'
  <2>1. Counts(j)'
    BY <1>9, ZenonT(60) DEF Counted, Counts
  <2>2. Owns(j)'
    BY <1>4, ZenonT(60) DEF Owned, Owns
  <2>3. \A m : Free(j, m) => Free(j, m)'
    BY <1>4, <1>6, Zenon DEF Free
  <2>4. Caches(j)'
    BY <2>3, Zenon DEF Cached, Caches
  <2> QED BY <2>1, <2>2, <2>4
<1>11. \A p \in Objects : life'[p] \in Alive => Held(p)'
  <2>1. \A p \in Objects : life[p] \in Alive => Held(p) /\ ChunkOf(id[p].index) \in DOMAIN chunk
    BY <1>7, <1>8, Zenon DEF Placed
  <2>2. \A p \in Objects : Held(p) /\ ChunkOf(id[p].index) \in DOMAIN chunk => Held(p)'
    BY <1>4, <1>6, ZenonT(60) DEF Held
  <2> QED BY <1>6, <2>1, <2>2, Zenon
<1>12. Numbered(o)'
  <2>1. There(id[o].index)' = e
    BY <1>2, <1>4, ZenonT(60) DEF There
  <2>2. There(id[o].index).unique = id[o].unique /\ l # "new" /\ l # "gone"
    BY DEF Placed, Numbered, Alive
  <2>3. CASE l # "leaving"
    BY <1>1, <1>4, <1>5, <2>1, <2>2, <2>3, ZenonT(60) DEF Numbered
  <2>4. CASE l = "leaving"
    <3>1. id[o].unique < e.unique
      <4>1. id[o].unique \in Nat /\ e.unique \in Nat
        BY ZenonT(60) DEF Types, Stored, Ids, Places
      <4> QED BY <2>2, <2>4, <4>1
    <3> QED BY <1>1, <1>4, <1>5, <2>1, <2>4, <3>1, ZenonT(60) DEF Numbered
  <2> QED BY <2>3, <2>4
<1>13. ASSUME NEW p \in Objects, p # o PROVE Numbered(p)'
  <2>1. Numbered(p) /\ life'[p] = life[p]
    BY <1>5, <1>13, Zenon DEF Placed
  <2>2. CASE life[p] = "new"
    BY <2>1, <2>2, ZenonT(60) DEF Numbered
  <2>3. CASE life[p] # "new"
    <3>1. PICK m : m = id[p].index
      OBVIOUS
    <3>2. ChunkOf(m) \in DOMAIN chunk /\ PlaceOf(m) \in 0..ChunkSize - 1
      BY <2>3, <3>1, PlaceOfAlive, Zenon
    <3>3. CASE Spot(m) # Spot(n)
      <4>1. There(m)' = There(m)
        <5>1. <<ChunkOf(m), PlaceOf(m)>> # <<ChunkOf(n), PlaceOf(n)>>
          BY <3>3, Zenon DEF Spot
        <5> QED BY <1>3, <3>2, <5>1, Zenon DEF DiffersAt, There
      <4>2. There(id[p].index)' = There(id[p].index)
        BY <3>1, <4>1, ZenonT(60) DEF There
      <4> QED BY <1>4, <2>1, <4>2, Zenon DEF Numbered
    <3>4. CASE Spot(m) = Spot(n)
      <4>1. life[p] \notin Alive
        BY <1>2, <1>13, <3>1, <3>4, ZenonT(60) DEF Placed, Held, Alive
      <4>2. life[p] = "gone"
        BY <2>3, <4>1, ZenonT(60) DEF Types, Stored, Lives
      <4>3. There(m) = There(n) /\ There(id[p].index)' = e
        BY <1>4, <3>1, <3>4, BeyondIsSpot, ZenonT(60) DEF There
      <4>4. id[p].unique < There(n).unique
        BY <2>1, <3>1, <4>2, <4>3, ZenonT(60) DEF Numbered
      <4>5. id[p].unique < e.unique
        <5>1. id[p].unique \in Nat /\ e.unique \in Nat /\ There(n).unique \in Nat
          <6>1. There(n) \in Places
            BY <1>2, PlaceOfAlive, ZenonT(60)
          <6> QED BY <6>1, SMTT(60) DEF Types, Stored, Ids, Places
        <5>2. CASE e.unique = There(n).unique
          BY <4>4, <5>2, ZenonT(60)
        <5>3. CASE There(n).unique < e.unique
          BY <4>4, <5>1, <5>3, LessLess, Zenon
        <5> QED BY <1>2, <5>2, <5>3, Zenon
      <4> QED BY <1>4, <2>1, <3>1, <3>2, <4>2, <4>3, <4>5, ZenonT(60) DEF Numbered
    <3> QED BY <3>3, <3>4, ZenonT(60)
  <2> QED BY <2>2, <2>3
<1>14. Stored' /\ Acting' /\ Registered'
  BY <1>4, <1>5, ActingKeeps, RegisteredKeeps, Zenon DEF Types, Stored
<1>15. Counted' /\ Owned' /\ Cached'
  BY <1>10, Zenon DEF Counted, Owned, Cached
<1>16. Placed'
  BY <1>11, <1>12, <1>13, Zenon DEF Placed
<1> QED BY <1>14, <1>15, <1>16, SMTT(60) DEF Types

\* Manager::disableObjectVisits() leaves the object where it is.
LEMMA disableObjectVisitsKeeps ==
    ASSUME ManagerAssumption, Registry, NEW o \in Objects, disableObjectVisits(o)
    PROVE  Registry'
<1>1. PICK c, p : c = ChunkOf(id[o].index) /\ p = PlaceOf(id[o].index)
  OBVIOUS
<1>2. PICK e, e1 : e = There(id[o].index) /\ e1 = [e EXCEPT !.visits = FALSE]
  BY Zenon
<1>3. life[o] = "live" /\ chunk \in Seq(Chunks) /\ c \in DOMAIN chunk /\ e \in Places
  BY <1>1, <1>2, PlaceOfAlive DEF disableObjectVisits
<1>4. e.obj = o
  BY <1>2, <1>3 DEF Registry, Placed, Numbered
<1>5. e1 \in Places /\ e1.obj = o /\ e1.unique = e.unique
  BY <1>2, <1>3, <1>4, Zenon DEF Places
<1>6. e = chunk[c].place[p]
  BY <1>1, <1>2, ZenonT(60) DEF There
<1>7. /\ chunk' = [chunk EXCEPT ![c].place[p].visits = FALSE]
      /\ life' = [life EXCEPT ![o] = "closing"]
      /\ UNCHANGED <<state, idx, svc, svccache, chkcache, id, pc, at, asleep>>
  BY <1>1 DEF disableObjectVisits, tables, threads
<1>8. chunk' = Put(chunk, c, p, e1)
  BY <1>2, <1>6, <1>7 DEF Put
<1>9. "closing" \in Alive /\ "closing" # "leaving" /\ life[o] \in {"live", "closing"}
  BY <1>3 DEF Alive
<1> QED BY <1>1, <1>2, <1>5, <1>7, <1>8, <1>9, WritePlaceKeeps, ZenonT(60)

\* unregisterObject() advances the unique of the place it empties.
LEMMA LeaveChunkKeeps ==
    ASSUME ManagerAssumption, Registry, NEW o \in Objects, LeaveChunk(o)
    PROVE  Registry'
<1>1. PICK c, p : c = ChunkOf(id[o].index) /\ p = PlaceOf(id[o].index)
  OBVIOUS
<1>2. PICK e, e1 : e = There(id[o].index) /\ e1 = Vacant(e.unique + 1)
  OBVIOUS
<1>3. life[o] = "closing" /\ chunk \in Seq(Chunks) /\ c \in DOMAIN chunk /\ e \in Places
  BY <1>1, <1>2, PlaceOfAlive DEF LeaveChunk
<1>4. e1 \in Places /\ e.unique < e1.unique
  BY <1>2, <1>3, SMTT(60) DEF Places, Vacant
<1>5. e = chunk[c].place[p]
  BY <1>1, <1>2, ZenonT(60) DEF There
<1>6. /\ chunk' = [chunk EXCEPT ![c].place[p] = Vacant(@.unique + 1)]
      /\ life' = [life EXCEPT ![o] = "leaving"]
      /\ UNCHANGED <<state, idx, svc, svccache, chkcache, id, pc, at, asleep>>
  BY <1>1 DEF LeaveChunk, tables, threads
<1>7. chunk' = Put(chunk, c, p, e1)
  BY <1>2, <1>5, <1>6 DEF Put
<1>8. "leaving" \in Alive /\ life[o] \in {"live", "closing"}
  BY <1>3 DEF Alive
<1> QED BY <1>1, <1>2, <1>4, <1>6, <1>7, <1>8, WritePlaceKeeps, Zenon

\* The service an object leaves, which is not stopped and has counted it
Discounts(o, n, i) ==
    /\ i \in DOMAIN svc /\ o \in Members(i) /\ svc[i].objcnt > 0 /\ svc[i].state # "stopped"
    /\ svc' \in Seq(Stubs) /\ DOMAIN svc' = DOMAIN svc
    /\ svc'[i].psvc = svc[i].psvc /\ svc'[i].state = svc[i].state
    /\ svc'[i].chks = svc[i].chks /\ svc'[i].left = svc[i].left
    /\ svc'[i].objcache = Cons(n, svc[i].objcache)
    /\ svc'[i].objcnt = svc[i].objcnt - 1
    /\ \A j \in DOMAIN svc : j # i => svc'[j] = svc[j]

\* The service of an object that leaves has the object among those it counts.
LEMMA LeaveServiceStub ==
    ASSUME ManagerAssumption, Cardinals, Registry, NEW o \in Objects, LeaveService(o),
           NEW n, n = id[o].index, NEW i, i = chunk[ChunkOf(n)].svcidx
    PROVE  Discounts(o, n, i)
<1> USE DEF Registry
<1>1. life[o] = "leaving" /\ life[o] \in Alive
  BY Zenon DEF LeaveService, Alive
<1>2. i \in DOMAIN svc /\ o \in Members(i)
  BY <1>1, Zenon DEF Placed, Held, Members
<1>3. Counts(i) /\ svc[i].objcnt \in Nat
  BY <1>2, StubTypes, Zenon DEF Counted
<1>4. svc[i].objcnt # 0
  BY <1>2, <1>3, Zenon DEF Counts, Cardinals
<1>5. svc[i].state # "stopped"
  BY <1>3, <1>4, Zenon DEF Counts
<1>6. PICK r : r = svc[i]
  BY ZenonT(60)
<1>7. svc \in Seq(Stubs) /\ r \in Stubs /\ n \in Nat
  BY <1>2, <1>6, StubTypes, PlaceOfAlive, <1>1 DEF Types, Stored
<1>8. PICK r1, r2 : r1 = [r EXCEPT !.objcache = Cons(n, @)] /\ r2 = [r1 EXCEPT !.objcnt = @ - 1]
  BY Zenon
<1>9. Cons(n, r.objcache) \in Seq(Nat)
  BY <1>7 DEF Cons, Stubs
<1>10. /\ r1 \in Stubs /\ r1.objcache = Cons(n, r.objcache) /\ r1.objcnt = r.objcnt
       /\ r1.psvc = r.psvc /\ r1.state = r.state /\ r1.chks = r.chks /\ r1.left = r.left
  BY <1>7, <1>8, <1>9, Zenon DEF Stubs
<1>11. r1.objcnt - 1 \in Nat
  <2>1. r1.objcnt \in Nat /\ r1.objcnt # 0
    BY <1>3, <1>4, <1>6, <1>10, Zenon
  <2> QED BY <2>1
<1>12. /\ r2 \in Stubs /\ r2.objcache = r1.objcache /\ r2.objcnt = r1.objcnt - 1
       /\ r2.psvc = r1.psvc /\ r2.state = r1.state /\ r2.chks = r1.chks /\ r2.left = r1.left
  BY <1>8, <1>10, <1>11, ZenonT(60) DEF Stubs
<1>13. svc' = [svc EXCEPT ![i].objcache = Cons(n, @), ![i].objcnt = @ - 1]
  BY <1>6, Zenon DEF LeaveService, Cons
<1>14. PICK w : w = [svc EXCEPT ![i].objcache = Cons(n, @)]
  BY Zenon
<1>15. /\ svc' \in Seq(Stubs) /\ DOMAIN svc' = DOMAIN svc /\ svc'[i] = r2
       /\ \A j \in DOMAIN svc : j # i => svc'[j] = svc[j]
  <2>1. w = [svc EXCEPT ![i] = r1]
    BY <1>6, <1>8, <1>14, Zenon
  <2>2. /\ w \in Seq(Stubs) /\ DOMAIN w = DOMAIN svc /\ w[i] = r1
        /\ \A j \in DOMAIN svc : j # i => w[j] = svc[j]
    BY <1>2, <1>7, <1>10, <2>1
  <2>3. w[i].objcnt = svc[i].objcnt
    BY <1>6, <1>10, <2>2, ZenonT(60)
  <2>4. svc' = [w EXCEPT ![i].objcnt = @ - 1]
    BY <1>13, <1>14, <2>3, Zenon
  <2>5. svc' = [w EXCEPT ![i] = r2]
    BY <1>8, <2>2, <2>4, ZenonT(60)
  <2>6. /\ svc' \in Seq(Stubs) /\ DOMAIN svc' = DOMAIN w /\ svc'[i] = r2
        /\ \A j \in DOMAIN w : j # i => svc'[j] = w[j]
    BY <1>2, <1>12, <2>2, <2>5, SMTT(60)
  <2> QED BY <2>2, <2>6, Zenon
<1>16. svc[i].objcnt > 0
  BY <1>3, <1>4
<1> QED BY <1>2, <1>5, <1>6, <1>10, <1>12, <1>15, <1>16, ZenonT(60) DEF Discounts

\* unregisterObject() gives the place back when nobody has it any more.
LEMMA LeaveServiceKeeps ==
    ASSUME ManagerAssumption, Cardinals, Registry, NEW o \in Objects, LeaveService(o)
    PROVE  Registry'
<1> USE DEF Registry
<1>1. PICK n, i : n = id[o].index /\ i = chunk[ChunkOf(n)].svcidx
  BY SMTT(60)
<1>2. /\ life[o] = "leaving" /\ life' = [life EXCEPT ![o] = "gone"]
      /\ asleep' \subseteq asleep
      /\ UNCHANGED <<state, idx, svccache, chunk, chkcache, id, pc, at>>
  BY Zenon DEF LeaveService, places
<1>3. /\ i \in DOMAIN svc /\ o \in Members(i) /\ svc[i].objcnt > 0
      /\ svc[i].state # "stopped"
      /\ svc' \in Seq(Stubs) /\ DOMAIN svc' = DOMAIN svc
      /\ svc'[i].psvc = svc[i].psvc /\ svc'[i].state = svc[i].state
      /\ svc'[i].chks = svc[i].chks /\ svc'[i].left = svc[i].left
      /\ svc'[i].objcache = Cons(n, svc[i].objcache)
      /\ svc'[i].objcnt = svc[i].objcnt - 1
      /\ \A j \in DOMAIN svc : j # i => svc'[j] = svc[j]
  <2>1. Discounts(o, n, i)
    BY <1>1, LeaveServiceStub, Zenon
  <2> QED BY <2>1, Zenon DEF Discounts
<1>4. /\ life'[o] = "gone" /\ \A p \in Objects : p # o => life'[p] = life[p]
      /\ life' \in [Objects -> Lives]
  BY <1>2 DEF Types, Stored, Lives
<1>5. "gone" \notin Alive /\ "leaving" \in Alive
  BY DEF Alive
<1>6. \A p \in Objects : life'[p] \in Alive <=> p # o /\ life[p] \in Alive
  BY <1>4, <1>5, Zenon
<1>7. Members(i)' = Members(i) \ {o} /\ \A j : j # i => Members(j)' = Members(j)
  <2>1. ASSUME NEW j, NEW p PROVE p \in Members(j)' <=> p \in Members(j) /\ p # o
    BY <1>2, <1>6, Zenon DEF Members
  <2>2. \A j : j # i => o \notin Members(j)
    BY <1>1, Zenon DEF Members
  <2>3. Members(i)' = Members(i) \ {o}
    BY <2>1, Zenon
  <2>4. ASSUME NEW j, j # i PROVE Members(j)' = Members(j)
    <3>1. \A p : p \in Members(j)' <=> p \in Members(j)
      BY <2>1, <2>2, <2>4, Zenon
    <3> QED BY <3>1, Zenon
  <2> QED BY <2>3, <2>4
<1>8. Counts(i)'
  <2>1. Counts(i) /\ svc[i].objcnt \in Nat
    BY <1>3, StubTypes, Zenon DEF Counted
  <2>2. IsFiniteSet(Members(i)) /\ svc[i].objcnt = Cardinality(Members(i))
    BY <2>1, Zenon DEF Counts
  <2>3. /\ IsFiniteSet(Members(i) \ {o})
        /\ Cardinality(Members(i) \ {o}) = Cardinality(Members(i)) - 1
    BY <1>3, <2>2, Zenon DEF Cardinals
  <2> QED BY <1>3, <1>7, <2>2, <2>3, Zenon DEF Counts
<1>9. ASSUME NEW j \in DOMAIN svc, j # i PROVE Counts(j)'
  <2>1. svc'[j] = svc[j] /\ Members(j)' = Members(j) /\ Counts(j)
    BY <1>3, <1>7, <1>9, Zenon DEF Counted
  <2> QED BY <2>1, Zenon DEF Counts
<1>10. \A j \in DOMAIN svc : svc'[j].chks = svc[j].chks /\ svc'[j].left = svc[j].left
                             /\ svc'[j].psvc = svc[j].psvc /\ svc'[j].state = svc[j].state
  BY <1>3, ZenonT(60)
<1>11. \A j \in DOMAIN svc : Owns(j)'
  BY <1>2, <1>10 DEF Owned, Owns
<1>12. \A j \in DOMAIN svc : \A m : Beyond(svc'[j], m) = Beyond(svc[j], m)
  BY <1>10, Zenon DEF Beyond
<1>13. \A j \in DOMAIN svc : \A m : Free(j, m) => Free(j, m)'
  BY <1>2, <1>6, <1>12, Zenon DEF Free
<1>14. ASSUME NEW j \in DOMAIN svc, j # i PROVE Caches(j)'
  <2>1. svc'[j] = svc[j] /\ Caches(j)
    BY <1>3, <1>14, Zenon DEF Cached
  <2> QED BY <1>13, <2>1, Zenon DEF Caches
<1>15. Caches(i)'
  <2>1. PICK q, r : q = svc[i].objcache /\ r = Cons(n, q)
    BY SMTT(60)
  <2>2. q \in Seq(Nat) /\ n \in Nat
    BY <1>1, <1>2, <1>3, <2>1, StubTypes, PlaceOfAlive, Zenon
  <2>3. Once(q) /\ \A k \in DOMAIN q : Free(i, q[k])
    BY <1>3, <2>1, Zenon DEF Cached, Caches
  <2>4. Once(q)
    BY <2>3
  <2>5. \A k \in DOMAIN q : Spot(q[k]) # Spot(n)
    <3>1. life[o] \in Alive
      BY <1>2, <1>5
    <3> QED BY <1>1, <2>3, <3>1, Zenon DEF Free
  <2>6. Once(r)
    BY <2>1, <2>2, <2>4, <2>5, OnceCons, ZenonT(60)
  <2>7. \A k \in DOMAIN r : r[k] = n \/ (k - 1 \in DOMAIN q /\ r[k] = q[k - 1])
    BY <2>1, <2>2 DEF Cons
  <2>8. Free(i, n)'
    <3>1. Held(o) /\ ChunkOf(n) \in DOMAIN chunk
      BY <1>1, <1>2, <1>5, PlaceOfAlive, Zenon DEF Placed
    <3>2. ~Beyond(svc'[i], n)
      BY <1>1, <1>3, <1>12, <3>1, Zenon DEF Held
    <3>3. \A p \in Objects : life'[p] \in Alive => Spot(id[p].index) # Spot(n)
      BY <1>1, <1>6, <3>1, Zenon DEF Held
    <3> QED BY <1>1, <1>2, <3>1, <3>2, <3>3, Zenon DEF Free
  <2>9. \A k \in DOMAIN r : Free(i, r[k])'
    <3> SUFFICES ASSUME NEW k \in DOMAIN r PROVE Free(i, r[k])'
      OBVIOUS
    <3>1. CASE r[k] = n
      BY <2>8, <3>1, Zenon
    <3>2. CASE k - 1 \in DOMAIN q /\ r[k] = q[k - 1]
      BY <1>3, <1>13, <2>3, <3>2, Zenon
    <3> QED BY <2>7, <3>1, <3>2, Zenon
  <2> QED BY <1>3, <2>1, <2>6, <2>9, Zenon DEF Caches
<1>16. Placed'
  <2>1. \A p \in Objects : life'[p] \in Alive => Held(p)'
    <3>1. \A p \in Objects : life'[p] \in Alive => Held(p)
      BY <1>6, Zenon DEF Placed
    <3>2. \A p \in Objects : Held(p) => Held(p)'
      <4> SUFFICES ASSUME NEW p \in Objects, Held(p) PROVE Held(p)'
        OBVIOUS
      <4>1. \A j \in DOMAIN svc' : ~Beyond(svc'[j], id[p].index)
        BY <1>3, <1>12, ZenonT(60) DEF Held
      <4>2. chunk[ChunkOf(id[p].index)].svcidx \in DOMAIN svc'
        BY <1>3, Zenon DEF Held
      <4>3. \A r \in Objects : r # p /\ life'[r] \in Alive => Spot(id[r].index) # Spot(id[p].index)
        BY <1>6, Zenon DEF Held
      <4> QED BY <1>2, <4>1, <4>2, <4>3, Zenon DEF Held
    <3> QED BY <3>1, <3>2, Zenon
  <2>2. ASSUME NEW p \in Objects PROVE Numbered(p)'
    <3>1. Numbered(p) /\ There(id[p].index)' = There(id[p].index)
      BY <1>2, Zenon DEF Placed, There
    <3>2. CASE p = o
      BY <1>2, <1>4, <3>1, <3>2 DEF Numbered
    <3>3. CASE p # o
      BY <1>2, <1>4, <3>1, <3>3, Zenon DEF Numbered
    <3> QED BY <3>2, <3>3
  <2> QED BY <2>1, <2>2, Zenon DEF Placed
<1>17. Stored' /\ Acting' /\ Registered'
  BY <1>2, <1>3, <1>4, <1>10, ActingKeeps, RegisteredKeeps, Zenon DEF Types, Stored
<1>18. Counted' /\ Owned' /\ Cached'
  BY <1>3, <1>8, <1>9, <1>11, <1>14, <1>15, Zenon DEF Counted, Owned, Cached
<1> QED BY <1>16, <1>17, <1>18 DEF Types

-----------------------------------------------------------------------------
(***************************************************************************)
(* The threads that start and stop                                         *)
(***************************************************************************)

\* A step that changes no service and no object
LEMMA SameServices ==
    ASSUME Registry, Acting', state' \in SvcStates,
           UNCHANGED <<idx, svc, svccache, chunk, chkcache, id, life>>
    PROVE  Registry'
<1> USE DEF Registry
<1>1. \A i \in DOMAIN svc : SameStub(i)
  BY DEF SameStub
<1>2. \A i \in DOMAIN svc : /\ svc[i].state = "stopped" => svc[i].objcnt = 0
                            /\ svc[i].psvc = None => svc[i].state = "stopped"
  BY Zenon DEF Registered, Counted, Counts
<1>3. Registered' /\ Counted' /\ Owned' /\ Cached' /\ Placed'
  BY <1>1, <1>2, StatesKeep
<1>4. Stored'
  BY Zenon DEF Types, Stored
<1> QED BY <1>3, <1>4 DEF Types

\* A step that changes the state of a service
LEMMA OtherState ==
    ASSUME Registry, Acting', UNCHANGED <<state, idx, svccache, chunk, chkcache, id, life>>,
           NEW k \in DOMAIN svc, NEW v \in SvcStates,
           svc' = [svc EXCEPT ![k].state = v],
           v = "stopped" => svc[k].objcnt = 0, svc[k].psvc = None => v = "stopped"
    PROVE  Registry'
<1> USE DEF Registry
<1>1. Registered' /\ Counted' /\ Owned' /\ Cached' /\ Placed'
  BY SetStateKeeps, Zenon
<1>2. svc' \in Seq(Stubs)
  BY SetState, Zenon
<1>3. Stored'
  BY <1>2, Zenon DEF Types, Stored
<1> QED BY <1>1, <1>3 DEF Types

\* A thread goes to another step.
LEMMA MoveActs ==
    ASSUME Acting, NEW t \in Threads, NEW p \in Steps, NEW a \in Nat,
           pc' = [pc EXCEPT ![t] = p], at' = [at EXCEPT ![t] = a], asleep' \subseteq Threads,
           p \in {"service", "objects"} => a \in DOMAIN svc', p \in {"broadcast", "wait"} => a >= 1,
           DOMAIN svc' = DOMAIN svc
    PROVE  Acting'
<1>1. pc' \in [Threads -> Steps] /\ at' \in [Threads -> Nat]
  BY DEF Acting
<1>2. /\ pc'[t] = p /\ at'[t] = a
      /\ \A u \in Threads : u # t => pc'[u] = pc[u] /\ at'[u] = at[u]
  BY DEF Acting
<1> QED BY <1>1, <1>2, Zenon DEF Acting

\* Manager::startService()
LEMMA startServiceKeeps ==
    ASSUME ManagerAssumption, Registry, NEW s \in Services, startService(s)
    PROVE  Registry'
<1>1. PICK i : i = idx[s]
  OBVIOUS
<1>2. /\ i # 0 /\ svc' = [svc EXCEPT ![i].state = "running"]
      /\ UNCHANGED <<state, idx, svccache, chunk, chkcache, id, life, pc, at, asleep>>
  BY <1>1 DEF startService, places, objects, threads
<1>3. i \in DOMAIN svc /\ svc[i].psvc = s
  BY <1>1, <1>2, Zenon DEF Registry, Registered
<1>4. svc[i].psvc # None
  BY <1>3 DEF ManagerAssumption
<1>5. "running" \in SvcStates /\ "running" # "stopped"
  BY DEF SvcStates
<1>6. DOMAIN svc' = DOMAIN svc
  BY <1>2, <1>3, <1>5, SetState DEF Registry
<1>7. Acting'
  BY <1>2, <1>6, ActingKeeps DEF Registry, Types
<1> QED BY <1>2, <1>3, <1>4, <1>5, <1>7, OtherState, Zenon

\* What stopService() and the first loop of stop() do to a stub
LEMMA StopStubIs ==
    ASSUME Registry, NEW i \in DOMAIN svc, StopStub(i)
    PROVE  \E v \in SvcStates :
             /\ svc' = [svc EXCEPT ![i].state = v] /\ v # "running"
             /\ v = "stopped" <=> svc[i].objcnt = 0
BY Zenon DEF StopStub, SvcStates

\* Manager::stopService() finds a service empty by counting also who is leaving.
LEMMA stopServiceKeeps ==
    ASSUME ManagerAssumption, Registry, NEW t \in Threads, NEW s \in Services,
           NEW wait \in BOOLEAN, stopService(t, s, wait)
    PROVE  Registry'
<1>1. PICK i : i = idx[s]
  OBVIOUS
<1>2. /\ i # 0
      /\ \/ StopStub(i)
         \/ svc' = IF svc[i].objcnt = 0 THEN [svc EXCEPT ![i].state = "stopped"] ELSE svc
      /\ Sleep(t, "service", i) \/ UNCHANGED <<pc, at, asleep>>
      /\ UNCHANGED <<state, idx, svccache, chunk, chkcache, id, life>>
  BY <1>1 DEF stopService, places, threads
<1>3. i \in DOMAIN svc /\ svc[i].psvc = s
  BY <1>1, <1>2, Zenon DEF Registry, Registered
<1>4. svc[i].psvc # None
  BY <1>3 DEF ManagerAssumption
<1>5. \/ svc' = svc
      \/ \E v \in SvcStates : /\ svc' = [svc EXCEPT ![i].state = v]
                              /\ v = "stopped" => svc[i].objcnt = 0
  <2>1. CASE StopStub(i)
    BY <1>3, <2>1, StopStubIs
  <2>2. CASE svc' = IF svc[i].objcnt = 0 THEN [svc EXCEPT ![i].state = "stopped"] ELSE svc
    BY <2>2 DEF SvcStates
  <2> QED BY <1>2, <2>1, <2>2
<1>6. DOMAIN svc' = DOMAIN svc
  BY <1>3, <1>5, SetState DEF Registry
<1>7. Acting'
  <2>1. Acting /\ svc \in Seq(Stubs)
    BY DEF Registry, Types, Stored
  <2>2. CASE UNCHANGED <<pc, at, asleep>>
    BY <1>6, <2>1, <2>2, ActingKeeps
  <2>3. CASE Sleep(t, "service", i)
    <3>1. /\ pc' = [pc EXCEPT ![t] = "service"] /\ at' = [at EXCEPT ![t] = i]
          /\ asleep' \subseteq Threads
      BY <2>1, <2>3 DEF Sleep, Acting
    <3>2. i \in Nat /\ "service" \in Steps /\ "service" \notin {"broadcast", "wait"}
      BY <1>3, <2>1 DEF Steps
    <3> QED BY <1>3, <1>6, <2>1, <3>1, <3>2, MoveActs, ZenonT(60)
  <2> QED BY <1>2, <2>2, <2>3
<1>8. CASE svc' = svc
  BY <1>2, <1>7, <1>8, SameServices DEF Registry, Types, Stored
<1>9. CASE svc' # svc
  <2>1. PICK v \in SvcStates : /\ svc' = [svc EXCEPT ![i].state = v]
                               /\ v = "stopped" => svc[i].objcnt = 0
    BY <1>5, <1>9
  <2> QED BY <1>2, <1>3, <1>4, <1>7, <2>1, OtherState, Zenon
<1> QED BY <1>8, <1>9

\* A service is stopped by who waited for its objects when all are gone.
LEMMA WakeKeeps ==
    ASSUME ManagerAssumption, Registry, NEW t \in Threads, Wake(t)
    PROVE  Registry'
<1>1. Acting /\ svc \in Seq(Stubs) /\ state \in SvcStates
  BY DEF Registry, Types, Stored
<1>2. PICK i : i = at[t]
  OBVIOUS
<1>3. i \in DOMAIN svc /\ pc[t] \in {"service", "objects"}
  BY <1>1, <1>2 DEF Wake, Acting
<1>4. UNCHANGED <<state, idx, svccache, chunk, chkcache, id, life>>
  BY DEF Wake, places, objects
<1>5. svc[i].objcnt \in Nat /\ i \in Nat
  BY <1>1, <1>3, StubTypes DEF Registry
<1>6. CASE svc[i].objcnt > 0
  <2>1. asleep' = asleep \union {t} /\ UNCHANGED <<svc, pc, at>>
    BY <1>2, <1>6 DEF Wake
  <2>2. Acting'
    BY <1>1, <2>1 DEF Acting
  <2> QED BY <1>1, <1>4, <2>1, <2>2, SameServices
<1>7. CASE ~(svc[i].objcnt > 0)
  <2>1. /\ svc' = [svc EXCEPT ![i].state = "stopped"]
        /\ pc' = [pc EXCEPT ![t] = AfterWait(t)] /\ at' = [at EXCEPT ![t] = i + 1]
        /\ asleep' = asleep
    BY <1>2, <1>7 DEF Wake
  <2>2. svc[i].objcnt = 0 /\ "stopped" \in SvcStates
    BY <1>5, <1>7 DEF SvcStates
  <2>3. DOMAIN svc' = DOMAIN svc
    BY <1>3, <2>1, <2>2, SetState DEF Registry
  <2>4. AfterWait(t) \in Steps \ {"service", "objects"}
    BY DEF AfterWait, Steps
  <2>5. i + 1 \in Nat /\ i + 1 >= 1 /\ asleep' \subseteq Threads
    BY <1>1, <1>5, <2>1 DEF Acting
  <2>6. Acting'
    BY <1>1, <2>1, <2>3, <2>4, <2>5, MoveActs, ZenonT(60)
  <2> QED BY <1>3, <1>4, <2>1, <2>2, <2>6, OtherState, Zenon
<1> QED BY <1>6, <1>7

\* The first loop of Manager::stop()
LEMMA BroadcastKeeps ==
    ASSUME ManagerAssumption, Registry, NEW t \in Threads, Broadcast(t)
    PROVE  Registry'
<1>1. Acting /\ svc \in Seq(Stubs) /\ state \in SvcStates
  BY DEF Registry, Types, Stored
<1>2. PICK i : i = at[t]
  OBVIOUS
<1>3. i \in DOMAIN svc /\ i \in Nat
  <2>1. pc[t] = "broadcast" /\ at[t] <= Len(svc)
    BY ZenonT(60) DEF Broadcast
  <2>2. i \in Nat /\ i >= 1 /\ i <= Len(svc)
    BY <1>1, <1>2, <2>1, ZenonT(60) DEF Acting
  <2> QED BY <1>1, <2>2, InSeq, ZenonT(60)
<1>4. /\ at' = [at EXCEPT ![t] = i + 1] /\ asleep' = asleep /\ pc' = pc /\ pc[t] = "broadcast"
      /\ UNCHANGED <<state, idx, svccache, chunk, chkcache, id, life>>
      /\ (svc[i].psvc # None /\ StopStub(i)) \/ svc' = svc
  BY <1>2 DEF Broadcast, places
<1>5. DOMAIN svc' = DOMAIN svc => Acting'
  <2>1. pc' = [pc EXCEPT ![t] = "broadcast"] /\ "broadcast" \in Steps
    BY <1>1, <1>4 DEF Acting, Steps
  <2>2. i + 1 \in Nat /\ i + 1 >= 1 /\ asleep' \subseteq Threads
    BY <1>1, <1>3, <1>4 DEF Acting
  <2> QED BY <1>1, <1>4, <2>1, <2>2, MoveActs, Zenon
<1>6. CASE svc' = svc
  BY <1>1, <1>4, <1>5, <1>6, SameServices
<1>7. CASE svc[i].psvc # None /\ StopStub(i)
  <2>1. PICK v \in SvcStates : /\ svc' = [svc EXCEPT ![i].state = v]
                               /\ v = "stopped" <=> svc[i].objcnt = 0
    BY <1>3, <1>7, StopStubIs
  <2>2. DOMAIN svc' = DOMAIN svc
    BY <1>3, <2>1, SetState DEF Registry
  <2> QED BY <1>3, <1>4, <1>5, <1>7, <2>1, <2>2, OtherState, Zenon
<1> QED BY <1>4, <1>6, <1>7, ZenonT(60)

\* The second loop of Manager::stop()
LEMMA WaitServiceKeeps ==
    ASSUME ManagerAssumption, Registry, NEW t \in Threads, WaitService(t)
    PROVE  Registry'
<1>1. Acting /\ svc \in Seq(Stubs) /\ state \in SvcStates
  BY DEF Registry, Types, Stored
<1>2. PICK i : i = at[t]
  OBVIOUS
<1>3. i \in DOMAIN svc /\ i \in Nat
  BY <1>1, <1>2 DEF WaitService, Acting
<1>4. svc[i].objcnt \in Nat
  BY <1>3, StubTypes DEF Registry
<1>5. UNCHANGED <<state, idx, svccache, chunk, chkcache, id, life>>
  BY DEF WaitService, places, objects
<1>6. CASE Sleep(t, "objects", i) /\ svc' = svc
  <2>1. /\ pc' = [pc EXCEPT ![t] = "objects"] /\ at' = [at EXCEPT ![t] = i]
        /\ asleep' \subseteq Threads /\ DOMAIN svc' = DOMAIN svc
    BY <1>1, <1>6 DEF Sleep, Acting
  <2>2. "objects" \in Steps /\ "objects" \notin {"broadcast", "wait"}
    BY DEF Steps
  <2>3. Acting'
    BY <1>1, <1>3, <2>1, <2>2, MoveActs, Zenon
  <2> QED BY <1>1, <1>5, <1>6, <2>3, SameServices, SMTT(60)
<1>7. CASE /\ at' = [at EXCEPT ![t] = i + 1] /\ UNCHANGED <<pc, asleep>> /\ pc[t] = "wait"
           /\ \/ svc' = svc
              \/ /\ svc' = [svc EXCEPT ![i].state = "stopped"]
                 /\ svc[i].psvc # None /\ svc[i].objcnt = 0
  <2>1. DOMAIN svc' = DOMAIN svc
    BY <1>3, <1>7, SetState DEF Registry, SvcStates
  <2>2. pc' = [pc EXCEPT ![t] = "wait"] /\ "wait" \in Steps
    BY <1>1, <1>7 DEF Acting, Steps
  <2>3. i + 1 \in Nat /\ i + 1 >= 1 /\ asleep' \subseteq Threads
    BY <1>1, <1>3, <1>7 DEF Acting
  <2>4. Acting'
    BY <1>1, <1>7, <2>1, <2>2, <2>3, MoveActs, Zenon
  <2>5. CASE svc' = svc
    BY <1>1, <1>5, <2>4, <2>5, SameServices
  <2>6. CASE svc' = [svc EXCEPT ![i].state = "stopped"] /\ svc[i].psvc # None /\ svc[i].objcnt = 0
    BY <1>3, <1>5, <2>4, <2>6, OtherState, ZenonT(60) DEF SvcStates
  <2> QED BY <1>7, <2>5, <2>6
<1> QED BY <1>2, <1>4, <1>6, <1>7 DEF WaitService

\* The other steps of start() and stop(): no service changes.
LEMMA ManagerStepKeeps ==
    ASSUME ManagerAssumption, Registry,
           start \/ \E t \in Threads : \/ stop(t) \/ StopAgain(t) \/ BroadcastDone(t) \/ StopDone(t)
    PROVE  Registry'
<1>1. Acting /\ svc \in Seq(Stubs) /\ state \in SvcStates
  BY DEF Registry, Types, Stored
<1>2. UNCHANGED <<idx, svc, svccache, chunk, chkcache, id, life>>
  BY DEF start, stop, StopAgain, BroadcastDone, StopDone, tables, places, objects
<1>3. state' \in SvcStates
  BY <1>1 DEF start, stop, StopAgain, BroadcastDone, StopDone, SvcStates
<1>4. Acting'
  <2>1. CASE start
    BY <1>1, <1>2, <2>1, ActingKeeps, SMTT(60) DEF start, threads
  <2>2. ASSUME NEW t \in Threads, stop(t) \/ StopAgain(t) \/ BroadcastDone(t) \/ StopDone(t)
        PROVE  Acting'
    <3>1. /\ \/ pc' = [pc EXCEPT ![t] = "again"] /\ at' = [at EXCEPT ![t] = 0]
             \/ pc' = [pc EXCEPT ![t] = "broadcast"] /\ at' = [at EXCEPT ![t] = 1]
             \/ pc' = [pc EXCEPT ![t] = "wait"] /\ at' = [at EXCEPT ![t] = 1]
             \/ pc' = [pc EXCEPT ![t] = "idle"] /\ at' = at
          /\ asleep' \subseteq asleep \union {t}
      BY <2>2 DEF stop, StopAgain, BroadcastDone, StopDone, Sleep
    <3>2. asleep' \subseteq Threads
      BY <1>1, <3>1 DEF Acting
    <3>3. at[t] \in Nat /\ (at' = at => at' = [at EXCEPT ![t] = at[t]])
      BY <1>1 DEF Acting
    <3>4. PICK p \in {"again", "broadcast", "wait", "idle"}, a \in Nat :
            /\ pc' = [pc EXCEPT ![t] = p] /\ at' = [at EXCEPT ![t] = a]
            /\ p \in {"broadcast", "wait"} => a >= 1
      BY <3>1, <3>3
    <3>5. p \in Steps /\ p \notin {"service", "objects"}
      BY DEF Steps
    <3>6. DOMAIN svc' = DOMAIN svc
      BY <1>2
    <3> QED BY <1>1, <3>2, <3>4, <3>5, <3>6, MoveActs, Zenon
  <2> QED BY <2>1, <2>2
<1> QED BY <1>2, <1>3, <1>4, SameServices

-----------------------------------------------------------------------------
(***************************************************************************)
(* Ids are unique                                                          *)
(***************************************************************************)
\* The manager starts without services.
LEMMA InitRegistry == ASSUME ManagerAssumption, Init PROVE Registry
<1>1. Types
  BY SMTT(60) DEF Init, Types, Stored, Acting, SvcStates, Stubs, Chunks, Ids, Lives, Steps, NoId
<1>2. Registered /\ Counted /\ Owned /\ Cached
  <2>1. DOMAIN svc = {} /\ \A s \in Services : idx[s] = 0
    BY DEF Init
  <2> QED BY <2>1, ZenonT(60) DEF Registered, Counted, Owned, Cached
<1>3. Placed
  BY DEF Init, Placed, Numbered, Alive
<1> QED BY <1>1, <1>2, <1>3, SMTT(60) DEF Registry

\* Every step of the manager keeps the registry.
LEMMA NextRegistry ==
    ASSUME ManagerAssumption, Cardinals, Reuse = {}, Registry, [Next]_vars
    PROVE  Registry'
<1>1. CASE UNCHANGED vars
  <2>1. UNCHANGED <<state, idx, svc, svccache, chunk, chkcache, id, life, pc, at, asleep>>
    BY <1>1, SMTT(60) DEF vars, tables, places, objects, threads
  <2>2. Acting' /\ state' \in SvcStates
    BY <2>1 DEF Registry, Types, Stored, Acting
  <2> QED BY <2>1, <2>2, SameServices, SMTT(60)
<1>2. CASE start \/ \E t \in Threads : stop(t) \/ StopAgain(t) \/ BroadcastDone(t) \/ StopDone(t)
  BY <1>2, ManagerStepKeeps
<1>3. CASE \E s \in Services : registerService(s) \/ unregisterService(s) \/ startService(s)
  BY <1>3, registerServiceKeeps, unregisterServiceKeeps, startServiceKeeps
<1>4. CASE \E s \in Services, o \in Objects, scheduled \in BOOLEAN :
             registerObject(s, o, scheduled)
  BY <1>4, registerObjectKeeps
<1>5. CASE \E s \in Services, t \in Threads, wait \in BOOLEAN : stopService(t, s, wait)
  BY <1>5, stopServiceKeeps
<1>6. CASE \E o \in Objects : disableObjectVisits(o) \/ LeaveChunk(o) \/ LeaveService(o)
  BY <1>6, disableObjectVisitsKeeps, LeaveChunkKeeps, LeaveServiceKeeps, SMTT(60)
<1>7. CASE \E t \in Threads : Wake(t) \/ Broadcast(t) \/ WaitService(t)
  BY <1>7, WakeKeeps, BroadcastKeeps, WaitServiceKeeps, ZenonT(60)
<1> QED BY <1>1, <1>2, <1>3, <1>4, <1>5, <1>6, <1>7, ZenonT(60) DEF Next

\* The object found by the id of an object is that object, however often its place
\* is given back and given away again.
LEMMA RegistryIdsAreUnique == ASSUME ManagerAssumption, Registry PROVE IdsAreUnique
<1> SUFFICES ASSUME NEW o \in Objects, NEW p \in doVisit(id[o])
             PROVE  p = o
  BY ZenonT(60) DEF IdsAreUnique
<1>1. /\ ChunkOf(id[o].index) \in DOMAIN chunk /\ There(id[o].index).obj = p
      /\ There(id[o].index).unique = id[o].unique
  BY DEF doVisit, There
<1>2. Numbered(o) /\ life[o] \in Lives /\ id[o].unique \in Nat
  BY ZenonT(60) DEF Registry, Placed, Types, Stored, Ids
<1>3. life[o] # "new"
  <2>1. SUFFICES ASSUME life[o] = "new" PROVE FALSE
    BY ZenonT(60)
  <2>2. ChunkOf(id[o].index) = 0
    BY <1>2, <2>1, NoIdNowhere DEF Numbered
  <2>3. 0 \notin DOMAIN chunk
    BY SMTT(60) DEF Registry, Types, Stored
  <2> QED BY <1>1, <2>2, <2>3, ZenonT(60)
<1>4. life[o] \notin {"leaving", "gone"}
  BY <1>1, <1>2 DEF Numbered
<1> QED BY <1>1, <1>2, <1>3, <1>4 DEF Numbered, Lives, Alive

-----------------------------------------------------------------------------
(***************************************************************************)
(* Stopping                                                                *)
(***************************************************************************)

\* Nothing comes back from being stopped.
Settles ==
    /\ state # "running" => state' # "running"
    /\ DOMAIN svc' = DOMAIN svc
    /\ \A i \in DOMAIN svc : /\ svc[i].state # "running" => svc'[i].state # "running"
                             /\ svc[i].state = "stopped" => svc'[i].state = "stopped"

\* Nor does a service lose its last object.
Quiet == Settles /\ \A i \in DOMAIN svc : svc[i].objcnt > 0 => svc'[i].objcnt > 0

\* A thread that does nothing stays as far as it has come.
LEMMA StaysThere ==
    ASSUME Acting, Settles, NEW u \in Threads, Progress(u), pc'[u] = pc[u], at'[u] = at[u],
           pc[u] \in {"service", "objects"} /\ u \in asleep' => svc'[at[u]].objcnt > 0
    PROVE  Progress(u)'
<1>1. pc[u] \in {"service", "objects"} => at[u] \in DOMAIN svc
  BY ZenonT(60) DEF Acting
<1> QED BY <1>1, ZenonT(60) DEF Settles, Progress

\* In particular, a sleeper sleeps on while no service loses its last object.
LEMMA QuietStays ==
    ASSUME Acting, Quiet, NEW u \in Threads, Progress(u), pc'[u] = pc[u], at'[u] = at[u],
           u \in asleep' => u \in asleep
    PROVE  Progress(u)'
<1>1. pc[u] \in {"service", "objects"} => at[u] \in DOMAIN svc
  BY DEF Acting
<1>2. pc[u] \in {"service", "objects"} /\ u \in asleep' => svc'[at[u]].objcnt > 0
  BY <1>1, Zenon DEF Quiet, Progress
<1> QED BY <1>2, StaysThere DEF Quiet

\* A step of no thread that waits
LEMMA NobodyMoves ==
    ASSUME Acting, Stopping, Quiet, UNCHANGED <<state, pc, at>>, asleep' \subseteq asleep
    PROVE  Stopping'
<1>1. \A u \in Threads : Progress(u)'
  BY QuietStays DEF Stopping
<1>2. state' = "stopped" => \A i \in DOMAIN svc' : svc'[i].state = "stopped"
  BY Zenon DEF Stopping, Quiet, Settles
<1> QED BY <1>1, <1>2 DEF Stopping

\* A step of one
LEMMA OneMoves ==
    ASSUME Acting, Stopping, Quiet, NEW t \in Threads, NEW p, NEW a,
           pc' = [pc EXCEPT ![t] = p], at' = [at EXCEPT ![t] = a],
           asleep' \subseteq asleep \union {t},
           Progress(t)', state' = "stopped" => \A i \in DOMAIN svc' : svc'[i].state = "stopped"
    PROVE  Stopping'
<1>1. ASSUME NEW u \in Threads, u # t PROVE Progress(u)'
  <2>1. pc'[u] = pc[u] /\ at'[u] = at[u] /\ (u \in asleep' => u \in asleep)
    BY <1>1 DEF Acting
  <2> QED BY <2>1, QuietStays, ZenonT(60) DEF Stopping
<1> QED BY <1>1, ZenonT(60) DEF Stopping

\* The state of one service, or none, changes.
LEMMA StateIsQuiet ==
    ASSUME Registry, state # "running" => state' # "running",
           \/ svc' = svc
           \/ \E k \in DOMAIN svc, v \in SvcStates :
                /\ svc' = [svc EXCEPT ![k].state = v] /\ v # "running"
                /\ svc[k].state = "stopped" => v = "stopped"
    PROVE  Quiet
<1>1. CASE svc' = svc
  BY <1>1 DEF Quiet, Settles
<1>2. CASE \E k \in DOMAIN svc, v \in SvcStates :
                /\ svc' = [svc EXCEPT ![k].state = v] /\ v # "running"
                /\ svc[k].state = "stopped" => v = "stopped"
  <2>1. PICK k \in DOMAIN svc, v \in SvcStates :
                /\ svc' = [svc EXCEPT ![k].state = v] /\ v # "running"
                /\ svc[k].state = "stopped" => v = "stopped"
    BY <1>2, Zenon
  <2>2. /\ DOMAIN svc' = DOMAIN svc /\ svc'[k].state = v
        /\ \A i \in DOMAIN svc : SameStub(i) /\ (i # k => svc'[i] = svc[i])
    BY <2>1, SetState, Zenon DEF Registry
  <2> QED BY <2>1, <2>2, Zenon DEF Quiet, Settles, SameStub
<1> QED BY <1>1, <1>2

\* Nothing is started while a thread stops something.
LEMMA StartingStops ==
    ASSUME ~StartAnytime, Registry, Stopping, start \/ \E s \in Services : startService(s)
    PROVE  Stopping'
<1>1. /\ \A t \in Threads : pc[t] = "idle"
      /\ pc' = pc /\ state' = "running"
  BY ZenonT(60) DEF start, startService, MayStart, threads
<1>2. \A t \in Threads : Progress(t)'
  BY <1>1, ZenonT(60) DEF Progress
<1> QED BY <1>1, <1>2 DEF Stopping

\* While the manager runs, threads stop only services, which are registered already.
LEMMA registerServiceStops ==
    ASSUME ManagerAssumption, Reuse = {}, Registry, Stopping, NEW s \in Services,
           registerService(s)
    PROVE  Stopping'
<1>1. /\ svc' = Append(svc, Fresh(s)) /\ state = "running"
      /\ UNCHANGED <<state, pc, at, asleep>>
  BY DEF registerService, threads
<1>2. svc \in Seq(Stubs) /\ Acting
  BY DEF Registry, Types, Stored
<1>3. \A i \in DOMAIN svc : svc'[i] = svc[i]
  BY <1>1, <1>2
<1>4. ASSUME NEW u \in Threads PROVE Progress(u)'
  <2>1. Progress(u) /\ (pc[u] \in {"service", "objects"} => at[u] \in DOMAIN svc)
    BY <1>2, ZenonT(60) DEF Stopping, Acting
  <2>2. pc[u] \notin {"again", "broadcast", "wait", "objects"}
    BY <1>1, <2>1 DEF Progress
  <2> QED BY <1>1, <1>3, <2>1, <2>2, SMTT(60) DEF Progress
<1> QED BY <1>1, <1>4 DEF Stopping

\* Nobody waits for a service that is stopped, and thus may be unregistered.
LEMMA unregisterServiceStops ==
    ASSUME ManagerAssumption, Registry, Stopping, NEW s \in Services, unregisterService(s)
    PROVE  Stopping'
<1>1. svc \in Seq(Stubs) /\ Acting
  BY DEF Registry, Types, Stored
<1>2. PICK i : i = idx[s]
  OBVIOUS
<1>3. i \in DOMAIN svc /\ svc[i].state = "stopped"
  BY <1>2, Zenon DEF unregisterService, Registry, Registered
<1>4. svc[i].objcnt = 0
  BY <1>3, Zenon DEF Registry, Counted, Counts
<1>5. /\ svc' = [svc EXCEPT ![i] = Reset]
      /\ UNCHANGED <<state, pc, at>> /\ asleep' \subseteq asleep
  BY <1>2 DEF unregisterService
<1>6. Reset.state = "stopped"
  BY DEF Reset, Fresh
<1>7. Quiet
  BY <1>1, <1>3, <1>4, <1>5, <1>6 DEF Quiet, Settles
<1> QED BY <1>1, <1>5, <1>7, NobodyMoves

\* An object that comes changes the state of no service.
LEMMA registerObjectStops ==
    ASSUME ManagerAssumption, Registry, Stopping, NEW s \in Services, NEW o \in Objects,
           NEW scheduled \in BOOLEAN, registerObject(s, o, scheduled)
    PROVE  Stopping'
<1>1. svc \in Seq(Stubs) /\ Acting
  BY DEF Registry, Types, Stored
<1>2. PICK i : i = idx[s]
  OBVIOUS
<1>3. i \in DOMAIN svc
  BY <1>2, Zenon DEF registerObject, Registry, Registered
<1>4. PICK n, stub : n = Place(svc[i]) /\ stub = Taken(svc[i])
  OBVIOUS
<1>5. /\ \/ svc' = [svc EXCEPT ![i] = [stub EXCEPT !.objcnt = @ + 1]]
         \/ svc' = [svc EXCEPT ![i] = [stub EXCEPT !.objcache = Cons(n, @)]]
      /\ UNCHANGED <<state, pc, at, asleep>>
  BY <1>2, <1>4, ZenonT(60) DEF registerObject, threads, Joined, Cons
<1>6. PICK x : x = svc[i] /\ x \in Stubs /\ x.objcnt \in Nat
  BY <1>3, StubTypes DEF Registry
<1>7. stub.objcnt = x.objcnt /\ stub.state = x.state
      /\ DOMAIN stub = {"psvc", "state", "objcnt", "chks", "objcache", "left"}
  BY <1>4, <1>6 DEF Taken, Stubs
<1>8. PICK w : /\ svc' = [svc EXCEPT ![i] = w] /\ w.state = x.state
               /\ w.objcnt \in {x.objcnt, x.objcnt + 1}
  BY <1>5, <1>7
<1>9. Quiet
  BY <1>1, <1>3, <1>5, <1>6, <1>8 DEF Quiet, Settles
<1> QED BY <1>1, <1>5, <1>9, NobodyMoves

\* An object that closes, or leaves its chunk, is still counted.
LEMMA ObjectStops ==
    ASSUME Registry, Stopping,
           \E o \in Objects : disableObjectVisits(o) \/ LeaveChunk(o)
    PROVE  Stopping'
<1>1. UNCHANGED <<state, svc, pc, at, asleep>>
  BY ZenonT(60) DEF disableObjectVisits, LeaveChunk, tables, threads
<1>2. Quiet
  BY <1>1 DEF Quiet, Settles
<1>3. Acting
  BY SMTT(60) DEF Registry, Types
<1> QED BY <1>1, <1>2, <1>3, NobodyMoves, ZenonT(60)

\* The last object of a service that is being stopped wakes all who wait; nobody waits
\* for one that is running, and a stopped one has no objects.
LEMMA LeaveServiceStops ==
    ASSUME ManagerAssumption, Cardinals, Registry, Stopping, NEW o \in Objects, LeaveService(o)
    PROVE  Stopping'
<1>1. Acting
  BY DEF Registry, Types
<1>2. PICK n, i : n = id[o].index /\ i = chunk[ChunkOf(n)].svcidx
  OBVIOUS
<1>3. Discounts(o, n, i)
  BY <1>2, LeaveServiceStub, ZenonT(60)
<1>4. /\ asleep' = IF svc'[i].objcnt = 0 /\ svc[i].state = "stopping" THEN {} ELSE asleep
      /\ UNCHANGED <<state, pc, at>>
  BY <1>2, ZenonT(60) DEF LeaveService
<1>5. i \in DOMAIN svc /\ svc[i].state \in SvcStates \ {"stopped"} /\ svc[i].objcnt \in Nat
  BY <1>3, StubTypes, ZenonT(60) DEF Discounts, Registry
<1>6. svc'[i].objcnt \in Nat
  BY <1>3, <1>5 DEF Discounts
<1>7. Settles
  BY <1>3, <1>4, ZenonT(60) DEF Settles, Discounts
<1>8. ASSUME NEW u \in Threads PROVE Progress(u)'
  <2>1. Progress(u) /\ (pc[u] \in {"service", "objects"} => at[u] \in DOMAIN svc)
    BY <1>1, ZenonT(60) DEF Acting, Stopping
  <2>2. ASSUME pc[u] \in {"service", "objects"}, u \in asleep' PROVE svc'[at[u]].objcnt > 0
    <3>1. CASE at[u] = i
      <4>1. svc[i].state = "stopping"
        BY <1>5, <2>1, <2>2, <3>1, ZenonT(60) DEF Progress, SvcStates
      <4>2. svc'[i].objcnt # 0
        BY <1>4, <2>2, <4>1, ZenonT(60)
      <4> QED BY <1>6, <3>1, <4>2, AboveZero, ZenonT(60)
    <3>2. CASE at[u] # i
      <4>1. u \in asleep
        BY <1>4, <2>2
      <4> QED BY <1>3, <2>1, <2>2, <3>2, <4>1, ZenonT(60) DEF Discounts, Progress
    <3> QED BY <3>1, <3>2, ZenonT(60)
  <2> QED BY <1>1, <1>4, <1>7, <2>1, <2>2, StaysThere, ZenonT(60)
<1>9. state' = "stopped" => \A j \in DOMAIN svc' : svc'[j].state = "stopped"
  BY <1>4, <1>7, Zenon DEF Stopping, Settles
<1> QED BY <1>8, <1>9 DEF Stopping

\* Service::stop() goes to sleep for a service that has objects.
LEMMA stopServiceStops ==
    ASSUME ManagerAssumption, Registry, Stopping, NEW t \in Threads, NEW s \in Services,
           NEW wait \in BOOLEAN, stopService(t, s, wait)
    PROVE  Stopping'
<1>1. Acting
  BY DEF Registry, Types
<1>2. PICK i : i = idx[s]
  OBVIOUS
<1>3. i \in DOMAIN svc
  BY <1>2, ZenonT(60) DEF stopService, Registry, Registered
<1>4. svc[i].objcnt \in Nat
  BY <1>3, StubTypes, SMTT(60) DEF Registry
<1>5. /\ \/ svc' = svc /\ svc[i].objcnt # 0
         \/ \E v \in SvcStates : /\ svc' = [svc EXCEPT ![i].state = v] /\ v # "running"
                                 /\ v = "stopped" <=> svc[i].objcnt = 0
      /\ svc[i].state # "stopped"
  <2>1. CASE svc[i].state = "running" /\ StopStub(i)
    BY <1>3, <2>1, StopStubIs
  <2>2. CASE svc[i].state = "stopping"
             /\ svc' = IF svc[i].objcnt = 0 THEN [svc EXCEPT ![i].state = "stopped"] ELSE svc
    BY <2>2 DEF SvcStates
  <2> QED BY <1>2, <2>1, <2>2, Zenon DEF stopService
<1>6. UNCHANGED state /\ pc[t] = "idle"
  BY DEF stopService
<1>7. Quiet
  BY <1>3, <1>5, <1>6, StateIsQuiet
<1>8. CASE UNCHANGED threads
  BY <1>1, <1>6, <1>7, <1>8, NobodyMoves DEF threads
<1>9. CASE svc'[i].state = "stopping" /\ Sleep(t, "service", i)
  <2>1. /\ pc' = [pc EXCEPT ![t] = "service"] /\ at' = [at EXCEPT ![t] = i]
        /\ asleep' = asleep \union {t}
    BY <1>9 DEF Sleep
  <2>2. svc'[i].objcnt > 0
    <3>1. CASE svc' = svc /\ svc[i].objcnt # 0
      BY <1>4, <3>1
    <3>2. CASE \E v \in SvcStates : /\ svc' = [svc EXCEPT ![i].state = v] /\ v # "running"
                                    /\ v = "stopped" <=> svc[i].objcnt = 0
      <4>1. PICK v \in SvcStates : /\ svc' = [svc EXCEPT ![i].state = v]
                                   /\ v = "stopped" <=> svc[i].objcnt = 0
        BY <3>2, ZenonT(60)
      <4>2. svc'[i].state = v /\ svc'[i].objcnt = svc[i].objcnt
        BY <1>3, <4>1, SetState, ZenonT(60) DEF Registry, SameStub
      <4> QED BY <1>4, <1>9, <4>1, <4>2
    <3> QED BY <1>5, <3>1, <3>2
  <2>3. Progress(t)'
    BY <1>1, <1>9, <2>1, <2>2, ZenonT(60) DEF Progress, Acting
  <2>4. state' = "stopped" => \A j \in DOMAIN svc' : svc'[j].state = "stopped"
    BY <1>6, <1>7 DEF Stopping, Quiet, Settles
  <2> QED BY <1>1, <1>7, <2>1, <2>3, <2>4, OneMoves, Zenon
<1> QED BY <1>2, <1>8, <1>9 DEF stopService

\* Who wakes up looks at the number of objects again.
LEMMA WakeStops ==
    ASSUME ManagerAssumption, Registry, Stopping, NEW t \in Threads, Wake(t)
    PROVE  Stopping'
<1>1. Acting
  BY DEF Registry, Types
<1>2. PICK i : i = at[t]
  OBVIOUS
<1>3. i \in DOMAIN svc /\ pc[t] \in {"service", "objects"}
  BY <1>1, <1>2 DEF Wake, Acting
<1>4. /\ svc[i].objcnt \in Nat /\ i \in Nat /\ DOMAIN svc = 1..Len(svc)
      /\ Progress(t) /\ state' = state
  BY <1>3, StubTypes, SMTT(60) DEF Registry, Types, Stored, Stopping, Wake
<1>5. CASE svc[i].objcnt > 0
  <2>1. asleep' = asleep \union {t} /\ UNCHANGED <<svc, pc, at>>
    BY <1>2, <1>5 DEF Wake
  <2>2. Quiet
    BY <1>4, <2>1, StateIsQuiet, ZenonT(60)
  <2>3. Progress(t)'
    BY <1>1, <1>2, <1>4, <1>5, <2>1, <2>2, StaysThere, ZenonT(60) DEF Quiet
  <2>4. pc' = [pc EXCEPT ![t] = pc[t]] /\ at' = [at EXCEPT ![t] = at[t]]
    BY <1>1, <2>1, ZenonT(60) DEF Acting
  <2>5. state' = "stopped" => \A j \in DOMAIN svc' : svc'[j].state = "stopped"
    BY <1>4, <2>2 DEF Stopping, Quiet, Settles
  <2> QED BY <1>1, <2>1, <2>2, <2>3, <2>4, <2>5, OneMoves, Zenon
<1>6. CASE ~(svc[i].objcnt > 0)
  <2>1. /\ svc' = [svc EXCEPT ![i].state = "stopped"]
        /\ pc' = [pc EXCEPT ![t] = AfterWait(t)] /\ at' = [at EXCEPT ![t] = i + 1]
        /\ asleep' = asleep
    BY <1>2, <1>6 DEF Wake
  <2>2. "stopped" \in SvcStates
    BY DEF SvcStates
  <2>3. Quiet
    BY <1>3, <1>4, <2>1, <2>2, StateIsQuiet, Zenon
  <2>4. svc'[i].state = "stopped" /\ DOMAIN svc' = DOMAIN svc
    BY <1>3, <2>1, <2>2, SetState, ZenonT(60) DEF Registry
  <2>5. Progress(t)'
    <3>1. CASE pc[t] = "service"
      BY <1>1, <2>1, <3>1, ZenonT(60) DEF AfterWait, Progress, Acting
    <3>2. CASE pc[t] = "objects"
      <4>1. pc'[t] = "wait" /\ at'[t] = i + 1
        BY <1>1, <2>1, <3>2, ZenonT(60) DEF AfterWait, Acting
      <4>2. state' # "running" /\ \A j \in DOMAIN svc : svc'[j].state # "running"
        BY <1>4, <2>3, <3>2, ZenonT(60) DEF Progress, Quiet, Settles
      <4>3. \A j \in DOMAIN svc : j < i => svc'[j].state = "stopped"
        BY <1>2, <1>4, <2>3, <3>2, ZenonT(60) DEF Progress, Quiet, Settles
      <4>4. \A j \in DOMAIN svc : j < i + 1 => j < i \/ j = i
        BY <1>4, SMTT(60)
      <4> QED BY <2>4, <4>1, <4>2, <4>3, <4>4 DEF Progress
    <3> QED BY <1>3, <3>1, <3>2
  <2>6. state' = "stopped" => \A j \in DOMAIN svc' : svc'[j].state = "stopped"
    BY <1>4, <2>3 DEF Stopping, Quiet, Settles
  <2> QED BY <1>1, <2>1, <2>3, <2>5, <2>6, OneMoves, Zenon
<1> QED BY <1>5, <1>6

\* Manager::stop() begins: whatever it was, the manager is stopping.
LEMMA stopStops ==
    ASSUME Registry, Stopping, NEW t \in Threads, stop(t) \/ StopAgain(t)
    PROVE  Stopping'
<1>1. Acting
  BY DEF Registry, Types
<1>2. PICK p \in {"again", "broadcast"}, a \in {0, 1} :
        /\ pc' = [pc EXCEPT ![t] = p] /\ at' = [at EXCEPT ![t] = a]
        /\ p = "broadcast" => a = 1
        /\ asleep' \subseteq asleep \union {t} /\ svc' = svc
  BY ZenonT(60) DEF stop, StopAgain, Sleep, tables
<1>3. state' # "running" /\ (state' = "stopped" => state = "stopped")
  BY DEF stop, StopAgain, Stopping, Progress
<1>4. Quiet
  BY <1>2, <1>3, StateIsQuiet, ZenonT(60)
<1>5. \A i \in DOMAIN svc' : ~(i < 1)
  BY <1>2 DEF Registry, Types, Stored
<1>6. pc'[t] = p /\ at'[t] = a
  BY <1>1, <1>2, ZenonT(60) DEF Acting
<1>7. Progress(t)'
  BY <1>2, <1>3, <1>5, <1>6, ZenonT(60) DEF Progress
<1> QED BY <1>1, <1>2, <1>3, <1>4, <1>7, OneMoves, Zenon DEF Stopping

\* After broadcasting no service is running.
LEMMA BroadcastStops ==
    ASSUME ManagerAssumption, Registry, Stopping, NEW t \in Threads, Broadcast(t)
    PROVE  Stopping'
<1>1. Acting
  BY DEF Registry, Types
<1>2. PICK i : i = at[t]
  OBVIOUS
<1>3. /\ svc \in Seq(Stubs) /\ i \in DOMAIN svc /\ i \in Nat
      /\ pc[t] = "broadcast" /\ at' = [at EXCEPT ![t] = i + 1]
      /\ UNCHANGED <<state, pc, asleep>> /\ Progress(t)
  <2>1. svc \in Seq(Stubs) /\ Progress(t)
    BY ZenonT(60) DEF Registry, Types, Stored, Stopping
  <2>2. /\ pc[t] = "broadcast" /\ i <= Len(svc) /\ at' = [at EXCEPT ![t] = i + 1]
        /\ UNCHANGED <<state, pc, asleep>>
    BY <1>2, ZenonT(60) DEF Broadcast
  <2>3. i \in Nat /\ i >= 1
    BY <1>1, <1>2, <2>2 DEF Acting
  <2> QED BY <2>1, <2>2, <2>3
<1>4. \/ svc' = svc /\ svc[i].state # "running"
      \/ svc[i].state = "running"
         /\ \E v \in SvcStates : svc' = [svc EXCEPT ![i].state = v] /\ v # "running"
  <2>1. CASE svc[i].psvc # None /\ svc[i].state = "running"
    <3>1. StopStub(i)
      BY <1>2, <2>1, ZenonT(60) DEF Broadcast
    <3> QED BY <1>3, <2>1, <3>1, StopStubIs, ZenonT(60)
  <2>2. CASE ~(svc[i].psvc # None /\ svc[i].state = "running")
    <3>1. svc' = svc
      BY <1>2, <2>2, ZenonT(60) DEF Broadcast
    <3>2. svc[i].psvc = None => svc[i].state = "stopped"
      BY <1>3, Zenon DEF Registry, Registered
    <3> QED BY <2>2, <3>1, <3>2, ZenonT(60)
  <2> QED BY <2>1, <2>2
<1>5. Quiet
  BY <1>3, <1>4, StateIsQuiet
<1>6. svc'[i].state # "running"
  <2>1. CASE svc' = svc /\ svc[i].state # "running"
    BY <2>1, ZenonT(60)
  <2>2. CASE \E v \in SvcStates : svc' = [svc EXCEPT ![i].state = v] /\ v # "running"
    BY <1>3, <2>2, SetState, ZenonT(60) DEF Registry
  <2> QED BY <1>4, <2>1, <2>2
<1>7. Progress(t)'
  <2>1. pc'[t] = "broadcast" /\ at'[t] = i + 1 /\ state' # "running"
    BY <1>1, <1>3, ZenonT(60) DEF Acting, Progress
  <2>2. \A j \in DOMAIN svc : j < i => svc'[j].state # "running"
    BY <1>2, <1>3, <1>5, ZenonT(60) DEF Progress, Quiet, Settles
  <2>3. \A j \in DOMAIN svc : j < i + 1 => j < i \/ j = i
    BY <1>3
  <2>4. DOMAIN svc' = DOMAIN svc
    BY <1>5 DEF Quiet, Settles
  <2> QED BY <1>6, <2>1, <2>2, <2>3, <2>4, ZenonT(60) DEF Progress
<1>8. pc' = [pc EXCEPT ![t] = pc[t]] /\ asleep' \subseteq asleep \union {t}
  BY <1>1, <1>3, ZenonT(60) DEF Acting
<1>9. state' = "stopped" => \A j \in DOMAIN svc' : svc'[j].state = "stopped"
  BY <1>3, <1>5, SMTT(60) DEF Stopping, Quiet, Settles
<1> QED BY <1>1, <1>3, <1>5, <1>7, <1>8, <1>9, OneMoves, Zenon

\* The first loop of Manager::stop() has passed all services.
LEMMA BroadcastDoneStops ==
    ASSUME Registry, Stopping, NEW t \in Threads, BroadcastDone(t)
    PROVE  Stopping'
<1>1. Acting /\ svc \in Seq(Stubs)
  BY ZenonT(60) DEF Registry, Types, Stored
<1>2. /\ pc' = [pc EXCEPT ![t] = "wait"] /\ at' = [at EXCEPT ![t] = 1]
      /\ UNCHANGED <<state, svc, asleep>> /\ pc[t] = "broadcast" /\ at[t] > Len(svc)
      /\ Progress(t) /\ at[t] \in Nat
  BY <1>1 DEF BroadcastDone, tables, Stopping, Acting
<1>3. Quiet
  BY <1>2, StateIsQuiet
<1>4. pc'[t] = "wait" /\ at'[t] = 1
  BY <1>1, <1>2, SMTT(60) DEF Acting
<1>5. \A j \in DOMAIN svc : j < at[t] /\ ~(j < 1)
  BY <1>1, <1>2, SMTT(60)
<1>6. Progress(t)'
  BY <1>2, <1>4, <1>5, ZenonT(60) DEF Progress
<1>7. state' = "stopped" => \A j \in DOMAIN svc' : svc'[j].state = "stopped"
  BY <1>2 DEF Stopping
<1> QED BY <1>1, <1>2, <1>3, <1>6, <1>7, OneMoves, ZenonT(60)

\* What is stopping and empty, or no longer stopping, is stopped when the second loop of
\* stop() goes on.
LEMMA WaitServiceStops ==
    ASSUME ManagerAssumption, Registry, Stopping, NEW t \in Threads, WaitService(t)
    PROVE  Stopping'
<1>1. Acting
  BY DEF Registry, Types
<1>2. PICK i : i = at[t]
  OBVIOUS
<1>3. /\ svc \in Seq(Stubs) /\ i \in DOMAIN svc /\ i \in Nat
      /\ pc[t] = "wait" /\ state' = state /\ Progress(t)
  <2>1. svc \in Seq(Stubs) /\ Progress(t)
    BY DEF Registry, Types, Stored, Stopping
  <2>2. pc[t] = "wait" /\ i <= Len(svc) /\ state' = state
    BY <1>2, SMTT(60) DEF WaitService
  <2>3. i \in Nat /\ i >= 1
    BY <1>1, <1>2, <2>2, ZenonT(60) DEF Acting
  <2> QED BY <2>1, <2>2, <2>3
<1>4. svc[i].state \in {"stopping", "stopped"} /\ svc[i].objcnt \in Nat
  BY <1>3, StubTypes, ZenonT(60) DEF Progress, SvcStates, Registry
<1>5. state' # "running"
  BY <1>3, SMTT(60) DEF Progress
<1>6. CASE Sleep(t, "objects", i) /\ svc' = svc /\ svc[i].objcnt > 0
  <2>1. /\ pc' = [pc EXCEPT ![t] = "objects"] /\ at' = [at EXCEPT ![t] = i]
        /\ asleep' = asleep \union {t}
    BY <1>6 DEF Sleep
  <2>2. Quiet
    BY <1>3, <1>6, StateIsQuiet
  <2>3. pc'[t] = "objects" /\ at'[t] = i
    BY <1>1, <2>1 DEF Acting
  <2>4. Progress(t)'
    BY <1>2, <1>3, <1>5, <1>6, <2>3, ZenonT(60) DEF Progress
  <2>5. state' = "stopped" => \A j \in DOMAIN svc' : svc'[j].state = "stopped"
    BY <1>3, <1>6 DEF Stopping
  <2> QED BY <1>1, <2>1, <2>2, <2>4, <2>5, OneMoves, Zenon
<1>7. CASE /\ at' = [at EXCEPT ![t] = i + 1] /\ UNCHANGED <<pc, asleep>>
           /\ \/ svc' = svc /\ svc[i].state = "stopped"
              \/ svc' = [svc EXCEPT ![i].state = "stopped"]
  <2>1. "stopped" \in SvcStates
    BY DEF SvcStates
  <2>2. Quiet
    BY <1>3, <1>7, <2>1, StateIsQuiet, ZenonT(60)
  <2>3. svc'[i].state = "stopped"
    BY <1>3, <1>7, <2>1, SetState DEF Registry
  <2>4. pc'[t] = "wait" /\ at'[t] = i + 1
    BY <1>1, <1>3, <1>7, ZenonT(60) DEF Acting
  <2>5. /\ \A j \in DOMAIN svc : svc'[j].state # "running" /\ (j < i => svc'[j].state = "stopped")
        /\ DOMAIN svc' = DOMAIN svc
    <3>1. \A j \in DOMAIN svc : svc[j].state # "running" /\ (j < i => svc[j].state = "stopped")
      BY <1>2, <1>3, Zenon DEF Progress
    <3>2. Settles
      BY <2>2, Zenon DEF Quiet
    <3> QED BY <3>1, <3>2, Zenon DEF Settles
  <2>6. \A j \in DOMAIN svc : j < i + 1 => j < i \/ j = i
    BY <1>3, SMTT(60)
  <2>7. Progress(t)'
    BY <1>5, <2>3, <2>4, <2>5, <2>6, ZenonT(60) DEF Progress
  <2>8. state' = "stopped" => \A j \in DOMAIN svc' : svc'[j].state = "stopped"
    BY <1>3, <2>2 DEF Stopping, Quiet, Settles
  <2>9. pc' = [pc EXCEPT ![t] = pc[t]]
    BY <1>1, <1>7 DEF Acting
  <2> QED BY <1>1, <1>7, <2>2, <2>7, <2>8, <2>9, OneMoves, Zenon
<1>8. svc[i].psvc = None => svc[i].state = "stopped"
  BY <1>3, Zenon DEF Registry, Registered
<1> QED BY <1>2, <1>4, <1>6, <1>7, <1>8 DEF WaitService

\* All services are stopped when Manager::stop() returns.
LEMMA StopDoneStops ==
    ASSUME Registry, Stopping, NEW t \in Threads, StopDone(t)
    PROVE  Stopping'
<1>1. Acting /\ svc \in Seq(Stubs)
  BY DEF Registry, Types, Stored
<1>2. /\ pc[t] = "wait" /\ at[t] > Len(svc) /\ state' = "stopped" /\ asleep' = {}
      /\ pc' = [pc EXCEPT ![t] = "idle"] /\ UNCHANGED <<svc, at>> /\ Progress(t) /\ at[t] \in Nat
  BY <1>1 DEF StopDone, tables, Stopping, Acting
<1>3. Quiet
  BY <1>2, StateIsQuiet
<1>4. \A j \in DOMAIN svc : j < at[t]
  BY <1>1, <1>2, SMTT(60)
<1>5. \A j \in DOMAIN svc : svc[j].state = "stopped"
  BY <1>2, <1>4 DEF Progress
<1>6. pc'[t] = "idle" /\ at' = [at EXCEPT ![t] = at[t]] /\ asleep' \subseteq asleep \union {t}
  BY <1>1, <1>2 DEF Acting
<1>7. Progress(t)'
  BY <1>6 DEF Progress
<1> QED BY <1>1, <1>2, <1>3, <1>5, <1>6, <1>7, OneMoves, Zenon

\* Every step of the manager keeps the progress of the threads.
LEMMA NextStopping ==
    ASSUME ManagerAssumption, Cardinals, Reuse = {}, ~StartAnytime, Registry, Stopping, [Next]_vars
    PROVE  Stopping'
<1>1. CASE UNCHANGED vars
  <2>1. UNCHANGED <<state, svc, pc, at, asleep>>
    BY <1>1 DEF vars, tables, threads
  <2>2. Quiet /\ Acting
    BY <2>1, StateIsQuiet DEF Registry, Types
  <2> QED BY <2>1, <2>2, NobodyMoves
<1>2. CASE start \/ \E s \in Services : startService(s)
  BY <1>2, StartingStops
<1>3. CASE \E s \in Services : registerService(s) \/ unregisterService(s)
  BY <1>3, registerServiceStops, unregisterServiceStops
<1>4. CASE \E s \in Services, o \in Objects, scheduled \in BOOLEAN :
             registerObject(s, o, scheduled)
  BY <1>4, registerObjectStops
<1>5. CASE \E s \in Services, t \in Threads, wait \in BOOLEAN : stopService(t, s, wait)
  BY <1>5, stopServiceStops
<1>6. CASE \E o \in Objects : disableObjectVisits(o) \/ LeaveChunk(o)
  BY <1>6, ObjectStops
<1>7. CASE \E o \in Objects : LeaveService(o)
  BY <1>7, LeaveServiceStops
<1>8. CASE \E t \in Threads : stop(t) \/ StopAgain(t) \/ Wake(t)
  BY <1>8, stopStops, WakeStops, ZenonT(60)
<1>9. CASE \E t \in Threads : Broadcast(t) \/ BroadcastDone(t) \/ WaitService(t) \/ StopDone(t)
  BY <1>9, BroadcastStops, BroadcastDoneStops, WaitServiceStops, StopDoneStops, ZenonT(60)
<1> QED BY <1>1, <1>2, <1>3, <1>4, <1>5, <1>6, <1>7, <1>8, <1>9, ZenonT(60) DEF Next

-----------------------------------------------------------------------------
(***************************************************************************)
(* The theorems.  FiniteSetTheorems is not needed before.                  *)
(***************************************************************************)
INSTANCE FiniteSetTheorems

\* What the lemmas assume of cardinalities holds of all finite sets.
LEMMA CardinalsHold == Cardinals
<1>1. IsFiniteSet({}) /\ Cardinality({}) = 0
  BY FS_EmptySet
<1>2. ASSUME NEW S, NEW x, IsFiniteSet(S), x \notin S
      PROVE  IsFiniteSet(S \union {x}) /\ Cardinality(S \union {x}) = Cardinality(S) + 1
  BY <1>2, FS_AddElement, ZenonT(60)
<1>3. ASSUME NEW S, NEW x, IsFiniteSet(S), x \in S
      PROVE  /\ IsFiniteSet(S \ {x}) /\ Cardinality(S \ {x}) = Cardinality(S) - 1
             /\ Cardinality(S) # 0
  BY <1>3, FS_RemoveElement, FS_EmptySet
<1> QED BY <1>1, <1>2, <1>3, ZenonT(60) DEF Cardinals

\* Manager::notify() and visit() reach, by the id that registerObject() returned for an
\* object, that object or nobody: the unique of its place was advanced before the place
\* was given to another.
THEOREM ObjectIdsAreUnique == ASSUME ManagerAssumption, Reuse = {} PROVE Spec => []IdsAreUnique
<1>1. Init => Registry
  BY InitRegistry
<1>2. Registry /\ [Next]_vars => Registry'
  BY CardinalsHold, NextRegistry
<1>3. Registry => IdsAreUnique
  BY RegistryIdsAreUnique
<1> QED BY <1>1, <1>2, <1>3, PTL DEF Spec

\* The registry and the progress of the threads hold always.
LEMMA AlwaysStopping ==
    ASSUME ManagerAssumption, Reuse = {}, ~StartAnytime
    PROVE  Spec => [](Registry /\ Stopping)
<1>1. Init => Registry /\ Stopping
  <2>1. Init => Stopping
    BY DEF Init, Stopping, Progress
  <2> QED BY <2>1, InitRegistry, ZenonT(60)
<1>2. Registry /\ Stopping /\ [Next]_vars => (Registry /\ Stopping)'
  BY CardinalsHold, NextRegistry, NextStopping, ZenonT(60)
<1> QED BY <1>1, <1>2, PTL DEF Spec

\* A stopped service has no object, also none that has left its chunk, and after
\* Manager::stop() there are no objects: who returns from Service::stop(true) or
\* Manager::stop() may destroy the service.
THEOREM StoppedServicesAreEmpty ==
    ASSUME ManagerAssumption, Reuse = {}, ~StartAnytime PROVE Spec => []StoppedIsEmpty
<1>1. Registry /\ Stopping => StoppedIsEmpty
  <2> SUFFICES ASSUME Registry, Stopping PROVE StoppedIsEmpty
    OBVIOUS
  <2>1. ASSUME NEW o \in Objects, life[o] \in Alive,
               NEW i, i = chunk[ChunkOf(id[o].index)].svcidx
        PROVE  i \in DOMAIN svc /\ svc[i].psvc # None /\ svc[i].state # "stopped"
    <3>1. i \in DOMAIN svc /\ o \in Members(i)
      BY <2>1, Zenon DEF Registry, Placed, Held, Members
    <3>2. Counts(i)
      BY <3>1, ZenonT(60) DEF Registry, Counted
    <3>3. svc[i].objcnt # 0
      BY <3>1, <3>2, CardinalsHold, ZenonT(60) DEF Counts, Cardinals
    <3> QED BY <3>1, <3>2, <3>3, ZenonT(60) DEF Counts, Registry, Registered
  <2>2. \A o \in Objects : life[o] \in Lives
    BY DEF Registry, Types, Stored
  <2>3. ASSUME state = "stopped", NEW o \in Objects PROVE life[o] \in {"new", "gone"}
    <3>1. life[o] \notin Alive
      BY <2>1, <2>3, ZenonT(60) DEF Stopping
    <3> QED BY <2>2, <3>1 DEF Lives
  <2> QED BY <2>1, <2>3, ZenonT(60) DEF StoppedIsEmpty, Alive, Stopping
<1> QED BY <1>1, AlwaysStopping, PTL

\* Whoever waits for the objects of a service sleeps only while there are any: no wakeup
\* by the last object that leaves is lost.
THEOREM WaitersAreWoken ==
    ASSUME ManagerAssumption, Reuse = {}, ~StartAnytime PROVE Spec => []NoLostWakeup
<1>1. Registry /\ Stopping => NoLostWakeup
  BY DEF Registry, Types, Acting, Stopping, Progress, NoLostWakeup
<1> QED BY <1>1, AlwaysStopping, PTL
=============================================================================
