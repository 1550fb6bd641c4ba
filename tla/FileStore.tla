------------------------------ MODULE FileStore ------------------------------
(***************************************************************************)
(* shared::Store with the controller of file::Store.                       *)
(*                                                                         *)
(* Clients hold pointers to items: unique, shared or only alive ones.  A   *)
(* request that cannot be granted waits at its item.  The id of a released *)
(* pointer is put into an erase vector and the store, an object of a       *)
(* reactor, is raised: it serves the waits of the items, calls the waiting *)
(* clients back, and takes the items nobody uses and their indexes back.   *)
(* There is one step for each stretch of code under one mutex.             *)
(*                                                                         *)
(* The controller maps paths to indexes and hands out temporary files from *)
(* one storage with a capacity.                                            *)
(***************************************************************************)
EXTENDS Integers, Sequences, FiniteSets, SequencesExt

CONSTANTS
    Clients,
    Paths, NoFile, Temp,  \* what an item is: a file that was opened, nothing, a temporary file
    MaxIndex,             \* the indexes there are
    MaxRequests,          \* calls of the clients
    Capacity, Sizes,      \* of the temporary storage, and of the files asked for
    StoreCalls,           \* the calls they make
    StoreRaces            \* situations the store does not survive

StoreAssumption ==
    /\ IsFiniteSet(Clients) /\ NoFile \notin Paths /\ Temp \notin Paths /\ NoFile # Temp
    /\ MaxIndex \in Nat \ {0} /\ MaxRequests \in Nat /\ Capacity \in Nat /\ Sizes \subseteq Nat \ {0}
    /\ StoreCalls \subseteq {"open", "temp", "insert", "get", "request", "convert"}
    /\ StoreRaces \subseteq {"twice", "idle", "barge", "again"}

VARIABLES
    stub,        \* stubvec
    idxstk,      \* cacheobjidxstk, its top in front
    fill,        \* pfillerasevec
    mask,        \* S_RAISE is set
    raises,      \* Raise events on their way to the store
    pathset, indexset,
    tempfill, tempcons,  \* the temporary files asked for
    strg,        \* the storage of temporary files
    pass,        \* what doExecute() still has to do: pconserasevec, exewaitvec, cacheobjidxvec
    client,      \* what each client has or waits for
    note,        \* the id it has still to pass to notifyObject()
    ids, asked   \* the ids the clients know of, the calls they have made

storevars == <<stub, idxstk, fill, mask, raises, pathset, indexset, tempfill, tempcons,
               strg, pass, client, note, ids, asked>>

Index == 1..MaxIndex
NoId == <<0, 0>>
Idle == [st |-> "idle", kind |-> "none", i |-> 0, u |-> 0, want |-> NoFile]
NoPass == [on |-> FALSE, todo |-> <<>>, exe |-> <<>>, cache |-> <<>>]

Stub == [uid |-> 0, alive |-> 0, use |-> 0, state |-> "unlocked", waits |-> <<>>,
         file |-> NoFile, size |-> 0]
Storage == [used |-> 0, waitcount |-> 0, waitsizefirst |-> 0, enqued |-> FALSE]

StoreInit ==
    /\ stub = [i \in Index |-> Stub] /\ idxstk = [k \in Index |-> k]
    /\ fill = <<>> /\ mask = FALSE /\ raises = 0
    /\ pathset = [p \in {} |-> 0] /\ indexset = [i \in {} |-> NoFile]
    /\ tempfill = <<>> /\ tempcons = <<>> /\ strg = Storage
    /\ pass = NoPass
    /\ client = [c \in Clients |-> Idle] /\ note = [c \in Clients |-> NoId] /\ ids = {} /\ asked = 0

(***************************************************************************)
(* Items                                                                   *)
(***************************************************************************)
canClear(s) == s.use = 0 /\ s.alive = 0 /\ s.waits = <<>>

\* As MayGet below, with a shared pointer for everyone who finds nobody waiting
MayGetUnlocked(s, kind) ==
    \/ kind = "alive"
    \/ kind = "shared" /\ s.waits = <<>>
    \/ kind = "unique" /\ s.use = 0
    \/ kind = "reinit" /\ canClear(s)

\* The doTryGet functions: when they succeed, and what they make of the item.
MayGet(s, kind) ==
    \/ kind = "alive"
    \/ kind = "shared" /\ s.state = "shared" /\ s.waits = <<>>
    \/ kind = "unique" /\ s.use = 0
    \/ kind = "reinit" /\ canClear(s)

Got(s, kind) ==
    CASE kind = "alive" -> [s EXCEPT !.alive = @ + 1, !.state = "unique"]
      [] kind = "shared" -> [s EXCEPT !.use = @ + 1]
      [] OTHER -> [s EXCEPT !.use = @ + 1, !.state = "unique"]

\* The pointer a client gets (one for a reinit is unique), or waits for
Has(kind, i, u, want) ==
    [st |-> "has", kind |-> IF kind = "reinit" THEN "unique" ELSE kind, i |-> i, u |-> u, want |-> want]
Waiting(kind, i, u, want) == [Has(kind, i, u, want) EXCEPT !.st = "wait"]

\* The entries come from waitdq and cachewaitstk, which all items share and use under the mutex of
\* an item only: two items that add a wait at the same time are left out.
doPushWait(s, c, kind) == [s EXCEPT !.waits = Append(@, [c |-> c, kind |-> kind])]

\* A wait that can be delivered
Deliverable(s, kind) ==
    \/ kind = "unique" /\ s.use = 0
    \/ kind = "shared" /\ (s.use = 0 \/ s.state = "shared")
    \/ kind = "reinit" /\ s.use = 0 /\ s.alive = 0

\* How many of the waits doExecuteErase() delivers: the first one and, when it
\* is shared, the shared ones behind it.
Delivered(s) ==
    IF s.waits = <<>> \/ ~Deliverable(s, Head(s.waits).kind) THEN 0
    ELSE IF Head(s.waits).kind # "shared" THEN 1
    ELSE Cardinality({k \in DOMAIN s.waits : \A j \in 1..k : s.waits[j].kind = "shared"})

doExecuteErase(s) ==
    LET n == Delivered(s)
    IN  IF n = 0 THEN s
        ELSE [s EXCEPT !.use = @ + n, !.waits = SubSeq(@, n + 1, Len(@)),
                       !.state = IF Head(s.waits).kind = "shared" THEN "shared" ELSE "unique"]

\* Puts a key into a map unless it is there: insert() of a set.
Inserted(f, k, v) == IF k \in DOMAIN f THEN f
                     ELSE [x \in DOMAIN f \cup {k} |-> IF x = k THEN v ELSE f[x]]
Removed(f, k) == [x \in DOMAIN f \ {k} |-> f[x]]

(***************************************************************************)
(* Calls of the clients                                                    *)
(***************************************************************************)
Asks(c) == client[c] = Idle /\ note[c] = NoId /\ asked < MaxRequests /\ asked' = asked + 1

erasevars == <<fill, mask, raises>>
tempvars == <<tempfill, tempcons, strg>>
pathvars == <<pathset, indexset>>

Grant(c, i, kind, want) ==
    /\ client' = [client EXCEPT ![c] = Has(kind, i, stub[i].uid, want)]
    /\ ids' = ids \cup {<<i, stub[i].uid>>}

Wait(c, i, kind, want) ==
    /\ client' = [client EXCEPT ![c] = Waiting(kind, i, stub[i].uid, want)]
    /\ UNCHANGED ids

\* requestOpenFile() and requestCreateFile(): requestReinit() with an open command.
\* The path is looked up, or gets an index.  One outside every storage is refused and changes
\* nothing; a client whose open() fails has the pointer as well, and an error with it.
requestOpenFile(c, p) ==
    /\ Asks(c)
    /\ LET found == p \in DOMAIN pathset
           i == IF found THEN pathset[p] ELSE Head(idxstk)
       IN  /\ found \/ idxstk # <<>>
           /\ idxstk' = IF found THEN idxstk ELSE Tail(idxstk)
           /\ IF MayGet(stub[i], "reinit")
              THEN /\ stub' = [stub EXCEPT ![i] = [Got(@, "reinit") EXCEPT !.file = p]]
                   /\ pathset' = Inserted(pathset, p, i) /\ indexset' = Inserted(indexset, i, p)
                   /\ Grant(c, i, "reinit", p)
              ELSE /\ stub' = [stub EXCEPT ![i] = doPushWait(@, c, "reinit")]
                   /\ Wait(c, i, "reinit", p)
                   /\ UNCHANGED pathvars
    /\ UNCHANGED <<erasevars, tempvars, pass, note>>

\* The list of temporary files asked for is gone through on every Raise event, and
\* replaced only on one that finds S_RAISE set.  With these two conditions no event
\* finds the list of another one.
TempsApart ==
    \/ "again" \in StoreRaces
    \/ raises = 0 /\ tempcons = <<>> /\ \A c \in Clients : note[c] = NoId
RaiseApart == "again" \in StoreRaces \/ tempfill = <<>> \/ raises = 0

\* requestReinit() with a command for a temporary file: the pointer is kept by
\* the controller, the client waits, and the event is sent without S_RAISE.
requestCreateTemp(c, size) ==
    /\ Asks(c) /\ idxstk # <<>> /\ TempsApart
    /\ LET i == Head(idxstk)
           got == MayGet(stub[i], "reinit")
           s == IF got THEN Got(stub[i], "reinit") ELSE stub[i]
       IN  /\ stub' = [stub EXCEPT ![i] = doPushWait(s, c, "reinit")]
           /\ tempfill' = IF got THEN Append(tempfill, [i |-> i, u |-> s.uid, size |-> size]) ELSE tempfill
           /\ raises' = IF got /\ tempfill = <<>> THEN raises + 1 ELSE raises
           /\ Wait(c, i, "reinit", Temp)
    /\ idxstk' = Tail(idxstk)
    /\ UNCHANGED <<pathvars, fill, mask, tempcons, strg, pass, note>>

\* insertAlive(), insertShared(), insertUnique().  A new item is not in the shared
\* state, so insertShared() gets no pointer and the index is lost.
Insert(c, kind) ==
    /\ Asks(c) /\ idxstk # <<>>
    /\ LET i == Head(idxstk)
       IN  IF MayGet(stub[i], kind)
           THEN stub' = [stub EXCEPT ![i] = Got(@, kind)] /\ Grant(c, i, kind, NoFile)
           ELSE UNCHANGED <<stub, client, ids>>
    /\ idxstk' = Tail(idxstk)
    /\ UNCHANGED <<erasevars, tempvars, pathvars, pass, note>>

\* unique() takes an item that others wait for already: an assertion.
Barges(s, kind) == "barge" \notin StoreRaces /\ kind = "unique" /\ s.use = 0 /\ s.waits # <<>>

\* alive(), shared() and unique()
TryGet(c, id, kind) ==
    /\ Asks(c)
    /\ LET i == id[1]
       IN  /\ ~Barges(stub[i], kind)
           /\ IF stub[i].uid = id[2] /\ MayGet(stub[i], kind)
              THEN stub' = [stub EXCEPT ![i] = Got(@, kind)] /\ Grant(c, i, kind, NoFile)
              ELSE UNCHANGED <<stub, client, ids>>
    /\ UNCHANGED <<idxstk, erasevars, tempvars, pathvars, pass, note>>

\* A shared pointer to an item nobody uses: nothing will end the wait.
WaitsForNobody(s, kind) == "idle" \notin StoreRaces /\ kind = "shared" /\ s.use = 0

\* requestShared(), requestUnique() and requestReinit() by id
Request(c, id, kind) ==
    /\ Asks(c)
    /\ LET i == id[1]
           s == stub[i]
       IN  /\ ~Barges(s, kind) /\ ~WaitsForNobody(s, kind)
           /\ IF s.uid # id[2] THEN UNCHANGED <<stub, client, ids>>
              ELSE IF MayGet(s, kind)
              THEN stub' = [stub EXCEPT ![i] = Got(@, kind)] /\ Grant(c, i, kind, NoFile)
              ELSE stub' = [stub EXCEPT ![i] = doPushWait(@, c, kind)] /\ Wait(c, i, kind, NoFile)
    /\ UNCHANGED <<idxstk, erasevars, tempvars, pathvars, pass, note>>

uniqueToShared(c) ==
    LET i == client[c].i
        s == stub[i]
    IN  /\ client[c].st = "has" /\ client[c].kind = "unique" /\ note[c] = NoId /\ RaiseApart
        /\ s.uid = client[c].u /\ s.state = "unique"
        /\ stub' = [stub EXCEPT ![i].state = "shared"]
        /\ client' = [client EXCEPT ![c].kind = "shared"]
        /\ note' = IF s.waits # <<>> /\ Head(s.waits).kind = "shared"
                   THEN [note EXCEPT ![c] = <<i, client[c].u>>] ELSE note
        /\ UNCHANGED <<idxstk, erasevars, tempvars, pathvars, pass, ids, asked>>

\* No second pointer to an item is released before the store has dealt with the first.
ReleasedApart(id) ==
    \/ "twice" \in StoreRaces
    \/ (\A k \in DOMAIN fill : fill[k] # id) /\ \A c \in Clients : note[c] # id

\* erasePointer() of the pointer a client lets go
Release(c) ==
    LET i == client[c].i
        id == <<i, client[c].u>>
    IN  /\ client[c].st = "has" /\ note[c] = NoId /\ ReleasedApart(id) /\ RaiseApart
        /\ client' = [client EXCEPT ![c] = Idle]
        /\ stub' = IF stub[i].uid # client[c].u THEN stub
                   ELSE IF client[c].kind = "alive" THEN [stub EXCEPT ![i].alive = @ - 1]
                   ELSE [stub EXCEPT ![i].use = @ - 1]
        /\ note' = [note EXCEPT ![c] = id]
        /\ UNCHANGED <<idxstk, erasevars, tempvars, pathvars, pass, ids, asked>>

\* The second half of both
notifyObject(c) ==
    /\ note[c] # NoId
    /\ note' = [note EXCEPT ![c] = NoId]
    /\ fill' = Append(fill, note[c])
    /\ mask' = (mask \/ fill = <<>>)
    /\ raises' = IF fill = <<>> /\ ~mask THEN raises + 1 ELSE raises
    /\ UNCHANGED <<stub, idxstk, tempvars, pathvars, pass, client, ids, asked>>

(***************************************************************************)
(* A pass of the store                                                     *)
(***************************************************************************)
\* executeBeforeErase() for one of the temporary files asked for.  One that is
\* too large is delivered without a storage.
shouldUse(g, size) == g.waitcount = 0 /\ Capacity - g.used >= size

BeforeErase(acc, w) ==
    LET entry == [i |-> w.i, u |-> w.u, dec |-> TRUE]
    IN  IF w.size > Capacity THEN [acc EXCEPT !.todo = Append(@, entry)]
        ELSE IF shouldUse(acc.strg, w.size)
        THEN [acc EXCEPT !.todo = Append(@, entry), !.strg.used = @ + w.size,
                         !.stub[w.i].file = Temp, !.stub[w.i].size = w.size]
        ELSE [acc EXCEPT !.strg.waitcount = @ + 1,
                         !.strg.waitsizefirst = IF acc.strg.waitcount = 0 THEN w.size ELSE @]

\* onEvent() up to the loop of doExecute()
onRaise ==
    /\ ~pass.on /\ raises > 0
    /\ LET erased == IF mask THEN [k \in DOMAIN fill |-> [i |-> fill[k][1], u |-> fill[k][2], dec |-> FALSE]]
                     ELSE <<>>
           temps == IF mask THEN tempfill ELSE tempcons
           acc == FoldLeft(BeforeErase, [todo |-> erased, strg |-> strg, stub |-> stub], temps)
       IN  /\ stub' = acc.stub /\ strg' = acc.strg
           /\ tempcons' = temps
           /\ pass' = [NoPass EXCEPT !.on = acc.todo # <<>>, !.todo = acc.todo]
    /\ raises' = raises - 1 /\ mask' = FALSE
    /\ fill' = IF mask THEN <<>> ELSE fill
    /\ tempfill' = IF mask THEN <<>> ELSE tempfill
    /\ UNCHANGED <<idxstk, pathvars, client, note, ids, asked>>

\* One entry of the erase vector
eraseNext ==
    /\ pass.todo # <<>>
    /\ LET e == Head(pass.todo)
           s == IF e.dec THEN [stub[e.i] EXCEPT !.use = @ - 1] ELSE stub[e.i]
           served == [k \in 1..Delivered(s) |->
                        [c |-> s.waits[k].c, kind |-> s.waits[k].kind, i |-> e.i, u |-> s.uid]]
       IN  IF stub[e.i].uid # e.u
           THEN pass' = [pass EXCEPT !.todo = Tail(@)] /\ UNCHANGED stub
           ELSE IF canClear(s)
           THEN /\ pass' = [pass EXCEPT !.todo = Tail(@), !.cache = Append(@, e.i)]
                /\ stub' = [stub EXCEPT ![e.i] = s]
           ELSE /\ pass' = [pass EXCEPT !.todo = Tail(@), !.exe = @ \o served]
                /\ stub' = [stub EXCEPT ![e.i] = doExecuteErase(s)]
    /\ UNCHANGED <<idxstk, erasevars, tempvars, pathvars, client, note, ids, asked>>

\* The function of a wait is called: the file is opened and the client has its pointer.
callNext ==
    /\ pass.todo = <<>> /\ pass.exe # <<>>
    /\ LET w == Head(pass.exe)
           p == client[w.c].want
       IN  /\ stub' = IF p \in Paths THEN [stub EXCEPT ![w.i].file = p] ELSE stub
           /\ client' = [client EXCEPT ![w.c] = Has(w.kind, w.i, w.u, p)]
           /\ ids' = ids \cup {<<w.i, w.u>>}
    /\ pass' = [pass EXCEPT !.exe = Tail(@)]
    /\ UNCHANGED <<idxstk, erasevars, tempvars, pathvars, note, asked>>

\* An item is cleared unless it was taken since: its file is closed, its path
\* forgotten or its room in the storage given back, and its index is free again.
canDeliver(g) == g.waitcount > 0 /\ Capacity - g.used >= g.waitsizefirst

\* As clear below, without the second test of canClear()
clearTaken(acc, i) ==
    LET s == acc.stub[i]
        cleared == [acc EXCEPT !.stub[i] = [s EXCEPT !.uid = @ + 1, !.state = "unlocked", !.file = NoFile, !.size = 0],
                               !.idxstk = <<i>> \o @, !.strg.used = @ - s.size]
    IN  IF i \in DOMAIN acc.indexset
        THEN [cleared EXCEPT !.pathset = Removed(@, acc.indexset[i]), !.indexset = Removed(@, i)]
        ELSE cleared

clear(acc, i) ==
    LET s == acc.stub[i]
        g == [acc.strg EXCEPT !.used = @ - s.size]
        cleared == [acc EXCEPT !.stub[i] = [s EXCEPT !.uid = @ + 1, !.state = "unlocked", !.file = NoFile, !.size = 0],
                               !.idxstk = <<i>> \o @]
    IN  IF ~canClear(s) THEN acc
        ELSE IF s.file = Temp
        THEN [cleared EXCEPT !.strg = [g EXCEPT !.enqued = @ \/ canDeliver(g)],
                             !.again = @ \/ (canDeliver(g) /\ ~g.enqued)]
        ELSE IF i \in DOMAIN acc.indexset
        THEN [cleared EXCEPT !.pathset = Removed(@, acc.indexset[i]), !.indexset = Removed(@, i)]
        ELSE cleared

\* The end of doExecute().  Waits for room in the storage make the store post
\* another Raise to itself; its loop over the storages with room is empty.
endPass ==
    /\ pass.on /\ pass.todo = <<>> /\ pass.exe = <<>>
    /\ LET acc == FoldLeft(clear, [stub |-> stub, idxstk |-> idxstk, pathset |-> pathset, indexset |-> indexset,
                                   strg |-> strg, again |-> FALSE], pass.cache)
       IN  /\ stub' = acc.stub /\ idxstk' = acc.idxstk /\ strg' = acc.strg
           /\ pathset' = acc.pathset /\ indexset' = acc.indexset
           /\ raises' = IF acc.again THEN raises + 1 ELSE raises
    /\ pass' = NoPass
    /\ UNCHANGED <<fill, mask, tempfill, tempcons, client, note, ids, asked>>

StoreSteps == onRaise \/ eraseNext \/ callNext \/ endPass

ClientSteps(c) ==
    \/ "open" \in StoreCalls /\ \E p \in Paths : requestOpenFile(c, p)
    \/ "temp" \in StoreCalls /\ \E size \in Sizes : requestCreateTemp(c, size)
    \/ "insert" \in StoreCalls /\ \E kind \in {"alive", "shared", "unique"} : Insert(c, kind)
    \/ "get" \in StoreCalls /\ \E kind \in {"alive", "shared", "unique"}, id \in ids : TryGet(c, id, kind)
    \/ "request" \in StoreCalls /\ \E kind \in {"shared", "unique", "reinit"}, id \in ids : Request(c, id, kind)
    \/ "convert" \in StoreCalls /\ uniqueToShared(c)
    \/ Release(c)
    \/ notifyObject(c)

StoreNext == StoreSteps \/ \E c \in Clients : ClientSteps(c)

\* The reactor runs the store, and a client lets go what it has got in the end.
Step == StoreSteps \/ \E c \in Clients : Release(c) \/ notifyObject(c)

StoreSpec == StoreInit /\ [][StoreNext]_storevars

(***************************************************************************)
(* Properties                                                              *)
(***************************************************************************)
Holds(c, kinds, i) == client[c].st = "has" /\ client[c].kind \in kinds /\ client[c].i = i

\* An item has one user that may write or any number that only read, whatever the
\* order of requests, releases and passes of the store (doTryGetUnique(),
\* doTryGetReinit(), doTryGetShared(), doExecuteErase()).
OneWriterOrReaders ==
    \A c, d \in Clients, i \in Index :
        c # d /\ Holds(c, {"unique"}, i) => ~Holds(d, {"unique", "shared"}, i)

\* A client that has opened a path has the item the path stands for, with that file
\* open: an item is neither cleared nor given to another path under its user
\* (preparePointer(), the second test of canClear() in doExecute(), clear()).
OpensItsPath ==
    \A c \in Clients :
        client[c].st = "has" /\ client[c].want \in Paths =>
            /\ client[c].want \in DOMAIN pathset /\ pathset[client[c].want] = client[c].i
            /\ stub[client[c].i].uid = client[c].u /\ stub[client[c].i].file = client[c].want

\* A client that waits for an item.  One that asked for a temporary file is not counted: it may
\* wait for room in a storage, and a request that is alone waits for ever, since its event finds
\* S_RAISE not set and onEvent() then does not exchange the lists.
WaitsFor(c) == client[c].st = "wait" /\ client[c].want # Temp
=============================================================================
