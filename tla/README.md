# Verification of SolidFrame

TLA+ specifications of the concurrent core of SolidFrame (`solid/`): the mpipc message
protocol from the connection pool down to the packets, the serializer, the reactors with
their sockets and timers, the schedulers, work pools and stores, and the registry of
services and objects. TLC checks them on small instances. TLAPS proves the safety of the
message writer, the receive buffer, the socket streams, the timers, the work pool, the
scheduler and the registry for every instance, and that the links of `InnerList` implement
sequences.

## The system

An application creates a `Manager`, `Scheduler`s and `Service`s. Objects are
registered with a service, get an id from the manager and run on one reactor of a
scheduler, each reactor being one thread. Anybody may notify an object by its id;
the manager finds its reactor, which delivers the event. Objects own sockets and timers,
whose handlers the reactor calls. mpipc is a service whose objects are connections: a pool
of them per peer takes the messages for that peer, serializes them, cuts them into packets
and multiplexes these, and completes every message with a callback.

| part (code) | its state | operations | model |
|---|---|---|---|
| `utility/innerlist.hpp` | prev/next links of nodes in a vector; several lists share a link | push, pop, erase, fastClear | `InnerListLinks`, `InnerListSeqs`, `InnerLists` |
| mpipc `MessageWriter` | message stubs, the lists order, write, cache, the current synchronous message, the packet being filled | enqueue, cancel, cancelOldest, write, completion, hand-back on stop | `MessageWriter` |
| mpipc `MessageReader` | the queue of messages being received, the state of the header | read, doConsumePacket | `MessageReader`, `Wire`, `MessageChannel` |
| mpipc `Service`, pools | message slots and lists of a pool, its connections and counts | send, cancel, poll, close, resolve, activate, stop, restart | `ConnectionPool` |
| mpipc `Connection` | states of sending, receiving and stopping, the timer, the receive buffer | event handlers, doSend, onRecv, doStop, timers | `ConnectionPool`, `Connection`, `RecvBuffer` |
| mpipc `Listener`, `aio::Listener` | the pending accept, a timer | accept, onAccept, retry | `Acceptor` |
| `aio::Stream`, plain and openssl sockets | a pending receive and send, the want flags of SSL | recv, send, connect, secureAccept, secureConnect, secureShutdown, on_completion, clear | `Stream` |
| `aio::Datagram` | a pending receive and send | recvFrom, sendTo, on_completion, clear | `Datagram` |
| `serialization/binary` | stacks of callbacks and of shared values at both ends | push, run, clear | `Serializer` |
| `TimeStore`, `Timer` | a vector of times, the least of them | waitUntil, cancel, the pop of the reactor | `TimeStore` |
| `Reactor`, `aio::Reactor` | vectors of new objects and raised events, exeq, object slots | push, raise, stop, run | `Reactor` |
| `SchedulerBase` | status, threads, counters of users and waiters | start, stop, startObject, thread entry and exit | `Scheduler` |
| `Manager`, `Service` | service stubs, chunks of places, caches, states | register, unregister, notify, start, stop | `Manager` |
| `WorkPool`, `Resolver` | job queue, workers | push, pop, start, stop | `WorkPool` |
| `shared::Store`, `file::Store` | use counts and waits of items, paths, temporary storage | insert, request, convert, release, execute | `FileStore` |

PROJECT.json lists every part with its sources, and the hazards of the code with
the line where each of them bites.

### What is hard about it

* One link serves two lists, write and cache: a stub must never be in both.
* A message may be cancelled, answered or handed back in any of its stages, and
  completion callbacks run in the middle of `write()`.
* A packet that continues a message does not name it; both ends rely on following
  the same round robin.
* The messages of a pool move between its slots and the writers of connections that
  connect, fail, stop and restart; the last connection has to leave an empty pool.
* Sockets are watched edge triggered: an event that is dropped does not come again. Over
  SSL a receive may wait for the socket to be writable, and a send for it to be readable.
* A value is serialized into one buffer and read from others, cut anywhere, by two stacks
  of callbacks that never see each other.
* `raise()` signals a reactor for the first entry only; an object is stopped while
  events for it are on their way; indexes are used again.
* Timer callbacks change the vector that is being walked.
* Service and manager are stopped by several threads while objects leave in two
  steps; one condition variable serves all of them.
* `doStartObject()` uses the reactors of a scheduler without its mutex.

## Modules

**InnerLists** has the list operations as operators on sequences; the other
modules use these. **InnerListLinks** models the code, the arrays of links and the
lists' front, back and size, and is shown to implement **InnerListSeqs**, the same
operations on sequences. So that the sequences stand for the links, no node may be
in two lists of one link: that is `ListsDisjoint` of the writer.

**MessageWriter** has a stub as a record (message, flags, unique, packet_count, whether
there is a serializer, how many bytes remain) and the lists as sequences of
indexes. `write()` is a sequence of steps, one per pass of the loop of
`doFillPacket`, because the completion callback it calls may send and cancel other
messages (`pc = "complete"`). Bytes are counted, not spelled out: `room` is the
space that is left, `freesz` what the code believes is left. Compression stores a
packet with any size up to its own, or fails. `pc = "bogus"` is a state in which
an assertion of the code has failed.

**MessageReader** takes packets as the writer stores them. A chunk carries the
message it belongs to only so that the properties can tell when the reader takes it
for another's; the reader never looks at it. After such a chunk (`astray`) the reader goes on: the deserializer may
fail, take any number of bytes for data and the next ones for switches, or complete the wrong message. `error` is
an error the reader reports and `bogus` a failed assertion. **Wire** composes writer
and reader over a byte stream that delivers any number of bytes at a time, and maps
both to **MessageChannel**, the promise a connection makes to the applications.

**ConnectionPool** has one pool, with its slots and lists, and its connections, with their
event queues and stages. Every function of the service runs under the pool's mutex and is one step,
written as an operator that takes and returns a record of pool, connections, completions
and failed assertions. The writer of a connection is a sequence of messages here, each
begun or not; `Start` and `Finish` are the parts of `doSend` that begin and end a message.
A connection is created together with its Start event. One index of the
table of pools is modelled, and `gen` is its unique.

**Connection** has the timers of both ends of one connection: the keep-alives of the
client, the inactivity check of the server and the wait before stopping, which use one
timer. Packets take up to `Delay` ticks. **RecvBuffer** has the receive
buffer through the raw state and the message state. The units of the stream are numbered,
so that the content of the buffer says which part of the stream it holds.

**Stream** has the kernel's socket (bytes, space, the edge-triggered ready list of epoll), the
pending receive and send, posted calls and the phases of the reactor's round. The owner's
code runs in callbacks and in `onEvent`, and may start the next operation there. A
secure socket adds what SSL has read but not given (`held`), what it has still to write of
a record (`out`) and what each operation waits for (`want`); what SSL answers is any of the things the
library may answer in that state, since handshake records may come at any time.
`filterReactorEvents` is the code's. epoll_wait that finds a socket not writable arms the
kernel's edge for space, as a short send does. **Datagram** and **Acceptor** are built alike.
A datagram has any length from nothing to the capacity of the buffer.
`Acceptor` includes the mpipc listener, which accepts four connections per callback
and waits on a timer when descriptors run out, and a listening socket that fails: after an error or a hangup
the callback gets an empty device and no error. `systemEventsToReactorEvents` knows no error together with a
connection that waits, and gives no event then. An owner stops, and its stream is cleared, among the posted calls.

**Serializer** has both ends of the serializer with the callbacks of `binary.cpp` as
operators on the two stacks, and a pipe of buffers between them. Bytes are modelled, because what
can go wrong is where they end.

**TimeStore** models the vector and the reactor's wait around it. A callback
is the state `tpc = "callback"`, in which any timer may be armed or cancelled.

**Reactor** models both reactors; the variable `aio`, which never changes, tells
them apart. What differs is how the thread waits (condition variable, or eventfd with
a write outside the mutex), where in a round the vectors are taken, and when the thread
exits. The manager is there as the set `visits` of objects that may be notified.

**Scheduler** has one variable for the state of every thread that calls
`doStart`, `doStop` or `doStartObject`, and one per worker. Waiting on the
condition variable is membership in `asleep`; `notify_one` wakes any one of them.

**Manager** has service stubs and chunks as sequences of records, with the caches
as stacks. Every critical section is an action; `unregisterObject` is two of them,
under the chunk's mutex and under the service's.

**WorkPool** has the queue, the workers and the threads that start and stop the pool, with
one step per critical section; the controller is that of `aio::Resolver`. **FileStore** has the shared
store with the controller of the file store: items with their use counts and waits, the
passes of the store over what was released, paths and temporary files.

## Runs

Components that share no state are checked in one run. The run's module has a variable
`part` that says which component, or which of two instances of a component, runs in a
behaviour; the others stay in their initial state. A behaviour of such a run is a
behaviour of one component, so nothing is shown that the component alone would not show,
and nothing is lost. Fairness and liveness in a grouped run speak of the part that runs.

| run | instance | shows |
|---|---|---|
| `writer` (`MCWriters`) | events: 4 messages (a request, a synchronous one, a synchronous request, an idempotent one), cancels, responses, errors, stop. traffic: 3 messages of which 2 are sent again and again, compression that may fail. crowd: a message of one byte sent again and again, next to longer ones | the lists are disjoint, one synchronous message at a time, only the front continues, every message is completed at most once and none is lost, ids do not alias; a packet has room unless it has `MinFree` messages already; nothing starves, a stop completes what is left |
| `wire` (`MCWires`) | working: 3 messages, 2 packets in flight, keep-alives, a short request that may be cancelled. faults: cancels of messages being sent, failing messages, packets and callbacks, a two-byte header | a working connection stays in step and implements `MessageChannel`, with its liveness; a failing one goes astray only after the notice of a cancelled message was lost |
| `pool` (`MCPool`) | used: 3 messages, 2 connections, client or server, every fault, a forced close. stops: 1 message, 2 active connections that do not break once they are up, a delayed close | a message is in one place until it is completed once; connections are counted; a slot is used once; a client connection waits in the queue or polls; only idempotent messages are begun twice; no assertion fails; a service that stops empties the pool |
| `manager` (`MCManager`) | 2 services, 2 objects, 2 threads | ids stay unique, what is stopped is empty, no lost wake-up |
| `waiting` (`MCWaiting`) | reactor: 2 objects, either kind. timers: 3. scheduler: 2 reactors, 2 clients, 2 users. work pool: 2 workers, 2 jobs, 2 controllers. store: 2 clients, 2 paths, temporary files | whoever waits is served (`Served`); the timers' wake-up is early enough; no thread is joined under a user; a stopped pool has no workers and nobody in it oversleeps |
| `components` (`MCComponents`) | nine components. reactor: 2 objects, 2 events each. list: 2 lists, 3 nodes. stream: plain and secure. store: 3 clients, 2 paths, temporary files. datagrams, acceptor, timers of a connection, receive buffer, serializer: 1 to 2 messages of every kind of item | events in order and before the stop; no operation sleeps on what is there; each is answered once; a datagram that is taken from the socket is given to its owner or is an error, exactly where the code says so; the receive buffer keeps its place and has room for every packet that fits into it; one writer or many readers; a path opens its own file; what is stored is loaded, and no stack keeps anything; links implement sequences; an idle connection stays open |
| `writer_sync_order` | 3 synchronous messages, 2 of them long | *violated*: a synchronous message may overtake an older one |
| `wire_cancel` | a long message is cancelled | *violated*: the notice may be lost and the reader takes bytes for another message's |
| `reactor_timer` | `postStop()` in a timer callback of `frame::Reactor` | *violated*: an accepted event is thrown away |
| `pool_order` | 2 synchronous messages, a connection that breaks | *violated*: what a broken connection hands back is sent again newest first |
| `store_temp` | temporary files asked for while others are released | *violated*: a request is worked on twice and two clients write one item |
| `ser_clear` | `clear()` in the middle of a message, with a context | *violated*: an entry stays on the stack of shared values |

The last six state what a comment, an assertion or a document of the repository says;
PROJECT.json quotes it.

### Bounds, and why they are enough

*Writer and wire.* Two messages are multiplexed and a third and fourth wait: a rotation, a message
that overtakes and one that takes a freed stub all occur. `MaxContinuous = 2` makes
a message both continue and rotate. A buffer holds two packets of which the second
may be too small to use. In the crowded instance a message of one byte is enqueued again by its own callback, while the
packet it was in is being filled, so that packets get as many messages as `MinFree` and more. `UniqueMod = 0` means that the unique counters do not wrap;
the instance with endless traffic takes them modulo 1, no property there depending on them.

*Pool.* With two connections one can be main and the other not, either can be the last,
and a failing main connection hands its messages to the other. Three messages are one synchronous,
one idempotent one-shot request and one sent to a connection, of which two can be cancelled.

*Sockets.* A send of 3 units into a kernel buffer of 2 needs two tries or more; a receive of 1 from a buffer
of 2 leaves something. `MaxStreamCalls = 2` lets both directions be used at once, or one of
them be started again from its own callback; that more calls change nothing is proved. Six connections come to a listener that
accepts four per callback, and descriptors run out twice.

*Connection.* A keep-alive every 3 ticks and a limit of 6 ticks: two keep-alives fit into the period of the
inactivity check, and packets may be one tick late. *Receive buffer.* The capacity is 4 and the stream
has 7 units, with every set of packet ends: packets shorter than the buffer, as long, and longer. *Datagrams.* Two datagrams
of 0 to 2 units into a buffer of 2, and four calls, so that a send may end while a receive waits.
*Serializer.* Buffers of 1 and 6 bytes cut every kind of number and header.

*Reactor, timers, scheduler, manager.* Two objects are the least with which an index is used again. Two
services, two objects and two threads are the least in which a waiter is woken by another
service's object. Timers are armed 2 ticks ahead with a `maxwait` of 1, so that a wait
ends both at a deadline and at `maxwait`. A scheduler is started twice, so that users of the first start
meet the second.

*Work pool and store.* Workers take two jobs at a time, so that one may find the queue empty behind
the other; the pool is started twice, and more jobs are the matter of the proof. Three clients at two indexes make one of
them wait, and an index be reused; that a client is served is checked with two.

### What the constants leave out

Some behaviours of the code break the properties at once, and are kept out of the passing runs by
a constant so that the rest can be examined. Most are hazards in PROJECT.json, with the property
that is then violated.

* `CancelUnstarted = FALSE`: `doCancel` takes a request that was enqueued but not
  started for one that waits for its response and puts its stub into the cache while it
  is in the write list.
* `Races = {}` (pool): a message, a cancel or a close that comes while the last connection leaves
  ("leaving") or cleans one-shot messages ("cleaning"), cancelling a message a connection holds ("cancelheld"),
  a message sent to one connection of a named pool ("direct"), a pool whose first connection
  cannot be started ("nostart"), a connect that is refused at once ("refused"), a look-up that
  ends before the last turn of a leaving connection ("slowleave"). "direct" is the only way a message gets
  to a connection that is not active yet, so that the run does not reach the messages such a connection keeps.
* `Reuse = {}`: registering a service after another one was unregistered meets
  `svccache.top()` in the place of `pop()`, and `chkcache` is given wrong chunk indexes.
  `StartAnytime = FALSE`: services are started only while nobody is stopping. A second
  thread in `Manager::stop()` may sleep for ever when the first is done before the services
  are unregistered (`manager.cpp:975`); `NoLostWakeup` leaves that wait out.
* `StoreRaces = {}`: an item released twice between two passes ("twice"), a shared request for an
  item nobody holds ("idle"), a unique pointer taken before the waits are served ("barge"),
  temporary files asked for while the store runs for another reason ("again", the run `store_temp`).
* `ArmsPast = FALSE`: a callback that arms its timer for a time that has passed is called again by the
  same `pop()`, and may keep it busy for ever. Handlers arm timers in the past. The safety of the timers is proved for both values.
* `MaxRecord` is not less than a send: with `SSL_MODE_ENABLE_PARTIAL_WRITE` a longer send is left
  after its first record with no want flag and no edge to come, until another event retries
  it. A send of mpipc fits into a record of 16 KB with the default buffer of a page;
  buffers can be configured up to 64 KB.
* `ConnectionRaces = {}`: a message sent together with a due keep-alive drops the keep-alive
  ("message"). `BufferRaces = {}`: raw data left in the buffer when messages begin ("leftover").
* `SerRaces = {}`: streams read from buffers that end within a chunk ("stream"), `clear()` with a
  context ("context", the run `ser_clear`) and in the middle of a utf8 string ("utf8").
* `Overlap = FALSE`: `start()` and `stop()` of two threads on one work pool. Its safety holds with
  TRUE too, and is proved so; a thread may then wait for ever.
* `Served` leaves out waits that the code does not end: a `doStop()` of the scheduler that overlaps `doStart()`
  (it may be woken before the state changes, and is not woken again; `schedulerbase.cpp:224`), and requests for temporary files, of which one that
  comes alone raises no event (`sharedstore.cpp:193`).
* A scheduler that stops takes its reactors away without waiting for users: `unprepareThread()` nulls `preactor`, which
  `doStartObject()` may be about to use. `UsedIsNotJoined` is about the threads and the vector, and says that `preactor` is null
  under a user only while the scheduler stops.
* `aio::Reactor` is asked to stop after its objects are gone, the order of the
  tutorials (`tutorials/aio_echo/README.md`): services, manager, schedulers.

### Fairness

* writer: the steps of one `write()` are one thread's, so weakly fair; `doSend` is called
  again as long as something is to be sent (`onSend`); `doCompleteAllMessages` posts
  itself until the writer is empty. Nothing promises that messages are sent,
  cancelled or answered.
* wire: TCP delivers what was sent and the reader's reactor runs; only in the working instance.
* pool: the reactor of some connection runs or a look-up, a connect or a timer ends, with
  success or not. One such step follows another as long as there are any, since none of
  them can go on for ever. Nothing promises that a peer answers.
* waiting (`Runs`): somebody in the running component who can go on does. The threads of a
  component need no more than that, because none of them can run for ever alone. `Passes`: time passes, and a
  thread that has left something for an `aio::Reactor` writes to its eventfd.
* The runs `manager` (which uses symmetry) and `components` are about safety only.

Deadlock is not checked where the program may come to rest: an idle pool, a stopped
service, an operation whose peer stays silent, a bound on calls.

## Proofs

Each theorem names the definition a run checks. Its hypotheses are the assumptions on the
constants, as a formula where the module is also instantiated, and the exclusions above that it needs.

| theorem | for every | shows |
|---|---|---|
| `InnerListLinksProofs` `LinksImplementSeqs` | nodes and lists that share a link | `ImplementsSeqs`, the refinement |
| `MessageWriterProofs` `TypeCorrect`, `ListsStayDisjoint`, `OneSynchronous`, `ContinuesTheFront`, `CompletedAtMostOnce`, `IdsStayUnique` | messages, sizes, limits; `UniqueMod = 0`, `~CancelUnstarted` | `TypeOK`, `ListsDisjoint`, `SyncExclusive`, `OnlyFrontContinues`, `Accounted`, `IdsNeverAlias` |
| `MessageWriterProofs` `RoomUnlessCrowded` | the same | `NoRoomOnlyWhenCrowded` (of which `PacketsFit` has three instances) |
| `ComponentProofs` `BufferStaysWhole`, `ReceiveHasRoom` | capacity, packets, stream and way of cutting it; no leftover | `BufferHolds`, `RoomLeft` |
| `StreamProofs` `EveryCallIsAnsweredOnce`, `NoEdgeIsLost` | sizes of buffers, operations and records, calls, plain or secure; a send fits into a record | `AnsweredOnce`, `StreamWakes` (the stream's part of `NoLostWakeup`) |
| `ComponentProofs` `SleepsToTheEarliest` | timers, times, length of a sleep | `NextIsEarliest` |
| `ComponentProofs` `StoppedHasNoWorkers`, `NobodyOversleeps` | jobs, threads, controllers, overlapping or not | `StoppedQuiet`, `NoLostWakeup` |
| `SchedulerProofs` `NoThreadIsJoinedInUse` | reactors, clients, users; one starter | `UsedIsNotJoined` |
| `ManagerProofs` `ObjectIdsAreUnique` | services, objects, threads, sizes of chunks; `Reuse = {}` | `IdsAreUnique` |
| `ManagerProofs` `StoppedServicesAreEmpty`, `WaitersAreWoken` | the same, any number of stops; `~StartAnytime` | `StoppedIsEmpty`, `NoLostWakeup` |

**InnerList.** `Chain` relates the links, the ends of a list and the sequence the list stands for: `next`
leads towards the front, `prev` towards the back, and no node comes twice. The invariant `ListsInv` says that every
list is the chain of the sequence a walk along `next` finds, and that no node is in two of them.
`WalkIs` shows that the recursive function of the walk is the only solution of its equation, since
another would differ from it at a first place (`WFMin` of the library). `PushBackChain`, `PushFrontChain` and
`EraseChain` say which chain the assignments of an operation leave, in each of the cases the code
tells apart; `OneListChanges` says that the other lists keep theirs, because the links
that are written belong to the list of the operation. Every step of the links is then a step of
`InnerListSeqs`.

**Writer.** None of the properties is inductive by itself. `IInv` (in `MessageWriterInv`) adds what a
stub's lists say about how far its message is:

* `StubStates`: a stub in order holds a message that is not cancelled and that its id
  denotes; the others hold none.
* `QueueStates`: a stub in the cache is clear; one in order and write has not been sent
  completely; one in order only waits for its response.
* `IdStates`: an id is never ahead of its stub.
* `PeerStates`: the peer answers only what was sent completely.
* `StopStates`: `write()` is over when the connection stops. After that the lists are
  no longer kept apart (`forEveryMessagesNewerToOlder` frees stubs that are in write),
  which is why the properties about the lists speak of connections that do not stop.

One lemma per action shows that it preserves `IInv`. The steps that only fill packets
share `PacketOnly`; freeing a stub (`FreeStep`, `ClearStep`) is shared by completion, cancel
and the drop of a cancelled message. `MessageWriterInv` has the initial case, packets,
rotation, stop, freeing, the steps of `doFillPacket` and completion, `MessageWriterProofs` the
rest. `InnerListProofs` has the facts about the list operations.

A packet has room because every message in it but the first takes one byte that `freesz` does not
know of, so `room` and `freesz` are apart by at most the number of messages; `doFillPacket` takes no message when
`freesz` is less than `MinFree`. In the code the minimum is 16 and up to 64 messages are multiplexed, to which callbacks add
more, so the case is not excluded by the configuration.

**Receive buffer.** That a receive has room rests on the reader: after it has taken
every complete packet, no packet ends in what is left (`RestHasNoEnd`), so a full buffer holds nothing but
the start of a packet longer than it. Nothing keeps such a packet from coming, as the two ends are
configured apart (`mpipcconfiguration.cpp:155-168`); the receive then has no room, and the
stream takes its result for the end of the connection. `BufferInv` says more than the properties: in the message state the rest is always at the start of
the buffer, so the "optimizing" moves are not optional, and in the raw state offsets that are
equal are zero. `onRecvTurn` shows one turn of the loop of `onRecv` for numbers of units that came
and were taken.

**Timers.** `pop()` walks the vector while the callbacks change it. `Passed` says that what is before its place is
not due before the least time it has found, as long as no callback has removed or moved an entry;
at the end of the walk this is `Earliest`, which the reactor's wait relies on. `Indexed` says that the
timers and the entries of the vector know each other: `pop(idx)` moves the last entry to the hole, and the
timer of that entry has to follow (`PopIndexed`).

**Work pool.** `wkrcnt` is the number of live workers (`Counted`), and a worker leaves only after it
has seen a pool that does not run (`NoneLeaves`). From these a waiting `stop()` that sees zero has seen all
of them, and the last worker has notified it.

**Scheduler.** What is shown is that no thread is joined and `reactorvec` is not resized under a user. At any time one client owns the starting or stopping of the threads
(`Owners`); `usecnt` counts the users between their two steps (`Using`), so an owner that has seen
zero after the status changed has no user to come; `Threads` relates threads, reactors and their
count. With two starters the second may start while the first still joins the threads of a
failed start, hence the hypothesis.

**Stream.** The edge-triggered kernel and the two early returns of `doRecv` and `doSend` make each
other's work: that a pending operation will be tried again (`NoneForgotten`) is inductive only
with what it waits for. `Quiet` says that this is not there, and that space in the kernel's buffer will be an edge
because an earlier try has found it full; `Wanting` ties the want flags of SSL to the pending
calls; `Untried` says that over SSL an operation without a flag has not been tried, which is
where a send longer than a record fails, hence the hypothesis; `Posts` that a posted call is
in the queue of the reactor. `Tried` is what one try, of any outcome SSL may have, leaves to the other direction.

**Manager.** `Registry` says how places are owned: the chunks of a service are its own (`Owned`), a
place is held by one object, or once in the cache of its service (`Cached`), or was never given
away (`Beyond`); the unique of a place is that of the object there and greater than those of all who
had it (`Placed`), which gives `IdsAreUnique`. An object that has left its chunk and not yet its service
still counts (`Counted`), although its place may not be used by another before it is in the cache.
`Stopping` adds how far a thread in `stop()` has come (`Progress`): the services before the one it
waits for are stopped, and it sleeps only while that one has objects. Both are needed for
`StoppedIsEmpty`. Registering and starting a service are refused or excluded while somebody
stops, which `Progress` depends on, hence the hypotheses.

Only model-checked: all liveness, which is out of the prover's reach, and with it `ImplementsChannel`;
the reader and the wire, the pool, the reactor, datagrams, the listener, the timers of a connection,
the store and the serializer. Pool and store work through lists of any length in one critical section,
which are folds in the model, and the serializer is recursive: what these compute for every
input needs an induction over an operator, which the prover cannot use. The reader depends on the state of
the writer at the other end.

## Not modelled

* `src/._retired_`, the examples, the tutorials and the tests, which are more than half of the
  lines of the repository: code that is no longer built, and programs that use the
  library. They were read for the order in which they start and stop its parts.
* What wraps system and library calls: devices, directories, addresses, the resolver's
  look-ups, certificates and verification in OpenSSL, the streams of the file store.
* Containers and helpers without concurrency (`queue.hpp`, `stack.hpp`, `memoryfile.hpp`, ...),
  values and wrappers (events, errors, configurations), the log.
* The commands of the mpipc service for raw and secure connections, `reconfigure()`, several storages of
  temporary files, the choice of the least loaded reactor, the two copies of the manager's tables
  (a lookup is one step), and the slots of completion handlers.
* In the store: the data race of `doPushWait` on `waitdq` and `cachewaitstk` between pointers of different mutexes, and
  a path outside every storage, which `requestOpenFile` refuses and which changes nothing. In the serializer: the offsets to which streams seek, null arrays, and the error a call
  stores when it fails. On a stream: receives and sends posted while it connects. Incoming connections that cannot be started are
  bounded by the number of pools.
* The bytes of packet headers, which are counted, and the content of messages on the wire.
