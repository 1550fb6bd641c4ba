---------------------------- MODULE MCComponents ----------------------------
(***************************************************************************)
(* Components that promise only that nothing wrong happens, side by side:  *)
(* in every behaviour one of them runs and the others stay where they      *)
(* begin.  They share no state, so what is shown of each is what its own   *)
(* specification does.                                                     *)
(***************************************************************************)
EXTENDS MCSerializer, RecvBuffer, InnerListLinks, Stream

VARIABLES
    part,   \* the component that runs
    aio, pushvec, raisevec, uidstk, freeuid, crtidx, objdq, objcnt, rexeq, running, must_stop,
    sz, rpc, signal, writes, fd, uid, visits, raised, delivered, late,
    sock, rcv, snd, dexeq, dloop, err, inowner, crossed, got, dcalls,
    queue, f, postq, timer, repeatcnt, outcome, phase, left, accepted,
    conn, net, broken, pushes,
    stub, idxstk, fill, mask, raises, pathset, indexset, tempfill, tempcons, strg, pass,
    client, note, ids, asked

\* Two objects on a reactor of either kind, two events raised for each
R == INSTANCE Reactor WITH Objs <- {1, 2}, NoObj <- 0, MaxRaise <- 2, exeq <- rexeq, pc <- rpc

\* Two datagrams of at most two units come to a queue of two.
D == INSTANCE Datagram WITH Capacity <- 2, QueueLen <- 2, MaxDatagrams <- 2, MaxDatagramCalls <- 4

\* More connections come than one turn of onAccept takes, descriptors run out twice.
A == INSTANCE Acceptor WITH Backlog <- 3, MaxPeers <- 6, MaxShortages <- 2

\* A keep-alive every 3 ticks, at most 4 of them in the 6 ticks after which a peer
\* that sends nothing is given up.
C == INSTANCE Connection WITH Inactivity <- 6, Keepalive <- 3, KeepaliveCount <- 4, StopWait <- 1,
        Delay <- 1, MaxPushes <- 1, ConnectionRaces <- {}

\* Three clients make every kind of call
F == INSTANCE FileStore WITH Clients <- 1..3, Paths <- {"pa", "pb"}, NoFile <- "nofile",
        Temp <- "temp", MaxIndex <- 2, MaxRequests <- 3, Capacity <- 2, Sizes <- {2},
        StoreCalls <- {"open", "temp", "insert", "get", "request", "convert"}, StoreRaces <- {}

ASSUME ComponentsAssumption ==
    /\ R!ReactorAssumption /\ NodesAssumption /\ StreamAssumption
    /\ D!DatagramAssumption /\ A!AcceptorAssumption /\ C!ConnectionAssumption /\ BufferAssumption
    /\ F!StoreAssumption

reactorvars ==
    <<aio, pushvec, raisevec, uidstk, freeuid, crtidx, objdq, objcnt, rexeq, running, must_stop,
      sz, rpc, signal, writes, fd, uid, visits, raised, delivered, late>>
datagramvars == <<sock, rcv, snd, dexeq, dloop, err, inowner, crossed, got, dcalls>>
acceptorvars == <<queue, f, postq, timer, repeatcnt, outcome, phase, left, accepted>>
connectionvars == <<conn, net, broken, pushes>>
storevars ==
    <<stub, idxstk, fill, mask, raises, pathset, indexset, tempfill, tempcons, strg, pass,
      client, note, ids, asked>>

vars ==
    <<part, reactorvars, listvars, streamvars, datagramvars, acceptorvars,
      connectionvars, storevars, buffervars, servars>>

Init ==
    /\ part \in {"reactor", "list", "stream", "datagram", "acceptor", "connection",
                 "store", "buffer", "serializer"}
    /\ R!Init /\ (aio => part = "reactor")
    /\ ListInit /\ D!DatagramInit /\ A!AcceptorInit /\ C!ConnectionInit
    /\ F!StoreInit
    /\ StreamInit /\ (part # "stream" => kern.st = "up" /\ ~ssl.on)
    /\ BufferInit /\ (part # "buffer" => ends = {})
    /\ SerializerInit /\ (part # "serializer" => msg = Numbers)

Only(p) ==
    /\ part = p /\ UNCHANGED part
    /\ p # "reactor" => UNCHANGED reactorvars
    /\ p # "list" => UNCHANGED listvars
    /\ p # "stream" => UNCHANGED streamvars
    /\ p # "datagram" => UNCHANGED datagramvars
    /\ p # "acceptor" => UNCHANGED acceptorvars
    /\ p # "connection" => UNCHANGED connectionvars
    /\ p # "store" => UNCHANGED storevars
    /\ p # "buffer" => UNCHANGED buffervars
    /\ p # "serializer" => UNCHANGED servars

Next ==
    \/ Only("reactor") /\ R!Next
    \/ Only("list") /\ ListNext
    \/ Only("stream") /\ StreamNext
    \/ Only("datagram") /\ D!DatagramNext
    \/ Only("acceptor") /\ A!AcceptorNext
    \/ Only("connection") /\ C!ConnectionNext
    \/ Only("store") /\ F!StoreNext
    \/ Only("buffer") /\ BufferNext
    \/ Only("serializer") /\ SerializerNext

Spec == Init /\ [][Next]_vars

----------------------------------------------------------------------------
\* Objects get the event they were started with and then those raised for them, in
\* order and all before they are stopped, never one of a predecessor at the same
\* index; run() returns with no object left (Reactor).
EventsInOrder == R!InOrder /\ R!DeliveredUnlessLate /\ R!ExitsEmpty

\* Nobody sleeps on what is already there: a reactor whose vectors raise() and push()
\* have filled, signalling for the first entry only, a receive, a send, a datagram or an accept pending
\* on a socket the edge-triggered epoll will not report again (Reactor, Stream,
\* Datagram, Acceptor).
NoLostWakeup ==
    R!NoLostWakeup /\ StreamWakes /\ D!DatagramWakes /\ A!AcceptorWakes

\* A datagram taken from the kernel reaches the owner, unless it is empty, recvFrom() met one
\* shorter than the buffer or a send ended while the receive waited; the owner then gets an
\* error (Datagram).
DatagramsTaken == D!DatagramsTaken

\* An item of the store has one user that may write or any number that only read
\* (FileStore).
OneWriterOrReaders == F!OneWriterOrReaders

\* A client that opened a path has the item of that path, with its file (FileStore).
OpensItsPath == F!OpensItsPath

\* An idle connection whose ends both live is not closed (Connection).
IdleStays == C!IdleStays
=============================================================================
