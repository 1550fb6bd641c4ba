---------------------------- MODULE StreamProofs ----------------------------
(***************************************************************************)
(* No operation of a stream is left waiting for an edge that will not come *)
(* again, and each is answered once, for every size of the kernel's        *)
(* buffers and of the operations, over a plain and over a secure socket,   *)
(* as long as a send fits into one record.                                 *)
(***************************************************************************)
EXTENDS Stream, TLAPS

WholeRecords == StreamAssumption /\ SendLen <= MaxRecord

KernType ==
    [st : {"none", "connecting", "up", "down"}, rbuf : Nat, came : Nat, fin : BOOLEAN,
     space : Nat, full : BOOLEAN, ready : BOOLEAN]
SslType == [on : BOOLEAN, want : [Directions -> {"none", "read", "write"}], held : Nat, out : Nat]
RecvType == [fnc : {"none", "dummy", "recv", "secure"}, cp : Nat, sz : Nat, posted : BOOLEAN]
SendType == [fnc : {"none", "dummy", "send", "secure", "connect"}, cp : Nat, sz : Nat, posted : BOOLEAN]
Todos == {"recv", "send", "errsend", "errrecv", "clear"}
LoopType == [phase : {"io", "events", "exec"}, todo : Seq(Todos), left : Nat]

SendFits(o) ==
    o \in SendType /\ o.sz <= o.cp /\ o.cp <= SendLen /\ (o.fnc = "send" => o.sz < o.cp)

Types ==
    /\ kern \in KernType /\ ssl \in SslType /\ recv \in RecvType /\ SendFits(send)
    /\ exeq \in Seq(Directions) /\ loop \in LoopType /\ loop.left <= Len(exeq)

Counts ==
    /\ scheduled \in [Directions -> Nat] /\ answered \in [Directions -> Nat]
    /\ AnsweredOnce

Op(d) == IF d = "recv" THEN recv ELSE send

\* Who waits for what: nobody over a plain socket, where there are no secure operations, and
\* nobody who has no call pending.
Wanting ==
    /\ ~ssl.on => ssl.held = 0 /\ \A d \in Directions : ssl.want[d] = "none"
    /\ \A d \in Directions : Op(d).fnc \in {"none", "connect"} => ssl.want[d] = "none"
    /\ \A d \in Directions : Op(d).fnc = "secure" => ssl.on
    /\ recv.fnc = "dummy" <=> send.fnc = "dummy"

\* Before it is connected a stream has nothing pending but the connect.
Connecting ==
    /\ kern.st \in {"none", "connecting"} =>
          recv.fnc \in {"none", "dummy"} /\ send.fnc \in {"none", "dummy", "connect"}
    /\ ssl.on /\ send.fnc = "connect" => recv.fnc = "none"

Posts == \A d \in Directions : Op(d).posted => Has(exeq, {d})

\* Over a secure socket an operation without a want flag was not tried yet.
Untried ==
    \A d \in Directions :
        ssl.on /\ Pending(d) /\ Op(d).fnc # "connect" /\ ssl.want[d] = "none" => Soon(d)

ForSpace(d) == ssl.want[d] = "write" \/ (ssl.want[d] = "none" /\ d = "send")

\* What it waits for is not there, and space in the kernel's buffer will be an edge.
Quiet(d) == ~Ready(d) /\ (kern.st = "up" /\ ForSpace(d) => kern.full)

NoneForgotten == \A d \in Directions : Pending(d) => WillTry(d) \/ Quiet(d)

\* Every part of the invariant but the types and the counts
Waiting == Wanting /\ Connecting /\ Posts /\ Untried /\ NoneForgotten

IInv == Types /\ Counts /\ Waiting

(***************************************************************************)
(* One try                                                                 *)
(***************************************************************************)
\* An operation that has to be tried again: what it waits for in this socket
Blocked(d, k, s) ==
    \/ s.want[d] = "read" /\ k.rbuf = 0 /\ ~k.fin
    \/ s.want[d] = "write" /\ k.space = 0 /\ k.full
    \/ ~s.on /\ s.want[d] = "none" /\ d = "recv" /\ k.rbuf = 0 /\ ~k.fin
    \/ ~s.on /\ s.want[d] = "none" /\ d = "send" /\ k.space = 0 /\ k.full

\* What a try in one direction leaves: it takes bytes and space, and touches nothing the other
\* direction waits for.
Taken(k) ==
    /\ k \in KernType
    /\ k.st = kern.st /\ k.fin = kern.fin /\ k.ready = kern.ready
    /\ k.rbuf <= kern.rbuf /\ k.space <= kern.space /\ (kern.full => k.full)

Kept(d, s) ==
    /\ s \in SslType
    /\ s.on = ssl.on /\ (~s.on => s = ssl) /\ (d = "send" => s.held = ssl.held)
    /\ \A e \in Directions \ {d} : s.want[e] = ssl.want[e]

Tried(d, done, k, s) ==
    /\ Taken(k) /\ Kept(d, s)
    /\ done => s.want[d] = "none"
    /\ ~done => k.st # "down" /\ Blocked(d, k, s)

\* Setting one direction's want flags leaves the rest.
LEMMA WantSets ==
    ASSUME ssl \in SslType, NEW d \in Directions, NEW what \in {"none", "read", "write"}
    PROVE  /\ Want(d, what) \in SslType
           /\ Want(d, what).on = ssl.on /\ Want(d, what).held = ssl.held /\ Want(d, what).out = ssl.out
           /\ Want(d, what).want[d] = what
           /\ \A e \in Directions \ {d} : Want(d, what).want[e] = ssl.want[e]
BY DEF SslType, Want

LEMMA WantKeeps ==
    ASSUME ssl \in SslType, ssl.on, NEW d \in Directions, NEW what \in {"none", "read", "write"}
    PROVE  Kept(d, Want(d, what)) /\ Want(d, what).want[d] = what
BY WantSets, ZenonT(60) DEF Kept

\* Reading from the kernel's socket
LEMMA ReadTakes ==
    ASSUME kern \in KernType, NEW n \in 0..kern.rbuf
    PROVE  /\ Taken([kern EXCEPT !.rbuf = @ - n])
           /\ [kern EXCEPT !.rbuf = @ - n].rbuf = kern.rbuf - n
<1>1. kern.rbuf - n \in Nat /\ kern.rbuf - n <= kern.rbuf /\ kern.space <= kern.space
  BY DEF KernType
<1> QED BY <1>1 DEF KernType, Taken

\* Filling the kernel's buffer
LEMMA FullTakes ==
    ASSUME kern \in KernType, NEW n \in 0..kern.rbuf
    PROVE  LET k == [kern EXCEPT !.rbuf = @ - n, !.space = 0, !.full = TRUE]
           IN  Taken(k) /\ k.space = 0 /\ k.full
<1>1. kern.rbuf - n \in Nat /\ kern.rbuf - n <= kern.rbuf /\ 0 <= kern.space
  BY DEF KernType
<1> QED BY <1>1, Zenon DEF KernType, Taken

\* SSL that wants to read has read everything, and one that wants to write has filled the
\* buffer of the kernel.
LEMMA WantTried ==
    ASSUME Types, kern.st = "up", ssl.on, NEW d \in Directions, NEW w \in WantRead(d) \union WantWrite(d)
    PROVE  w.done = FALSE /\ Tried(d, FALSE, w.kern, w.ssl)
<1>1. kern \in KernType /\ ssl \in SslType
  BY DEF Types
<1>2. CASE w \in WantRead(d)
  <2>1. w.done = FALSE /\ w.kern = [kern EXCEPT !.rbuf = 0] /\ w.ssl = Want(d, "read") /\ ~kern.fin
    BY <1>2 DEF WantRead
  <2>2. [kern EXCEPT !.rbuf = 0] = [kern EXCEPT !.rbuf = @ - kern.rbuf] /\ kern.rbuf \in 0..kern.rbuf /\ kern.rbuf - kern.rbuf = 0
    BY <1>1 DEF KernType
  <2>3. Taken(w.kern) /\ w.kern.rbuf = 0
    BY <1>1, <2>1, <2>2, ReadTakes
  <2>4. Kept(d, w.ssl) /\ w.ssl.want[d] = "read"
    BY <1>1, <2>1, WantKeeps
  <2>5. w.kern.st = "up" /\ ~w.kern.fin
    BY <2>1, <2>3, Zenon DEF Taken
  <2> QED BY <2>1, <2>3, <2>4, <2>5 DEF Tried, Blocked
<1>3. CASE w \in WantWrite(d)
  <2>1. PICK n \in 0..kern.rbuf :
            w = [done |-> FALSE, kern |-> [kern EXCEPT !.rbuf = @ - n, !.space = 0, !.full = TRUE], ssl |-> Want(d, "write")]
    BY <1>3, ZenonT(60) DEF WantWrite
  <2>2. Taken(w.kern) /\ w.kern.space = 0 /\ w.kern.full /\ w.done = FALSE /\ w.ssl = Want(d, "write")
    BY <1>1, <2>1, FullTakes, Zenon
  <2>3. Kept(d, w.ssl) /\ w.ssl.want[d] = "write"
    BY <1>1, <2>2, WantKeeps
  <2>4. w.kern.st = "up"
    BY <2>2, Zenon DEF Taken
  <2> QED BY <2>2, <2>3, <2>4 DEF Tried, Blocked
<1> QED BY <1>2, <1>3, Zenon

\* The secure operations in either direction (secureAccept, secureConnect, secureShutdown)
LEMMA SecureTried ==
    ASSUME Types, ssl.on, kern.st \in {"up", "down"}, NEW d \in Directions, NEW try \in doTrySecure(d)
    PROVE  Tried(d, try.done, try.kern, try.ssl)
<1>0. kern \in KernType /\ ssl \in SslType /\ Taken(kern)
  BY DEF Types, KernType, Taken
<1>1. CASE kern.st # "up" \/ (kern.rbuf = 0 /\ kern.fin)
  <2>1. try.done = TRUE /\ try.kern = kern /\ try.ssl = Want(d, "none")
    BY <1>1 DEF doTrySecure
  <2>2. Kept(d, try.ssl) /\ try.ssl.want[d] = "none"
    BY <1>0, <2>1, WantKeeps
  <2> QED BY <1>0, <2>1, <2>2 DEF Tried
<1>2. CASE ~(kern.st # "up" \/ (kern.rbuf = 0 /\ kern.fin))
  <2>1. try \in SSL_handshake(d)
    BY <1>2 DEF doTrySecure
  <2>2. CASE try \in WantRead(d) \union WantWrite(d)
    BY <1>2, <2>2, WantTried, Zenon
  <2>3. CASE \E n \in 0..kern.rbuf :
                 try = [done |-> TRUE, kern |-> [kern EXCEPT !.rbuf = @ - n], ssl |-> Want(d, "none")]
    <3>1. PICK n \in 0..kern.rbuf :
              try = [done |-> TRUE, kern |-> [kern EXCEPT !.rbuf = @ - n], ssl |-> Want(d, "none")]
      BY <2>3, Zenon
    <3>2. try.done = TRUE /\ Taken(try.kern) /\ try.ssl = Want(d, "none")
      BY <1>0, <3>1, ReadTakes
    <3>3. Kept(d, try.ssl) /\ try.ssl.want[d] = "none"
      BY <1>0, <3>2, WantKeeps
    <3> QED BY <3>2, <3>3 DEF Tried
  <2> QED BY <2>1, <2>2, <2>3 DEF SSL_handshake
<1> QED BY <1>1, <1>2

\* RecvSomeFunctor and recvSome
LEMMA RecvTried ==
    ASSUME Types, Wanting, kern.st \in {"up", "down"}, NEW cp \in Nat, NEW try \in doTryRecv(cp)
    PROVE  Tried("recv", try.done, try.kern, try.ssl)
<1>0. kern \in KernType /\ ssl \in SslType /\ Taken(kern) /\ kern.rbuf \in Nat /\ ssl.held \in Nat /\ "recv" \in Directions
  BY DEF Types, KernType, SslType, Directions, Taken
<1>a. ~ssl.on => Kept("recv", ssl) /\ ssl.held = 0 /\ ssl.want["recv"] = "none"
  BY <1>0 DEF Wanting, Kept
<1>1. CASE kern.st = "down" \/ cp = 0 \/ (kern.rbuf = 0 /\ kern.fin /\ ssl.held = 0)
  <2>1. try.done = TRUE /\ try.kern = kern /\ try.ssl = Want("recv", "none")
    BY <1>1 DEF doTryRecv
  <2>2. CASE ssl.on
    <3>1. Kept("recv", try.ssl) /\ try.ssl.want["recv"] = "none"
      BY <1>0, <2>1, <2>2, WantKeeps
    <3> QED BY <1>0, <2>1, <3>1 DEF Tried
  <2>3. CASE ~ssl.on
    <3>1. Want("recv", "none") = ssl
      BY <1>0, <1>a, <2>3 DEF Want, SslType
    <3> QED BY <1>0, <1>a, <2>1, <2>3, <3>1 DEF Tried
  <2> QED BY <2>2, <2>3
<1>2. CASE ~(kern.st = "down" \/ cp = 0 \/ (kern.rbuf = 0 /\ kern.fin /\ ssl.held = 0)) /\ ssl.on
  <2>1. try \in SSL_read(cp)
    BY <1>2 DEF doTryRecv
  <2>2. CASE try \in WantRead("recv") \union WantWrite("recv")
    BY <1>0, <1>2, <2>2, WantTried, Zenon
  <2>3. ASSUME NEW n \in 0..kern.rbuf, NEW h \in Nat,
               try = [done |-> TRUE, kern |-> [kern EXCEPT !.rbuf = @ - n], ssl |-> [Want("recv", "none") EXCEPT !.held = h]]
        PROVE  Tried("recv", try.done, try.kern, try.ssl)
    <3>1. try.done = TRUE /\ Taken(try.kern) /\ try.ssl = [Want("recv", "none") EXCEPT !.held = h]
      BY <1>0, <2>3, ReadTakes
    <3>2. Kept("recv", Want("recv", "none")) /\ Want("recv", "none").want["recv"] = "none"
      BY <1>0, <1>2, WantKeeps
    <3>3. Kept("recv", [Want("recv", "none") EXCEPT !.held = h]) /\ [Want("recv", "none") EXCEPT !.held = h].want["recv"] = "none"
      BY <1>2, <3>2, Zenon DEF Kept, SslType
    <3> QED BY <3>1, <3>3 DEF Tried
  <2>4. CASE ssl.held > 0
    <3>1. try = [done |-> TRUE, kern |-> kern, ssl |-> [Want("recv", "none") EXCEPT !.held = @ - Smaller(@, cp)]]
      BY <2>1, <2>4 DEF SSL_read
    <3>2. kern = [kern EXCEPT !.rbuf = @ - 0] /\ 0 \in 0..kern.rbuf
      BY <1>0 DEF KernType
    <3>3. Want("recv", "none").held = ssl.held
      BY <1>0, WantSets
    <3>4. ssl.held - Smaller(ssl.held, cp) \in Nat
      BY <1>0 DEF Smaller
    <3>5. try = [done |-> TRUE, kern |-> [kern EXCEPT !.rbuf = @ - 0],
                 ssl |-> [Want("recv", "none") EXCEPT !.held = ssl.held - Smaller(ssl.held, cp)]]
      BY <3>1, <3>2, <3>3, Zenon
    <3> HIDE DEF Smaller
    <3> QED BY <2>3, <3>2, <3>4, <3>5, Zenon
  <2>5. CASE \E n \in 1..kern.rbuf :
                 try = [done |-> TRUE, kern |-> [kern EXCEPT !.rbuf = @ - n],
                        ssl |-> [Want("recv", "none") EXCEPT !.held = n - Smaller(n, cp)]]
    <3>1. \A n \in 1..kern.rbuf : n - Smaller(n, cp) \in Nat /\ n \in 0..kern.rbuf
      BY <1>0 DEF Smaller
    <3> QED BY <2>3, <2>5, <3>1, Zenon
  <2> QED BY <2>1, <2>2, <2>4, <2>5 DEF SSL_read
<1>3. CASE ~(kern.st = "down" \/ cp = 0 \/ (kern.rbuf = 0 /\ kern.fin /\ ssl.held = 0)) /\ ~ssl.on
  <2>1. try.done = (kern.rbuf > 0) /\ try.kern = [kern EXCEPT !.rbuf = @ - Smaller(@, cp)] /\ try.ssl = ssl
    BY <1>3 DEF doTryRecv
  <2>2. Smaller(kern.rbuf, cp) \in 0..kern.rbuf
    BY <1>0 DEF Smaller
  <2>3. Taken(try.kern) /\ try.kern.rbuf = kern.rbuf - Smaller(kern.rbuf, cp)
    BY <1>0, <2>1, <2>2, ReadTakes
  <2>4. CASE kern.rbuf > 0
    BY <1>a, <1>3, <2>1, <2>3, <2>4, Zenon DEF Tried
  <2>5. CASE kern.rbuf = 0
    <3>1. try.kern.rbuf = 0
      BY <2>2, <2>3, <2>5
    <3>2. ~try.kern.fin /\ try.kern.st # "down"
      BY <1>a, <1>3, <2>3, <2>5, Zenon DEF Taken
    <3>3. Blocked("recv", try.kern, try.ssl)
      BY <1>a, <1>3, <2>1, <3>1, <3>2, Zenon DEF Blocked
    <3>4. ~(kern.rbuf > 0)
      BY <2>5
    <3>5. ~try.done
      BY <2>1, <3>4, Zenon
    <3> QED BY <1>a, <1>3, <2>1, <2>3, <3>2, <3>3, <3>5, ZenonT(60) DEF Tried
  <2> QED BY <1>0, <2>4, <2>5
<1> QED BY <1>1, <1>2, <1>3

\* SendAllFunctor and sendAll
LEMMA SendTried ==
    ASSUME WholeRecords, Types, Wanting, kern.st \in {"up", "down"},
           NEW o, o.cp \in 0..SendLen, o.sz \in 0..o.cp, o.sz < o.cp \/ o.cp = 0,
           NEW try \in doTrySend(o)
    PROVE  /\ Tried("send", try.sz = try.cp, try.kern, try.ssl)
           /\ try.sz \in Nat /\ try.sz <= try.cp /\ (try.sz # try.cp => try.cp = o.cp)
<1>0. /\ kern \in KernType /\ ssl \in SslType /\ Taken(kern) /\ kern.space \in Nat /\ ssl.out \in Nat
      /\ "send" \in Directions /\ SendLen \in Nat /\ MaxRecord \in Nat /\ SendLen <= MaxRecord
      /\ o.cp \in Nat /\ o.sz \in Nat /\ o.cp <= SendLen /\ o.sz <= o.cp
  BY SMTT(60) DEF Types, KernType, SslType, Directions, Taken, WholeRecords, StreamAssumption
<1>a. ~ssl.on => Kept("send", ssl) /\ ssl.want["send"] = "none"
  BY <1>0 DEF Wanting, Kept
<1>b. ASSUME NEW n \in 0..kern.space, NEW f \in BOOLEAN, kern.full => f
      PROVE  LET k == [kern EXCEPT !.space = @ - n, !.full = f]
             IN  Taken(k) /\ k.space = kern.space - n /\ k.full = f
  <2>1. kern.space - n \in Nat /\ kern.space - n <= kern.space /\ kern.rbuf <= kern.rbuf
    BY <1>0 DEF KernType
  <2> QED BY <1>0, <1>b, <2>1, Zenon DEF KernType, Taken
<1>1. CASE kern.st # "up" \/ o.cp = 0
  <2>1. try.sz = 0 /\ try.cp = 0 /\ try.kern = kern /\ try.ssl = Want("send", "none")
    BY <1>1 DEF doTrySend
  <2>2. CASE ssl.on
    <3>1. Kept("send", try.ssl) /\ try.ssl.want["send"] = "none"
      BY <1>0, <2>1, <2>2, WantKeeps
    <3> QED BY <1>0, <2>1, <3>1, SMTT(60) DEF Tried
  <2>3. CASE ~ssl.on
    <3>1. Want("send", "none") = ssl
      BY <1>0, <1>a, <2>3 DEF Want, SslType
    <3> QED BY <1>0, <1>a, <2>1, <2>3, <3>1 DEF Tried
  <2> QED BY <2>2, <2>3
<1>2. CASE ~(kern.st # "up" \/ o.cp = 0) /\ ssl.on
  <2>1. try \in SSL_write(o)
    BY <1>2, SMTT(60) DEF doTrySend
  <2>2. Record(o) = o.cp - o.sz /\ Unwritten(o) \in Nat /\ o.sz < o.cp
    BY <1>0, <1>2 DEF Record, Unwritten, Smaller
  <2>3. ASSUME NEW what \in {"none", "write"}, NEW n \in Nat
        PROVE  LET s == [Want("send", what) EXCEPT !.out = n]
               IN  Kept("send", s) /\ s.want["send"] = what
    <3>1. Kept("send", Want("send", what)) /\ Want("send", what).want["send"] = what
      BY <1>0, <1>2, WantKeeps, SMTT(60)
    <3> QED BY <1>2, <3>1, ZenonT(60) DEF Kept, SslType
  <2>4. CASE kern.space >= Unwritten(o) /\
             try = [kern |-> [kern EXCEPT !.space = @ - Unwritten(o)], ssl |-> [Want("send", "none") EXCEPT !.out = 0],
                    sz |-> o.sz + Record(o), cp |-> o.cp]
    <3>1. [kern EXCEPT !.space = @ - Unwritten(o)] = [kern EXCEPT !.space = @ - Unwritten(o), !.full = kern.full]
      BY <1>0, Zenon DEF KernType
    <3>2. Unwritten(o) \in 0..kern.space /\ kern.full \in BOOLEAN
      BY <1>0, <2>2, <2>4 DEF KernType
    <3>3. Taken([kern EXCEPT !.space = @ - Unwritten(o)])
      BY <1>b, <3>1, <3>2, Zenon
    <3>4. try.sz = o.cp /\ try.cp = o.cp
      BY <1>0, <2>2, <2>4
    <3>5. Kept("send", try.ssl) /\ try.ssl.want["send"] = "none"
      BY <2>3, <2>4, Zenon
    <3> QED BY <1>0, <2>4, <3>3, <3>4, <3>5 DEF Tried
  <2>5. CASE ~(kern.space >= Unwritten(o)) /\
             try = [kern |-> [kern EXCEPT !.space = 0, !.full = TRUE],
                    ssl |-> [Want("send", "write") EXCEPT !.out = Unwritten(o) - kern.space], sz |-> o.sz, cp |-> o.cp]
    <3>1. kern.space \in 0..kern.space /\ kern.space - kern.space = 0
      BY <1>0
    <3>2. Taken(try.kern) /\ try.kern.space = 0 /\ try.kern.full = TRUE
      BY <1>b, <2>5, <3>1, Zenon
    <3>3. Unwritten(o) - kern.space \in Nat
      BY <1>0, <2>2, <2>5
    <3>4. Kept("send", try.ssl) /\ try.ssl.want["send"] = "write"
      BY <2>3, <2>5, <3>3, Zenon
    <3>5. try.kern.st # "down" /\ Blocked("send", try.kern, try.ssl)
      BY <1>2, <3>2, <3>4, Zenon DEF Blocked, Taken
    <3>6. try.sz = o.sz /\ try.cp = o.cp /\ try.sz # try.cp /\ try.sz <= try.cp
      BY <1>0, <2>2, <2>5
    <3> QED BY <1>0, <3>2, <3>4, <3>5, <3>6 DEF Tried
  <2>6. CASE \E w \in WantRead("send") : try = [kern |-> w.kern, ssl |-> w.ssl, sz |-> o.sz, cp |-> o.cp]
    <3>1. PICK w \in WantRead("send") : try = [kern |-> w.kern, ssl |-> w.ssl, sz |-> o.sz, cp |-> o.cp]
      BY <2>6, SMTT(60)
    <3>2. Tried("send", FALSE, w.kern, w.ssl)
      BY <1>0, <1>2, WantTried, Zenon
    <3>3. try.kern = w.kern /\ try.ssl = w.ssl /\ try.sz # try.cp /\ try.cp = o.cp /\ try.sz = o.sz
      BY <1>0, <2>2, <3>1
    <3> QED BY <1>0, <3>2, <3>3 DEF Tried
  <2> QED BY <2>1, <2>4, <2>5, <2>6 DEF SSL_write
<1>3. CASE ~(kern.st # "up" \/ o.cp = 0) /\ ~ssl.on
  <2> DEFINE m == Smaller(kern.space, o.cp - o.sz)
             f == kern.full \/ kern.space < o.cp - o.sz
  <2>1. /\ try.kern = [kern EXCEPT !.space = @ - m, !.full = f]
        /\ try.ssl = ssl /\ try.sz = o.sz + m /\ try.cp = o.cp
    BY <1>0, <1>3 DEF doTrySend, KernType
  <2>2. m \in 0..kern.space /\ m <= o.cp - o.sz
    BY <1>0 DEF Smaller
  <2>3. try.sz # try.cp => kern.space < o.cp - o.sz /\ kern.space - m = 0
    BY <1>0, <2>1 DEF Smaller
  <2>4. try.sz \in Nat /\ try.sz <= try.cp
    BY <1>0, <2>1, <2>2
  <2>5. f \in BOOLEAN /\ (kern.full => f)
    BY ZenonT(60)
  <2> HIDE DEF m, f
  <2>6. Taken(try.kern) /\ try.kern.space = kern.space - m /\ try.kern.full = f
    BY <1>b, <2>1, <2>2, <2>5, ZenonT(60)
  <2>7. try.sz # try.cp => f
    BY <2>3 DEF f
  <2>8. try.sz # try.cp => try.kern.st # "down" /\ Blocked("send", try.kern, try.ssl)
    BY <1>a, <1>3, <2>1, <2>3, <2>6, <2>7, Zenon DEF Blocked, Taken
  <2> QED BY <1>a, <1>3, <2>1, <2>4, <2>6, <2>8, ZenonT(60) DEF Tried
<1> QED BY <1>1, <1>2, <1>3

(***************************************************************************)
(* What is queued                                                          *)
(***************************************************************************)
LEMMA HasAppend ==
    ASSUME NEW S, NEW s \in Seq(S), NEW e \in S, NEW W, Has(s, W) \/ e \in W
    PROVE  Has(Append(s, e), W)
<1>1. CASE Has(s, W)
  <2>1. PICK i \in DOMAIN s : s[i] \in W
    BY <1>1 DEF Has
  <2>2. i \in DOMAIN Append(s, e) /\ Append(s, e)[i] = s[i]
    BY <2>1
  <2> QED BY <2>1, <2>2, Zenon DEF Has
<1>2. CASE e \in W
  <2>1. Len(s) + 1 \in DOMAIN Append(s, e) /\ Append(s, e)[Len(s) + 1] = e
    OBVIOUS
  <2> QED BY <1>2, <2>1, Zenon DEF Has
<1> QED BY <1>1, <1>2

LEMMA HasTail ==
    ASSUME NEW S, NEW s \in Seq(S), s # <<>>, NEW W, Has(s, W), Head(s) \notin W
    PROVE  Has(Tail(s), W)
<1>1. PICK i \in DOMAIN s : s[i] \in W
  BY DEF Has
<1>2. i # 1
  BY <1>1
<1>3. i - 1 \in DOMAIN Tail(s) /\ Tail(s)[i - 1] = s[i]
  BY <1>1, <1>2
<1> QED BY <1>1, <1>3, Zenon DEF Has

LEMMA HasOne ==
    ASSUME NEW x, NEW W, x \in W
    PROVE  Has(<<x>>, W)
<1>1. 1 \in DOMAIN <<x>> /\ <<x>>[1] = x
  OBVIOUS
<1> QED BY <1>1, Zenon DEF Has

LEMMA HasOfTwo ==
    ASSUME NEW x, NEW y, NEW W, x \in W \/ y \in W
    PROVE  Has(<<x, y>>, W)
<1>1. 1 \in DOMAIN <<x, y>> /\ <<x, y>>[1] = x /\ 2 \in DOMAIN <<x, y>> /\ <<x, y>>[2] = y
  OBVIOUS
<1> QED BY <1>1, Zenon DEF Has

(***************************************************************************)
(* The steps                                                               *)
(***************************************************************************)
\* A try either completes its operation or leaves it quiet, and wakes or forgets nobody in the
\* other direction.
LEMMA TryKeeps ==
    ASSUME Types, Waiting, NEW d \in Directions, NEW done,
           Tried(d, done, kern', ssl'), done \/ kern.st \in {"up", "down"},
           done => Op(d)'.fnc = "none",
           ~done => Op(d)'.fnc \in {"recv", "send", "secure"} /\ (Op(d)'.fnc = "secure" => ssl.on),
           Op(d)'.posted = Op(d).posted, \A e \in Directions \ {d} : Op(e)' = Op(e),
           ssl.on => send'.fnc # "connect", recv.fnc # "dummy",
           exeq' = exeq, \A e \in Directions \ {d} : Soon(e) => Soon(e)'
    PROVE  Waiting'
<1>0. Taken(kern') /\ Kept(d, ssl') /\ kern'.st = kern.st
  BY Zenon DEF Tried, Taken
<1>1. Op(d)'.fnc \notin {"dummy", "connect"}
  BY SMTT(60) DEF Op, Directions
<1>2. Wanting'
  <2>1. ~ssl'.on => ssl'.held = 0 /\ \A e \in Directions : ssl'.want[e] = "none"
    BY <1>0, ZenonT(60) DEF Kept, Waiting, Wanting
  <2>2. \A e \in Directions : Op(e)'.fnc \in {"none", "connect"} => ssl'.want[e] = "none"
    BY <1>0, <1>1, ZenonT(60) DEF Kept, Waiting, Wanting, Tried
  <2>3. \A e \in Directions : Op(e)'.fnc = "secure" => ssl'.on
    BY <1>0, <1>1, ZenonT(60) DEF Kept, Waiting, Wanting, Tried
  <2>4. recv'.fnc # "dummy" /\ send'.fnc # "dummy"
    BY <1>1 DEF Waiting, Wanting, Op, Directions
  <2> QED BY <2>1, <2>2, <2>3, <2>4 DEF Wanting, Op
<1>3. Connecting'
  <2>1. ssl'.on = ssl.on
    BY <1>0, Zenon DEF Kept
  <2>2. CASE kern.st \in {"up", "down"}
    BY <1>0, <2>1, <2>2, ZenonT(60) DEF Connecting
  <2>3. CASE done /\ kern.st \in {"none", "connecting"}
    BY <1>0, <2>1, <2>3 DEF Connecting, Waiting, Op, Directions
  <2> QED BY <2>2, <2>3 DEF Types, KernType
<1>4. Posts'
  BY Zenon DEF Waiting, Posts
<1>5. ASSUME NEW e \in Directions \ {d}
      PROVE  /\ Pending(e)' = Pending(e) /\ ssl'.want[e] = ssl.want[e] /\ Op(e)' = Op(e)
             /\ Ready(e)' => Ready(e)
             /\ Quiet(e) => Quiet(e)'
  <2>1. Pending(e)' = Pending(e) /\ ssl'.want[e] = ssl.want[e] /\ Op(e)' = Op(e)
    BY <1>0, ZenonT(60) DEF Kept, Pending, Op
  <2>2. (Readable' => Readable) /\ (Writable' => Writable)
    BY <1>0 DEF Readable, Writable, Taken, Types, KernType
  <2>3. e = "recv" => ssl'.held = ssl.held
    BY <1>0 DEF Kept, Directions
  <2>4. Ready(e)' => Ready(e)
    BY <2>1, <2>2, <2>3, Zenon DEF Ready
  <2>5. kern'.st = kern.st /\ (kern.full => kern'.full) /\ ForSpace(e)' = ForSpace(e)
    BY <1>0, <2>1, Zenon DEF Taken, ForSpace
  <2> QED BY <2>1, <2>4, <2>5, Zenon DEF Quiet
<1>6. ~done => Quiet(d)' /\ (ssl'.on => ssl'.want[d] # "none")
  <2> SUFFICES ASSUME ~done PROVE Quiet(d)' /\ (ssl'.on => ssl'.want[d] # "none")
    OBVIOUS
  <2>1. kern'.st = "up" /\ Blocked(d, kern', ssl')
    BY <1>0, Zenon DEF Tried
  <2>2. ~ssl'.on => ssl'.held = 0
    BY <1>2, Zenon DEF Wanting
  <2>3. kern' \in KernType /\ ssl' \in SslType
    BY <1>0, Zenon DEF Taken, Kept
  <2> QED BY <2>1, <2>2, <2>3, SMTT(60)
             DEF Blocked, Quiet, Ready, ForSpace, Readable, Writable, KernType, SslType, Directions
<1>7. Pending(d)' => ~done
  BY Zenon DEF Pending, Op
<1>8. Untried'
  <2> SUFFICES ASSUME NEW e \in Directions, ssl'.on, Pending(e)', Op(e)'.fnc # "connect", ssl'.want[e] = "none"
               PROVE  Soon(e)'
    BY Zenon DEF Untried
  <2>1. e # d
    BY <1>6, <1>7, Zenon
  <2>2. ssl.on
    BY <1>0, Zenon DEF Kept
  <2> QED BY <1>5, <2>1, <2>2, Zenon DEF Waiting, Untried
<1>9. NoneForgotten'
  <2> SUFFICES ASSUME NEW e \in Directions, Pending(e)'
               PROVE  WillTry(e)' \/ Quiet(e)'
    BY Zenon DEF NoneForgotten
  <2>1. CASE e = d
    BY <1>6, <1>7, <2>1, Zenon
  <2>2. CASE e # d
    <3>1. WillTry(e) \/ Quiet(e)
      BY <1>5, <2>2, Zenon DEF Waiting, NoneForgotten
    <3>2. kern.ready => kern'.ready
      BY <1>0, Zenon DEF Taken
    <3> QED BY <1>5, <2>2, <3>1, <3>2, Zenon DEF WillTry
  <2> QED BY <2>1, <2>2
<1> QED BY <1>2, <1>3, <1>4, <1>8, <1>9 DEF Waiting

\* A step that tries nothing
LEMMA OthersKeep ==
    ASSUME Waiting, kern' = kern, ssl' = ssl, recv'.fnc = recv.fnc, send'.fnc = send.fnc, Posts',
           \A d \in Directions : Pending(d) /\ Soon(d) => Soon(d)'
    PROVE  Waiting'
<1>1. \A d \in Directions : Op(d)'.fnc = Op(d).fnc /\ Pending(d)' = Pending(d)
  BY DEF Op, Pending
<1>2. Wanting' /\ Connecting'
  BY <1>1, Zenon DEF Waiting, Wanting, Connecting
<1>3. Untried'
  BY <1>1, Zenon DEF Waiting, Untried
<1>4. \A d \in Directions : Quiet(d) => Quiet(d)'
  BY ZenonT(60) DEF Quiet, Ready, ForSpace, Readable, Writable
<1>5. NoneForgotten'
  BY <1>1, <1>4, Zenon DEF Waiting, NoneForgotten, WillTry
<1> QED BY <1>2, <1>3, <1>5 DEF Waiting

\* An edge of the kernel
LEMMA EdgeKeeps ==
    ASSUME Waiting, kern'.ready, UNCHANGED <<ssl, recv, send, exeq, loop>>,
           kern'.st \in {"none", "connecting"} => kern.st \in {"none", "connecting"}
    PROVE  Waiting'
<1>1. Wanting' /\ Posts'
  BY Zenon DEF Waiting, Wanting, Posts, Op
<1>2. Connecting'
  BY Zenon DEF Waiting, Connecting
<1>3. Untried'
  BY Zenon DEF Waiting, Untried, Pending, Op, Soon
<1>4. NoneForgotten'
  BY ZenonT(60) DEF NoneForgotten, WillTry
<1> QED BY <1>1, <1>2, <1>3, <1>4 DEF Waiting

\* A posted call is tried by its entry in the queue of the object.
LEMMA PostKeeps ==
    ASSUME Types, Waiting, NEW d \in Directions, kern' = kern, ssl' = ssl, loop' = loop, exeq' = Append(exeq, d),
           kern.st \notin {"none", "connecting"}, ssl.on => send.fnc # "connect",
           Op(d).fnc = "none", Op(d)'.fnc \in {"recv", "send"}, Op(d)'.posted = TRUE,
           \A e \in Directions \ {d} : Op(e)' = Op(e)
    PROVE  Waiting'
<1>1. \A e \in Directions : \A W : Has(exeq, W) \/ d \in W => Has(exeq', W)
  BY HasAppend DEF Types
<1>2. \A e \in Directions : Soon(e) => Soon(e)'
  BY <1>1, Zenon DEF Soon
<1>3. Soon(d)'
  BY <1>1, Zenon DEF Soon
<1>4. recv.fnc # "dummy" /\ send.fnc # "dummy" /\ recv'.fnc # "dummy" /\ send'.fnc # "dummy" /\ (ssl.on => send'.fnc # "connect")
  BY SMTT(60) DEF Waiting, Wanting, Op, Directions
<1>5. Wanting'
  <2>1. \A e \in Directions : Op(e)'.fnc \in {"none", "connect"} => ssl'.want[e] = "none"
    BY DEF Waiting, Wanting
  <2>2. \A e \in Directions : Op(e)'.fnc = "secure" => ssl'.on
    BY DEF Waiting, Wanting
  <2> QED BY <1>4, <2>1, <2>2, Zenon DEF Waiting, Wanting
<1>6. Connecting'
  BY <1>4, Zenon DEF Connecting
<1>7. Posts'
  <2> SUFFICES ASSUME NEW e \in Directions, Op(e)'.posted PROVE Has(exeq', {e})
    BY Zenon DEF Posts
  <2>1. e # d => Has(exeq, {e})
    BY Zenon DEF Waiting, Posts
  <2> QED BY <1>1, <2>1
<1>8. ASSUME NEW e \in Directions \ {d} PROVE Pending(e)' = Pending(e) /\ (Quiet(e) => Quiet(e)')
  BY Zenon DEF Pending, Op, Quiet, Ready, ForSpace, Readable, Writable
<1>9. Untried' /\ NoneForgotten'
  <2>1. Untried'
    BY <1>2, <1>3, <1>8, Zenon DEF Waiting, Untried
  <2>2. NoneForgotten'
    BY <1>2, <1>3, <1>8, Zenon DEF Waiting, NoneForgotten, WillTry
  <2> QED BY <2>1, <2>2
<1> QED BY <1>5, <1>6, <1>7, <1>9, SMTT(60) DEF Waiting

\* The peer: space in the send buffer is no edge when nobody was refused.
LEMMA PeerKeeps ==
    ASSUME Types, Waiting, Peer
    PROVE  Waiting'
<1>0. UNCHANGED <<ssl, recv, send, exeq, loop>> /\ kern \in KernType
  BY DEF Peer, OnlyKernel, Types
<1>1. CASE PeerSends \/ PeerCloses \/ PeerResets \/ PeerAccepts
  <2>1. kern'.ready /\ (kern'.st \in {"none", "connecting"} => kern.st \in {"none", "connecting"})
    BY <1>0, <1>1, ZenonT(60) DEF PeerSends, PeerCloses, PeerResets, PeerAccepts, KernType
  <2> QED BY <1>0, <2>1, EdgeKeeps
<1>2. CASE PeerReads
  <2>1. kern.st = "up" /\ kern'.st = "up" /\ kern'.rbuf = kern.rbuf /\ kern'.fin = kern.fin
    BY <1>0, <1>2 DEF PeerReads, KernType
  <2>2. CASE kern.ready \/ kern.full
    <3>1. kern'.ready
      BY <1>0, <1>2, <2>2 DEF PeerReads, KernType
    <3> QED BY <1>0, <2>1, <3>1, EdgeKeeps
  <2>3. CASE ~kern.ready /\ ~kern.full
    <3>1. Wanting' /\ Posts' /\ Connecting'
      BY <1>0, <2>1, ZenonT(60) DEF Waiting, Wanting, Posts, Op, Connecting
    <3>2. Untried'
      BY <1>0, Zenon DEF Waiting, Untried, Pending, Op, Soon
    <3>3. ASSUME NEW d \in Directions, Quiet(d) PROVE Quiet(d)'
      <4>1. ~ForSpace(d) /\ ~Ready(d)
        BY <2>1, <2>3, <3>3, Zenon DEF Quiet
      <4>2. ForSpace(d)' = ForSpace(d) /\ Readable' = Readable
        BY <1>0, <2>1, SMTT(60) DEF ForSpace, Readable
      <4>3. ~Ready(d)'
        BY <1>0, <4>1, <4>2 DEF Ready, ForSpace, Directions
      <4> QED BY <4>1, <4>2, <4>3, Zenon DEF Quiet
    <3>4. NoneForgotten'
      BY <1>0, <2>3, <3>3, Zenon DEF Waiting, NoneForgotten, WillTry, Soon, Pending
    <3> QED BY <3>1, <3>2, <3>4 DEF Waiting
  <2> QED BY <2>2, <2>3 DEF Types, KernType
<1> QED BY <1>1, <1>2 DEF Peer

\* An event of the kernel is used up; what filterReactorEvents chooses from it holds every
\* operation that it is for.
LEMMA IoKeeps ==
    ASSUME Types, Waiting, doCompleteIo
    PROVE  Waiting'
<1>0. /\ UNCHANGED <<ssl, recv, send, exeq>> /\ kern \in KernType /\ ssl \in SslType
      /\ loop.todo = <<>> /\ loop'.todo = IF kern.ready /\ recv.fnc # "dummy" THEN on_completion ELSE <<>>
  BY DEF doCompleteIo, Free, Types, LoopType
<1>1. /\ kern'.st = kern.st /\ kern'.rbuf = kern.rbuf /\ kern'.fin = kern.fin /\ kern'.space = kern.space
      /\ (kern.full => kern'.full) /\ (kern.ready /\ kern.space = 0 => kern'.full)
  BY <1>0 DEF doCompleteIo, KernType
<1>2. \A d \in Directions : /\ Soon(d) <=> Has(exeq, {d})
                            /\ Soon(d) => Soon(d)'
                            /\ Pending(d)' = Pending(d) /\ Ready(d)' = Ready(d) /\ ForSpace(d)' = ForSpace(d)
  <2>1. \A W : ~Has(loop.todo, W)
    BY <1>0 DEF Has
  <2>2. Readable' = Readable /\ Writable' = Writable
    BY <1>1, Zenon DEF Readable, Writable
  <2> QED BY <1>0, <2>1, <2>2, ZenonT(60) DEF Soon, Pending, Ready, ForSpace
<1>3. Wanting' /\ Posts' /\ Connecting'
  BY <1>0, <1>1, ZenonT(60) DEF Waiting, Wanting, Posts, Op, Connecting
<1>4. Untried'
  BY <1>0, <1>2, Zenon DEF Waiting, Untried, Op
<1>5. ASSUME NEW d \in Directions, Pending(d), Ready(d), ~Soon(d), kern.ready
      PROVE  Soon(d)'
  <2> DEFINE err == IF d = "recv" THEN "errrecv" ELSE "errsend"
  <2>1. loop'.todo = on_completion
    BY <1>0, <1>5 DEF Waiting, Wanting, Pending, Directions
  <2> SUFFICES Has(on_completion, {d, err, "clear"})
    BY <2>1, Zenon DEF Soon
  <2>2. kern.st \notin {"none", "connecting"}
    <3> SUFFICES ASSUME kern.st \in {"none", "connecting"} PROVE FALSE
      OBVIOUS
    <3>1. d = "send" /\ send.fnc = "connect"
      BY <1>5 DEF Waiting, Connecting, Pending, Directions
    <3>2. ssl.want[d] = "none"
      BY <3>1 DEF Waiting, Wanting, Op, Directions
    <3> QED BY <1>5, <3>1, <3>2 DEF Ready, Writable
  <2>3. CASE kern.st = "down"
    <3>1. on_completion = <<"errsend", "errrecv">>
      BY <2>3 DEF on_completion
    <3>2. "errsend" \in {d, err, "clear"} \/ "errrecv" \in {d, err, "clear"}
      BY DEF Directions
    <3> HIDE DEF err
    <3> QED BY <3>1, <3>2, HasOfTwo
  <2>4. CASE kern.st = "up"
    <3> DEFINE evt == CASE Readable /\ Writable -> <<"recv", "send">>
                        [] Readable /\ ~Writable -> <<"recv">>
                        [] ~Readable /\ Writable -> <<"send">>
                        [] OTHER -> <<>>
    <3>1. on_completion = filterReactorEvents(evt)
      BY <2>4 DEF on_completion
    <3>2. /\ Readable /\ Writable => evt = <<"recv", "send">>
          /\ Readable /\ ~Writable => evt = <<"recv">>
          /\ ~Readable /\ Writable => evt = <<"send">>
      OBVIOUS
    <3>3. ssl.want \in [Directions -> {"none", "read", "write"}]
      BY <1>0, SMTT(60) DEF SslType
    <3>4. \/ ssl.want[d] = "read" /\ Readable
          \/ ssl.want[d] = "write" /\ Writable
          \/ ssl.want["recv"] = "none" /\ ssl.want["send"] = "none" /\ d = "recv" /\ Readable
          \/ ssl.want["recv"] = "none" /\ ssl.want["send"] = "none" /\ d = "send" /\ Writable
      <4>1. CASE ssl.want[d] # "none"
        BY <1>5, <4>1, SMTT(60) DEF Ready
      <4>2. CASE ssl.want[d] = "none" /\ ssl.on
        <5>1. Op(d).fnc = "connect"
          BY <1>5, <4>2, Zenon DEF Waiting, Untried
        <5>2. d = "send" /\ send.fnc = "connect"
          BY <5>1 DEF Op, Directions, Types, RecvType
        <5>3. recv.fnc = "none"
          BY <4>2, <5>2, ZenonT(60) DEF Waiting, Connecting
        <5>4. ssl.want["recv"] = "none"
          BY <5>3, SMTT(60) DEF Waiting, Wanting, Op, Directions
        <5> QED BY <1>5, <4>2, <5>2, <5>4 DEF Ready
      <4>3. CASE ssl.want[d] = "none" /\ ~ssl.on
        <5>1. ssl.held = 0 /\ ssl.want["recv"] = "none" /\ ssl.want["send"] = "none"
          BY <4>3, SMTT(60) DEF Waiting, Wanting, Directions
        <5> QED BY <1>5, <4>3, <5>1, SMTT(60) DEF Ready, Directions
      <4> QED BY <1>0, <4>1, <4>2, <4>3, SMTT(60) DEF SslType
    <3> HIDE DEF evt
    <3>5. filterReactorEvents(evt) \in {<<d>>, <<"recv", "send">>, <<"send", "recv">>}
      <4>0. ssl.want["recv"] \in {"none", "read", "write"} /\ ssl.want["send"] \in {"none", "read", "write"}
        BY <3>3 DEF Directions
      <4>1. CASE Readable /\ Writable
        BY <3>2, <3>4, <4>0, <4>1, SMTT(60) DEF filterReactorEvents, Directions
      <4>2. CASE Readable /\ ~Writable
        BY <3>2, <3>4, <4>0, <4>2, SMTT(60) DEF filterReactorEvents, Directions
      <4>3. CASE ~Readable /\ Writable
        BY <3>2, <3>4, <4>0, <4>3 DEF filterReactorEvents, Directions
      <4> QED BY <3>4, <4>1, <4>2, <4>3
    <3>6. Has(<<d>>, {d, err, "clear"})
      <4> d \in {d, err, "clear"}
        OBVIOUS
      <4> QED BY HasOne, Zenon
    <3>7. Has(<<"recv", "send">>, {d, err, "clear"}) /\ Has(<<"send", "recv">>, {d, err, "clear"})
      BY HasOfTwo DEF Directions
    <3> QED BY <3>1, <3>5, <3>6, <3>7, ZenonT(60)
  <2> QED BY <1>0, <2>2, <2>3, <2>4, SMTT(60) DEF KernType
<1>6. NoneForgotten'
  <2> SUFFICES ASSUME NEW d \in Directions, Pending(d), ~Soon(d)' PROVE Quiet(d)'
    BY <1>2, Zenon DEF NoneForgotten, WillTry
  <2>1. CASE kern.ready
    <3>1. ~Ready(d)
      BY <1>2, <1>5, <2>1, Zenon
    <3>2. kern.st = "up" /\ ForSpace(d) => kern.space = 0
      BY <1>0, <3>1 DEF Ready, ForSpace, Writable, KernType, Directions
    <3> QED BY <1>1, <1>2, <2>1, <3>1, <3>2, Zenon DEF Quiet
  <2>2. CASE ~kern.ready
    BY <1>1, <1>2, <2>2, Zenon DEF Waiting, NoneForgotten, WillTry, Quiet
  <2> QED BY <2>1, <2>2
<1> QED BY <1>3, <1>4, <1>6 DEF Waiting

\* Posted calls move from the queue of the object to the handler one at a time, and the owner is
\* called between.
LEMMA EventsKeep ==
    ASSUME Types, Waiting, OwnerReturns \/ doCompleteEvents \/ doStopObject
    PROVE  Waiting'
<1>1. UNCHANGED <<kern, ssl, recv, send, exeq>> /\ (loop' = loop \/ loop.todo = <<>>)
  BY DEF OwnerReturns, doCompleteEvents, doStopObject, Free
<1>2. \A d \in Directions : Soon(d) => Soon(d)'
  <2>1. CASE loop' = loop
    BY <1>1, <2>1, Zenon DEF Soon
  <2>2. CASE loop.todo = <<>>
    <3>1. \A W : ~Has(loop.todo, W)
      BY <2>2 DEF Has
    <3> QED BY <1>1, <3>1, Zenon DEF Soon
  <2> QED BY <1>1, <2>1, <2>2
<1>3. Posts'
  BY <1>1, Zenon DEF Waiting, Posts, Op
<1> QED BY <1>1, <1>2, <1>3, OthersKeep

LEMMA ExecKeeps ==
    ASSUME Types, Waiting, doCompleteExec
    PROVE  Waiting'
<1>0. kern' = kern /\ ssl' = ssl /\ exeq \in Seq(Directions) /\ loop \in LoopType /\ \A W : ~Has(loop.todo, W)
  BY DEF doCompleteExec, Free, Has, Types
<1>1. CASE loop.left = 0
  <2>1. UNCHANGED <<recv, send, exeq>>
    BY <1>1 DEF doCompleteExec
  <2>2. Posts' /\ \A d \in Directions : Soon(d) => Soon(d)'
    BY <1>0, <2>1, Zenon DEF Waiting, Posts, Op, Soon
  <2> QED BY <1>0, <2>1, <2>2, OthersKeep
<1>2. CASE loop.left # 0
  <2>0. exeq # <<>>
    BY <1>0, <1>2 DEF Types, LoopType
  <2>1. /\ exeq' = Tail(exeq) /\ loop'.todo = <<Head(exeq)>>
        /\ recv' = IF Head(exeq) = "recv" THEN [recv EXCEPT !.posted = FALSE] ELSE recv
        /\ send' = IF Head(exeq) = "send" THEN [send EXCEPT !.posted = FALSE] ELSE send
    BY <1>0, <1>2, Zenon DEF doCompleteExec, LoopType
  <2>2. recv'.fnc = recv.fnc /\ send'.fnc = send.fnc
    BY <2>1 DEF Types, RecvType, SendType
  <2>3. \A d \in Directions : Has(exeq, {d}) => Head(exeq) = d \/ Has(exeq', {d})
    BY <1>0, <2>0, <2>1, HasTail
  <2>4. Posts'
    <3> SUFFICES ASSUME NEW d \in Directions, Op(d)'.posted PROVE Has(exeq', {d})
      BY Zenon DEF Posts
    <3>1. Head(exeq) # d /\ Op(d).posted
      BY <2>1 DEF Op, Directions, Types, RecvType, SendType
    <3> QED BY <2>3, <3>1, Zenon DEF Waiting, Posts
  <2>5. \A d \in Directions : Soon(d) => Soon(d)'
    <3> SUFFICES ASSUME NEW d \in Directions, Has(exeq, {d}), ~Has(exeq', {d}) PROVE Soon(d)'
      BY <1>0, Zenon DEF Soon
    <3>1. Head(exeq) = d
      BY <2>3
    <3>2. \A W : d \in W => Has(loop'.todo, W)
      BY <2>1, <3>1, HasOne
    <3> QED BY <3>2 DEF Soon
  <2> QED BY <1>0, <2>2, <2>4, <2>5, OthersKeep
<1> QED BY <1>1, <1>2

\* What the handler has still to do for one direction does not change by what it does for the
\* other.
LEMMA TodoKeeps ==
    ASSUME Types, loop.todo # <<>>, loop'.todo = Tail(loop.todo), exeq' = exeq,
           NEW d \in Directions, Head(loop.todo) \in {d, IF d = "recv" THEN "errrecv" ELSE "errsend"}
    PROVE  \A e \in Directions \ {d} : Soon(e) => Soon(e)'
<1> SUFFICES ASSUME NEW e \in Directions \ {d}, Soon(e), ~Has(exeq, {e}) PROVE Soon(e)'
  BY Zenon DEF Soon
<1> DEFINE W == {e, IF e = "recv" THEN "errrecv" ELSE "errsend", "clear"}
<1>1. Has(loop.todo, W)
  BY Zenon DEF Soon
<1>2. Head(loop.todo) \notin W
  BY DEF Directions
<1>3. loop.todo \in Seq(Todos)
  BY DEF Types, LoopType
<1> HIDE DEF W
<1>4. Has(loop'.todo, W)
  BY <1>1, <1>2, <1>3, HasTail, SMTT(60)
<1> QED BY <1>4, Zenon DEF Soon, W

\* doRecv and doError for a receive; o is the operation with the size that is tried
LEMMA RecvFncKeeps ==
    ASSUME Types, Waiting, \A e \in Directions \ {"recv"} : Soon(e) => Soon(e)', exeq' = exeq, send' = send,
           NEW o \in RecvType, o.fnc = recv.fnc, o.posted = recv.posted, RecvFnc(o)
    PROVE  Waiting' /\ kern' \in KernType /\ ssl' \in SslType /\ recv' \in RecvType
<1>0. "recv" \in Directions /\ \A e \in Directions \ {"recv"} : Op(e)' = Op(e)
  BY DEF Directions, Op
<1>1. CASE o.fnc \in {"none", "dummy"}
  <2>1. kern' = kern /\ ssl' = ssl /\ recv' = o /\ ~Pending("recv")
    BY <1>1 DEF RecvFnc, Pending
  <2>2. Posts'
    BY <1>0, <2>1, Zenon DEF Waiting, Posts, Op
  <2> QED BY <2>1, <2>2, OthersKeep, ZenonT(60) DEF Types
<1>2. CASE o.fnc \in {"recv", "secure"}
  <2>1. kern.st \in {"up", "down"} /\ (ssl.on => send'.fnc # "connect") /\ recv.fnc # "dummy"
    BY <1>2 DEF Waiting, Connecting, Types, KernType
  <2>2. o.fnc = "secure" => ssl.on
    BY <1>0, Zenon DEF Waiting, Wanting, Op
  <2>3. doClearRecv(o).fnc = "none" /\ doClearRecv(o).posted = o.posted /\ doClearRecv(o) \in RecvType
    BY Zenon DEF doClearRecv, RecvType
  <2>4. \E try : /\ Tried("recv", try.done, try.kern, try.ssl) /\ kern' = try.kern /\ ssl' = try.ssl
                 /\ recv' = IF try.done THEN doClearRecv(o) ELSE o
    <3>1. CASE o.fnc = "recv"
      <4>1. PICK try \in doTryRecv(o.cp) :
                kern' = try.kern /\ ssl' = try.ssl /\ recv' = IF try.done THEN doClearRecv(o) ELSE o
        BY <3>1, ZenonT(60) DEF RecvFnc
      <4>2. o.cp \in Nat /\ Wanting
        BY DEF RecvType, Waiting
      <4> QED BY <2>1, <4>1, <4>2, RecvTried, ZenonT(60)
    <3>2. CASE o.fnc = "secure"
      <4>1. PICK try \in doTrySecure("recv") :
                kern' = try.kern /\ ssl' = try.ssl /\ recv' = IF try.done THEN doClearRecv(o) ELSE o
        BY <3>2, ZenonT(60) DEF RecvFnc, SecureFnc
      <4> QED BY <1>0, <2>1, <2>2, <3>2, <4>1, SecureTried, Zenon
    <3> QED BY <1>2, <3>1, <3>2
  <2>5. PICK try : /\ Tried("recv", try.done, try.kern, try.ssl) /\ kern' = try.kern /\ ssl' = try.ssl
                   /\ recv' = IF try.done THEN doClearRecv(o) ELSE o
    BY <2>4, SMTT(60)
  <2>6. /\ try.done => Op("recv")'.fnc = "none"
        /\ ~try.done => Op("recv")'.fnc \in {"recv", "send", "secure"} /\ (Op("recv")'.fnc = "secure" => ssl.on)
        /\ Op("recv")'.posted = Op("recv").posted
    BY <1>2, <2>2, <2>3, <2>5 DEF Op
  <2>7. Tried("recv", try.done, kern', ssl')
    BY <2>5, Zenon
  <2>8. kern' \in KernType /\ ssl' \in SslType /\ recv' \in RecvType
    BY <2>3, <2>5, <2>7, ZenonT(60) DEF Tried, Taken, Kept
  <2> QED BY <1>0, <2>1, <2>6, <2>7, <2>8, TryKeeps, ZenonT(60)
<1> QED BY <1>1, <1>2 DEF RecvType, RecvFnc

\* doSend and doError for a send
LEMMA SendFncKeeps ==
    ASSUME WholeRecords, Types, Waiting, \A e \in Directions \ {"send"} : Soon(e) => Soon(e)', exeq' = exeq, recv' = recv,
           NEW o \in SendType, o.fnc = send.fnc, o.posted = send.posted, SendFnc(o),
           SendFits(o) \/ (o.cp = 0 /\ o.sz = 0)
    PROVE  Waiting' /\ kern' \in KernType /\ ssl' \in SslType /\ SendFits(send')
<1>0. "send" \in Directions /\ \A e \in Directions \ {"send"} : Op(e)' = Op(e)
  BY SMTT(60) DEF Directions, Op
<1>a. o.cp \in 0..SendLen /\ o.sz \in 0..o.cp /\ (o.fnc = "send" => o.sz < o.cp \/ o.cp = 0) /\ SendLen \in Nat
  BY DEF SendFits, SendType, WholeRecords, StreamAssumption
<1>b. o.fnc # "send" => SendFits(o)
  BY <1>a DEF SendFits, SendType
<1>1. CASE o.fnc \in {"none", "dummy"}
  <2>1. kern' = kern /\ ssl' = ssl /\ send' = o /\ ~Pending("send")
    BY <1>1 DEF SendFnc, Pending
  <2>2. Posts'
    BY <1>0, <2>1, ZenonT(60) DEF Waiting, Posts, Op
  <2>3. SendFits(o)
    BY <1>b, <1>1
  <2> QED BY <2>1, <2>2, <2>3, OthersKeep, ZenonT(60) DEF Types
<1>2. CASE o.fnc \in {"send", "secure", "connect"}
  <2>1. (o.fnc # "connect" => kern.st \in {"up", "down"}) /\ recv.fnc # "dummy"
    BY <1>2, SMTT(60) DEF Waiting, Connecting, Wanting, Types, KernType
  <2>2. o.fnc = "secure" => ssl.on
    BY <1>0, ZenonT(60) DEF Waiting, Wanting, Op
  <2>3. doClearSend(o).fnc = "none" /\ doClearSend(o).posted = o.posted /\ SendFits(doClearSend(o))
    <3>1. /\ doClearSend(o) \in SendType /\ doClearSend(o).fnc = "none" /\ doClearSend(o).posted = o.posted
          /\ doClearSend(o).cp = 0 /\ doClearSend(o).sz = 0
      BY Zenon DEF doClearSend, SendType
    <3> QED BY <1>a, <3>1 DEF SendFits
  <2>4. \E done \in BOOLEAN : /\ Tried("send", done, kern', ssl')
                              /\ IF done THEN send' = doClearSend(o) ELSE \E sz : send' = [o EXCEPT !.sz = sz] /\ SendFits(send')
                              /\ o.fnc = "connect" => done
    <3>1. CASE o.fnc = "send"
      <4>1. PICK try \in doTrySend(o) :
                /\ kern' = try.kern /\ ssl' = try.ssl
                /\ send' = IF try.sz = try.cp THEN doClearSend(o) ELSE [o EXCEPT !.sz = try.sz]
        BY <3>1, Zenon DEF SendFnc
      <4>2. Wanting
        BY DEF Waiting
      <4>3. Tried("send", try.sz = try.cp, try.kern, try.ssl)
        BY <1>a, <2>1, <3>1, <4>1, <4>2, SendTried, SMTT(60)
      <4>4. try.sz # try.cp => try.sz \in Nat /\ try.sz <= o.cp /\ try.sz < o.cp
        <5>1. try.sz \in Nat /\ try.sz <= try.cp /\ (try.sz # try.cp => try.cp = o.cp)
          BY <1>a, <2>1, <3>1, <4>1, <4>2, SendTried
        <5> QED BY <1>a, <5>1
      <4>5. try.sz # try.cp => SendFits([o EXCEPT !.sz = try.sz])
        BY <1>a, <3>1, <4>4 DEF SendFits, SendType
      <4>6. CASE try.sz = try.cp
        BY <3>1, <4>1, <4>3, <4>6, Zenon DEF Tried
      <4>7. CASE try.sz # try.cp
        BY <3>1, <4>1, <4>3, <4>5, <4>7, Zenon DEF Tried
      <4> QED BY <4>6, <4>7
    <3>2. CASE o.fnc = "secure"
      <4>1. PICK try \in doTrySecure("send") :
                kern' = try.kern /\ ssl' = try.ssl /\ send' = IF try.done THEN doClearSend(o) ELSE o
        BY <3>2, Zenon DEF SendFnc, SecureFnc
      <4>2. Tried("send", try.done, try.kern, try.ssl)
        BY <1>0, <2>1, <2>2, <3>2, <4>1, SecureTried, ZenonT(60)
      <4>3. o = [o EXCEPT !.sz = o.sz]
        BY DEF SendType
      <4>4. CASE try.done
        BY <3>2, <4>1, <4>2, <4>4, Zenon DEF Tried
      <4>5. CASE ~try.done
        BY <1>b, <3>2, <4>1, <4>2, <4>3, <4>5, Zenon DEF Tried
      <4> QED BY <4>4, <4>5
    <3>3. CASE o.fnc = "connect"
      <4>1. kern' = kern /\ ssl' = ssl /\ send' = doClearSend(o)
        BY <3>3 DEF SendFnc
      <4>2. ssl.want["send"] = "none"
        BY <1>0, <3>3, ZenonT(60) DEF Waiting, Wanting, Op
      <4>3. Taken(kern) /\ Kept("send", ssl)
        BY DEF Types, KernType, Taken, Kept
      <4>4. Tried("send", TRUE, kern', ssl')
        BY <4>1, <4>2, <4>3, Zenon DEF Tried
      <4> QED BY <4>1, <4>4, Zenon
    <3> QED BY <1>2, <3>1, <3>2, <3>3
  <2>5. PICK done \in BOOLEAN : /\ Tried("send", done, kern', ssl')
                                /\ IF done THEN send' = doClearSend(o) ELSE \E sz : send' = [o EXCEPT !.sz = sz] /\ SendFits(send')
                                /\ o.fnc = "connect" => done
    BY <2>4
  <2>6. ~done => send'.fnc = o.fnc /\ send'.posted = o.posted
    BY <2>5 DEF SendType
  <2>7. /\ done => Op("send")'.fnc = "none"
        /\ ~done => Op("send")'.fnc \in {"recv", "send", "secure"} /\ (Op("send")'.fnc = "secure" => ssl.on)
        /\ Op("send")'.posted = Op("send").posted
        /\ ssl.on => send'.fnc # "connect"
    BY <1>2, <2>2, <2>3, <2>5, <2>6 DEF Op
  <2>8. done \/ kern.st \in {"up", "down"}
    BY <2>1, <2>5, Zenon
  <2>9. kern' \in KernType /\ ssl' \in SslType /\ SendFits(send')
    BY <2>3, <2>5, Zenon DEF Tried, Taken, Kept
  <2> QED BY <1>0, <2>1, <2>5, <2>7, <2>8, <2>9, TryKeeps, ZenonT(60)
<1> QED BY <1>1, <1>2 DEF SendType

LEMMA HandleKeeps ==
    ASSUME WholeRecords, Types, Waiting, Handle
    PROVE  Waiting' /\ kern' \in KernType /\ ssl' \in SslType /\ recv' \in RecvType /\ SendFits(send')
<1>0. loop.todo # <<>> /\ loop'.todo = Tail(loop.todo) /\ exeq' = exeq /\ kern \in KernType /\ ssl \in SslType
      /\ recv \in RecvType /\ SendFits(send) /\ send \in SendType
      /\ "recv" \in Directions /\ "send" \in Directions /\ SendLen \in Nat
  BY SMTT(60) DEF Handle, Types, LoopType, Directions, WholeRecords, StreamAssumption, SendFits
<1>1. ASSUME NEW d \in Directions, Head(loop.todo) = d, Op(d).posted, UNCHANGED <<kern, ssl, recv, send>>
      PROVE  Waiting' /\ kern' \in KernType /\ ssl' \in SslType /\ recv' \in RecvType /\ SendFits(send')
  <2>1. \A e \in Directions \ {d} : Soon(e) => Soon(e)'
    BY <1>0, <1>1, TodoKeeps
  <2>2. Soon(d)'
    BY <1>0, <1>1, Zenon DEF Waiting, Posts, Soon
  <2>3. Posts'
    BY <1>0, <1>1, Zenon DEF Waiting, Posts, Op
  <2> QED BY <1>0, <1>1, <2>1, <2>2, <2>3, OthersKeep, SMTT(60)
<1>2. CASE Head(loop.todo) = "recv" /\ doRecv
  <2>1. CASE recv.posted
    BY <1>0, <1>1, <1>2, <2>1 DEF doRecv, Op
  <2>2. CASE ~recv.posted
    <3>1. \A e \in Directions \ {"recv"} : Soon(e) => Soon(e)'
      BY <1>0, <1>2, TodoKeeps
    <3> QED BY <1>0, <1>2, <2>2, <3>1, RecvFncKeeps, ZenonT(60) DEF doRecv
  <2> QED BY <2>1, <2>2, SMTT(60)
<1>3. CASE Head(loop.todo) = "send" /\ doSend
  <2>1. CASE send.posted
    BY <1>0, <1>1, <1>3, <2>1 DEF doSend, Op
  <2>2. CASE ~send.posted
    <3>1. \A e \in Directions \ {"send"} : Soon(e) => Soon(e)'
      BY <1>0, <1>3, TodoKeeps
    <3>2. SendFnc(send) /\ recv' = recv
      BY <1>3, <2>2 DEF doSend
    <3> QED BY <1>0, <3>1, <3>2, SendFncKeeps, ZenonT(60)
  <2> QED BY <2>1, <2>2, SMTT(60)
<1>4. CASE Head(loop.todo) = "errrecv" /\ doErrorRecv
  <2> DEFINE o == [recv EXCEPT !.cp = 0, !.sz = 0]
  <2>1. \A e \in Directions \ {"recv"} : Soon(e) => Soon(e)'
    BY <1>0, <1>4, TodoKeeps
  <2>2. RecvFnc(o) /\ send' = send
    BY <1>4 DEF doErrorRecv
  <2>3. o \in RecvType /\ o.fnc = recv.fnc /\ o.posted = recv.posted
    BY <1>0, Zenon DEF RecvType
  <2> HIDE DEF o
  <2> QED BY <1>0, <2>1, <2>2, <2>3, RecvFncKeeps, ZenonT(60)
<1>5. CASE Head(loop.todo) = "errsend" /\ doErrorSend
  <2> DEFINE o == [send EXCEPT !.cp = 0, !.sz = 0]
  <2>1. \A e \in Directions \ {"send"} : Soon(e) => Soon(e)'
    BY <1>0, <1>5, TodoKeeps
  <2>2. SendFnc(o) /\ recv' = recv
    BY <1>5 DEF doErrorSend
  <2>3. o \in SendType /\ o.fnc = send.fnc /\ o.posted = send.posted /\ o.cp = 0 /\ o.sz = 0
    BY <1>0, ZenonT(60) DEF SendType
  <2> HIDE DEF o
  <2> QED BY <1>0, <2>1, <2>2, <2>3, SendFncKeeps, ZenonT(60)
<1>6. CASE Head(loop.todo) = "clear" /\ doClear
  <2>1. /\ kern' = kern /\ ssl' = ssl /\ recv'.fnc = "dummy" /\ send'.fnc = "dummy"
        /\ recv'.posted = recv.posted /\ send'.posted = send.posted
    BY <1>6 DEF doClear, Dummy, Nobody
  <2>2. Posts' /\ \A d \in Directions : Op(d)'.fnc = "dummy" /\ ~Pending(d)'
    BY <1>0, <2>1 DEF Waiting, Posts, Op, Pending
  <2>3. Wanting' /\ Connecting'
    <3>1. \A d \in Directions : Op(d)'.fnc \notin {"none", "connect", "secure"}
      BY <2>2
    <3>2. Wanting'
      BY <2>1, <2>2, <3>1, ZenonT(60) DEF Waiting, Wanting
    <3>3. Connecting'
      BY <2>1 DEF Connecting
    <3> QED BY <3>2, <3>3
  <2>4. Untried' /\ NoneForgotten'
    BY <2>2, Zenon DEF Untried, NoneForgotten
  <2>5. recv' \in RecvType /\ SendFits(send')
    <3>1. recv.posted \in BOOLEAN /\ send.posted \in BOOLEAN
      BY <1>0 DEF RecvType, SendType
    <3>2. recv' \in RecvType /\ send' \in SendType /\ send'.fnc = "dummy" /\ send'.cp = 0 /\ send'.sz = 0
      BY <1>6, <3>1, Zenon DEF doClear, Dummy, Nobody, RecvType, SendType
    <3> QED BY <1>0, <3>2 DEF SendFits
  <2> QED BY <1>0, <2>1, <2>2, <2>3, <2>4, <2>5, SMTT(60) DEF Waiting
<1> QED BY <1>2, <1>3, <1>4, <1>5, <1>6 DEF Handle

\* A call of the owner
LEMMA CallsKeep ==
    ASSUME WholeRecords, Types, Waiting, OwnerCalls
    PROVE  Waiting' /\ kern' \in KernType /\ ssl' \in SslType /\ recv' \in RecvType /\ SendFits(send')
<1>0. /\ loop' = loop /\ kern \in KernType /\ ssl \in SslType /\ recv \in RecvType /\ SendFits(send) /\ send \in SendType
      /\ "recv" \in Directions /\ "send" \in Directions /\ SendLen \in Nat \ {0} /\ RecvCap \in Nat
  BY DEF OwnerCalls, Types, Directions, WholeRecords, StreamAssumption, SendFits
<1>1. CASE connect
  <2>0. send.fnc = "none" /\ kern.st = "none" /\ UNCHANGED <<ssl, recv, exeq>>
    BY <1>1 DEF connect
  <2>1. CASE \E st \in {"up", "down"} : kern' = [kern EXCEPT !.st = st, !.ready = TRUE] /\ UNCHANGED <<send, scheduled>>
    <3>1. kern'.ready /\ kern'.st \notin {"none", "connecting"} /\ send' = send /\ kern' \in KernType
      BY <1>0, <2>1, ZenonT(60) DEF KernType
    <3> QED BY <1>0, <2>0, <3>1, EdgeKeeps
  <2>2. CASE kern' = [kern EXCEPT !.st = "connecting"] /\ send' = [send EXCEPT !.fnc = "connect"]
    <3>1. /\ kern'.st = "connecting" /\ kern'.ready = kern.ready
          /\ send'.fnc = "connect" /\ send'.posted = send.posted
          /\ kern' \in KernType /\ send' \in SendType /\ send'.cp = send.cp /\ send'.sz = send.sz
      BY <1>0, <2>2 DEF KernType, SendType
    <3>a. SendFits(send')
      BY <1>0, <3>1, SMTT(60) DEF SendFits
    <3>2. recv.fnc = "none" /\ ssl.want["send"] = "none"
      BY <2>0, SMTT(60) DEF Waiting, Connecting, Wanting, Op, Directions
    <3>3. Wanting'
      BY <2>0, <3>1, <3>2, SMTT(60) DEF Waiting, Wanting, Op, Directions
    <3>4. Connecting'
      BY <2>0, <3>1, <3>2 DEF Connecting
    <3>5. Posts'
      BY <2>0, <3>1 DEF Waiting, Posts, Op
    <3>6. Untried'
      BY <2>0, <3>1, <3>2 DEF Untried, Pending, Op, Directions
    <3>7. Quiet("send")' /\ ~Pending("recv")'
      BY <2>0, <3>1, <3>2 DEF Quiet, Ready, Writable, Pending
    <3>8. NoneForgotten'
      BY <3>7, SMTT(60) DEF NoneForgotten, Directions
    <3> QED BY <1>0, <2>0, <3>a, <3>1, <3>3, <3>4, <3>5, <3>6, <3>8 DEF Waiting
  <2> QED BY <1>1, <2>1, <2>2 DEF connect
<1>2. CASE /\ kern.st \notin {"none", "connecting"} /\ (ssl.on => send.fnc # "connect")
           /\ postRecvSome \/ recvSome \/ postSendAll \/ sendAll \/ secureRecv \/ secureSend \/ shutdown
  <2>0. kern.st \in {"up", "down"}
    BY <1>0, <1>2 DEF KernType
  <2>1. CASE postRecvSome
    <3>1. /\ kern' = kern /\ ssl' = ssl /\ exeq' = Append(exeq, "recv") /\ Op("recv").fnc = "none"
          /\ Op("recv")'.fnc = "recv" /\ Op("recv")'.posted = TRUE /\ \A e \in Directions \ {"recv"} : Op(e)' = Op(e)
      BY <2>1 DEF postRecvSome, Op, Directions
    <3>2. recv' \in RecvType /\ send' = send
      BY <1>0, <2>1 DEF postRecvSome, RecvType
    <3> QED BY <1>0, <1>2, <3>1, <3>2, PostKeeps, Zenon
  <2>2. CASE postSendAll
    <3>1. /\ kern' = kern /\ ssl' = ssl /\ exeq' = Append(exeq, "send") /\ Op("send").fnc = "none"
          /\ Op("send")'.fnc = "send" /\ Op("send")'.posted = TRUE /\ \A e \in Directions \ {"send"} : Op(e)' = Op(e)
      BY <2>2 DEF postSendAll, Op, Directions
    <3>2. SendFits(send') /\ recv' = recv
      BY <1>0, <2>2 DEF postSendAll, SendFits, SendType
    <3> QED BY <1>0, <1>2, <3>1, <3>2, PostKeeps, ZenonT(60)
  <2>3. CASE shutdown
    <3>1. kern'.ready /\ kern'.st = "down" /\ UNCHANGED <<ssl, recv, send, exeq>> /\ kern' \in KernType
      BY <1>0, <2>3, Zenon DEF shutdown, KernType
    <3> QED BY <1>0, <3>1, EdgeKeeps
  <2>4. CASE recvSome \/ secureRecv
    <3>0. /\ recv.fnc = "none" /\ send' = send /\ exeq' = exeq
          /\ \A e \in Directions \ {"recv"} : Op(e)' = Op(e) /\ (Soon(e) => Soon(e)')
      BY <1>0, <2>4, SMTT(60) DEF recvSome, secureRecv, Op, Directions, Soon
    <3>1. \E try, o : /\ Tried("recv", try.done, try.kern, try.ssl) /\ kern' = try.kern /\ ssl' = try.ssl
                      /\ IF try.done THEN recv' = recv ELSE recv' = o
                      /\ o.fnc \in {"recv", "secure"} /\ (o.fnc = "secure" => ssl.on) /\ o.posted = recv.posted /\ o \in RecvType
      <4>1. CASE recvSome
        <5> DEFINE o == [recv EXCEPT !.fnc = "recv", !.cp = RecvCap]
        <5>1. PICK try \in doTryRecv(RecvCap) : /\ kern' = try.kern /\ ssl' = try.ssl
                                                /\ IF try.done THEN recv' = recv ELSE recv' = o
          BY <4>1, Zenon DEF recvSome
        <5>2. Tried("recv", try.done, try.kern, try.ssl)
          BY <1>0, <2>0, <5>1, RecvTried, ZenonT(60) DEF Waiting
        <5>3. o.fnc = "recv" /\ o.posted = recv.posted /\ o \in RecvType
          BY <1>0, Zenon DEF RecvType
        <5>4. o.fnc \in {"recv", "secure"} /\ (o.fnc = "secure" => ssl.on)
          BY <5>3
        <5> HIDE DEF o
        <5> QED BY <5>1, <5>2, <5>3, <5>4, Zenon
      <4>2. CASE secureRecv
        <5> DEFINE o == [recv EXCEPT !.fnc = "secure"]
        <5>1. PICK try \in doTrySecure("recv") : /\ kern' = try.kern /\ ssl' = try.ssl
                                                 /\ IF try.done THEN recv' = recv ELSE recv' = o
          BY <4>2, Zenon DEF secureRecv
        <5>0. ssl.on
          BY <4>2 DEF secureRecv
        <5>2. Tried("recv", try.done, try.kern, try.ssl)
          BY <1>0, <2>0, <5>0, <5>1, SecureTried, Zenon
        <5>3. o.fnc = "secure" /\ o.posted = recv.posted /\ o \in RecvType
          BY <1>0 DEF RecvType
        <5>4. o.fnc \in {"recv", "secure"}
          BY <5>3
        <5> HIDE DEF o
        <5> QED BY <5>0, <5>1, <5>2, <5>3, <5>4, ZenonT(60)
      <4> QED BY <2>4, <4>1, <4>2
    <3>2. PICK try, o : /\ Tried("recv", try.done, try.kern, try.ssl) /\ kern' = try.kern /\ ssl' = try.ssl
                        /\ IF try.done THEN recv' = recv ELSE recv' = o
                        /\ o.fnc \in {"recv", "secure"} /\ (o.fnc = "secure" => ssl.on) /\ o.posted = recv.posted /\ o \in RecvType
      BY <3>1
    <3>3. /\ try.done => Op("recv")'.fnc = "none"
          /\ ~try.done => Op("recv")'.fnc \in {"recv", "send", "secure"} /\ (Op("recv")'.fnc = "secure" => ssl.on)
          /\ Op("recv")'.posted = Op("recv").posted
      BY <3>0, <3>2 DEF Op
    <3>4. Tried("recv", try.done, kern', ssl') /\ (ssl.on => send'.fnc # "connect") /\ recv.fnc # "dummy"
      BY <1>2, <3>0, <3>2
    <3>5. kern' \in KernType /\ ssl' \in SslType /\ recv' \in RecvType
      BY <1>0, <3>2, <3>4, Zenon DEF Tried, Taken, Kept
    <3> QED BY <1>0, <2>0, <3>0, <3>3, <3>4, <3>5, TryKeeps, ZenonT(60)
  <2>5. CASE sendAll \/ secureSend
    <3>0. /\ send.fnc = "none" /\ recv' = recv /\ exeq' = exeq
          /\ \A e \in Directions \ {"send"} : Op(e)' = Op(e) /\ (Soon(e) => Soon(e)')
      BY <1>0, <2>5, ZenonT(60) DEF sendAll, secureSend, Op, Directions, Soon
    <3>1. \E done, o : /\ Tried("send", done, kern', ssl')
                       /\ IF done THEN send' = send ELSE send' = o /\ SendFits(o)
                       /\ o.fnc \in {"send", "secure"} /\ (o.fnc = "secure" => ssl.on) /\ o.posted = send.posted
      <4>1. CASE sendAll
        <5> DEFINE c == [cp |-> SendLen, sz |-> 0]
                   o(try) == [send EXCEPT !.fnc = "send", !.cp = try.cp, !.sz = try.sz]
        <5>1. PICK try \in doTrySend(c) : /\ kern' = try.kern /\ ssl' = try.ssl
                                          /\ IF try.sz = try.cp THEN send' = send ELSE send' = o(try)
          BY <4>1, Zenon DEF sendAll
        <5>2. c.cp \in 0..SendLen /\ c.sz \in 0..c.cp /\ (c.sz < c.cp \/ c.cp = 0)
          BY <1>0
        <5>3. o(try).fnc = "send" /\ o(try).posted = send.posted
          BY <1>0 DEF SendType
        <5>4. o(try).fnc \in {"send", "secure"} /\ (o(try).fnc = "secure" => ssl.on)
          BY <5>3
        <5> HIDE DEF c, o
        <5>5. Tried("send", try.sz = try.cp, kern', ssl')
          BY <1>0, <2>0, <5>1, <5>2, SendTried, Zenon DEF Waiting
        <5>6. try.sz \in Nat /\ try.sz <= try.cp /\ (try.sz # try.cp => try.cp = c.cp)
          BY <1>0, <2>0, <5>1, <5>2, SendTried, ZenonT(60) DEF Waiting
        <5>7. try.sz # try.cp => try.cp \in Nat /\ try.cp <= SendLen /\ try.sz < try.cp
          BY <1>0, <5>6 DEF c
        <5>8. try.sz # try.cp => SendFits(o(try))
          BY <1>0, <5>6, <5>7, Zenon DEF SendFits, SendType, o
        <5> QED BY <5>1, <5>3, <5>4, <5>5, <5>8, ZenonT(60)
      <4>2. CASE secureSend
        <5> DEFINE o == [send EXCEPT !.fnc = "secure"]
        <5>1. PICK try \in doTrySecure("send") : /\ kern' = try.kern /\ ssl' = try.ssl
                                                 /\ IF try.done THEN send' = send ELSE send' = o
          BY <4>2, Zenon DEF secureSend
        <5>0. ssl.on
          BY <4>2 DEF secureSend
        <5>2. Tried("send", try.done, kern', ssl')
          BY <1>0, <2>0, <5>0, <5>1, SecureTried, Zenon
        <5>3. o.fnc = "secure" /\ o.posted = send.posted
          BY <1>0 DEF SendType
        <5>4. o.fnc \in {"send", "secure"} /\ SendFits(o)
          BY <1>0, <5>3 DEF SendFits, SendType
        <5> HIDE DEF o
        <5> QED BY <5>0, <5>1, <5>2, <5>3, <5>4, ZenonT(60)
      <4> QED BY <2>5, <4>1, <4>2
    <3>2. PICK done, o : /\ Tried("send", done, kern', ssl')
                         /\ IF done THEN send' = send ELSE send' = o /\ SendFits(o)
                         /\ o.fnc \in {"send", "secure"} /\ (o.fnc = "secure" => ssl.on) /\ o.posted = send.posted
      BY <3>1
    <3>3. /\ done => Op("send")'.fnc = "none"
          /\ ~done => Op("send")'.fnc \in {"recv", "send", "secure"} /\ (Op("send")'.fnc = "secure" => ssl.on)
          /\ Op("send")'.posted = Op("send").posted
          /\ ssl.on => send'.fnc # "connect"
      BY <3>0, <3>2, SMTT(60) DEF Op
    <3>4. recv.fnc # "dummy"
      BY <3>0 DEF Waiting, Wanting
    <3>5. kern' \in KernType /\ ssl' \in SslType /\ SendFits(send')
      BY <1>0, <3>2, Zenon DEF Tried, Taken, Kept
    <3> QED BY <1>0, <2>0, <3>0, <3>2, <3>3, <3>4, <3>5, TryKeeps, ZenonT(60)
  <2> QED BY <1>2, <2>1, <2>2, <2>3, <2>4, <2>5, SMTT(60)
<1> QED BY <1>1, <1>2, SMTT(60) DEF OwnerCalls

(***************************************************************************)
(* The invariant                                                           *)
(***************************************************************************)
LEMMA TodoSeqs ==
    /\ <<>> \in Seq(Todos) /\ <<"clear">> \in Seq(Todos) /\ <<"recv">> \in Seq(Todos) /\ <<"send">> \in Seq(Todos)
    /\ <<"recv", "send">> \in Seq(Todos) /\ <<"send", "recv">> \in Seq(Todos) /\ <<"errsend", "errrecv">> \in Seq(Todos)
<1>1. /\ "recv" \in Todos /\ "send" \in Todos /\ "errsend" \in Todos /\ "errrecv" \in Todos /\ "clear" \in Todos
  BY DEF Todos
<1>2. <<>> \in Seq(Todos) /\ \A x, y \in Todos : <<x>> \in Seq(Todos) /\ <<x, y>> \in Seq(Todos)
  OBVIOUS
<1> QED BY <1>1, <1>2, Zenon

LEMMA InitHolds == WholeRecords /\ StreamInit => IInv
<1> SUFFICES ASSUME WholeRecords, StreamInit PROVE IInv
  OBVIOUS
<1>1. Types
  <2>1. kern \in KernType
    <3>1. PICK st \in {"none", "up"} :
              kern = [st |-> st, rbuf |-> 0, came |-> 0, fin |-> FALSE, space |-> SendBuf,
                      full |-> FALSE, ready |-> st = "up"]
      BY DEF StreamInit
    <3>2. SendBuf \in Nat /\ (st = "up") \in BOOLEAN
      BY SMTT(60) DEF WholeRecords, StreamAssumption
    <3> QED BY <3>1, <3>2, SMTT(60) DEF KernType
  <2>a. ssl \in SslType /\ recv \in RecvType
    BY SMTT(60) DEF StreamInit, SslType, RecvType, Nobody, Directions
  <2>2. SendFits(send)
    BY SMTT(60) DEF StreamInit, WholeRecords, StreamAssumption, SendFits, SendType, Nobody
  <2>3. exeq \in Seq(Directions) /\ loop \in LoopType /\ loop.left <= Len(exeq)
    BY TodoSeqs, SMTT(60) DEF StreamInit, LoopType
  <2> QED BY <2>1, <2>a, <2>2, <2>3, SMTT(60) DEF Types
<1>2. Counts
  BY SMTT(60) DEF StreamInit, Counts, AnsweredOnce, Nobody, Directions
<1>3. /\ recv.fnc = "none" /\ send.fnc = "none" /\ recv.posted = FALSE /\ send.posted = FALSE
      /\ ssl.held = 0 /\ \A d \in Directions : ssl.want[d] = "none"
  BY DEF StreamInit, Nobody
<1>4. \A d \in Directions : Op(d).fnc = "none" /\ Op(d).posted = FALSE /\ ~Pending(d)
  BY <1>3, SMTT(60) DEF Op, Pending
<1>5. Wanting /\ Connecting
  BY <1>3, <1>4 DEF Wanting, Connecting
<1>6. Posts /\ Untried /\ NoneForgotten
  BY <1>4, Zenon DEF Posts, Untried, NoneForgotten
<1> QED BY <1>1, <1>2, <1>5, <1>6 DEF IInv, Waiting

LEMMA TypesKept ==
    ASSUME WholeRecords, Types, Waiting, StreamNext
    PROVE  Types'
<1>0. kern \in KernType /\ ssl \in SslType /\ recv \in RecvType /\ SendFits(send) /\ send \in SendType
      /\ exeq \in Seq(Directions) /\ loop \in LoopType /\ loop.left <= Len(exeq)
  BY DEF Types, SendFits
<1>1. CASE Peer
  <2>1. kern' \in KernType
    <3>0. kern.rbuf + 1 \in Nat /\ kern.came + 1 \in Nat /\ kern.space + 1 \in Nat
      BY <1>0 DEF KernType
    <3>1. PeerSends => kern' \in KernType
      BY <1>0, <3>0, ZenonT(60) DEF PeerSends, KernType
    <3>2. PeerCloses => kern' \in KernType
      BY <1>0, ZenonT(60) DEF PeerCloses, KernType
    <3>3. PeerReads => kern' \in KernType
      <4>1. (kern.ready \/ kern.full) \in BOOLEAN
        BY Zenon
      <4>2. PeerReads => kern' = [kern EXCEPT !.space = kern.space + 1, !.ready = kern.ready \/ kern.full, !.full = FALSE]
        BY DEF PeerReads
      <4>3. ASSUME NEW n \in Nat, NEW b \in BOOLEAN PROVE [kern EXCEPT !.space = n, !.ready = b, !.full = FALSE] \in KernType
        BY <1>0, Zenon DEF KernType
      <4> QED BY <3>0, <4>1, <4>2, <4>3, Zenon
    <3>4. PeerResets => kern' \in KernType
      BY <1>0, ZenonT(60) DEF PeerResets, KernType
    <3>5. PeerAccepts => kern' \in KernType
      BY <1>0, ZenonT(60) DEF PeerAccepts, KernType
    <3> QED BY <1>1, <3>1, <3>2, <3>3, <3>4, <3>5, Zenon DEF Peer
  <2> QED BY <1>0, <1>1, <2>1 DEF Peer, OnlyKernel, Types
<1>2. CASE OwnerCalls
  <2>1. kern' \in KernType /\ ssl' \in SslType /\ recv' \in RecvType /\ SendFits(send') /\ loop' = loop
    BY <1>2, CallsKeep DEF OwnerCalls
  <2>2. exeq' = exeq \/ exeq' = Append(exeq, "recv") \/ exeq' = Append(exeq, "send")
    BY <1>2, Zenon DEF OwnerCalls, connect, postRecvSome, recvSome, postSendAll, sendAll,
       secureRecv, secureSend, shutdown
  <2>3. exeq' \in Seq(Directions) /\ Len(exeq') >= Len(exeq)
    BY <1>0, <2>2, SMTT(60) DEF Directions
  <2>4. loop'.left <= Len(exeq')
    BY <1>0, <2>1, <2>3, SMTT(60) DEF LoopType
  <2> QED BY <1>0, <2>1, <2>3, <2>4, SMTT(60) DEF Types
<1>3. CASE OwnerReturns
  BY <1>0, <1>3 DEF OwnerReturns, Types
<1>4. CASE Handle
  <2>1. kern' \in KernType /\ ssl' \in SslType /\ recv' \in RecvType /\ SendFits(send')
    BY <1>4, HandleKeeps
  <2>2. exeq' = exeq /\ loop' \in LoopType /\ loop'.left = loop.left
    <3>1. Tail(loop.todo) \in Seq(Todos)
      BY <1>0, <1>4 DEF Handle, LoopType
    <3> QED BY <1>0, <1>4, <3>1, Zenon DEF Handle, LoopType
  <2> QED BY <1>0, <2>1, <2>2 DEF Types
<1>5. CASE doCompleteIo
  <2>1. kern' \in KernType
    BY <1>0, <1>5, ZenonT(60) DEF doCompleteIo, KernType
  <2>2. on_completion \in Seq(Todos)
    <3> DEFINE evt == CASE Readable /\ Writable -> <<"recv", "send">>
                        [] Readable /\ ~Writable -> <<"recv">>
                        [] ~Readable /\ Writable -> <<"send">>
                        [] OTHER -> <<>>
    <3>1. evt \in Seq(Todos)
      BY TodoSeqs
    <3>2. \A x \in Seq(Todos) : filterReactorEvents(x) \in Seq(Todos)
      BY TodoSeqs DEF filterReactorEvents
    <3>3. filterReactorEvents(evt) \in Seq(Todos)
      BY <3>1, <3>2, Zenon
    <3> HIDE DEF evt
    <3>4. on_completion \in {<<>>, <<"errsend", "errrecv">>, filterReactorEvents(evt)}
      BY DEF on_completion, evt
    <3> QED BY <3>3, <3>4, TodoSeqs, Zenon
  <2>3. loop' \in LoopType /\ loop'.left = loop.left
    <3>1. (IF kern.ready /\ recv.fnc # "dummy" THEN on_completion ELSE <<>>) \in Seq(Todos)
      BY <2>2, TodoSeqs
    <3> QED BY <1>0, <1>5, <3>1, Zenon DEF doCompleteIo, LoopType
  <2> QED BY <1>0, <1>5, <2>1, <2>3 DEF doCompleteIo, Types
<1>6. CASE doCompleteEvents
  <2>1. loop' \in LoopType /\ loop'.left = Len(exeq)
    <3>1. Len(exeq) \in Nat
      BY <1>0
    <3>2. loop' = [loop EXCEPT !.phase = "exec", !.left = Len(exeq)]
      BY <1>6, Zenon DEF doCompleteEvents
    <3> QED BY <1>0, <3>1, <3>2, TodoSeqs, ZenonT(60) DEF LoopType
  <2> QED BY <1>0, <1>6, <2>1 DEF doCompleteEvents, Types
<1>7. CASE doCompleteExec
  <2>1. CASE loop.left = 0
    <3>1. loop' \in LoopType /\ loop'.left = loop.left
      BY <1>0, <1>7, <2>1, SMTT(60) DEF doCompleteExec, LoopType
    <3> QED BY <1>0, <1>7, <2>1, <3>1 DEF doCompleteExec, Types
  <2>2. CASE loop.left # 0
    <3>1. exeq # <<>> /\ loop.left \in Nat
      BY <1>0, <2>2 DEF LoopType
    <3>2. exeq' = Tail(exeq) /\ exeq' \in Seq(Directions) /\ Len(exeq') = Len(exeq) - 1 /\ Head(exeq) \in Directions
      BY <1>0, <1>7, <2>2, <3>1, SMTT(60) DEF doCompleteExec
    <3>3. loop' \in LoopType /\ loop'.left = loop.left - 1
      <4>1. <<Head(exeq)>> \in Seq(Todos) /\ loop.left - 1 \in Nat
        BY <2>2, <3>1, <3>2, TodoSeqs DEF Directions
      <4>2. loop' = [loop EXCEPT !.left = @ - 1, !.todo = <<Head(exeq)>>]
        BY <1>7, <2>2 DEF doCompleteExec
      <4> QED BY <1>0, <4>1, <4>2, Zenon DEF LoopType
    <3>4. recv' \in RecvType
      BY <1>0, <1>7, <2>2, Zenon DEF doCompleteExec, RecvType
    <3>5. send' \in SendType /\ send'.fnc = send.fnc /\ send'.cp = send.cp /\ send'.sz = send.sz
      BY <1>0, <1>7, <2>2, ZenonT(60) DEF doCompleteExec, SendType
    <3>6. SendFits(send') /\ loop'.left <= Len(exeq')
      BY <1>0, <3>1, <3>2, <3>3, <3>5 DEF SendFits
    <3>7. kern' = kern /\ ssl' = ssl
      BY <1>7 DEF doCompleteExec
    <3> QED BY <1>0, <3>2, <3>3, <3>4, <3>6, <3>7 DEF Types
  <2> QED BY <2>1, <2>2
<1>8. CASE doStopObject
  <2>1. loop' \in LoopType /\ loop'.left = loop.left
    <3>1. loop' = [loop EXCEPT !.todo = <<"clear">>]
      BY <1>8, Zenon DEF doStopObject
    <3> QED BY <1>0, <3>1, TodoSeqs, ZenonT(60) DEF LoopType
  <2> QED BY <1>0, <1>8, <2>1 DEF doStopObject, Types
<1> QED BY <1>1, <1>2, <1>3, <1>4, <1>5, <1>6, <1>7, <1>8, SMTT(60) DEF StreamNext, StreamReactor

\* A call that returns false is counted when its operation is stored, and a callback when the
\* functor has emptied it.
LEMMA CountsKept ==
    ASSUME Types, Counts, StreamNext
    PROVE  Counts'
<1> DEFINE Same(d) == scheduled'[d] = scheduled[d] /\ answered'[d] = answered[d] /\ Op(d)'.fnc = Op(d).fnc
           Stored(d) == scheduled'[d] = scheduled[d] + 1 /\ answered'[d] = answered[d]
                        /\ Op(d).fnc = "none" /\ Op(d)'.fnc \notin {"none", "dummy"}
           Done(d) == scheduled'[d] = scheduled[d] /\ answered'[d] = answered[d] + 1
                      /\ Op(d).fnc \notin {"none", "dummy"} /\ Op(d)'.fnc = "none"
           Gone(d) == Op(d)'.fnc = "dummy"
<1>0. /\ scheduled \in [Directions -> Nat] /\ answered \in [Directions -> Nat] /\ recv \in RecvType /\ send \in SendType
  BY DEF Counts, Types, SendFits
<1>1. ASSUME scheduled' \in [Directions -> Nat], answered' \in [Directions -> Nat],
             \A d \in Directions : Same(d) \/ Stored(d) \/ Done(d) \/ Gone(d)
      PROVE  Counts'
  <2>1. \A d \in Directions : Op(d).fnc # "dummy" => scheduled[d] - answered[d] = (IF Op(d).fnc = "none" THEN 0 ELSE 1)
    BY ZenonT(60) DEF Counts, AnsweredOnce, Op
  <2>2. \A d \in Directions : Op(d)'.fnc # "dummy" => scheduled'[d] - answered'[d] = (IF Op(d)'.fnc = "none" THEN 0 ELSE 1)
    BY <1>0, <1>1, <2>1, SMTT(60)
  <2> QED BY <1>1, <2>2, Zenon DEF Counts, AnsweredOnce, Op
<1>3. ASSUME UNCHANGED <<scheduled, answered>>, recv'.fnc = recv.fnc, send'.fnc = send.fnc
      PROVE  Counts'
  <2>1. \A d \in Directions : Same(d)
    BY <1>3 DEF Op
  <2> QED BY <1>0, <1>1, <1>3, <2>1, SMTT(60)
<1>4. CASE Peer \/ OwnerReturns \/ doCompleteIo \/ doCompleteEvents \/ doStopObject
  BY <1>3, <1>4 DEF Peer, OnlyKernel, OwnerReturns, doCompleteIo, doCompleteEvents, doStopObject
<1>5. CASE doCompleteExec
  <2>1. recv'.fnc = recv.fnc /\ send'.fnc = send.fnc /\ UNCHANGED <<scheduled, answered>>
    BY <1>0, <1>5 DEF doCompleteExec, RecvType, SendType
  <2> QED BY <1>3, <2>1
<1>6. CASE OwnerCalls
  <2>0. answered' = answered
    BY <1>6, SMTT(60) DEF OwnerCalls
  <2>1. ASSUME NEW d \in Directions, Schedule(d), Op(d).fnc = "none", Op(d)'.fnc \notin {"none", "dummy"},
               \A e \in Directions \ {d} : Op(e)'.fnc = Op(e).fnc
        PROVE  Counts'
    <3>1. scheduled' \in [Directions -> Nat] /\ Stored(d) /\ \A e \in Directions \ {d} : Same(e)
      BY <1>0, <2>0, <2>1, SMTT(60) DEF Schedule
    <3> QED BY <1>0, <1>1, <2>0, <3>1, SMTT(60)
  <2>2. CASE Schedule("recv") /\ recv.fnc = "none" /\ recv'.fnc \in {"recv", "secure"} /\ send' = send
    BY <2>1, <2>2, SMTT(60) DEF Op, Directions
  <2>3. CASE Schedule("send") /\ send.fnc = "none" /\ send'.fnc \in {"send", "secure", "connect"} /\ recv' = recv
    BY <2>1, <2>3 DEF Op, Directions
  <2>4. CASE UNCHANGED <<recv, send, scheduled>>
    BY <1>3, <2>0, <2>4
  <2>5. CASE connect
    BY <1>0, <2>3, <2>4, <2>5 DEF connect, SendType
  <2>6. CASE postRecvSome \/ recvSome \/ secureRecv
    <3>1. recv.fnc = "none" /\ send' = send
      BY <2>6, SMTT(60) DEF postRecvSome, recvSome, secureRecv
    <3>2. \/ UNCHANGED <<recv, scheduled>>
          \/ Schedule("recv") /\ recv'.fnc \in {"recv", "secure"}
      <4>1. CASE postRecvSome
        BY <4>1 DEF postRecvSome
      <4>2. CASE recvSome
        BY <1>0, <4>2, Zenon DEF recvSome, RecvType
      <4>3. CASE secureRecv
        BY <1>0, <4>3 DEF secureRecv, RecvType
      <4> QED BY <2>6, <4>1, <4>2, <4>3, SMTT(60)
    <3> QED BY <2>2, <2>4, <3>1, <3>2
  <2>7. CASE postSendAll \/ sendAll \/ secureSend
    <3>1. send.fnc = "none" /\ recv' = recv
      BY <2>7, ZenonT(60) DEF postSendAll, sendAll, secureSend
    <3>2. \/ UNCHANGED <<send, scheduled>>
          \/ Schedule("send") /\ send'.fnc \in {"send", "secure"}
      <4>1. CASE postSendAll
        BY <4>1 DEF postSendAll
      <4>2. CASE sendAll
        BY <1>0, <4>2, ZenonT(60) DEF sendAll, SendType
      <4>3. CASE secureSend
        BY <1>0, <4>3 DEF secureSend, SendType
      <4> QED BY <2>7, <4>1, <4>2, <4>3, SMTT(60)
    <3> QED BY <2>3, <2>4, <3>1, <3>2
  <2>8. CASE shutdown
    BY <2>4, <2>8 DEF shutdown
  <2> QED BY <1>6, <2>5, <2>6, <2>7, <2>8, SMTT(60) DEF OwnerCalls
<1>7. CASE Handle
  <2>0. scheduled' = scheduled
    BY <1>7, SMTT(60) DEF Handle
  <2>1. ASSUME NEW d \in Directions, Answer(d), Op(d).fnc \notin {"none", "dummy"}, Op(d)'.fnc = "none",
               \A e \in Directions \ {d} : Op(e)'.fnc = Op(e).fnc
        PROVE  Counts'
    <3>1. answered' \in [Directions -> Nat] /\ Done(d) /\ \A e \in Directions \ {d} : Same(e)
      BY <1>0, <2>0, <2>1 DEF Answer
    <3> QED BY <1>0, <1>1, <2>0, <3>1, SMTT(60)
  <2>2. ASSUME NEW o \in RecvType, o.fnc = recv.fnc, RecvFnc(o), send' = send
        PROVE  Counts'
    <3>1. doClearRecv(o).fnc = "none"
      BY SMTT(60) DEF doClearRecv, RecvType
    <3>2. \/ recv' = o /\ NoAnswer
          \/ recv' = doClearRecv(o) /\ Answer("recv") /\ o.fnc \notin {"none", "dummy"}
      BY <2>2, SMTT(60) DEF RecvFnc, SecureFnc
    <3>3. CASE recv' = o /\ NoAnswer
      BY <1>3, <2>0, <2>2, <3>3, SMTT(60) DEF NoAnswer
    <3>4. CASE recv' = doClearRecv(o) /\ Answer("recv") /\ o.fnc \notin {"none", "dummy"}
      BY <2>1, <2>2, <3>1, <3>4 DEF Op, Directions
    <3> QED BY <3>2, <3>3, <3>4
  <2>3. ASSUME NEW o \in SendType, o.fnc = send.fnc, SendFnc(o), recv' = recv
        PROVE  Counts'
    <3>1. doClearSend(o).fnc = "none" /\ \A sz : [o EXCEPT !.sz = sz].fnc = o.fnc
      BY DEF doClearSend, SendType
    <3>2. \/ send' = o /\ NoAnswer
          \/ (\E sz : send' = [o EXCEPT !.sz = sz]) /\ NoAnswer
          \/ send' = doClearSend(o) /\ Answer("send") /\ o.fnc \notin {"none", "dummy"}
      BY <2>3, SMTT(60) DEF SendFnc, SecureFnc
    <3>3. CASE send'.fnc = o.fnc /\ NoAnswer
      BY <1>3, <2>0, <2>3, <3>3 DEF NoAnswer
    <3>4. CASE send' = doClearSend(o) /\ Answer("send") /\ o.fnc \notin {"none", "dummy"}
      BY <2>1, <2>3, <3>1, <3>4 DEF Op, Directions
    <3> QED BY <3>1, <3>2, <3>3, <3>4, ZenonT(60)
  <2>4. CASE doRecv
    BY <1>0, <1>3, <2>0, <2>2, <2>4 DEF doRecv, NoAnswer
  <2>5. CASE doSend
    BY <1>0, <1>3, <2>0, <2>3, <2>5 DEF doSend, NoAnswer
  <2>6. CASE doErrorRecv
    <3>1. [recv EXCEPT !.cp = 0, !.sz = 0] \in RecvType /\ [recv EXCEPT !.cp = 0, !.sz = 0].fnc = recv.fnc
      BY <1>0, Zenon DEF RecvType
    <3> QED BY <2>2, <2>6, <3>1, Zenon DEF doErrorRecv
  <2>7. CASE doErrorSend
    <3>1. [send EXCEPT !.cp = 0, !.sz = 0] \in SendType /\ [send EXCEPT !.cp = 0, !.sz = 0].fnc = send.fnc
      BY <1>0, ZenonT(60) DEF SendType
    <3> QED BY <2>3, <2>7, <3>1, Zenon DEF doErrorSend
  <2>8. CASE doClear
    <3>1. answered' = answered /\ \A d \in Directions : Gone(d)
      BY <2>8 DEF doClear, NoAnswer, Dummy, Nobody, Op
    <3> QED BY <1>0, <1>1, <2>0, <3>1
  <2> QED BY <1>7, <2>4, <2>5, <2>6, <2>7, <2>8 DEF Handle
<1> QED BY <1>4, <1>5, <1>6, <1>7, SMTT(60) DEF StreamNext, StreamReactor

LEMMA IInvStep == WholeRecords /\ IInv /\ [StreamNext]_streamvars => IInv'
<1> SUFFICES ASSUME WholeRecords, IInv, [StreamNext]_streamvars PROVE IInv'
  OBVIOUS
<1>0. Types /\ Counts /\ Waiting
  BY DEF IInv
<1>1. CASE StreamNext
  <2>1. Types' /\ Counts'
    BY <1>0, <1>1, TypesKept, CountsKept
  <2>2. Waiting'
    BY <1>0, <1>1, PeerKeeps, CallsKeep, EventsKeep, HandleKeeps, IoKeeps, ExecKeeps, ZenonT(60)
       DEF StreamNext, StreamReactor
  <2> QED BY <2>1, <2>2 DEF IInv
<1>2. CASE UNCHANGED streamvars
  <2>1. Types' /\ Counts'
    BY <1>0, <1>2 DEF Types, Counts, AnsweredOnce, streamvars
  <2>2. Waiting'
    <3>1. UNCHANGED <<kern, ssl, recv, send, exeq, loop>>
      BY <1>2 DEF streamvars
    <3>2. Posts' /\ \A d \in Directions : Soon(d) => Soon(d)'
      BY <1>0, <3>1, Zenon DEF Waiting, Posts, Op, Soon
    <3> QED BY <1>0, <3>1, <3>2, OthersKeep
  <2> QED BY <2>1, <2>2 DEF IInv
<1> QED BY <1>1, <1>2

LEMMA IInvHolds == WholeRecords /\ StreamSpec => []IInv
<1> SUFFICES ASSUME WholeRecords PROVE StreamSpec => []IInv
  OBVIOUS
<1>1. StreamInit => IInv
  BY InitHolds
<1>2. IInv /\ [StreamNext]_streamvars => IInv'
  BY IInvStep
<1> QED BY <1>1, <1>2, PTL DEF StreamSpec

\* Whatever the sizes of the buffers, of the receives and of the sends that fit into a record, a
\* receive or a send that returned false is answered by one callback.
THEOREM EveryCallIsAnsweredOnce == WholeRecords /\ StreamSpec => []AnsweredOnce
<1>1. IInv => AnsweredOnce
  BY DEF IInv, Counts
<1> QED BY <1>1, IInvHolds, PTL

\* Neither the early returns of doRecv and doSend nor filterReactorEvents lose an edge that a
\* pending operation needs, over a plain and over a secure socket.
THEOREM NoEdgeIsLost == WholeRecords /\ StreamSpec => []StreamWakes
<1>1. IInv => StreamWakes
  BY Zenon DEF IInv, Waiting, NoneForgotten, StreamWakes, Quiet
<1> QED BY <1>1, IInvHolds, PTL
=============================================================================
