----------------------------- MODULE Serializer -----------------------------
(***************************************************************************)
(* The reentrant binary serializer and deserializer (serialization/        *)
(* binary.hpp, binary.cpp, binarybasic.cpp, typeidmap.cpp).  Each keeps a  *)
(* stack of callbacks (fstk) and a stack of the values those callbacks     *)
(* share (estk).  run() works on one buffer: it calls the callback on top  *)
(* until the buffer is used up (Wait) or the stack is empty, and the next  *)
(* run() goes on where this one stopped, in the middle of a number if need *)
(* be.  The two ends never see each other's stacks: they agree only if     *)
(* every callback consumes exactly what its counterpart produced, wherever *)
(* the buffers happen to end.                                              *)
(*                                                                         *)
(* A message is a tree of items, an item a record                          *)
(*     t   its kind: int bin cross str utf8 bits list nulllist array       *)
(*         stream nostream call obj ptr nullptr limit                      *)
(*     v   its value: bytes, bits or a number                              *)
(*     n   the width of a cross number, the length the sender gives for a  *)
(*         stream, the limit set                                           *)
(*     d   the length the receiver allows for a stream, or NoStream        *)
(*     es  the items inside it                                             *)
(* A byte is a number below 256; the numbers of the messages stay below    *)
(* 2^24, InvalidSize() stands for 2^64 - 1.                                *)
(***************************************************************************)
EXTENDS Integers, Sequences, FiniteSets, TLC, SequencesExt

CONSTANTS
    Messages,       \* the messages that may be sent
    BufLens,        \* the lengths of the buffers run() is given
    MinStream,      \* MIN_STREAM_BUFFER_SIZE
    MaxChunk,       \* max_value_without_crc_16()
    MaxMessages,    \* how many messages one pair of serializers is used for
    MaxPipe,        \* how many buffers may be under way
    RegisteredTypes,\* the <<protocol, message>> pairs of the TypeIdMap
    SerRaces        \* situations the code does not handle, see the README

Unlimited == 2^30
NoLimits == [string |-> Unlimited, container |-> Unlimited, stream |-> Unlimited]
InvalidSize == -1
NoStream == -2

ASSUME SerializerAssumption ==
    /\ MinStream \in 3..16 /\ MaxChunk \in 1..4095
    /\ BufLens \subseteq Nat \ {0}
    /\ MaxMessages \in Nat /\ MaxPipe \in Nat \ {0}
    /\ SerRaces \subseteq {"context", "stream", "utf8"}

VARIABLES
    ser,        \* the serializer
    des,        \* the deserializer
    pipe,       \* the buffers on their way
    msg,        \* the message being sent
    sent,       \* how many messages were started
    cancelled   \* msg is being cancelled

servars == <<ser, des, pipe, msg, sent, cancelled>>

----------------------------------------------------------------------------
\* Numbers

Least(a, b) == IF a < b THEN a ELSE b
Cut(s, n) == SubSeq(s, 1, n)
Drop(s, n) == SubSeq(s, n + 1, Len(s))

bit_count(n) == Cardinality({i \in 0..29 : (n \div 2^i) % 2 = 1})
max_bit_count(n) == Cardinality({i \in 0..29 : n >= 2^i})
max_padded_byte_cout(n) ==
    IF n = InvalidSize THEN 8 ELSE (max_bit_count(n) + 7) \div 8

\* A count in the low bits guards the value above it.
with_crc(v, bits) == bit_count(v) + v * 2^bits
compute_value_with_crc(v) == IF v = InvalidSize THEN v ELSE with_crc(v, 6)
without_crc(v, bits) == v \div 2^bits
check_value_with_crc(v, bits) == bit_count(v \div 2^bits) = v % 2^bits

\* A cross number: a byte that tells how many bytes follow, and the bytes.
crossStore(v) ==
    LET sz == max_padded_byte_cout(v)
    IN  <<with_crc(sz, 3)>>
        \o [i \in 1..sz |-> IF v = InvalidSize THEN 255 ELSE (v \div 256^(i - 1)) % 256]

crossSize(byte) == without_crc(byte, 3) + 1

crossLoad(bytes) ==
    LET sz == crossSize(bytes[1]) - 1
    IN  CASE sz = 0 -> 0
          [] sz = 1 -> bytes[2]
          [] sz = 2 -> bytes[2] + 256 * bytes[3]
          [] sz = 3 -> bytes[2] + 256 * bytes[3] + 65536 * bytes[4]
          [] OTHER  -> InvalidSize

\* store(uint16_t), load(uint16_t): the length of a piece of a stream
store16(v) == <<v \div 256, v % 256>>
load16(bytes) == bytes[1] * 256 + bytes[2]
NoChunk == 65535

\* The type of what a pointer points to: a protocol and a message in one number
joinTypeId(protocol, message) ==
    LET bytes == (max_bit_count(protocol) + 2 + 7) \div 8
    IN  (bytes - 1) + 4 * protocol + message * 256^bytes

splitTypeId(id) ==
    LET bytes == (id % 4) + 1
    IN  <<(id % 256^bytes) \div 4, id \div 256^bytes>>

\* Eight bits to a byte, the first one lowest
BytesOf(bits) == (Len(bits) + 7) \div 8
Packed(bits) ==
    [i \in 1..BytesOf(bits) |->
        LET b(k) == IF (i - 1) * 8 + k <= Len(bits) THEN bits[(i - 1) * 8 + k] ELSE 0
        IN  b(1) + 2 * b(2) + 4 * b(3) + 8 * b(4)
            + 16 * b(5) + 32 * b(6) + 64 * b(7) + 128 * b(8)]
Unpacked(bytes, n) ==
    [i \in 1..n |-> (bytes[(i - 1) \div 8 + 1] \div 2^((i - 1) % 8)) % 2]

----------------------------------------------------------------------------
\* The two stacks, for both ends.  r is the serializer or the deserializer.

\* FncData: what to call, for which item, and where its value is
Fnc(f, it) == [f |-> f, it |-> it, p |-> <<>>, e |-> 0, s |-> 0, at |-> <<>>]
\* the same for a value kept in the e-th entry of estk
FncExt(f, e) == [Fnc(f, [t |-> "cross", n |-> 8]) EXCEPT !.e = e]

Top(r) == r.fstk[Len(r.fstk)]
Push(r, fr) == [r EXCEPT !.fstk = Append(@, fr)]
Pop(r) == [r EXCEPT !.fstk = Front(@)]
Replace(r, fr) == Push(Pop(r), fr)

\* An entry of estk: a size, an index into what it is the size of, a value
ExtendedData(v) == [v |-> v, i |-> 0, g |-> <<>>]
ETop(r) == r.estk[Len(r.estk)]
EPush(r, v) == [r EXCEPT !.estk = Append(@, ExtendedData(v))]
EPop(r) == [r EXCEPT !.estk = Front(@)]
ESet(r, x) == [r EXCEPT !.estk = Append(Front(@), x)]

\* What a callback answers: SuccessE is Pop, ContinueE leaves the stack as it is
Waits(r) == [r EXCEPT !.on = "returned"]
Fails(r) == [r EXCEPT !.on = "returned", !.err = TRUE, !.lim = NoLimits]

popExtStack(r) == Pop(EPop(r))
\* setStringLimit, setContainerLimit, setStreamLimit
setLimit(r) == Pop([r EXCEPT !.lim[Top(r).it.v] = Top(r).it.n])

----------------------------------------------------------------------------
\* SerializerBase

Room(s) == s.len - Len(s.buf)
Put(s, bytes) == [s EXCEPT !.buf = @ \o bytes]

\* Serializer::push() and its relatives
StorePush(s, it) ==
    CASE it.t \in {"int", "bin"} -> Push(s, [Fnc("storeBinary", it) EXCEPT !.p = it.v])
      [] it.t = "cross" -> Push(s, [Fnc("storeCross", it) EXCEPT !.s = it.v])
      [] it.t = "nullptr" -> Push(s, Fnc("storeCross", it))
      [] it.t = "str" -> Push(s, Fnc("storeString", it))
      [] it.t = "utf8" -> Push(s, [Fnc("storeUtf8", it) EXCEPT !.p = Append(it.v, 0)])
      [] it.t = "bits" -> Push(s, Fnc("storeBits", it))
      [] it.t \in {"list", "nulllist"} -> Push(s, Fnc("storeContainer", it))
      [] it.t = "array" -> EPush(Push(s, Fnc("storeArray", it)), Len(it.es))
      [] it.t = "call" -> EPush(Push(s, Fnc("storeCall", it)), 0)
      [] it.t = "obj" -> Push(s, Fnc("storeObject", it))
      [] it.t = "ptr" -> Push(Push(s, Fnc("storeObject", it)),
                              [Fnc("storeCross", it) EXCEPT !.s = joinTypeId(it.v[1], it.v[2])])
      [] it.t = "limit" -> Push(s, Fnc("setLimit", it))
      [] it.t \in {"stream", "nostream"} ->
            LET begun == Push(Push(s, [Fnc("storeStream", it) EXCEPT !.p = it.v, !.s = it.n]),
                              Fnc("storeStreamBegin", it))
            IN  IF it.n = InvalidSize THEN begun ELSE Push(begun, Fnc("storeStreamCheck", it))

StorePushAll(s, items) == FoldLeft(StorePush, s, items)

storeBinary(s) ==
    LET fr == Top(s)
        len == Least(Room(s), Len(fr.p))
        put == Put(s, Cut(fr.p, len))
    IN  IF len = Len(fr.p) THEN Pop(put)
        ELSE Waits(Replace(put, [fr EXCEPT !.p = Drop(fr.p, len)]))

storeCross(s) ==
    LET fr == Top(s)
        bytes == crossStore(IF fr.e = 0 THEN fr.s ELSE s.estk[fr.e].v)
    IN  IF Room(s) >= Len(bytes) THEN Pop(Put(s, bytes))
        ELSE Waits(Replace([Put(s, Cut(bytes, Room(s))) EXCEPT !.tmp = bytes],
                           [fr EXCEPT !.f = "storeCrossContinue", !.s = Room(s)]))

storeCrossContinue(s) ==
    LET fr == Top(s)
        len == Least(Room(s), Len(s.tmp) - fr.s)
        put == Put(s, SubSeq(s.tmp, fr.s + 1, fr.s + len))
    IN  IF fr.s + len = Len(s.tmp) THEN Pop([put EXCEPT !.tmp = <<>>])
        ELSE Waits(Replace(put, [fr EXCEPT !.s = @ + len]))

\* A size, then what fr goes on with: the size waits in estk for storeCross
StoreSize(s, fr, size) ==
    LET e == EPush(Replace(s, fr), compute_value_with_crc(size))
    IN  Push(Push(e, FncExt("popExtStack", 0)), FncExt("storeCross", Len(e.estk)))

storeString(s) ==
    LET it == Top(s).it
    IN  IF Len(it.v) > s.lim.string THEN Fails(s)
        ELSE StoreSize(s, [Fnc("storeBinary", it) EXCEPT !.p = it.v], Len(it.v))

storeUtf8(s) ==
    IF Len(Top(s).it.v) > s.lim.string THEN Fails(s)
    ELSE Replace(s, [Top(s) EXCEPT !.f = "storeBinary"])

\* storeBitset, storeBitvec and what they go on with
storeBits(s) ==
    LET fr == Top(s)
    IN  IF Len(fr.it.v) > s.lim.container THEN Fails(s)
        ELSE StoreSize(s, [fr EXCEPT !.f = "storeBitsContinue"], Len(fr.it.v))

storeBitsContinue(s) ==
    LET fr == Top(s)
        left == Drop(fr.it.v, fr.s)
        len == Least(Room(s), BytesOf(left))
        put == Put(s, Cut(Packed(left), len))
    IN  IF len = BytesOf(left) THEN Pop(put)
        ELSE Waits(Replace(put, [fr EXCEPT !.s = @ + 8 * len]))

\* A container keeps its iterator in estk below the size; a null pointer has only a size.
storeContainer(s) ==
    LET fr == Top(s)
    IN  IF fr.it.t = "nulllist"
        THEN LET e == EPush(Pop(s), InvalidSize)
             IN  Push(Push(e, FncExt("popExtStack", 0)), FncExt("storeCross", Len(e.estk)))
        ELSE IF Len(fr.it.es) > s.lim.container THEN Fails(s)
        ELSE StoreSize(EPush(s, 0), [fr EXCEPT !.f = "storeContainerContinue"], Len(fr.it.es))

storeContainerContinue(s) ==
    LET it == Top(s).it
        i == ETop(s).i
    IN  IF i < Len(it.es)
        THEN StorePush(ESet(s, [ETop(s) EXCEPT !.i = i + 1]), it.es[i + 1])
        ELSE Pop(EPop(s))

storeArray(s) ==
    IF ETop(s).v > s.lim.container THEN Fails(s)
    ELSE StoreSize(s, [Top(s) EXCEPT !.f = "storeArrayContinue"], ETop(s).v)

storeArrayContinue(s) ==
    LET i == ETop(s).i
    IN  IF i < ETop(s).v
        THEN StorePush(ESet(s, [ETop(s) EXCEPT !.i = i + 1]), Top(s).it.es[i + 1])
        ELSE Pop(EPop(s))

\* A null stream, or one that cannot be positioned, is announced as lost.
storeStreamBegin(s) ==
    IF Room(s) < MinStream THEN Waits(s)
    ELSE IF Top(s).it.t = "nostream" THEN Pop(Pop(Put(s, store16(NoChunk))))
    ELSE Pop([s EXCEPT !.streamsz = 0])

storeStreamCheck(s) == IF Top(s).it.n > s.lim.stream THEN Fails(s) ELSE Pop(s)

storeStream(s) ==
    LET fr == Top(s)
        allowed == IF fr.s = InvalidSize THEN Room(s) - 2 ELSE Least(Room(s) - 2, fr.s)
        len == Least(Least(allowed, MaxChunk), Len(fr.p))
        left == IF fr.s = InvalidSize THEN fr.s ELSE fr.s - len
    IN  IF Room(s) < MinStream THEN Waits(s)
        ELSE IF len = 0 THEN Pop(Put(s, store16(0)))
        ELSE IF s.streamsz + len > s.lim.stream THEN Fails(s)
        ELSE Replace([Put(s, store16(with_crc(len, 4)) \o Cut(fr.p, len))
                        EXCEPT !.streamsz = @ + len],
                     [fr EXCEPT !.p = Drop(fr.p, len), !.s = left])

storeCall(s) ==
    StorePushAll(Replace(EPop(s), Fnc("storeReturnSuccess", Top(s).it)), Top(s).it.es)

storeReturnSuccess(s) == Pop(s)

\* store<T, Ser>: the members of an object
storeObject(s) == StorePushAll(Pop(s), Top(s).it.es)

Storing(f) == ser.on = "run" /\ ser.fstk # <<>> /\ Top(ser).f = f

StoreStep ==
    \/ Storing("storeBinary") /\ ser' = storeBinary(ser)
    \/ Storing("storeCross") /\ ser' = storeCross(ser)
    \/ Storing("storeCrossContinue") /\ ser' = storeCrossContinue(ser)
    \/ Storing("storeString") /\ ser' = storeString(ser)
    \/ Storing("storeUtf8") /\ ser' = storeUtf8(ser)
    \/ Storing("storeBits") /\ ser' = storeBits(ser)
    \/ Storing("storeBitsContinue") /\ ser' = storeBitsContinue(ser)
    \/ Storing("storeContainer") /\ ser' = storeContainer(ser)
    \/ Storing("storeContainerContinue") /\ ser' = storeContainerContinue(ser)
    \/ Storing("storeArray") /\ ser' = storeArray(ser)
    \/ Storing("storeArrayContinue") /\ ser' = storeArrayContinue(ser)
    \/ Storing("storeStreamBegin") /\ ser' = storeStreamBegin(ser)
    \/ Storing("storeStreamCheck") /\ ser' = storeStreamCheck(ser)
    \/ Storing("storeStream") /\ ser' = storeStream(ser)
    \/ Storing("storeCall") /\ ser' = storeCall(ser)
    \/ Storing("storeReturnSuccess") /\ ser' = storeReturnSuccess(ser)
    \/ Storing("storeObject") /\ ser' = storeObject(ser)
    \/ Storing("popExtStack") /\ ser' = popExtStack(ser)
    \/ Storing("setLimit") /\ ser' = setLimit(ser)

----------------------------------------------------------------------------
\* DeserializerBase.  What is loaded goes to mem, the memory of the receiver:
\* at the path of the item in the message, or at an entry of estk.

Skip(d, n) == [d EXCEPT !.rest = Drop(@, n)]

Loaded(d, fr) ==
    CASE fr.e # 0              -> d.estk[fr.e].g
      [] fr.at \in DOMAIN d.mem -> d.mem[fr.at]
      [] OTHER                 -> <<>>

SetLoaded(d, fr, v) ==
    CASE fr.e = 0  -> [d EXCEPT !.mem = (fr.at :> v) @@ @]
      [] fr.p = <<>> -> [d EXCEPT !.estk[fr.e].v = v]
      [] OTHER     -> [d EXCEPT !.estk[fr.e].g = v]

\* push() of an item whose value goes where fr says
LoadPushTo(d, it, fr) ==
    LET new(f) == [fr EXCEPT !.f = f, !.it = it]
    IN  CASE it.t \in {"int", "bin"} ->
                Push(SetLoaded(d, fr, <<>>), [new("loadBinary") EXCEPT !.s = Len(it.v)])
          [] it.t = "cross" -> Push(d, new("loadCross"))
          [] it.t = "str" -> Push(SetLoaded(d, fr, <<>>), new("loadString"))
          [] it.t = "utf8" -> Push(SetLoaded(d, fr, <<>>), new("loadUtf8"))
          [] it.t = "bits" -> Push(d, new("loadBits"))
          [] it.t \in {"list", "nulllist"} -> Push(SetLoaded(d, fr, <<>>), new("loadContainer"))
          [] it.t = "array" ->
                LET e == EPush(Push(d, new("loadArray")), 0)
                IN  Push(e, FncExt("loadCross", Len(e.estk)))
          [] it.t = "call" -> EPush(Push(d, new("loadCall")), 0)
          [] it.t = "obj" -> Push(d, new("loadObject"))
          [] it.t \in {"ptr", "nullptr"} ->
                Push(Push(EPush(d, 0), FncExt("popExtStack", 0)), new("loadPointerPrepare"))
          [] it.t = "limit" -> Push(d, new("setLimit"))
          [] it.t \in {"stream", "nostream"} ->
                LET begun == Push(Push(SetLoaded(d, fr, <<>>), [new("loadStream") EXCEPT !.s = it.d]),
                                  new("loadStreamBegin"))
                IN  IF it.d \in Nat THEN Push(begun, new("loadStreamCheck")) ELSE begun

LoadPush(d, it, at) == LoadPushTo(d, it, [Fnc("", it) EXCEPT !.at = at])
\* the members of fr's item, in the order they are pushed
LoadPushAll(d, fr) ==
    FoldLeft(LAMBDA r, i : LoadPush(r, fr.it.es[i], Append(fr.at, i)), d,
             [i \in 1..Len(fr.it.es) |-> i])

loadBinary(d) ==
    LET fr == Top(d)
        len == Least(Len(d.rest), fr.s)
        got == SetLoaded(Skip(d, len), fr, Loaded(d, fr) \o Cut(d.rest, len))
    IN  IF len = fr.s THEN Pop(got) ELSE Waits(Replace(got, [fr EXCEPT !.s = @ - len]))

\* A number wider than the variable it is loaded into is refused.
CrossLoaded(d, fr, bytes) ==
    IF Len(bytes) - 1 > fr.it.n THEN Fails(d) ELSE Pop(SetLoaded(d, fr, crossLoad(bytes)))

loadCross(d) ==
    LET fr == Top(d)
        size == crossSize(d.rest[1])
        len == IF fr.it.n = 1 THEN 1 ELSE Len(d.rest)
    IN  IF d.rest = <<>> THEN Waits(d)
        ELSE IF size <= Len(d.rest) THEN CrossLoaded(Skip(d, size), fr, Cut(d.rest, size))
        ELSE Push(Replace([Skip(d, len) EXCEPT !.tmp = Cut(d.rest, len)],
                          [fr EXCEPT !.f = "loadCrossDone"]),
                  [fr EXCEPT !.f = "loadCrossContinue", !.s = size])

\* As loadCrossContinue below, with the bytes of the next buffer in front
loadCrossContinueInFront(d) ==
    LET fr == Top(d)
        len == Least(fr.s - Len(d.tmp), Len(d.rest))
        got == [Skip(d, len) EXCEPT !.tmp = Cut(d.rest, len) \o @]
    IN  IF Len(got.tmp) < fr.s THEN Waits(got) ELSE Pop(got)

loadCrossContinue(d) ==
    LET fr == Top(d)
        len == Least(fr.s - Len(d.tmp), Len(d.rest))
        got == [Skip(d, len) EXCEPT !.tmp = @ \o Cut(d.rest, len)]
    IN  IF Len(got.tmp) < fr.s THEN Waits(got) ELSE Pop(got)

loadCrossDone(d) == CrossLoaded(d, Top(d), d.tmp)

\* A size goes into a new entry of estk; then fr goes on.
LoadSize(d, fr) ==
    LET e == EPush(Replace(d, fr), 0) IN Push(e, FncExt("loadCross", Len(e.estk)))

\* The size that came, checked; most of those that use it refuse the limit itself.
SizeLoaded(d) == IF ETop(d).v = InvalidSize THEN Unlimited ELSE without_crc(ETop(d).v, 6)
SizeRefused(d, limit) ==
    \/ ETop(d).v # InvalidSize /\ ~check_value_with_crc(ETop(d).v, 6)
    \/ SizeLoaded(d) >= limit
WithSize(d) == ESet(d, [ETop(d) EXCEPT !.v = SizeLoaded(d)])

loadString(d) ==
    LET fr == Top(d)
        e == EPush(Replace(d, [fr EXCEPT !.f = "loadBinaryString"]), 0)
    IN  Push(Push(e, [fr EXCEPT !.f = "loadBinaryStringCheck"]), FncExt("loadCross", Len(e.estk)))

loadBinaryStringCheck(d) ==
    IF SizeRefused(d, d.lim.string) THEN Fails(d) ELSE Pop(WithSize(d))

loadBinaryString(d) ==
    LET fr == Top(d)
        len == Least(Len(d.rest), ETop(d).v)
        got == SetLoaded(Skip(d, len), fr, Loaded(d, fr) \o Cut(d.rest, len))
    IN  IF len = ETop(d).v THEN Pop(EPop(got))
        ELSE Waits(ESet(got, [ETop(got) EXCEPT !.v = @ - len]))

loadUtf8(d) ==
    LET fr == Top(d)
        zeros == {i \in 1..Len(d.rest) : d.rest[i] = 0}
        len == IF zeros = {} THEN Len(d.rest) ELSE Min(zeros) - 1
        got == SetLoaded(Skip(d, len), fr, Loaded(d, fr) \o Cut(d.rest, len))
    IN  IF Len(Loaded(d, fr)) + len > d.lim.string THEN Fails(d)
        ELSE IF zeros = {} THEN Waits(got)
        ELSE Pop(Skip(got, 1))

\* loadBitset, loadBitvec and what they go on with
loadBits(d) == LoadSize(d, [Top(d) EXCEPT !.f = "loadBitsBegin"])

loadBitsBegin(d) ==
    IF SizeRefused(d, d.lim.container) THEN Fails(d)
    ELSE Replace(SetLoaded(WithSize(d), Top(d), <<>>), [Top(d) EXCEPT !.f = "loadBitsContinue"])

loadBitsContinue(d) ==
    LET fr == Top(d)
        bits == Least(8 * Len(d.rest), ETop(d).v - fr.s)
        len == (bits + 7) \div 8
        got == SetLoaded(Skip(d, len), fr, Loaded(d, fr) \o Unpacked(d.rest, bits))
    IN  IF fr.s + bits < ETop(d).v THEN Waits(Replace(got, [fr EXCEPT !.s = @ + bits]))
        ELSE Pop(EPop(got))

\* A container loads its elements one by one into estk and moves them from there.
loadContainer(d) == LoadSize(d, [Top(d) EXCEPT !.f = "loadContainerBegin"])

ElementOf(fr, e) == [fr EXCEPT !.e = e, !.p = <<1>>]

loadContainerBegin(d) ==
    LET fr == Top(d)
        e == Len(d.estk)
    IN  IF ETop(d).v = InvalidSize
        THEN Pop(EPop(SetLoaded(d, fr, <<InvalidSize>>)))
        ELSE IF SizeRefused(d, d.lim.container + 1) THEN Fails(d)
        ELSE IF SizeLoaded(d) = 0 THEN Pop(EPop(d))
        ELSE LoadPushTo(Replace(WithSize(d), [fr EXCEPT !.f = "loadContainerContinue"]),
                        fr.it.es[1], ElementOf(fr, e))

loadContainerContinue(d) ==
    LET fr == Top(d)
        e == Len(d.estk)
        moved == [SetLoaded(d, fr, Append(Loaded(d, fr), ETop(d).g))
                    EXCEPT !.estk[e].v = @ - 1]
    IN  IF ETop(moved).v > 0 THEN LoadPushTo(moved, fr.it.es[1], ElementOf(fr, e))
        ELSE Pop(EPop(moved))

loadArray(d) ==
    LET fr == Top(d)
    IN  IF SizeRefused(d, d.lim.container + 1) THEN Fails(d)
        ELSE Replace(SetLoaded(WithSize(d), fr, SizeLoaded(d)),
                     [fr EXCEPT !.f = "loadArrayContinue"])

loadArrayContinue(d) ==
    LET fr == Top(d)
        i == ETop(d).i
    IN  IF i < ETop(d).v
        THEN LoadPush(ESet(d, [ETop(d) EXCEPT !.i = i + 1]), fr.it.es[1], Append(fr.at, i + 1))
        ELSE Pop(EPop(d))

loadStreamCheck(d) == IF Top(d).it.d > d.lim.stream THEN Fails(d) ELSE Pop(d)

loadStreamBegin(d) ==
    LET rest == Pop([d EXCEPT !.streamsz = 0])
    IN  IF Top(d).it.d # NoStream THEN rest
        ELSE Replace(rest, [Top(rest) EXCEPT !.f = "loadDummyStream", !.s = 0])

\* A piece of n bytes is taken off the buffer, whether the buffer has that many or not.
SkipChunk(d, n) == [Skip(d, n) EXCEPT !.over = @ \/ n > Len(d.rest)]

\* Whatever the receiver cannot or need not keep is skipped by loadDummyStream.
loadStream(d, fails) ==
    LET fr == Top(d)
        sz == without_crc(load16(d.rest), 4)
        room == Least(Len(d.rest) - 2, sz)
        len == IF fr.s = InvalidSize THEN room ELSE Least(room, fr.s)
        got == SetLoaded(SkipChunk(Skip(d, 2), sz), fr,
                         Loaded(d, fr) \o SubSeq(d.rest, 3, 2 + len))
        skipped == [fr EXCEPT !.f = "loadDummyStream", !.s = d.streamsz + sz]
    IN  IF Len(d.rest) < 2 THEN Waits(d)
        ELSE IF load16(d.rest) = NoChunk
        THEN Pop([Skip(d, 2) EXCEPT !.lost = @ \cup {fr.at}])
        ELSE IF ~check_value_with_crc(load16(d.rest), 4) THEN Fails(d)
        ELSE IF len = 0 THEN Pop(Skip(d, 2))
        ELSE IF d.streamsz + len > d.lim.stream THEN Fails(d)
        ELSE IF fails
        THEN Replace([SkipChunk(Skip(d, 2), sz) EXCEPT !.lost = @ \cup {fr.at}], skipped)
        ELSE LET more == [got EXCEPT !.streamsz = @ + len]
             IN  IF fr.s = InvalidSize THEN more
                 ELSE IF fr.s = len THEN Replace(more, skipped)
                 ELSE Replace(more, [fr EXCEPT !.s = @ - len])

loadDummyStream(d) ==
    LET fr == Top(d)
        sz == without_crc(load16(d.rest), 4)
    IN  IF Len(d.rest) < 2 THEN Waits(d)
        ELSE IF load16(d.rest) \in {0, NoChunk} THEN Pop(Skip(d, 2))
        ELSE IF ~check_value_with_crc(load16(d.rest), 4) THEN Fails(d)
        ELSE IF fr.s + sz > d.lim.stream THEN Fails(d)
        ELSE Replace(SkipChunk(Skip(d, 2), sz), [fr EXCEPT !.s = @ + sz])

loadCall(d) ==
    LoadPushAll(Replace(EPop(d), Fnc("loadReturnSuccess", Top(d).it)), Top(d))

loadReturnSuccess(d) == Pop(d)

loadObject(d) == LoadPushAll(Pop(d), Top(d))

\* loadPlainPointerPrepare and loadSharedPointerPrepare, then loadPlainPointer and
\* loadSharedPointer: the type first; null has type 0 and nothing to load
loadPointerPrepare(d) ==
    Push(Replace(d, [Top(d) EXCEPT !.f = "loadPointer"]), FncExt("loadCross", Len(d.estk)))

loadPointer(d) ==
    LET fr == Top(d)
        id == ETop(d).v
    IN  IF id = 0 THEN SetLoaded(Pop(d), fr, <<InvalidSize>>)
        ELSE IF splitTypeId(id) \notin RegisteredTypes THEN Fails(d)
        ELSE Push(SetLoaded(Pop(d), fr, splitTypeId(id)), [fr EXCEPT !.f = "loadObject"])

Loading(f) == des.on = "run" /\ des.fstk # <<>> /\ Top(des).f = f

LoadStep ==
    \/ Loading("loadBinary") /\ des' = loadBinary(des)
    \/ Loading("loadCross") /\ des' = loadCross(des)
    \/ Loading("loadCrossContinue") /\ des' = loadCrossContinue(des)
    \/ Loading("loadCrossDone") /\ des' = loadCrossDone(des)
    \/ Loading("loadString") /\ des' = loadString(des)
    \/ Loading("loadBinaryStringCheck") /\ des' = loadBinaryStringCheck(des)
    \/ Loading("loadBinaryString") /\ des' = loadBinaryString(des)
    \/ Loading("loadUtf8") /\ des' = loadUtf8(des)
    \/ Loading("loadBits") /\ des' = loadBits(des)
    \/ Loading("loadBitsBegin") /\ des' = loadBitsBegin(des)
    \/ Loading("loadBitsContinue") /\ des' = loadBitsContinue(des)
    \/ Loading("loadContainer") /\ des' = loadContainer(des)
    \/ Loading("loadContainerBegin") /\ des' = loadContainerBegin(des)
    \/ Loading("loadContainerContinue") /\ des' = loadContainerContinue(des)
    \/ Loading("loadArray") /\ des' = loadArray(des)
    \/ Loading("loadArrayContinue") /\ des' = loadArrayContinue(des)
    \/ Loading("loadStreamCheck") /\ des' = loadStreamCheck(des)
    \/ Loading("loadStreamBegin") /\ des' = loadStreamBegin(des)
    \/ Loading("loadDummyStream") /\ des' = loadDummyStream(des)
    \/ Loading("loadCall") /\ des' = loadCall(des)
    \/ Loading("loadReturnSuccess") /\ des' = loadReturnSuccess(des)
    \/ Loading("loadObject") /\ des' = loadObject(des)
    \/ Loading("loadPointerPrepare") /\ des' = loadPointerPrepare(des)
    \/ Loading("loadPointer") /\ des' = loadPointer(des)
    \/ Loading("popExtStack") /\ des' = popExtStack(des)
    \/ Loading("setLimit") /\ des' = setLimit(des)
    \/ Loading("loadStream") /\ \E fails \in BOOLEAN : des' = loadStream(des, fails)

----------------------------------------------------------------------------
\* run(), clear() and the message that goes from one end to the other.  The
\* ends share only the pipe, so one runs at a time.

Idle == ser.on = "idle" /\ des.on = "idle"
Finished == Idle /\ ser.fstk = <<>> /\ des.fstk = <<>> /\ pipe = <<>>

SerializerInit ==
    /\ ser = [on |-> "idle", fstk |-> <<>>, estk |-> <<>>, buf |-> <<>>, len |-> 0,
              tmp |-> <<>>, err |-> FALSE, lim |-> NoLimits, streamsz |-> 0]
    /\ des = [on |-> "idle", fstk |-> <<>>, estk |-> <<>>, rest |-> <<>>, mem |-> <<>>,
              tmp |-> <<>>, err |-> FALSE, lim |-> NoLimits, streamsz |-> 0,
              over |-> FALSE, lost |-> {}]
    /\ pipe = <<>>
    /\ msg \in Messages
    /\ sent = 0
    /\ cancelled = FALSE

\* Both ends push the message; serializers are cached and used again.
Start(m) ==
    /\ Finished /\ ~ser.err /\ ~des.err
    /\ sent < MaxMessages
    /\ ser' = StorePush(ser, m)
    /\ des' = LoadPush([des EXCEPT !.mem = <<>>, !.lost = {}], m, <<>>)
    /\ msg' = m
    /\ sent' = sent + 1
    /\ cancelled' = FALSE
    /\ UNCHANGED pipe

StoreRun(len) ==
    /\ Idle /\ ~ser.err
    /\ ser.fstk # <<>>
    /\ Len(pipe) < MaxPipe
    /\ ser' = [ser EXCEPT !.on = "run", !.len = len]
    /\ UNCHANGED <<des, pipe, msg, sent, cancelled>>

\* The stack is empty: resetLimits() and return.
RunEnds(r) == [r EXCEPT !.on = "returned", !.lim = NoLimits]

StoreCallback ==
    /\ \/ StoreStep
       \/ ser.on \in {"run", "clear"} /\ ser.fstk = <<>> /\ ser' = RunEnds(ser)
    /\ UNCHANGED <<des, pipe, msg, sent, cancelled>>

\* run() returned what it wrote, and the caller sends it.
Deliver ==
    /\ ser.on = "returned"
    /\ ser' = [ser EXCEPT !.on = "idle", !.buf = <<>>, !.len = 0]
    /\ pipe' = IF ser.buf = <<>> THEN pipe ELSE Append(pipe, ser.buf)
    /\ UNCHANGED <<des, msg, sent, cancelled>>

\* A packet carries what one run() of the serializer wrote, so that is also what one
\* run() of the deserializer gets.  Elsewhere the buffers may end anywhere.
IsStream(it) == it.t \in {"stream", "nostream"}
HasStream(m) == \E i \in 1..Len(m.es) :
    IsStream(m.es[i]) \/ \E j \in 1..Len(m.es[i].es) : IsStream(m.es[i].es[j])

Feed(n) ==
    LET all == FlattenSeq(pipe)
    IN  /\ Idle /\ ~des.err
        /\ pipe # <<>> /\ des.fstk # <<>>
        /\ n <= Len(all)
        /\ n = Len(pipe[1]) \/ ~HasStream(msg) \/ "stream" \in SerRaces
        /\ des' = [des EXCEPT !.on = "run", !.rest = Cut(all, n)]
        /\ pipe' = IF n = Len(pipe[1]) THEN Tail(pipe)
                   ELSE IF n = Len(all) THEN <<>> ELSE <<Drop(all, n)>>
        /\ UNCHANGED <<ser, msg, sent, cancelled>>

LoadCallback ==
    /\ \/ LoadStep
       \/ des.on \in {"run", "clear"} /\ des.fstk = <<>> /\ des' = RunEnds(des)
    /\ UNCHANGED <<ser, pipe, msg, sent, cancelled>>

\* run() returned; what it did not take is there for the next run().
Absorb ==
    /\ des.on = "returned"
    /\ des' = [des EXCEPT !.on = "idle", !.rest = <<>>]
    /\ pipe' = IF des.rest = <<>> THEN pipe ELSE <<des.rest>> \o pipe
    /\ UNCHANGED <<ser, msg, sent, cancelled>>

\* A cancelled message: the writer clears its serializer, the reader, once it
\* learns of it, its deserializer.
Cancel ==
    /\ Idle /\ ~ser.err /\ ~des.err
    /\ ser.fstk # <<>> /\ ~cancelled
    /\ "utf8" \in SerRaces \/ \A i \in 1..Len(msg.es) : msg.es[i].t # "utf8"
    /\ ser' = [ser EXCEPT !.on = "clear"]
    /\ cancelled' = TRUE
    /\ UNCHANGED <<des, pipe, msg, sent>>

CancelReceived ==
    /\ Idle /\ cancelled
    /\ ser.fstk = <<>> /\ pipe = <<>> /\ des.fstk # <<>>
    /\ des' = [des EXCEPT !.on = "clear"]
    /\ UNCHANGED <<ser, pipe, msg, sent, cancelled>>

\* As OwnExt below, without the containers that are being loaded
OwnExtNoContainer(call) ==
    {"popExtStack", "storeContainerContinue", "storeArray", "storeArrayContinue",
     "loadBinaryString", "loadBitsBegin", "loadBitsContinue", "loadContainerBegin",
     "loadArray", "loadArrayContinue", call}

\* clear() is run() without a buffer: every callback gives up, and those that
\* own an entry of estk take it with them, as their branches for a null buffer say.
OwnExt(call) ==
    {"popExtStack", "storeContainerContinue", "storeArray", "storeArrayContinue",
     "loadBinaryString", "loadBitsBegin", "loadBitsContinue", "loadContainerBegin",
     "loadContainerContinue", "loadArray", "loadArrayContinue"}
    \cup (IF "context" \in SerRaces THEN {} ELSE {call})

ClearStep(r, call) ==
    IF Top(r).f = "loadUtf8" THEN Waits(r)
    ELSE IF Top(r).f \in OwnExt(call) THEN Pop(EPop(r))
    ELSE Pop(r)

StoreClear ==
    /\ ser.on = "clear" /\ ser.fstk # <<>>
    /\ ser' = ClearStep(ser, "storeCall")
    /\ UNCHANGED <<des, pipe, msg, sent, cancelled>>

LoadClear ==
    /\ des.on = "clear" /\ des.fstk # <<>>
    /\ des' = ClearStep(des, "loadCall")
    /\ UNCHANGED <<ser, pipe, msg, sent, cancelled>>

SerializerNext ==
    \/ \E m \in Messages : Start(m)
    \/ \E len \in BufLens : StoreRun(len)
    \/ \E n \in 1..(MaxPipe * Max(BufLens)) : Feed(n)
    \/ StoreCallback \/ Deliver \/ LoadCallback \/ Absorb
    \/ Cancel \/ CancelReceived \/ StoreClear \/ LoadClear

SerializerSpec == SerializerInit /\ [][SerializerNext]_servars

----------------------------------------------------------------------------
\* What the receiver should find for an item at a path
Expected(it, at) ==
    CASE it.t \in {"int", "bin", "str", "utf8", "bits", "cross", "ptr"} -> des.mem[at] = it.v
      [] it.t \in {"nulllist", "nullptr"} -> des.mem[at] = <<InvalidSize>>
      [] it.t = "list" -> des.mem[at] = [i \in 1..Len(it.es) |-> it.es[i].v]
      [] it.t = "array" -> /\ des.mem[at] = Len(it.es)
                           /\ \A i \in 1..Len(it.es) : des.mem[Append(at, i)] = it.es[i].v
      [] it.t = "nostream" -> des.mem[at] = <<>>
      [] it.t = "stream" ->
            LET sent1 == IF it.n = InvalidSize THEN it.v ELSE Cut(it.v, Least(it.n, Len(it.v)))
            IN  CASE it.d = NoStream -> des.mem[at] = <<>>
                  [] at \in des.lost -> IsPrefix(des.mem[at], sent1)
                  [] it.d = InvalidSize -> des.mem[at] = sent1
                  [] OTHER -> des.mem[at] = Cut(sent1, Least(it.d, Len(sent1)))
      [] OTHER -> TRUE

\* RoundTrip.  Wherever the buffers of the two ends were cut, a message that is
\* not cancelled arrives with every member as it was stored, the members after
\* a stream that the receiver could not write included; the receiver is done
\* when all that the sender wrote has come, and neither end meets an error.
RoundTrip ==
    /\ ~ser.err /\ ~des.err /\ ~des.over
    /\ Idle /\ ser.fstk = <<>> /\ pipe = <<>> /\ ~cancelled => des.fstk = <<>>
    /\ Finished /\ sent > 0 /\ ~cancelled =>
        /\ Expected(msg, <<>>)
        /\ \A i \in 1..Len(msg.es) :
            /\ Expected(msg.es[i], <<i>>)
            /\ msg.es[i].t \in {"call", "obj", "ptr"} =>
                \A j \in 1..Len(msg.es[i].es) : Expected(msg.es[i].es[j], <<i, j>>)

\* StacksEmpty.  A run() that leaves no callback behind leaves no entry of estk
\* behind either, also when clear() gives a message up half way: the assertion
\* at the end of both run() functions.
StacksEmpty ==
    \A r \in {ser, des} :
        r.on = "returned" /\ ~r.err /\ r.fstk = <<>> => r.estk = <<>>

=============================================================================
