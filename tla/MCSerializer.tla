---------------------------- MODULE MCSerializer ----------------------------
(***************************************************************************)
(* Messages for the model checker: each puts kinds of items together whose *)
(* callbacks share the two stacks, with lengths around the boundaries of   *)
(* the encodings.                                                          *)
(***************************************************************************)
EXTENDS Serializer

Item(t, v, es) == [t |-> t, v |-> v, n |-> 0, d |-> 0, es |-> es]
Num(v) == Item("int", v, <<>>)
Str(v) == Item("str", v, <<>>)
Cross(n, v) == [Item("cross", v, <<>>) EXCEPT !.n = n]
Obj(es) == Item("obj", <<>>, es)
Ptr(type, es) == Item("ptr", type, es)
Strm(v, n, d) == [Item("stream", v, <<>>) EXCEPT !.n = n, !.d = d]
Lim(kind, n) == [Item("limit", kind, <<>>) EXCEPT !.n = n]

Numbers ==
    Obj(<<Num(<<1, 2>>), Cross(4, 70000), Cross(1, 200), Cross(2, 0), Num(<<3, 4, 5, 6>>)>>)
Strings ==
    Ptr(<<1, 2>>, <<Str(<<7, 8, 9, 10>>), Item("utf8", <<65, 66>>, <<>>), Str(<<>>), Lim("string", 5)>>)
WithLists ==
    Obj(<<Item("list", <<>>, <<Str(<<1>>), Str(<<>>)>>),
          Item("array", <<>>, <<Num(<<5, 6>>), Num(<<7, 8>>)>>),
          Item("nulllist", <<>>, <<>>), Lim("container", 2)>>)
Bits ==
    Obj(<<Item("bits", <<1, 0, 1, 1, 0, 0, 0, 1, 1, 0, 1>>, <<>>), Item("nullptr", 0, <<>>),
          Item("bits", <<>>, <<>>), Num(<<9>>)>>)
Calls ==
    Obj(<<Item("call", <<>>, <<Str(<<1, 2>>), Num(<<3>>)>>), Ptr(<<70, 1>>, <<Num(<<4>>)>>),
          Item("array", <<>>, <<Str(<<5>>)>>), Item("list", <<>>, <<Num(<<6>>), Num(<<7>>)>>)>>)
Streams ==
    Obj(<<Num(<<1, 2>>), Strm(<<3, 4, 5, 6, 7>>, InvalidSize, InvalidSize),
          Strm(<<8, 9, 10, 11>>, 3, 2), Num(<<12>>)>>)
NoStreams ==
    Obj(<<Num(<<1, 2>>), Strm(<<3, 4, 5>>, InvalidSize, NoStream),
          [Item("nostream", <<>>, <<>>) EXCEPT !.n = InvalidSize, !.d = InvalidSize],
          Item("call", <<>>, <<Strm(<<>>, InvalidSize, InvalidSize), Num(<<4, 5>>)>>)>>)

MCMessages == {Numbers, Strings, WithLists, Bits, Calls, Streams, NoStreams}
MCTypes == {<<1, 2>>, <<70, 1>>}
=============================================================================
