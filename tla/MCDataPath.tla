----------------------------- MODULE MCDataPath -----------------------------
(* The data path at its two ends: the bytes of packets and the samples of    *)
(* pictures. They do not meet (NVDEC is between them), so a behaviour is      *)
(* about one of them.                                                        *)
EXTENDS Framing, Planes

Units == {<<7>>, <<2, 0, 3>>, <<>>}
Lists == {<<>>, <<<<7>>>>, <<<<2, 0, 3>>, <<>>>>, <<<<>>, <<7>>>>}

RecordOf(kind, head, n, lists, more, cut) ==
  [kind |-> kind, form |-> "record", n |-> n, head |-> head, lists |-> lists,
   more |-> more, cut |-> cut]
Avc(n, sps, pps, more, cut) == RecordOf("avc", <<66, 0, 30>>, n, <<sps, pps>>, more, cut)
Hevc(n, arrays, more, cut) == RecordOf("hevc", [i \in 1..20 |-> 9], n, arrays, more, cut)

WholeAvc == {Avc(n, sps, pps, more, 0) : n \in 1..4, sps \in Lists,
               pps \in {<<>>, <<<<8>>>>}, more \in {<<>>, <<253>>}}
WholeHevc == {Hevc(n, arrays, more, 0) : n \in 1..4,
                arrays \in BoundedSeq({<<>>, <<<<7>>, <<>>>>}, 2), more \in {<<>>, <<253>>}}

\* Every strict prefix of a record that has no more than it needs.
Cut(s) == {[s EXCEPT !.cut = cut] : cut \in 1..Len(Record(s))}
CutAvc ==
  UNION {Cut(Avc(4, sps, pps, <<>>, 0)) : sps \in Lists, pps \in {<<>>, <<<<8>>>>}}
CutHevc ==
  UNION {Cut(Hevc(4, arrays, <<>>, 0)) : arrays \in {<<<<<<7>>>>>>, <<<<>>, <<<<7>>, <<>>>>>>}}
InBand == {[kind |-> kind, form |-> "stream", bytes |-> b] :
             kind \in {"avc", "hevc"},
             b \in {<<>>, Framed(<<<<7>>>>), <<0, 0, 1, 7, 0, 0, 0, 1, 2, 0>>}}

MCSources == WholeAvc \cup WholeHevc \cup CutAvc \cup CutHevc \cup InBand
MCSamples == {<<>>, <<<<7>>>>, <<<<2, 0, 3>>, <<7>>>>, <<<<>>, <<7>>>>}
MCRaw == BoundedSeq(0..2, 5)

\* Windows of every kind: empty, odd, reaching over the edge or beyond it,
\* in one direction, with a plain and an odd one in the other.
Edges(cw, left, right, ch, top, bottom) ==
  [cw |-> cw, left |-> left, right |-> right, ch |-> ch, top |-> top, bottom |-> bottom]
MCFormats ==
  {Edges(cw, l, r, 3, t, 3) : cw \in {3, 4}, l \in 0..5, r \in {0, 2, 3, 4, 6}, t \in 0..1}
  \cup {Edges(4, l, 4, ch, t, b) : ch \in {2, 3}, t \in 0..4, b \in {0, 1, 2, 3, 5}, l \in 0..1}
\* Client frames for 3x3: packed, strided, and with planes that end early.
MCFrames == [y : {3, 4}, ylen : {4, 11}, c : {2, 3}, clen : {1, 5}]

VARIABLE side
Init ==
  /\ side \in {"bytes", "samples"} /\ PlanesInit /\ FramingInit
  /\ side = "samples" => source = CHOOSE s \in Sources : TRUE
Next ==
  /\ UNCHANGED side
  /\ \/ side = "bytes" /\ FramingNext /\ UNCHANGED planesVars
     \/ side = "samples" /\ PlanesNext /\ UNCHANGED framingVars
Spec == Init /\ [][Next]_<<side, framingVars, planesVars>>
=============================================================================
