------------------------------- MODULE Framing -------------------------------
(***************************************************************************)
(* NalFraming (src/src/framing.rs): a configuration record (avcC or hvcC)  *)
(* and length-prefixed samples in, the Annex-B byte stream that the parser *)
(* scans out. Bytes are numbers below 256, a position is an offset from 0. *)
(* An Option is a record with a field ok.                                  *)
(***************************************************************************)
EXTENDS Naturals, Sequences, SequencesExt

CONSTANTS
  Sources,          \* streams: how their extradata was written, see IsRecord
  Samples,          \* samples, as the sequences of their NAL units
  Raw,              \* payloads that were not written from units
  MaxPackets        \* bound: packets of a stream

Byte == 0..255
StartCode == <<0, 0, 0, 1>>
\* b[pos .. pos + n], which needs Has(b, pos, n).
Has(b, pos, n) == pos + n <= Len(b)
Slice(b, pos, n) == SubSeq(b, pos + 1, pos + n)
Nothing == [ok |-> FALSE]

be(b) ==
  LET value[i \in 0..Len(b)] == IF i = 0 THEN 0 ELSE 256 * value[i - 1] + b[i]
  IN value[Len(b)]

-----------------------------------------------------------------------------
(* The configuration records.                                              *)

\* One turn of read_units: a 16 bit length, then the unit, if it fits.
ReadUnit(rec, r) ==
  IF ~r.ok \/ ~Has(rec, r.pos, 2) THEN Nothing
  ELSE LET len == be(Slice(rec, r.pos, 2)) IN
       IF ~Has(rec, r.pos + 2, len) THEN Nothing
       ELSE [ok |-> TRUE, pos |-> r.pos + 2 + len,
             nals |-> IF len = 0 THEN r.nals
                      ELSE Append(r.nals, Slice(rec, r.pos + 2, len))]

\* A change that would break RecordJudged: take the units that are there.
ReadWhatFits(rec, r, count) ==
  LET after[i \in 0..count] ==
        IF i = 0 THEN r
        ELSE LET next == ReadUnit(rec, after[i - 1])
             IN IF next.ok THEN next ELSE after[i - 1]
  IN after[count]
read_units(rec, r, count) ==
  LET after[i \in 0..count] == IF i = 0 THEN r ELSE ReadUnit(rec, after[i - 1])
  IN after[count]

From(pos, nals) == [ok |-> TRUE, pos |-> pos, nals |-> nals]
LengthSize(byte) == (byte % 4) + 1

\* The units are counted in rec[5] (5 bits) and, behind the SPS, in one byte.
parse_avcc(rec) ==
  IF Len(rec) < 7 \/ rec[1] # 1 \/ LengthSize(rec[5]) = 3 THEN Nothing
  ELSE LET sps == read_units(rec, From(6, <<>>), rec[6] % 32)
       IN IF ~sps.ok \/ ~Has(rec, sps.pos, 1) THEN Nothing
          ELSE read_units(rec, From(sps.pos + 1, sps.nals), rec[sps.pos + 1])

ReadArray(rec, r) ==
  IF ~r.ok \/ ~Has(rec, r.pos + 1, 2) THEN Nothing
  ELSE read_units(rec, From(r.pos + 3, r.nals), be(Slice(rec, r.pos + 1, 2)))
ReadArrays(rec, r, count) ==
  LET after[i \in 0..count] == IF i = 0 THEN r ELSE ReadArray(rec, after[i - 1])
  IN after[count]

parse_hvcc(rec) ==
  IF Len(rec) < 23 \/ rec[1] # 1 \/ LengthSize(rec[22]) = 3 THEN Nothing
  ELSE ReadArrays(rec, From(23, <<>>), rec[23])

Framed(nals) == FlattenSeq([i \in 1..Len(nals) |-> StartCode \o nals[i]])
starts_with_start_code(b) == IsPrefix(<<0, 0, 1>>, b) \/ IsPrefix(StartCode, b)

\* length_size 0 is None: packets are Annex-B already.
from_extradata(kind, extradata) ==
  IF extradata = <<>> \/ starts_with_start_code(extradata)
    THEN [length_size |-> 0, prologue |-> extradata]
    ELSE LET avc == kind = "avc"
             parsed == IF avc THEN parse_avcc(extradata) ELSE parse_hvcc(extradata)
         IN IF parsed.ok
              THEN [length_size |-> LengthSize(extradata[IF avc THEN 5 ELSE 22]),
                    prologue |-> Framed(parsed.nals)]
              ELSE [length_size |-> 0, prologue |-> <<>>]

-----------------------------------------------------------------------------
(* Samples.                                                                *)

\* A change that would break TilesExactly: clip the last unit to the buffer.
RewriteClipped(data, length_size) ==
  LET rest[pos \in 0..Len(data)] ==
        IF ~Has(data, pos, length_size) THEN <<>>
        ELSE LET len == be(Slice(data, pos, length_size))
                 end == pos + length_size + len
             IN IF end >= Len(data)
                  THEN StartCode \o Slice(data, pos + length_size,
                                          Len(data) - pos - length_size)
                  ELSE StartCode \o Slice(data, pos + length_size, len)
                         \o rest[end]
  IN [ok |-> TRUE, out |-> rest[0]]
length_prefixed_to_annex_b(data, length_size) ==
  LET rest[pos \in 0..Len(data)] ==
        IF pos = Len(data) THEN [ok |-> TRUE, out |-> <<>>]
        ELSE IF ~Has(data, pos, length_size) THEN Nothing
        ELSE LET len == be(Slice(data, pos, length_size))
                 start == pos + length_size
                 others == rest[start + len]
             IN IF ~Has(data, start, len) \/ ~others.ok THEN Nothing
                ELSE [ok |-> TRUE,
                      out |-> StartCode \o Slice(data, start, len) \o others.out]
  IN rest[0]

\* What reframe appends to the prologue it takes.
Body(length_size, data) ==
  IF length_size = 0 THEN data
  ELSE LET annex_b == length_prefixed_to_annex_b(data, length_size)
       IN IF annex_b.ok THEN annex_b.out ELSE data

\* A change that would break StreamIntact: keep the prologue.
Kept(f) == f
Taken(f) == [f EXCEPT !.prologue = <<>>]

is_passthrough(f) == f.length_size = 0 /\ f.prologue = <<>>
reframe(f, data) == f.prologue \o Body(f.length_size, data)

-----------------------------------------------------------------------------
(* Around the module: how streams are written (ISO/IEC 14496-15, Annex B)  *)
(* and read.                                                               *)

\* A reader of Annex-B: units lie between start codes 0 0 1, zeros at their
\* end belong to what follows, and bytes ahead of the first one to nothing.
CodeEnds(b, k) == k >= 3 /\ b[k] = 1 /\ b[k - 1] = 0 /\ b[k - 2] = 0
IsLast(u, n) == (n > 0 => u[n] # 0) /\ \A j \in (n + 1)..Len(u) : u[j] = 0
WithoutZeros(u) == SubSeq(u, 1, CHOOSE n \in 0..Len(u) : IsLast(u, n))
NonEmpty(units) ==
  FlattenSeq([i \in 1..Len(units) |-> IF units[i] = <<>> THEN <<>> ELSE <<units[i]>>])
\* The unit that began behind byte at has its end behind byte end.
Closed(b, found, at, end) ==
  IF at = 0 THEN found
  ELSE found \o NonEmpty(<<WithoutZeros(SubSeq(b, at + 1, end))>>)
NalUnits(b) ==
  LET scan[k \in 0..Len(b)] ==
        IF k = 0 THEN [found |-> <<>>, at |-> 0]
        ELSE IF CodeEnds(b, k)
          THEN [found |-> Closed(b, scan[k - 1].found, scan[k - 1].at, k - 3), at |-> k]
          ELSE scan[k - 1]
  IN Closed(b, scan[Len(b)].found, scan[Len(b)].at, Len(b))

\* A NAL unit, which holds no start code and does not end in a zero.
IsNal(u) ==
  /\ u \in Seq(Byte)
  /\ \A k \in 1..Len(u) : ~CodeEnds(u, k)
  /\ u # <<>> => u[Len(u)] # 0

BigEndian(n, x) ==
  SubSeq(<<(x \div 16777216) % 256, (x \div 65536) % 256, (x \div 256) % 256, x % 256>>,
         5 - n, 4)
Fits(n, x) == CASE n = 1 -> x < 256 [] n = 2 -> x < 65536 [] OTHER -> x \div 16777216 < 256
LengthPrefixed(units, n) ==
  FlattenSeq([i \in 1..Len(units) |-> BigEndian(n, Len(units[i])) \o units[i]])

\* head: profile and level, and more of that kind in an hvcC; more: fields at
\* the end that are ignored; cut: bytes that are missing from the end.
AvcRecord(head, n, sps, pps, more) ==
  <<1>> \o head \o <<252 + n - 1, 224 + Len(sps)>> \o LengthPrefixed(sps, 2)
    \o <<Len(pps)>> \o LengthPrefixed(pps, 2) \o more
HevcArray(units) == <<32>> \o BigEndian(2, Len(units)) \o LengthPrefixed(units, 2)
HevcRecord(head, n, arrays, more) ==
  <<1>> \o head \o <<240 + n - 1, Len(arrays)>>
    \o FlattenSeq([i \in 1..Len(arrays) |-> HevcArray(arrays[i])]) \o more
Record(s) ==
  IF s.kind = "avc" THEN AvcRecord(s.head, s.n, s.lists[1], s.lists[2], s.more)
  ELSE HevcRecord(s.head, s.n, s.lists, s.more)

IsRecord(s) ==
  /\ s \in [kind : {"avc", "hevc"}, form : {"record"}, n : 1..4, head : Seq(Byte),
            lists : Seq(Seq(Seq(Byte))), more : Seq(Byte), cut : Nat]
  /\ \A i \in DOMAIN s.lists : \A j \in DOMAIN s.lists[i] :
       IsNal(s.lists[i][j]) /\ Fits(2, Len(s.lists[i][j]))
  /\ IF s.kind = "avc"
       THEN /\ Len(s.head) = 3 /\ Len(s.lists) = 2
            /\ Len(s.lists[1]) < 32 /\ Len(s.lists[2]) < 256
       ELSE /\ Len(s.head) = 20 /\ Len(s.lists) < 256
            /\ \A i \in DOMAIN s.lists : Fits(2, Len(s.lists[i]))
  /\ s.cut <= Len(Record(s)) /\ (s.cut > 0 => s.more = <<>>)
\* Extradata that is the stream itself, or the beginning of it.
IsStream(s) ==
  /\ s \in [kind : {"avc", "hevc"}, form : {"stream"}, bytes : Seq(Byte)]
  /\ s.bytes = <<>> \/ starts_with_start_code(s.bytes)

Extradata(s) ==
  IF s.form = "stream" THEN s.bytes
  ELSE SubSeq(Record(s), 1, Len(Record(s)) - s.cut)
\* What a muxer meant by it: lengths of so many bytes, 0 for none, and the
\* parameter sets. There are no lengths of three bytes.
DeclaredSize(s) == IF s.form = "record" /\ s.n # 3 /\ s.cut = 0 THEN s.n ELSE 0
DeclaredSets(s) ==
  IF s.form = "stream" THEN NalUnits(s.bytes)
  ELSE IF DeclaredSize(s) = 0 THEN <<>> ELSE FlattenSeq(s.lists)

ASSUME FramingAssumption ==
  /\ \A s \in Sources : IsRecord(s) \/ IsStream(s)
  /\ \A sample \in Samples :
       /\ sample \in Seq(Seq(Byte))
       /\ \A i \in DOMAIN sample :
            /\ IsNal(sample[i])
            /\ \A s \in Sources : DeclaredSize(s) # 0 => Fits(DeclaredSize(s), Len(sample[i]))
  /\ Raw \subseteq Seq(Byte) /\ MaxPackets \in Nat

\* A set of cuts tiles a payload: every piece is a length and as many bytes.
Next1(cuts, p) == CHOOSE q \in cuts : q > p /\ \A r \in cuts : r > p => q <= r
Tiles(data, n, cuts) ==
  /\ {0, Len(data)} \subseteq cuts
  /\ \A p \in cuts \ {Len(data)} :
       LET q == Next1(cuts, p) IN
         q >= p + n /\ be(Slice(data, p, n)) = q - p - n
Tilings(data, n) == {cuts \in SUBSET (0..Len(data)) : Tiles(data, n, cuts)}
Pieces(data, n, cuts) ==
  FlattenSeq([i \in 1..Len(data) |->
                IF i - 1 \in cuts
                  THEN <<Slice(data, i - 1 + n, Next1(cuts, i - 1) - (i - 1) - n)>>
                  ELSE <<>>])

-----------------------------------------------------------------------------
(* One decoder's stream.                                                   *)

VARIABLES
  framing,          \* NalFraming
  source,           \* history: the stream, a member of Sources
  written,          \* history: the units its packets were written from
  clean,            \* history: packets came as the stream's extradata says
  payload, out,     \* history: the last packet, and what became of it
  bytes, packets    \* history: all that the parser was given, in how many

framingVars == <<framing, source, written, clean, payload, out, bytes, packets>>

FramingInit ==
  /\ source \in Sources
  /\ framing = from_extradata(source.kind, Extradata(source))
  /\ written = <<>> /\ clean = TRUE
  /\ payload = <<>> /\ out = <<>> /\ bytes = <<>> /\ packets = 0

\* send_packet: a packet goes to the parser as it is, or re-framed. Bound: a
\* packet that is not as the extradata says is the last one.
Send(data, units, asSaid) ==
  /\ packets < MaxPackets /\ packets' = packets + 1 /\ clean
  /\ IF is_passthrough(framing)
       THEN out' = data /\ UNCHANGED framing
       ELSE out' = reframe(framing, data) /\ framing' = Taken(framing)
  /\ payload' = data /\ bytes' = bytes \o out'
  /\ written' = written \o units /\ clean' = (clean /\ asSaid)
  /\ UNCHANGED source

SendContainer(sample) ==
  /\ DeclaredSize(source) # 0
  /\ Send(LengthPrefixed(sample, DeclaredSize(source)), sample, TRUE)

\* Annex-B samples despite a record pass where they cannot be mistaken for
\* length-prefixed ones, or it does no harm: a start code is a length of one.
SendAnnexB(sample) ==
  Send(Framed(sample), sample,
       \/ DeclaredSize(source) = 0
       \/ Tilings(Framed(sample), DeclaredSize(source)) = {}
       \/ DeclaredSize(source) = 4 /\ \A i \in DOMAIN sample : Len(sample[i]) = 1)

SendRaw(data) ==
  packets = 0 /\ DeclaredSize(source) # 0 /\ Send(data, <<>>, FALSE)

FramingNext ==
  \/ \E sample \in Samples : SendContainer(sample) \/ SendAnnexB(sample)
  \/ \E data \in Raw : SendRaw(data)

FramingSpec == FramingInit /\ [][FramingNext]_framingVars

-----------------------------------------------------------------------------
(* Properties                                                              *)

\* Whatever record a stream has and however its samples are cut into packets,
\* the parser finds the parameter sets of the record, once and first, and then
\* every unit of every sample, in order, with not a byte more or less.
StreamIntact ==
  clean => NalUnits(bytes) = IF packets = 0 THEN <<>>
                             ELSE NonEmpty(DeclaredSets(source) \o written)

\* A record is taken only whole: cut short at any byte, or with lengths of
\* three bytes, it selects pass-through, with nothing of it in the prologue
\* (framing.rs: "Anything that is not a well-formed configuration record").
RecordJudged ==
  /\ framing.length_size = DeclaredSize(source)
  /\ packets = 0 => NalUnits(framing.prologue) = NonEmpty(DeclaredSets(source))

\* A payload is rewritten exactly if a set of cuts tiles it, into the units
\* between the cuts. Every other payload comes through unchanged. (The first
\* packet is the one that the prologue goes ahead of.)
TilesExactly ==
  DeclaredSize(source) # 0 /\ packets > 0 =>
    LET n == DeclaredSize(source)
        tilings == Tilings(payload, n)
        prologue == IF packets = 1 THEN Framed(NonEmpty(DeclaredSets(source))) ELSE <<>>
    IN IF tilings = {} THEN out = prologue \o payload
       ELSE \A cuts \in tilings :
              out = prologue \o Framed(Pieces(payload, n, cuts))
=============================================================================
