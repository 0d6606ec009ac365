---------------------------- MODULE GribPacking ----------------------------
(***************************************************************************)
(* How the forecasts' fields are packed into bits, and unpacked: simple    *)
(* packing, complex packing with spatial differences, and the entropy      *)
(* coding of CCSDS (noaa_weather_cache.go, grib_ccsds.go).  A stream is a  *)
(* sequence of bits.  The encoders are not of this program: they are what  *)
(* the centres pack their forecasts with, and what the decoders have to    *)
(* undo.                                                                   *)
(*                                                                         *)
(* A packing p has the fields of the data representation section that its  *)
(* template has.  The values of a field are integers: the reference, the   *)
(* packed integer and the scales are chosen so that no value is broken.    *)
(***************************************************************************)
EXTENDS Integers, Sequences, FiniteSets, SequencesExt

CONSTANT SegmentBlocks   \* blocks of a segment of an interval: 64

ASSUME SegmentIsPositive == SegmentBlocks \in Nat \ {0}

LOCAL Lowest(S) == CHOOSE x \in S : \A y \in S : x <= y
LOCAL Lower(a, b) == IF a < b THEN a ELSE b

-----------------------------------------------------------------------------
(* A cursor: the bits read so far, what the last read gave, what the reads *)
(* that were kept gave, the next block, and whether every read found its   *)
(* bits.                                                                   *)
Start == [pos |-> 0, last |-> 0, out |-> <<>>, block |-> 0, ok |-> TRUE]

Number(bits) == FoldLeft(LAMBDA v, b : 2 * v + b, 0, bits)

ReadBits(stream, n, c) ==
  IF c.ok /\ c.pos + n <= Len(stream)
  THEN [c EXCEPT !.pos = @ + n, !.last = Number(SubSeq(stream, c.pos + 1, c.pos + n))]
  ELSE [c EXCEPT !.ok = FALSE]

(* A fundamental sequence: as many zeros as the number, and a one; a run   *)
(* of more zeros is none.                                                  *)
RunawayZeros == 2 ^ 20

ReadFS(stream, c) ==
  LET ones == {p \in c.pos + 1 .. Len(stream) : stream[p] = 1}
  IN IF c.ok /\ ones # {} /\ Lowest(ones) - c.pos - 1 <= RunawayZeros
     THEN [c EXCEPT !.pos = Lowest(ones), !.last = Lowest(ones) - c.pos - 1]
     ELSE [c EXCEPT !.ok = FALSE]

Align(c) == [c EXCEPT !.pos = ((@ + 7) \div 8) * 8]
Keep(c) == [c EXCEPT !.out = Append(@, c.last)]
Repeat(n, Op(_), c) == FoldLeft(LAMBDA d, i : Op(d), c, [i \in 1 .. n |-> i])
KeepBits(stream, width, n, c) == Repeat(n, LAMBDA d : Keep(ReadBits(stream, width, d)), c)

SignedFromBits(u, bits) ==
  IF bits <= 0 THEN 0
  ELSE IF u >= 2 ^ (bits - 1) THEN 2 ^ (bits - 1) - u ELSE u

Unreadable == [ok |-> FALSE, values |-> <<>>]
(* (R + X * 2^E) * 10^-D                                                   *)
Scaled(p, xs) == [i \in DOMAIN xs |-> (p.ref + xs[i] * 2 ^ p.binary) * 10 ^ (-p.decimal)]
Constant(p) == [ok |-> TRUE, values |-> [i \in 1 .. p.n |-> p.ref]]

(* What a reader that came to the cursor c makes of the integers xs.       *)
Values(p, c, xs) == IF c.ok THEN [ok |-> TRUE, values |-> Scaled(p, xs)] ELSE Unreadable
Wanted(p, c) == SubSeq(c.out, 1, Lower(p.n, Len(c.out)))

-----------------------------------------------------------------------------
(* Simple packing.                                                         *)
UnpackSimple(stream, p) ==
  IF p.bits = 0 THEN Constant(p)
  ELSE LET Read(c) == Values(p, c, c.out)
       IN Read(KeepBits(stream, p.bits, p.n, Start))

-----------------------------------------------------------------------------
(* Complex packing.  The first values and the least difference are signed  *)
(* magnitudes; then come, each from a byte of its own, the groups'         *)
(* references, widths, lengths and values.                                 *)
Descriptors(stream, p) ==
  IF p.order > 0 /\ p.octets > 0
  THEN Align(KeepBits(stream, 8 * p.octets, p.order + 1, Start))
  ELSE [Start EXCEPT !.out = [i \in 1 .. p.order + 1 |-> 0]]

GroupList(stream, width, p, c) ==
  Align(KeepBits(stream, width, p.groups, [c EXCEPT !.out = <<>>]))

UndoDifferences(order, first, least, raw) ==
  FoldLeft(LAMBDA done, i :
             Append(done, CASE i <= order -> first[i]
                            [] order = 1 -> raw[i] + least + done[i - 1]
                            [] OTHER -> raw[i] + least + 2 * done[i - 1] - done[i - 2]),
           <<>>, [i \in DOMAIN raw |-> i])

UnpackComplex(stream, p) ==
  LET described == Descriptors(stream, p)
      signed == [i \in DOMAIN described.out |-> SignedFromBits(described.out[i], 8 * p.octets)]
      refs == GroupList(stream, p.bits, p, described)
      widths == GroupList(stream, p.widthBits, p, refs)
      lengths == GroupList(stream, p.lengthBits, p, widths)
      Length(g) == IF g = p.groups THEN p.lengthLast
                   ELSE p.lengthRef + lengths.out[g] * p.lengthIncrement
      GroupWidth(g) == p.widthRef + widths.out[g]
      Group(c, g) ==
        LET r == KeepBits(stream, GroupWidth(g), Length(g), [c EXCEPT !.out = <<>>])
        IN [r EXCEPT !.out = c.out \o [j \in DOMAIN @ |-> refs.out[g] + @[j]]]
      Read(c) ==
        IF p.order > 2 THEN Unreadable
        ELSE Values(p, c, IF p.order = 0 THEN Wanted(p, c)
                          ELSE UndoDifferences(p.order, signed, signed[p.order + 1], Wanted(p, c)))
  IN Read(FoldLeft(LAMBDA c, g : IF c.ok THEN Group(c, g) ELSE c,
                   [lengths EXCEPT !.out = <<>>], [g \in 1 .. p.groups |-> g]))

-----------------------------------------------------------------------------
(* The entropy coding.  A block of blockSize samples is coded with the     *)
(* option its identifier names; rsi blocks make an interval, whose first   *)
(* sample is the reference that the mapped differences start from.         *)
IdBits(bits) == CASE bits <= 0 -> 0 [] bits <= 8 -> 3 [] bits <= 16 -> 4 [] OTHER -> 5
NoCompression(p) == 2 ^ IdBits(p.bits) - 1

RestOfSegment == 5

(* How many blocks of zeros the number m stands for at this block.         *)
ZeroRun(m, block, nBlocks) ==
  LET left == nBlocks - block
      run == CASE m + 1 < RestOfSegment -> m + 1
               [] m + 1 = RestOfSegment -> Lower(left, SegmentBlocks - (block % SegmentBlocks))
               [] OTHER -> m
  IN IF run > left THEN left ELSE IF run < 1 THEN 1 ELSE run

(* A pair as its place on the diagonals.                                   *)
Unpair(m) ==
  LET sum == CHOOSE k \in 0 .. m : (k * (k + 1)) \div 2 <= m /\ m < ((k + 1) * (k + 2)) \div 2
      second == m - (sum * (sum + 1)) \div 2
  IN <<sum - second, second>>

ZeroBlocks(stream, p, nBlocks, lead, c) ==
  LET m == ReadFS(stream, c)
      run == ZeroRun(m.last, c.block, nBlocks)
  IN [m EXCEPT !.out = @ \o [i \in 1 .. run * p.blockSize - lead |-> 0], !.block = @ + run]

(* The slot of the reference is the first half of the first pair.          *)
SecondExtension(stream, p, coded, lead, c) ==
  LET m == Repeat(IF coded = 0 THEN 0 ELSE (coded + lead + 1) \div 2,
                  LAMBDA d : Keep(ReadFS(stream, d)), [c EXCEPT !.out = <<>>])
      all == FlattenSeq([i \in DOMAIN m.out |-> Unpair(m.out[i])])
  IN [m EXCEPT !.out = c.out \o SubSeq(all, lead + 1, lead + coded), !.block = @ + 1]

(* Mutant: as many low bits as the identifier says.                        *)
LowBitsById(id) == id

LowBits(id) == id - 1

(* First all the high parts, then all the low ones.                        *)
Split(stream, id, coded, c) ==
  LET highs == Repeat(coded, LAMBDA d : Keep(ReadFS(stream, d)), [c EXCEPT !.out = <<>>])
      lows == KeepBits(stream, LowBits(id), coded, [highs EXCEPT !.out = <<>>])
  IN IF id = 0 \/ ~lows.ok THEN [lows EXCEPT !.ok = FALSE]
     ELSE [lows EXCEPT !.out = c.out \o [j \in 1 .. coded |-> highs.out[j] * 2 ^ LowBits(id) + @[j]],
                       !.block = @ + 1]

(* The rest of a block, by its option, once the reference is read.         *)
DecodeSamples(stream, p, nBlocks, id, extension, lead, c) ==
  LET coded == p.blockSize - lead
  IN CASE ~c.ok -> c
       [] c.ok /\ id = 0 /\ ~extension -> ZeroBlocks(stream, p, nBlocks, lead, c)
       [] c.ok /\ id = NoCompression(p) ->
            [KeepBits(stream, p.bits, coded, c) EXCEPT !.block = @ + 1]
       [] c.ok /\ extension /\ p.bits >= 3 -> SecondExtension(stream, p, coded, lead, c)
       [] OTHER -> Split(stream, id, coded, c)

DecodeBlock(stream, p, nBlocks, c) ==
  LET identified == ReadBits(stream, IdBits(p.bits), c)
      id == identified.last
      chosen == IF id = 0 THEN ReadBits(stream, 1, identified) ELSE identified
      extension == id = 0 /\ chosen.last = 1
      lead == IF c.block = 0 /\ p.preprocess /\ id # NoCompression(p) THEN 1 ELSE 0
  IN DecodeSamples(stream, p, nBlocks, id, extension, lead,
                   IF lead = 1 THEN Keep(ReadBits(stream, p.bits, chosen)) ELSE chosen)

(* The sample that a mapped difference leads to: the samples near the one  *)
(* before it alternate above and below, those farther are told directly.   *)
Restored(prev, d, bits) ==
  LET top == 2 ^ bits - 1
      upper == prev >= 2 ^ (bits - 1)
      room == IF upper THEN top - prev ELSE prev
      near == IF d % 2 = 0 THEN prev + d \div 2 ELSE prev - (d \div 2 + 1)
      told == d % (top + 1)
  IN IF (d + 1) \div 2 <= room
     THEN IF near < 0 THEN 0 ELSE Lower(near, top)
     ELSE IF upper THEN top - told ELSE told

(* The samples of an interval: the first is the reference.                 *)
Unmapped(interval, bits) ==
  FoldLeft(LAMBDA done, d : Append(done, Restored(Last(done), d, bits)),
           <<Head(interval)>>, Tail(interval))

IntervalBlocks(p, remaining) ==
  IF remaining < p.rsi * p.blockSize
  THEN (remaining + p.blockSize - 1) \div p.blockSize ELSE p.rsi

DecodeInterval(stream, p, c) ==
  LET nBlocks == IntervalBlocks(p, p.n - Len(c.out))
      Joined(d) == [d EXCEPT !.out = c.out \o (IF p.preprocess THEN Unmapped(@, p.bits) ELSE @)]
      Ended(d) == IF ~d.ok THEN d ELSE IF p.padded THEN Align(Joined(d)) ELSE Joined(d)
  IN Ended(FoldLeft(LAMBDA e, i : IF e.ok /\ e.block < nBlocks
                                  THEN DecodeBlock(stream, p, nBlocks, e) ELSE e,
                    [c EXCEPT !.out = <<>>, !.block = 0], [i \in 1 .. nBlocks |-> i]))

AecRefuses(p) == p.bits \notin 1 .. 32 \/ p.restricted \/ p.blockSize <= 0 \/ p.rsi <= 0

AecDecode(stream, p) ==
  FoldLeft(LAMBDA c, i : IF c.ok /\ Len(c.out) < p.n THEN DecodeInterval(stream, p, c) ELSE c,
           [Start EXCEPT !.ok = ~AecRefuses(p)], [i \in 1 .. p.n |-> i])

UnpackCCSDS(stream, p) ==
  IF p.bits = 0 THEN Constant(p)
  ELSE LET Read(c) == Values(p, c, Wanted(p, c))
       IN Read(AecDecode(stream, p))

(* The templates of the data representation section.                       *)
UnpackData(stream, p) ==
  CASE p.template = 0 -> UnpackSimple(stream, p)
    [] p.template \in {2, 3} -> UnpackComplex(stream, p)
    [] p.template = 42 -> UnpackCCSDS(stream, p)
    [] OTHER -> Unreadable

-----------------------------------------------------------------------------
(* The encoders.  Bits of a number, most significant first, and streams    *)
(* filled up to a byte.                                                    *)
Bits(v, n) == [i \in 1 .. n |-> (v \div 2 ^ (n - i)) % 2]
AllBits(xs, n) == FlattenSeq([i \in DOMAIN xs |-> Bits(xs[i], n)])
FS(m) == [i \in 1 .. m |-> 0] \o <<1>>
ToByte(bits) == bits \o [i \in 1 .. (8 - (Len(bits) % 8)) % 8 |-> 0]
SignedBits(v, n) == IF v < 0 THEN <<1>> \o Bits(-v, n - 1) ELSE Bits(v, n)

PackSimple(xs, p) == ToByte(AllBits(xs, p.bits))

(* Complex packing of xs in groups of the given lengths: the packing's     *)
(* fields for them, and the stream.                                        *)
Differences(xs, order) ==
  [i \in DOMAIN xs |-> CASE i <= order -> xs[i]
                         [] i > order /\ order = 0 -> xs[i]
                         [] i > order /\ order = 1 -> xs[i] - xs[i - 1]
                         [] i > order /\ order = 2 -> xs[i] - 2 * xs[i - 1] + xs[i - 2]]

BitsFor(v) == CHOOSE n \in 0 .. 16 : v < 2 ^ n /\ (n > 0 => v >= 2 ^ (n - 1))

GroupsOf(xs, lengths) ==
  LET Upto(g) == FoldLeft(LAMBDA n, h : n + lengths[h], 0, [h \in 1 .. g |-> h])
  IN [g \in DOMAIN lengths |-> SubSeq(xs, Upto(g - 1) + 1, Upto(g))]

PackGroups(xs, order, lengths, least, groups) ==
  LET Floor(g) == Lowest(ToSet(groups[g]))
      Spread(g) == BitsFor(CHOOSE v \in {x - Floor(g) : x \in ToSet(groups[g])} :
                             \A x \in ToSet(groups[g]) : v >= x - Floor(g))
      narrow == Lowest({Spread(g) : g \in DOMAIN groups})
      short == Lowest({lengths[g] : g \in DOMAIN lengths})
      packing == [template |-> IF order = 0 THEN 2 ELSE 3, n |-> Len(xs),
                  ref |-> 0, binary |-> 0, decimal |-> 0, bits |-> 6,
                  order |-> order, octets |-> IF order = 0 THEN 0 ELSE 1,
                  groups |-> Len(lengths), widthRef |-> narrow, widthBits |-> 3,
                  lengthRef |-> short, lengthIncrement |-> 1, lengthBits |-> 3,
                  lengthLast |-> Last(lengths)]
      descriptors == IF order = 0 THEN <<>>
                     ELSE FlattenSeq([i \in 1 .. order |-> SignedBits(xs[i], 8)]) \o SignedBits(least, 8)
      values == FlattenSeq([g \in DOMAIN groups |->
                  AllBits([i \in DOMAIN groups[g] |-> groups[g][i] - Floor(g)], Spread(g))])
  IN [packing |-> packing,
      stream |-> descriptors
                 \o ToByte(AllBits([g \in DOMAIN groups |-> Floor(g)], 6))
                 \o ToByte(AllBits([g \in DOMAIN groups |-> Spread(g) - narrow], 3))
                 \o ToByte(AllBits([g \in DOMAIN groups |-> lengths[g] - short], 3))
                 \o ToByte(values)]

PackComplex(xs, order, lengths) ==
  LET Pack(diffs, least) ==
        PackGroups(xs, order, lengths, least,
          GroupsOf([i \in DOMAIN xs |-> IF i <= order THEN 0 ELSE diffs[i] - least], lengths))
      WithLeast(diffs) ==
        Pack(diffs, IF order = 0 THEN 0 ELSE Lowest({diffs[i] : i \in order + 1 .. Len(xs)}))
  IN WithLeast(Differences(xs, order))

-----------------------------------------------------------------------------
(* The entropy coder, with any option it may choose for each block of an   *)
(* interval: the low bits of a split, or one of these.  The last block is  *)
(* filled up with the last sample.                                         *)
AsRun == -1     \* of zeros; raw where a sample is not zero
AsPairs == -2
AsRaw == -3

MappedFrom(prev, x, bits) ==
  LET top == 2 ^ bits - 1
  IN CASE x >= prev /\ x - prev <= prev -> 2 * (x - prev)
       [] x >= prev /\ x - prev > prev -> x
       [] x < prev /\ prev - x <= top - prev -> 2 * (prev - x) - 1
       [] x < prev /\ prev - x > top - prev -> top - x

PairNumber(a, b) == ((a + b) * (a + b + 1)) \div 2 + b

EncodeInterval(xs, p, options) ==
  LET nBlocks == Len(xs) \div p.blockSize
      ds == IF ~p.preprocess THEN xs
            ELSE [i \in DOMAIN xs |-> IF i = 1 THEN 0 ELSE MappedFrom(xs[i - 1], xs[i], p.bits)]
      Block(b) == SubSeq(ds, b * p.blockSize + 1, (b + 1) * p.blockSize)
      Zeros(b) == \A i \in DOMAIN Block(b) : Block(b)[i] = 0
      SegmentEnd(b) == Lower(nBlocks, (b \div SegmentBlocks + 1) * SegmentBlocks)
      RunEnd(b) == Lowest({e \in b + 1 .. SegmentEnd(b) : e = SegmentEnd(b) \/ ~Zeros(e)})
      RunNumber(b) == LET run == RunEnd(b) - b
                      IN CASE run < RestOfSegment -> run - 1
                           [] run >= RestOfSegment /\ RunEnd(b) = SegmentEnd(b) -> RestOfSegment - 1
                           [] OTHER -> run
      Lead(b) == IF b = 0 /\ p.preprocess THEN 1 ELSE 0
      Reference(b) == IF Lead(b) = 1 THEN Bits(xs[1], p.bits) ELSE <<>>
      Id(v) == Bits(v, IdBits(p.bits))
      Option(b) == IF options[b + 1] = AsRun /\ ~Zeros(b) THEN AsRaw ELSE options[b + 1]
      Encoded(b) ==
        LET option == Option(b)
            d == Block(b)
            coded == SubSeq(d, Lead(b) + 1, p.blockSize)
        IN CASE option = AsRun -> Id(0) \o <<0>> \o Reference(b) \o FS(RunNumber(b))
             [] option = AsPairs ->
                  Id(0) \o <<1>> \o Reference(b)
                  \o FlattenSeq([i \in 1 .. p.blockSize \div 2 |-> FS(PairNumber(d[2 * i - 1], d[2 * i]))])
             [] option = AsRaw ->
                  Id(NoCompression(p))
                  \o AllBits([i \in DOMAIN d |-> IF i <= Lead(b) THEN xs[1] ELSE d[i]], p.bits)
             [] OTHER ->
                  Id(option + 1) \o Reference(b)
                  \o FlattenSeq([i \in DOMAIN coded |-> FS(coded[i] \div 2 ^ option)])
                  \o AllBits([i \in DOMAIN coded |-> coded[i] % (2 ^ option)], option)
      Next(e, b) ==
        IF b < e.next THEN e
        ELSE [bits |-> e.bits \o Encoded(b),
              next |-> IF Option(b) = AsRun THEN RunEnd(b) ELSE b + 1]
  IN FoldLeft(Next, [bits |-> <<>>, next |-> 0], [b \in 1 .. nBlocks |-> b - 1]).bits

AecEncode(xs, p, options) ==
  LET filled == xs \o [i \in 1 .. (p.blockSize - (Len(xs) % p.blockSize)) % p.blockSize |-> Last(xs)]
      size == p.rsi * p.blockSize
      intervals == (Len(filled) + size - 1) \div size
      Interval(k) == SubSeq(filled, (k - 1) * size + 1, Lower(k * size, Len(filled)))
      Coded(k) == EncodeInterval(Interval(k), p, options)
      Add(bits, k) == IF p.padded THEN ToByte(bits \o Coded(k)) ELSE bits \o Coded(k)
  IN ToByte(FoldLeft(Add, <<>>, [k \in 1 .. intervals |-> k]))
=============================================================================
