------------------------------ MODULE PackedData -------------------------------
(* Bits with rank and select (utils/succinct_vector.hpp), and the two codes  *)
(* that are built on them or beside them: integers in as few bytes as they   *)
(* need (utils/packed_vector.hpp, utils/packed_device.hpp), and sequences     *)
(* that do not decrease, byte by byte (utils/vertical_coded_vector.hpp,       *)
(* utils/vertical_coded_device.hpp).                                          *)
(*                                                                            *)
(* The sizes are constants: the code has bytes of 8 bits in halves of 4,      *)
(* blocks of 4 bytes and a total every 8 blocks.  Positions count from 0.     *)
EXTENDS Integers, FiniteSets, SequencesExt

CONSTANTS
    Half,           \* the bits of half a byte
    BlockBytes,     \* the bytes of a block
    HighBlocks,     \* the blocks of a total, num_block_rank_high
    CacheSlots,     \* the entries of the cache of a mapped vector
    SinkBuffer,     \* the values a packed_sink collects before it codes them
    MaxBits,        \* bounds: of the bits of a vector, and of the runs of equal
    MaxRuns,        \*   bits; of the bits or coded values of a vector that is
    MaxAsked,       \*   asked through its caches; of the values packed; of
    MaxPacked,      \*   those coded, and of the different ones among them
    MaxCoded,
    MaxDifferent,
    Packable,       \* Packable[size]: values of that many bytes
    Codable         \* the values of a vertical coded vector

ASSUME PackedAssumption == Half >= 1 /\ BlockBytes >= 1 /\ HighBlocks >= 2

VARIABLES
    use,            \* what is coded: bits, integers of some size, a sequence
    given,          \* what was put in, as a sequence
    vector,         \* the bits
    caches,         \* the caches of a mapped vector: one for select of each bit,
                    \* one of values
    reply,         \* what was asked of it last, and what it has returned
    sink            \* the sink of packed or coded values

packedVars == <<use, given, vector, caches, reply, sink>>

ByteBits == 2 * Half
BlockBits == ByteBits * BlockBytes
HighBits == BlockBits * HighBlocks

\* size_type(-1)
None == -1

\* bits are those of all blocks, each 0 or 1; the blocks go beyond the size.
NoVector == [size |-> 0, bits |-> <<>>, high |-> <<>>, low |-> <<>>]

Ones(v, first, last) == FoldLeft(+, 0, SubSeq(v.bits, first + 1, last))

\* The totals are void from now on, and new blocks are empty.
SetBit(v, pos, bit) ==
    LET blocks == pos \div BlockBits + 1
        there == Len(v.bits)
        more == IF blocks * BlockBits > there THEN blocks * BlockBits - there ELSE 0
    IN [size |-> IF pos + 1 > v.size THEN pos + 1 ELSE v.size,
        bits |-> [v.bits \o [i \in 1..more |-> 0] EXCEPT ![pos + 1] = bit],
        high |-> <<>>, low |-> <<>>]

\* The totals of high go on; those of low start again after each of high, where
\* none is kept.
Totals(v) ==
    LET Block(a, i) ==
            LET count == Ones(v, i * BlockBits, (i + 1) * BlockBits)
            IN IF i % HighBlocks = HighBlocks - 1
               THEN [a EXCEPT !.sum = @ + count, !.here = 0, !.high = Append(@, a.sum + count)]
               ELSE [a EXCEPT !.sum = @ + count, !.here = @ + count,
                              !.low = Append(@, a.here + count)]
    IN FoldLeft(Block, [sum |-> 0, here |-> 0, high |-> <<>>, low |-> <<>>],
                [i \in 1..Len(v.bits) \div BlockBits |-> i - 1])

OnlyFull(v) ==                                      \* faulty Build
    [v EXCEPT !.high = Totals(v).high, !.low = Totals(v).low]

\* One more total for the blocks after the last one.
Build(v) ==
    LET all == Totals(v)
        full == (Len(v.bits) \div BlockBits) % HighBlocks = 0
    IN [v EXCEPT !.high = IF full /\ all.sum > 0 THEN all.high ELSE Append(all.high, all.sum),
                 !.low = all.low]

Rank1(v, pos) ==
    LET block == pos \div BlockBits
        high == block \div HighBlocks
        low == block % HighBlocks
    IN (IF high = 0 THEN 0 ELSE v.high[high])
       + (IF low = 0 THEN 0 ELSE v.low[high * (HighBlocks - 1) + low])
       + Ones(v, block * BlockBits, pos + 1)

Rank(v, pos, bit) == IF bit = 1 THEN Rank1(v, pos) ELSE pos + 1 - Rank1(v, pos)

\* How many of the bits looked for entry i of data counts, where the entries
\* after first count the ones, each among scale more bits.
Counted(data, first, i, bit, scale) ==
    IF bit = 1 THEN data[i + 1] ELSE (i - first + 1) * scale - data[i + 1]

Least(from, last) == IF from = {} THEN last ELSE CHOOSE i \in from : \A j \in from : i <= j

\* __lower_bound: the first of the entries first..last-1 that has counted x bits,
\* last if there is none.
LowerBound(data, first, last, bit, scale, x) ==
    Least({i \in first..last - 1 : Counted(data, first, i, bit, scale) >= x}, last)

\* The bits that are before entry i.
CountedBefore(data, first, i, bit, scale) ==
    IF i = first THEN 0 ELSE Counted(data, first, i - 1, bit, scale)

\* masks_select1 and masks_select0: where the k-th such bit of half a byte is,
\* 0 when there is none.
InHalf(v, first, bit, k) ==
    LET at == {i \in 0..Half - 1 : v.bits[first + i + 1] = bit
                                   /\ Cardinality({j \in 0..i : v.bits[first + j + 1] = bit}) = k}
    IN IF at = {} THEN 0 ELSE CHOOSE i \in at : TRUE

\* select1 and select0: the total, the block below it, the byte, and its half.
SelectIn(v, x, bit) ==
    LET high == LowerBound(v.high, 0, Len(v.high), bit, HighBits, x)
        x1 == x - CountedBefore(v.high, 0, high, bit, HighBits)
        low0 == high * (HighBlocks - 1)
        lowLast == Least({low0 + HighBlocks - 1, Len(v.low)}, 0)
        low == LowerBound(v.low, low0, lowLast, bit, BlockBits, x1)
        x2 == x1 - CountedBefore(v.low, low0, low, bit, BlockBits)
        block == (high * HighBlocks + low - low0) * BlockBits
        bytes == [i \in 1..BlockBytes |-> Ones(v, block, block + i * ByteBits)]
        byte == LowerBound(bytes, 0, BlockBytes - 1, bit, ByteBits, x2)
        x3 == x2 - CountedBefore(bytes, 0, byte, bit, ByteBits)
        pos == block + byte * ByteBits
        lower == IF bit = 1 THEN Ones(v, pos, pos + Half) ELSE Half - Ones(v, pos, pos + Half)
    IN IF high = Len(v.high) THEN None
       ELSE pos + IF lower < x3 THEN Half + InHalf(v, pos + Half, bit, x3 - lower)
                  ELSE InHalf(v, pos, bit, x3)

\* What is asked for when it is not the place of a bit.
Number == 2

\* The mapped vectors keep what they have found: an entry has the bits of the
\* question above the number of its slot, beside the answer; before the first
\* reply it has all bits set, which no question has.
Cached(cache, x, found) ==
    LET slot == x % CacheSlots
        high == x \div CacheSlots
    IN IF cache[slot].high = high THEN cache
       ELSE [cache EXCEPT ![slot] = [high |-> high, found |-> found]]

NoCache == [slot \in 0..CacheSlots - 1 |-> [high |-> None, found |-> None]]


-----------------------------------------------------------------------------
(* Packed integers.  Numbers of one byte take one half of it or two, numbers *)
(* of two bytes one byte or two, and the bits say which; in vectors of wider *)
(* numbers a bit marks the last byte of each.                                *)

Nibble == 2^Half
Byte == 2^ByteBits

\* byte_size: at least one unit, half bytes when size is 1.
Units(size, value) ==
    LET unit == IF size = 1 THEN Nibble ELSE Byte
    IN CHOOSE n \in 1..8 : value < unit^n /\ (n = 1 \/ value >= unit^(n - 1))

\* coded counts half bytes or bytes; it is what tells where the next one goes.
NotPacked == [data |-> <<>>, coded |-> 0, index |-> NoVector]

Bytes(value, n) == [i \in 1..n |-> (value \div Byte^(i - 1)) % Byte]

Encode(size, p, value) ==
    LET n == Units(size, value)
        odd == p.coded % 2 = 1
    IN [data |->
          CASE size = 1 /\ odd ->
                 [p.data EXCEPT ![Len(p.data)] = @ + (value % Nibble) * Nibble]
                   \o IF n = 2 THEN <<value \div Nibble>> ELSE <<>>
            [] size = 1 /\ ~ odd -> Append(p.data, value)
            [] size > 1 -> p.data \o Bytes(value, n),
        index |-> IF size <= 2 THEN SetBit(p.index, p.index.size, IF n = 2 THEN 1 ELSE 0)
                  ELSE SetBit(p.index, p.index.size + n - 1, 1),
        coded |-> p.coded + n]

Decode(size, data, index, pos) ==
    LET first == IF pos = 0 THEN 0
                 ELSE IF size <= 2 THEN pos + Rank(index, pos - 1, 1)
                 ELSE SelectIn(index, pos, 1) + 1
        last == IF size <= 2 THEN pos + Rank(index, pos, 1) + 1
                ELSE SelectIn(index, pos + 1, 1) + 1
        byte == first \div 2
    IN CASE size = 1 /\ first % 2 = 1 /\ last - first = 2 ->
              (data[byte + 1] \div Nibble) + ((data[byte + 2] * Nibble) % Byte)
         [] size = 1 /\ first % 2 = 1 /\ last - first = 1 -> data[byte + 1] \div Nibble
         [] size = 1 /\ first % 2 = 0 /\ last - first = 2 -> data[byte + 1]
         [] size = 1 /\ first % 2 = 0 /\ last - first = 1 -> data[byte + 1] % Nibble
         [] size > 1 -> FoldLeft(+, 0, [i \in 1..last - first |->
                                          data[first + i] * Byte^(i - 1)])

\* packed_sink: buffer holds values, packed what is coded and not yet written,
\* file what is.
NoSink == [open |-> TRUE, buffer |-> <<>>, packed |-> NotPacked, file |-> <<>>]

EncodeBuffer(size, s) ==
    FoldLeft(LAMBDA p, value : Encode(size, p, value), s.packed, s.buffer)

\* faulty SinkWrite
WritesAll(size, s, value) ==
    LET t == [s EXCEPT !.buffer = Append(@, value)]
        p == EncodeBuffer(size, t)
    IN IF Len(t.buffer) < SinkBuffer THEN t
       ELSE [t EXCEPT !.buffer = <<>>, !.file = @ \o p.data,
                      !.packed = [p EXCEPT !.data = <<>>, !.coded = 0]]

\* A half byte that is not full yet waits for the next values.
SinkWrite(size, s, value) ==
    LET t == [s EXCEPT !.buffer = Append(@, value)]
        p == EncodeBuffer(size, t)
        whole == size > 1 \/ p.coded % 2 = 0
    IN CASE Len(t.buffer) < SinkBuffer -> t
         [] Len(t.buffer) = SinkBuffer /\ whole ->
              [t EXCEPT !.buffer = <<>>, !.file = @ \o p.data,
                        !.packed = [p EXCEPT !.data = <<>>, !.coded = 0]]
         [] OTHER -> [t EXCEPT !.buffer = <<>>, !.packed = p]

SinkClose(size, s) ==
    LET p == EncodeBuffer(size, s)
    IN [open |-> FALSE, buffer |-> <<>>, file |-> s.file \o p.data,
        packed |-> [data |-> <<>>, coded |-> 0, index |-> Build(p.index)]]

-----------------------------------------------------------------------------
(* Vertical codes: the low bytes of the values; then, as values of the same  *)
(* kind, where each higher part starts; until one byte is enough.            *)

\* inverted: the higher parts up to the value's start at i unless they have.
Invert(values) ==
    FoldLeft(LAMBDA inverted, i :
               LET high == values[i] \div Byte
               IN IF inverted # <<>> /\ Len(inverted) - 1 = high THEN inverted
                  ELSE inverted \o [k \in 1..high + 1 - Len(inverted) |-> i - 1],
             <<>>, [i \in DOMAIN values |-> i])

LowBytes(values) == [i \in DOMAIN values |-> values[i] % Byte]

\* faulty Verticals
OneVertical(inverted, data, off) ==
    LET all == data \o LowBytes(inverted)
    IN [data |-> all, off |-> Append(off, Len(all))]

RECURSIVE Verticals(_, _, _)
Verticals(inverted, data, off) ==
    LET all == data \o LowBytes(inverted)
        offs == Append(off, Len(all))
    IN IF Last(inverted) < Byte THEN [data |-> all, off |-> offs]
       ELSE Verticals(Invert(inverted), all, offs)

\* build, and close of the sink
VerticalCode(values) ==
    Verticals(Invert(values), LowBytes(values), <<0, Len(values)>>)

\* faulty UpperBound
NotBelow(data, first, last, value) == Least({i \in first..last - 1 : data[i + 1] >= value}, last)

\* upper_bound: the first of the bytes first..last-1 above the value.
UpperBound(data, first, last, value) == Least({i \in first..last - 1 : data[i + 1] > value}, last)

\* read: the value at pos of layer iter, None beyond its end; last: the last of
\* the layer's values that is no greater than pos.
RECURSIVE VerticalRead(_, _, _), VerticalLast(_, _, _)

VerticalRead(c, pos, iter) ==
    LET at == c.off[iter + 1] + pos
    IN IF at >= c.off[iter + 2] THEN None
       ELSE IF iter = Len(c.off) - 2 THEN c.data[at + 1]
       ELSE VerticalLast(c, pos, iter + 1) * Byte + c.data[at + 1]

\* faulty VerticalLast
LowPosition(c, pos, iter) ==
    LET first == c.off[iter + 1]
        last == c.off[iter + 2]
        high == VerticalRead(c, pos \div Byte, iter + 1)
        next == VerticalRead(c, pos \div Byte + 1, iter + 1)
    IN IF iter = Len(c.off) - 2
       THEN UpperBound(c.data, first, last, pos % Byte) - first - 1
       ELSE UpperBound(c.data, IF high = None THEN last ELSE first + high,
                       IF next = None THEN last ELSE first + next, pos % Byte) - first - 1

VerticalLast(c, pos, iter) ==
    LET first == c.off[iter + 1]
        last == c.off[iter + 2]
        high == VerticalRead(c, pos \div Byte, iter + 1)
        next == VerticalRead(c, pos \div Byte + 1, iter + 1)
    IN IF iter = Len(c.off) - 2
       THEN (IF pos >= Byte THEN last - first ELSE UpperBound(c.data, first, last, pos) - first) - 1
       ELSE UpperBound(c.data, IF high = None THEN last ELSE first + high,
                       IF next = None THEN last ELSE first + next, pos % Byte) - first - 1

-----------------------------------------------------------------------------
Uses == [kind : {"bits", "select", "coded"}, size : {0}]
        \cup [kind : {"packed"}, size : DOMAIN Packable]

PackedInit ==
    /\ use \in Uses
    /\ given = <<>>
    /\ vector = NoVector
    /\ caches = [of \in {0, 1, Number} |-> NoCache]
    /\ reply = <<>>
    /\ sink = NoSink

Runs(bits) == Cardinality({i \in DOMAIN bits : i = 1 \/ bits[i] # bits[i - 1]})

\* set at the end, as everywhere in the code, or beyond it.
AddBit(gap, bit) ==
    /\ use.kind \in {"bits", "select"} /\ sink.open
    /\ Len(given) + gap < (IF use.kind = "bits" THEN MaxBits ELSE MaxAsked)
    /\ vector' = SetBit(vector, vector.size + gap, bit)
    /\ given' = given \o [i \in 1..gap |-> 0] \o <<bit>>
    /\ Runs(given') <= MaxRuns
    /\ UNCHANGED <<use, caches, reply, sink>>

\* build or write; the vector is opened, and asked.
FinishBits ==
    /\ use.kind = "select" /\ sink.open /\ given # <<>>
    /\ vector' = Build(vector)
    /\ sink' = [sink EXCEPT !.open = FALSE]
    /\ UNCHANGED <<use, given, caches, reply>>

\* A question to the mapped vector goes through one of its caches.
AskVector(of, x, found) ==
    /\ caches' = [caches EXCEPT ![of] = Cached(@, x, found)]
    /\ reply' = [of |-> of, x |-> x, found |-> caches'[of][x % CacheSlots].found]
    /\ UNCHANGED <<use, given, vector, sink>>

Select(x, bit) ==
    /\ use.kind = "select" /\ ~ sink.open
    /\ x <= Len(SelectSeq(given, LAMBDA b : b = bit))
    /\ AskVector(bit, x, SelectIn(vector, x, bit))

PushPacked(value) ==
    /\ use.kind = "packed" /\ sink.open /\ Len(given) < MaxPacked
    /\ sink' = SinkWrite(use.size, sink, value)
    /\ given' = Append(given, value)
    /\ UNCHANGED <<use, vector, caches, reply>>

ClosePacked ==
    /\ use.kind = "packed" /\ sink.open
    /\ sink' = SinkClose(use.size, sink)
    /\ UNCHANGED <<use, given, vector, caches, reply>>

\* The values do not decrease: they are ends of parts of another vector.
PushCoded(value) ==
    /\ use.kind = "coded" /\ sink.open /\ Len(given) < MaxCoded
    /\ given # <<>> => value >= Last(given)
    /\ given' = Append(given, value)
    /\ Runs(given') <= MaxDifferent
    /\ UNCHANGED <<use, vector, caches, reply, sink>>

CloseCoded ==
    /\ use.kind = "coded" /\ sink.open /\ given # <<>>
    /\ sink' = [open |-> FALSE, code |-> VerticalCode(given)]
    /\ UNCHANGED <<use, given, vector, caches, reply>>

ReadCoded(pos) ==
    /\ use.kind = "coded" /\ ~ sink.open /\ Len(given) <= MaxAsked
    /\ AskVector(Number, pos, VerticalRead(sink.code, pos, 0))

PackedNext ==
    \/ \E gap \in 0..2, bit \in {0, 1} : AddBit(gap, bit)
    \/ FinishBits
    \/ \E x \in 1..MaxAsked, bit \in {0, 1} : Select(x, bit)
    \/ \E value \in UNION {Packable[n] : n \in DOMAIN Packable} :
         use.kind = "packed" /\ value \in Packable[use.size] /\ PushPacked(value)
    \/ ClosePacked
    \/ \E value \in Codable : PushCoded(value)
    \/ CloseCoded
    \/ \E pos \in 0..Len(given) - 1 : ReadCoded(pos)

HowMany(pos, bit) == Len(SelectSeq(SubSeq(given, 1, pos + 1), LAMBDA b : b = bit))

\* rank counts the bits up to a position, select finds the one of that number,
\* and none beyond the last one that is set, wherever the ends of blocks and of
\* totals fall (succinct_vector.hpp:299, 327 and 355); and what a mapped vector
\* answers from its caches is the answer to the question (succinct_vector.hpp:440).
RankSelectRight ==
    /\ use.kind = "bits" =>
         LET v == Build(vector)
         IN \A bit \in {0, 1}, pos \in 0..Len(given) - 1 :
              /\ Rank(v, pos, bit) = HowMany(pos, bit)
              /\ given[pos + 1] = bit => SelectIn(v, HowMany(pos, bit), bit) = pos
              /\ SelectIn(v, HowMany(Len(given) - 1, 1) + 1, 1) = None
    /\ use.kind = "select" /\ reply # <<>> =>
         /\ reply.found \in 0..Len(given) - 1
         /\ given[reply.found + 1] = reply.of
         /\ HowMany(reply.found, reply.of) = reply.x

\* What was written through a sink is read back, whatever was left in its buffers
\* when a part was written (packed_device.hpp:108, packed_vector.hpp:36).
PackedRight ==
    use.kind = "packed" /\ ~ sink.open =>
      \A pos \in 0..Len(given) - 1 :
        Decode(use.size, sink.file, sink.packed.index, pos) = given[pos + 1]

\* A vertical code has the values, in however many layers, tells where it ends, and
\* answers from its cache what was asked (vertical_coded_vector.hpp:143, 165, 302 and
\* 594).
CodedRight ==
    use.kind = "coded" /\ ~ sink.open =>
      /\ \A pos \in 0..Len(given) - 1 : VerticalRead(sink.code, pos, 0) = given[pos + 1]
      /\ VerticalRead(sink.code, Len(given), 0) = None
      /\ reply # <<>> => reply.found = given[reply.x + 1]

\* What is stored compactly is what was stored, at every boundary of blocks,
\* units and buffers (the three above).
PackedDataRight == RankSelectRight /\ PackedRight /\ CodedRight
=============================================================================
