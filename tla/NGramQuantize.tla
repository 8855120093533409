--------------------------- MODULE NGramQuantize ---------------------------
(* Quantization of a model (NGram::quantize and its reducer in              *)
(* expgram/NGram.cpp), here after it was read and printed.  A thread for    *)
(* each shard, or a process in expgram_quantize_mpi.cpp, which does the same *)
(* with its own shard and asks nobody, replaces each of its three files of   *)
(* values by a file of codes and a list of maps from codes to values, one    *)
(* map for every order.                                                      *)
EXTENDS NGramDump

CONSTANTS
    Codes,          \* the number of codes of one map: 256
    logprob_bos     \* the value that a model gives to the start of a sentence

ASSUME QuantizeAssumption ==
    /\ Codes \in Nat
    /\ Codes > 3
    /\ logprob_bos \in Int

VARIABLES
    codes,      \* codes[s][file]: the codes of the nodes, in their order
    maps        \* maps[s][file]: the maps of the orders 0, 1, ...

quantizeVars == <<dumpVars, codes, maps>>

-----------------------------------------------------------------------------
(* The codes of a table of values (expgram/Quantizer.hpp): the values of    *)
(* one order are sorted and cut into runs, and every run gets a code.  Zero *)
(* and the two values that stand for "none" get codes of their own.  What a *)
(* code decodes to, an average of its run, is left out: a code stands for   *)
(* its run, a set of values.                                                *)
(*                                                                          *)
(* A histogram is a function from the values that occur to their numbers.   *)

Exact == <<logprob_min, logprob_bos, 0>>

\* The exact values that occur, each a run of its own.
Exacts(hist) == SelectSeq(Exact, LAMBDA v : v \in DOMAIN hist)

\* How many codes the other values share.
AllCodes(hist) == Codes                             \* faulty Centers

Centers(hist) == Codes - Len(Exacts(hist))

SortedValues(vals) == SetToSortSeq(vals, <)

Rest(hist) == DOMAIN hist \ ToSet(Exact)

Negative(hist) == SortedValues({v \in Rest(hist) : v < 0})

Positive(hist) == SortedValues({v \in Rest(hist) : v > 0})

\* The negative values get their share of the codes; if there are positive
\* ones, a code is left to them.
CentersNegative(hist) ==
    LET negative == Len(Negative(hist))
        positive == Len(Positive(hist))
        share == (Centers(hist) * negative) \div (negative + positive)
    IN  IF positive = 0 THEN Centers(hist)
          ELSE IF share = Centers(hist) THEN share - 1 ELSE share

CentersPositive(hist) == Centers(hist) - CentersNegative(hist)

\* Where the run i of n runs of the values ends: the runs are of one length,
\* and the first ones of one more.
RunEnd(vals, n, i) ==
    LET interval == Len(vals) \div n
        left == Len(vals) - n * interval
    IN  i * interval + (IF i < left THEN i ELSE left)

\* The values cut into at most n runs.  Division by zero if there are values
\* but no runs.
Cut(vals, n) ==
    IF vals = << >> THEN << >>
    ELSE LET run(i) == ToSet(SubSeq(vals, RunEnd(vals, n, i - 1) + 1,
                                            RunEnd(vals, n, i)))
         IN  SelectSeq([i \in 1 .. n |-> run(i)], LAMBDA r : r # {})

\* Cut divides by the number of runs.
Divides(hist) == Negative(hist) = << >> \/ CentersNegative(hist) > 0

RunsOf(hist) ==
    [i \in DOMAIN Exacts(hist) |-> {Exacts(hist)[i]}]
        \o Cut(Negative(hist), CentersNegative(hist))
        \o Cut(Positive(hist), CentersPositive(hist))

Weight(hist, run) == FoldSet(LAMBDA v, n : hist[v] + n, 0, run)

\* The heaviest runs first, runs of one weight in their order.
ByWeight(hist, runs) ==
    LET heavier(i, j) ==
            \/ Weight(hist, runs[i]) > Weight(hist, runs[j])
            \/ Weight(hist, runs[i]) = Weight(hist, runs[j]) /\ i < j
        permuted(by) == [c \in DOMAIN by |-> runs[by[c]]]
    IN  permuted(SetToSortSeq(DOMAIN runs, heavier))

\* codebook[c + 1] is the run of code c.
codebook(hist) == ByWeight(hist, RunsOf(hist))

\* The code of a value.
codemap(book, v) == (CHOOSE c \in DOMAIN book : v \in book[c]) - 1

-----------------------------------------------------------------------------

File == {"logprobs", "backoffs", "logbounds"}

\* The value of node p in a file.
Valued(s, file, p) ==
    CASE file = "logprobs" -> logprobs[s][p]
      [] file = "backoffs" -> backoffs[s][p]
      [] file = "logbounds" -> logbounds[s][p]

\* Only log-probabilities have values for the last order.
Longest(file) == IF file = "logprobs" THEN Order ELSE Order - 1

OfOrder(s, n) == Positions(Offset(s, n - 1), Offset(s, n) - Offset(s, n - 1))

\* How often each value occurs among the n-grams of length n.
Histogram(s, file, n) ==
    LET all == Range(OfOrder(s, n))
    IN  [v \in {Valued(s, file, p) : p \in all} |->
            Cardinality({p \in all : Valued(s, file, p) = v})]

NoMap == << >>

First(s) == IF s = 0 THEN 1 ELSE 2

\* The orders of which the thread of s quantizes the values: unigrams are kept
\* by shard 0 only.
Orders(s, file) == First(s) .. Longest(file)

\* The maps before those of the orders that are quantized.
Placeholders(s, file) == IF s = 0 THEN <<NoMap>> ELSE <<NoMap, NoMap>>

Book(s, file, n) == codebook(Histogram(s, file, n))

\* The codes of the n-grams of one length.
CodesOfOrder(s, file, n) ==
    [i \in DOMAIN OfOrder(s, n) |->
        codemap(Book(s, file, n), Valued(s, file, OfOrder(s, n)[i]))]

CodesOfShard(s, file) ==
    FlattenSeq([k \in 1 .. Cardinality(Orders(s, file)) |->
        CodesOfOrder(s, file, First(s) + k - 1)])

MapsOfShard(s, file) ==
    Placeholders(s, file) \o [k \in 1 .. Cardinality(Orders(s, file)) |->
        Book(s, file, First(s) + k - 1)]

\* A division by zero would end the program.
Quantize(s) ==
    /\ phase = "quantize"
    /\ codes[s] = << >>
    /\ \A file \in File : \A n \in Orders(s, file) :
          Divides(Histogram(s, file, n))
    /\ codes' = [codes EXCEPT ![s] = [file \in File |-> CodesOfShard(s, file)]]
    /\ maps' = [maps EXCEPT ![s] = [file \in File |-> MapsOfShard(s, file)]]
    /\ UNCHANGED dumpVars

QuantizeInit ==
    /\ DumpInit
    /\ codes = [s \in Shard |-> << >>]
    /\ maps = [s \in Shard |-> << >>]

StartQuantize ==
    /\ Dumped
    /\ phase' = "quantize"
    /\ UNCHANGED <<vars, order, nodes, values, dump, codes, maps>>

\* The threads are joined.
Quantized == phase = "quantize" /\ \A s \in Shard : codes[s] # << >>

QuantizeNext ==
    \/ DumpNext /\ UNCHANGED <<codes, maps>>
    \/ StartQuantize
    \/ \E s \in Shard : Quantize(s)
    \/ Quantized /\ UNCHANGED quantizeVars

QuantizeSpec == QuantizeInit /\ [][QuantizeNext]_quantizeVars

-----------------------------------------------------------------------------

\* What a lookup finds for node p: the run of values of its code in the map of
\* its length.  Files start at the first node whose value they keep.
Decoded(s, file, p) ==
    maps[s][file][Len(Ngram(s, p)) + 1][codes[s][file][p - BoundOffset(s) + 1] + 1]

\* A map uses no more codes than there are; it wastes none while values share a
\* code; values that share one are neighbours; no two codes of one sign differ
\* by more than one in the number of their values; the codes that stand for more
\* nodes are smaller.
MapRight(hist, book) ==
    LET exact == {0, logprob_min, logprob_bos}
        signed(sign) == {c \in DOMAIN book : \A v \in book[c] \ exact : v < 0 <=> sign}
        single == {c \in DOMAIN book : book[c] \subseteq exact}
    IN  /\ Len(book) <= Codes
        /\ (\E c \in DOMAIN book : Cardinality(book[c]) > 1) => Len(book) = Codes
        /\ \A c, d \in DOMAIN book : c # d =>
              /\ book[c] \intersect book[d] = {}
              /\ \A u, v \in book[c] : \A w \in book[d] \ exact : ~ (u < w /\ w < v)
        /\ \A sign \in BOOLEAN : \A c, d \in signed(sign) \ single :
              Cardinality(book[c]) <= Cardinality(book[d]) + 1
        /\ \A c, d \in DOMAIN book : c < d =>
              Weight(hist, book[c]) >= Weight(hist, book[d])

\* Every map is as small and as fair as that, and codes and maps of the orders
\* stay aligned: each node's value is one of those that its code in the map of
\* its order stands for, with no value of the other sign, and zero and the two
\* values that stand for "none" are exact.
QuantizedRight ==
    \A s \in Shard : codes[s] # << >> =>
        \A file \in File :
          /\ \A p \in BoundOffset(s) .. Offset(s, Longest(file)) - 1 :
                LET value == Valued(s, file, p)
                    run == Decoded(s, file, p)
                IN  /\ value \in run
                    /\ value \in {0, logprob_min, logprob_bos} => run = {value}
                    /\ \A v \in run : v < 0 <=> value < 0
          /\ \A n \in Orders(s, file) :
                MapRight(Histogram(s, file, n), maps[s][file][n + 1])
=============================================================================
