------------------------------ MODULE LowOrders ------------------------------
(* The estimation before its higher orders: how many n-grams have each       *)
(* count, the discounts that follow (Discount.hpp), the unigrams, and the     *)
(* bigrams; by threads (NGramCounts::estimate) or, up to the unigrams, by     *)
(* processes (expgram_counts_estimate_mpi.cpp).                               *)
(*                                                                            *)
(* Probabilities are exact fractions.  A difference that is exactly zero may  *)
(* come out as positive in the code's floating-point numbers, and does so or  *)
(* not here; the log-probability -99 of the start of a sentence counts as     *)
(* the probability zero.                                                      *)
EXTENDS Integers, FiniteSets, SequencesExt

CONSTANTS
    LowShard,       \* the shards 0, 1, ..., each with a thread or a process
    Start,          \* "<s>"
    Unknown,        \* "<UNK>"
    LowHome,        \* LowHome[g]: the shard of bigram g
    Corpora,        \* the counts looked at
    Remains,        \* what three integers may hold that nobody has set
    MaxRounds       \* bound: how often the unigrams or a context are estimated

ASSUME LowAssumption ==
    /\ LowShard = 0..Cardinality(LowShard) - 1
    /\ \A c \in Corpora : DOMAIN c.types = DOMAIN c.counts

VARIABLES
    corpus,         \* words by identifiers, and types and counts of the n-grams;
                    \* longest: the order of the index
    way,            \* by: threads or processes; remove_unk
    at,             \* at[p]: what thread or process p does
    tally,          \* tally[p]: count_of_counts of the shard
    wire,           \* wire[p]: what process p has broadcast
    turn,           \* turn[p]: whose broadcast is next for process p
    merged,         \* merged[p]: count_of_counts of all shards
    discounts,
    probs, probBounds,    \* of the n-grams that have one
    weights,        \* of the contexts that have one; the others' is 1
    smoothed,         \* what a word has that is not in the vocabulary
    context         \* context[p]: pos_context

lowVars == <<corpus, way, at, tally, wire, turn, merged, discounts,
             probs, probBounds, weights, smoothed, context>>

-----------------------------------------------------------------------------
(* Fractions, with positive denominators.                                    *)

RECURSIVE Gcd(_, _)
Gcd(m, n) == IF n = 0 THEN m ELSE Gcd(n, m % n)

Ratio(n, d) ==
    LET g == Gcd(IF n < 0 THEN -n ELSE n, d) IN [n |-> n \div g, d |-> d \div g]

None == Ratio(-1, 1)
Zero == Ratio(0, 1)
One == Ratio(1, 1)

Plus(x, y) ==
    LET g == Gcd(x.d, y.d)
    IN Ratio(x.n * (y.d \div g) + y.n * (x.d \div g), x.d * (y.d \div g))

Minus(x, y) == Plus(x, [y EXCEPT !.n = -@])

Times(x, y) ==
    LET a == Ratio(x.n, y.d)
        b == Ratio(y.n, x.d)
    IN [n |-> a.n * b.n, d |-> a.d * b.d]

\* y is positive.
Over(x, y) == Times(x, [n |-> y.d, d |-> y.n])

SumOf(f) == FoldFunction(Plus, Zero, f)

\* Rounding may make a zero positive.
ComesOutPositive(x, rounded) == x.n > 0 \/ (x.n = 0 /\ rounded)

-----------------------------------------------------------------------------
(* Counts of counts.                                                         *)

\* The n-grams of order n that count, in the nodes of shard s; every shard has
\* the unigrams, but only shard 0 has their counts.
FromUnigrams(s, values, n) ==                       \* faulty Counting
    {g \in DOMAIN values :
        /\ Len(g) = n /\ values[g] > 0
        /\ n = 2 => LowHome[g] = s /\ ~ (way.removed /\ g[2] = Unknown)}

Counting(s, values, n) ==
    {g \in DOMAIN values :
        /\ Len(g) = n /\ values[g] > 0
        /\ n = 1 => s = 0
        /\ n = 2 => LowHome[g] = s /\ ~ (way.removed /\ g[2] = Unknown)}

HowOften(values, ngrams) ==
    [count \in {values[g] : g \in ngrams} |-> Cardinality({g \in ngrams : values[g] = count})]

CountsOfCounts(s) ==
    [of \in {"types", "counts"} |->
        [n \in 1..2 |-> HowOften(corpus[of], Counting(s, corpus[of], n))]]

Added(x, y) == [of \in {"types", "counts"} |-> [n \in 1..2 |-> x[of][n] (+) y[of][n]]]

NoCounts == [of \in {"types", "counts"} |-> [n \in 1..2 |-> EmptyBag]]

-----------------------------------------------------------------------------
(* Discount.                                                                 *)

\* estimate: three discounts if there are four counts, one if there are two;
\* without, what the members hold remains in them.
Discount(histogram, left) ==
    LET count == SetToSortSeq(DOMAIN histogram, <)
        n(i) == histogram[count[i]]
        y == Ratio(n(1), n(1) + 2 * n(2))
        Less(i) == Minus(Ratio(i, 1), Times(y, Ratio((i + 1) * n(i + 1), n(i))))
    IN CASE Len(count) < 2 ->
              [modified |-> FALSE, by |-> <<None, None, None>>, mincount |-> left]
         [] Len(count) \in 2..3 ->
              [modified |-> FALSE, by |-> <<y, None, None>>,
               mincount |-> <<count[1], count[2], left[3]>>]
         [] OTHER ->
              [modified |-> TRUE, by |-> <<Less(1), Less(2), Less(3)>>,
               mincount |-> SubSeq(count, 1, 3)]

\* Otherwise Witten-Bell smoothing.
KneserNey(d) ==
    \A i \in 1..IF d.modified THEN 3 ELSE 1 : d.by[i].n >= 0

\* The events of a context: their sum and number, and how many of them have at
\* least the second and the third count.
Events(d, values, ngrams) ==
    [total |-> FoldFunction(+, 0, [g \in ngrams |-> values[g]]),
     observed |-> Cardinality(ngrams),
     min2 |-> Cardinality({g \in ngrams : values[g] >= d.mincount[2]}),
     min3 |-> Cardinality({g \in ngrams : values[g] >= d.mincount[3]})]

lower_order_weight(d, e) ==
    CASE KneserNey(d) /\ d.modified /\ d.by[3].n > 0 ->
           Over(Plus(Times(d.by[1], Ratio(e.observed - e.min2, 1)),
                     Plus(Times(d.by[2], Ratio(e.min2 - e.min3, 1)),
                          Times(d.by[3], Ratio(e.min3, 1)))),
                Ratio(e.total, 1))
      [] KneserNey(d) /\ ~ d.modified ->
           Times(d.by[1], Ratio(e.observed, e.total))
      [] OTHER -> Ratio(e.observed, e.total + e.observed)

\* discount, times the relative frequency.
Discounted(d, e, count) ==
    LET i == CASE d.modified /\ count = d.mincount[1] -> 1
               [] d.modified /\ count = d.mincount[2] -> 2
               [] d.modified /\ count > d.mincount[2] -> 3
               [] OTHER -> 1
    IN CASE ~ (KneserNey(d) /\ d.modified) /\ count < d.mincount[1] -> Zero
         [] KneserNey(d) /\ ~ (~ d.modified /\ count < d.mincount[1]) ->
              Over(Minus(Ratio(count, 1), d.by[i]), Ratio(e.total, 1))
         [] OTHER -> Ratio(count, e.total + e.observed)

Combined(d, e, count, lower) ==
    Plus(Discounted(d, e, count), Times(lower_order_weight(d, e), lower))

\* The probabilities with the least total, from the sum of the counts on, for
\* which they sum up to less than one.
Estimated(d, values, ngrams, lower, rounded) ==
    LET events == Events(d, values, ngrams)
        tried == [k \in 0..MaxRounds |-> [g \in ngrams |->
                    Combined(d, [events EXCEPT !.total = @ + k], values[g], lower[g])]]
        Enough(k) == ComesOutPositive(Minus(One, SumOf(tried[k])), rounded)
    IN tried[CHOOSE k \in 0..MaxRounds : Enough(k) /\ \A j \in 0..k - 1 : ~ Enough(j)]

-----------------------------------------------------------------------------
(* The steps.                                                                *)

Goes(p, label) == at' = [at EXCEPT ![p] = label]

LowInit ==
    /\ corpus \in Corpora
    /\ way \in [by : {"threads", "processes"}, removed : BOOLEAN]
    /\ at = [p \in LowShard |-> "count"]
    /\ tally = [p \in LowShard |-> NoCounts]
    /\ wire = [p \in LowShard |-> NoCounts]
    /\ turn = [p \in LowShard |-> 0]
    /\ merged = [p \in LowShard |-> NoCounts]
    /\ discounts = <<>>
    /\ probs = <<>>
    /\ probBounds = <<>>
    /\ weights = <<>>
    /\ smoothed = None
    /\ context = [p \in LowShard |-> 0]

Count(p) ==
    /\ at[p] = "count"
    /\ tally' = [tally EXCEPT ![p] = CountsOfCounts(p)]
    /\ merged' = [merged EXCEPT ![p] = IF way.by = "processes" THEN tally'[p] ELSE @]
    /\ Goes(p, "merge")
    /\ UNCHANGED <<corpus, way, wire, turn, discounts, probs, probBounds, weights, smoothed, context>>

\* The main thread, which is that of shard 0 here, joins the threads in the order
\* of the shards and adds up what they have counted.
Join(p) ==
    /\ way.by = "threads"
    /\ turn[0] = p /\ at[p] = "merge"
    /\ merged' = [merged EXCEPT ![0] = Added(@, tally[p])]
    /\ turn' = [turn EXCEPT ![0] = p + 1]
    /\ UNCHANGED <<corpus, way, at, tally, wire, discounts, probs, probBounds, weights, smoothed, context>>

\* merge_count_of_counts: everyone broadcasts in turn what it has itself.
SendsMerged(p) == merged[p]                         \* faulty Mapped

Mapped(p) == tally[p]

Broadcast(p) ==
    /\ way.by = "processes" /\ at[p] = "merge" /\ turn[p] = p
    /\ wire' = [wire EXCEPT ![p] = Mapped(p)]
    /\ turn' = [turn EXCEPT ![p] = p + 1]
    /\ UNCHANGED <<corpus, way, at, tally, merged, discounts, probs, probBounds, weights, smoothed, context>>

Receive(p, root) ==
    /\ way.by = "processes" /\ at[p] = "merge" /\ turn[p] = root /\ root # p
    /\ turn[root] > root
    /\ merged' = [merged EXCEPT ![p] = Added(@, wire[root])]
    /\ turn' = [turn EXCEPT ![p] = root + 1]
    /\ UNCHANGED <<corpus, way, at, tally, wire, discounts, probs, probBounds, weights, smoothed, context>>

AllMerged(p) == at[p] = "merge" /\ turn[p] = Cardinality(LowShard)

\* A process computes its own; the threads share those of the program.
EstimateDiscounts(p, left) ==
    /\ AllMerged(p)
    /\ discounts' = [q \in DOMAIN discounts \cup {p} |->
          IF q # p THEN discounts[q]
          ELSE [of \in {"types", "counts"} |-> [n \in 1..2 |-> Discount(merged[p][of][n], left)]]]
    /\ Goes(p, "unigrams")
    /\ UNCHANGED <<corpus, way, tally, wire, turn, merged, probs, probBounds, weights, smoothed, context>>

LowWords == ToSet(corpus.words)

LowUnigrams == {<<w>> : w \in LowWords \ {Start}}

\* What is observed of the unigrams; the others but the start are zero events.
ObservedUnigrams(values) ==
    {g \in LowUnigrams : values[g] > 0 /\ ~ (way.removed /\ g[1] = Unknown)}

WithStart(values) ==                                \* faulty ZeroEvents
    {<<w>> : w \in LowWords} \ ObservedUnigrams(values)

ZeroEvents(values) == LowUnigrams \ ObservedUnigrams(values)

EstimateUnigrams(rounded) ==
    LET observed == ObservedUnigrams(corpus.types)
        raw == ObservedUnigrams(corpus.counts)
        zero == ZeroEvents(corpus.types)
        uniform == Ratio(1, Cardinality(observed))
        counted == Estimated(discounts[0].types[1], corpus.types, observed,
                             [g \in observed |-> uniform], rounded)
        share == Over(Minus(One, SumOf(counted)), Ratio(Cardinality(zero), 1))
        d == discounts[0].counts[1]
        events == Events(d, corpus.counts, raw)
    IN /\ at[0] = "unigrams" /\ 0 \in DOMAIN discounts
       /\ probs' = (<<Start>> :> Zero) @@
                  (IF zero # {} THEN counted @@ [g \in zero |-> share]
                   ELSE [g \in observed |-> Over(counted[g], SumOf(counted))])
       /\ smoothed' = CASE <<Unknown>> \in observed /\ zero # {} -> counted[<<Unknown>>]
                      [] <<Unknown>> \in observed /\ zero = {} -> probs'[<<Unknown>>]
                      [] <<Unknown>> \notin observed /\ zero # {} -> share
                      [] OTHER -> uniform
       /\ probBounds' = [g \in raw |-> Combined(d, events, corpus.counts[g], uniform)]
       /\ at' = [p \in LowShard |-> IF way.by = "threads" THEN "bigrams"
                                    ELSE IF p = 0 THEN "done" ELSE at[p]]
       /\ UNCHANGED <<corpus, way, tally, wire, turn, merged, discounts, weights, context>>

\* The broadcasts of the unigrams; processes go on to the bigrams from here.
ReceiveUnigrams(p) ==
    /\ way.by = "processes" /\ p # 0 /\ at[p] = "unigrams" /\ at[0] = "done"
    /\ Goes(p, "done")
    /\ UNCHANGED <<corpus, way, tally, wire, turn, merged, discounts, probs, probBounds, weights,
                   smoothed, context>>

\* The children of a word that count; "<UNK>" is a zero event if it is removed.
Followers(word, values) ==
    {g \in DOMAIN values : Len(g) = 2 /\ g[1] = word /\ values[g] > 0
                           /\ ~ (way.removed /\ g[2] = Unknown)}

Lower(ngrams) == [g \in ngrams |-> probs[<<g[2]>>]]

\* A context with its children.  The bounds are of use for longer n-grams only.
EstimateContext(word, rounded, restRounded) ==
    LET children == Followers(word, corpus.types)
        raw == IF corpus.longest > 2 THEN Followers(word, corpus.counts) ELSE {}
        counted == Estimated(discounts[0].types[2], corpus.types, children,
                             Lower(children), rounded)
        numerator == Minus(One, SumOf(counted))
        denominator == Minus(One, SumOf(Lower(children)))
        d == discounts[0].counts[2]
        events == Events(d, corpus.counts, raw)
    IN /\ probBounds' = [g \in raw |-> Combined(d, events, corpus.counts[g], Lower(raw)[g])] @@ probBounds
       /\ IF children = {} THEN UNCHANGED <<probs, weights>>
          ELSE IF ComesOutPositive(denominator, restRounded)
          THEN /\ probs' = counted @@ probs
               /\ weights' = (word :> IF denominator.n = 0 THEN [n |-> 1, d |-> 0]
                                      ELSE Over(numerator, denominator)) @@ weights
          ELSE /\ probs' = [g \in children |-> Over(counted[g], SumOf(counted))] @@ probs
               /\ UNCHANGED weights

\* A thread takes the contexts of its shard, and writes in all shards.
EstimateBigrams(p, rounded, restRounded) ==
    /\ at[p] = "bigrams" /\ context[p] < Len(corpus.words)
    /\ IF context[p] % Cardinality(LowShard) = p
       THEN EstimateContext(corpus.words[context[p] + 1], rounded, restRounded)
       ELSE UNCHANGED <<probs, probBounds, weights>>
    /\ context' = [context EXCEPT ![p] = @ + 1]
    /\ UNCHANGED <<corpus, way, at, tally, wire, turn, merged, discounts, smoothed>>

EndBigrams(p) ==
    /\ at[p] = "bigrams" /\ context[p] = Len(corpus.words)
    /\ Goes(p, "done")
    /\ UNCHANGED <<corpus, way, tally, wire, turn, merged, discounts, probs, probBounds, weights,
                   smoothed, context>>

AllDone == \A p \in LowShard : at[p] = "done"

LowNext ==
    \/ \E p \in LowShard :
         \/ Count(p) \/ Join(p) \/ Broadcast(p) \/ ReceiveUnigrams(p) \/ EndBigrams(p)
         \/ \E root \in LowShard : Receive(p, root)
         \/ \E left \in Remains : EstimateDiscounts(p, left)
         \/ \E rounded, restRounded \in BOOLEAN : EstimateBigrams(p, rounded, restRounded)
    \/ \E rounded \in BOOLEAN : EstimateUnigrams(rounded)

-----------------------------------------------------------------------------

\* Whoever estimates discounts does so from the counts of all n-grams, each of
\* them counted once: unigrams are in every shard, and what is broadcast is added
\* up by all (NGramCounts.cpp:410, expgram_counts_estimate_mpi.cpp:290).
DiscountsRight ==
    \A p \in DOMAIN discounts, of \in {"types", "counts"}, n \in 1..2 :
        merged[p][of][n] =
          HowOften(corpus[of], {g \in DOMAIN corpus[of] :
              /\ Len(g) = n /\ corpus[of][g] > 0
              /\ n = 2 => ~ (way.removed /\ g[2] = Unknown)})

\* The unigrams sum up to one, and a word that is not in the vocabulary gets what
\* "<UNK>" gets; behind every word the words that were counted there and what is
\* backed off to the others sum up to one, and to no more if there is no other,
\* whatever the discounts are and however often they had to be applied
\* (NGramCounts.cpp:618 and 1057).
SumsToOne ==
    /\ smoothed # None =>
         /\ SumOf([g \in LowUnigrams |-> probs[g]]) = One
         /\ Unknown \in LowWords => smoothed = probs[<<Unknown>>]
    /\ AllDone /\ way.by = "threads" =>
         \A word \in LowWords :
           LET children == Followers(word, corpus.types)
               others == {g \in LowUnigrams : probs[g].n > 0 /\ <<word, g[1]>> \notin children}
               left == Minus(One, SumOf([g \in children |-> probs[g]]))
           IN IF others = {} THEN left.n >= 0
              ELSE /\ word \in DOMAIN weights \/ children = {}
                   /\ children # {} =>
                        left = Times(weights[word], SumOf([g \in others |-> probs[g]]))
=============================================================================
