------------------------- MODULE NGramCountsModify -------------------------
(* Kneser-Ney's modified counts (NGramCounts::modify and its mapper and     *)
(* reducer in expgram/NGramCounts.cpp): an n-gram of a lower order counts   *)
(* the different words seen before it, and one that starts a sentence,      *)
(* which nothing precedes, keeps the count of the corpus.                   *)
(*                                                                          *)
(* The threads and queues are those of MapReduce, with a mapper and a       *)
(* reducer for each shard; this module says what is pushed and what is done *)
(* with it.                                                                 *)
EXTENDS NGramIndex, MapReduce, SequencesExt

CONSTANTS
    Bos,        \* the word that starts a sentence
    counts      \* counts[s][p]: the count in the corpus of node p

ASSUME ModifyAssumption ==
    /\ Shard = 0 .. Cardinality(Shard) - 1
    /\ Bos \in Word
    /\ \A s \in Shard : counts[s] \in [Pos(s) -> Nat]

VARIABLES
    counts_modified,    \* counts_modified[s]: the sums of the reducer of s
    types               \* types[s]: what it has written, << >> until then

-----------------------------------------------------------------------------
(* The mapper.                                                              *)

Message(g, count) == [to |-> shard_index(g), context |-> g, count |-> count]

StaysHome(s, g) == [to |-> s, context |-> Tail(g), count |-> 1]     \* faulty Preceded

\* The n-gram without its first word has been seen after one more word.
Preceded(s, g) == Message(Tail(g), 1)

OfAnyOrder(g) == g[1] = Bos                         \* faulty KeepsCount

KeepsCount(g) == g[1] = Bos /\ Len(g) # Order

\* What the mapper pushes for node p, in this order.
Pushed(s, p) ==
    LET g == Ngram(s, p)
    IN  (IF Len(g) > 2 THEN <<Preceded(s, g)>> ELSE << >>)
        \o (IF KeepsCount(g) THEN <<Message(g, counts[s][p])>> ELSE << >>)

\* The start of a sentence gets its count from the mapper of shard 0, on its
\* way through the bigrams of that shard.
BosCount(s) ==
    IF s = 0 /\ Children(s, Find(s, <<Bos>>)) # {}
      THEN counts[0][Find(0, <<Bos>>)] ELSE 0

\* The local counts of the unigrams, by identifier.
Unigram(s, id) ==
    LET w == Ngram(s, id)[1]
    IN  Cardinality({p \in Pos(s) : Len(Ngram(s, p)) = 2 /\ LastWord(Ngram(s, p)) = w})
        + (IF w = Bos THEN BosCount(s) ELSE 0)

Messages(s) ==
    LET longer == [i \in 1 .. Size(s) - Offset(s, 1) |-> Pushed(s, Offset(s, 1) + i - 1)]
        NonZero(count, g) == IF count # 0 THEN <<Message(g, count)>> ELSE << >>
        unigrams == [i \in 1 .. Offset(s, 1) |-> NonZero(Unigram(s, i - 1), Ngram(s, i - 1))]
    IN  FlattenSeq(longer \o unigrams)

Output == [s \in Shard |-> Messages(s)]

Targets == [s \in Shard |-> [i \in 1 .. Len(Output[s]) |-> Output[s][i].to]]

ASSUME ThreadsAssumption ==
    Mapper = Shard /\ Reducers = Cardinality(Shard) /\ To = Targets

-----------------------------------------------------------------------------
(* The reducer.                                                             *)

\* Only shard 0 keeps counts of the unigrams.
CountsOffset(s) == IF s = 0 THEN 0 ELSE Offset(s, 1)

\* The positions of a shard are those of its nodes that have children.
position_size(s) == Offset(s, Order - 1)

ModifyInit ==
    /\ Init
    /\ counts_modified = [s \in Shard |->
          [p \in CountsOffset(s) .. position_size(s) - 1 |-> 0]]
    /\ types = [s \in Shard |-> << >>]

modifyVars == <<vars, counts_modified, types>>

ModifyMap(s) == Map(s) /\ UNCHANGED <<counts_modified, types>>

Received(item) == Output[item.from][item.index]

PopEmpty(s) ==
    /\ Pop(s)
    /\ IsEmpty(Head(queue[s]))
    /\ UNCHANGED <<counts_modified, types>>

Overwrite(s, p, n) == [counts_modified EXCEPT ![s][p] = n]      \* faulty Plus

Plus(s, p, n) == [counts_modified EXCEPT ![s][p] = @ + n]

PopKnown(s) ==
    /\ Pop(s)
    /\ ~ IsEmpty(Head(queue[s]))
    /\ LET message == Received(Head(queue[s]))
       IN  /\ Has(s, message.context)
           /\ counts_modified' = Plus(s, Find(s, message.context), message.count)
    /\ UNCHANGED types

\* A context that is not in the index is dropped with a warning.
PopUnknown(s) ==
    /\ Pop(s)
    /\ ~ IsEmpty(Head(queue[s]))
    /\ ~ Has(s, Received(Head(queue[s])).context)
    /\ UNCHANGED <<counts_modified, types>>

\* The sums are written, and after them the counts of the last order.
Write(s) ==
    /\ Stop(s)
    /\ types' = [types EXCEPT ![s] = [p \in CountsOffset(s) .. Size(s) - 1 |->
          IF p < position_size(s) THEN counts_modified[s][p] ELSE counts[s][p]]]
    /\ UNCHANGED counts_modified

ModifyReduce(s) == PopEmpty(s) \/ PopKnown(s) \/ PopUnknown(s) \/ Write(s)

ModifyNext ==
    \/ \E s \in Shard : ModifyMap(s)
    \/ \E s \in Shard : ModifyReduce(s)
    \/ Joined /\ UNCHANGED modifyVars

ModifySpec == ModifyInit /\ [][ModifyNext]_modifyVars

-----------------------------------------------------------------------------

\* A context that is counted has a place in the sums of its reducer: none
\* of the last order and no unigram outside shard 0 arrives.
InsideCounts ==
    \A s \in Shard : \A i \in 1 .. Len(queue[s]) :
        ~ IsEmpty(queue[s][i]) =>
            LET g == Received(queue[s][i]).context
            IN  Has(s, g) => Find(s, g) \in DOMAIN counts_modified[s]

Ngrams == UNION {{Ngram(s, p) : p \in Pos(s)} : s \in Shard}

\* Does shard 0 have a bigram that starts a sentence?  Without one the unigram
\* that starts a sentence is left with no count.
BosReached == Children(0, Find(0, <<Bos>>)) # {}

Modified(s, p) ==
    LET g == Ngram(s, p)
        preceding == Cardinality({h \in Ngrams : Tail(h) = g})
    IN  CASE Len(g) = Order -> counts[s][p]
          [] Len(g) # Order /\ g[1] = Bos /\ (Len(g) > 1 \/ BosReached) ->
                preceding + counts[s][p]
          [] OTHER -> preceding

\* Whatever way the messages of the mappers mix, the counts that are written
\* are the definition's, and its sums are when the reducer has heard of the end
\* of all mappers: each n-gram of a lower order was counted once for each
\* different word before it, over all the shards, one that starts a sentence
\* with its count, and the last order is copied.
ModifiedCounts ==
    /\ \A s \in Shard :
          AllEnded(s) => \A p \in DOMAIN counts_modified[s] :
              counts_modified[s][p] = Modified(s, p)
    /\ \A s \in stopped : types[s] = [p \in CountsOffset(s) .. Size(s) - 1 |-> Modified(s, p)]
=============================================================================
