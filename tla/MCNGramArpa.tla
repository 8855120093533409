---------------------------- MODULE MCNGramArpa ----------------------------
(* A small file of 4-grams, whose n-grams are stored with their words       *)
(* reversed in two shards.  Its values tell the n-grams apart and give a    *)
(* quantizer of four codes more values than codes, some of both signs.  The *)
(* greatest is that of a bigram which does not start a sentence and so must *)
(* raise no bound.                                                          *)
(*                                                                          *)
(* Beside it models are estimated up to their bigrams, and the steps of     *)
(* expgram.py are run.                                                      *)
EXTENDS NGramScorer, LowOrders, Pipeline

VARIABLE kind       \* what is done: "arpa", "estimate" or "pipeline"

Minimum == -120

Bos99 == -99

ArpaWords == {"<s>", "a", "b", "c", "d"}

\* Bigrams that end in "a" after "<s>", in "b" after "a" or "d", or in "d" after
\* "b", reversed.
ArpaHome == [pair \in ArpaWords \X ArpaWords |->
    IF pair \in {<<"a", "<s>">>, <<"b", "a">>, <<"b", "d">>, <<"d", "b">>} THEN 0 ELSE 1]

L(words, prob, backoff) == [words |-> words, prob |-> prob, backoff |-> backoff]

\* Not listed are "a d" and "b a d", in which the last line ends.
ArpaFile == <<
    L(<<"<s>">>, -99, -7), L(<<"d">>, -9, 3), L(<<"a">>, -5, 2), L(<<"b">>, -5, -3),
    L(<<"c">>, -7, -4),
    L(<<"<s>", "b">>, -8, -1), L(<<"a", "b">>, -1, -2), L(<<"<s>", "a">>, -4, 0),
    L(<<"d", "b">>, -2, 1), L(<<"<s>", "c">>, -3, 0), L(<<"b", "c">>, -6, 5),
    L(<<"b", "a">>, -7, -5), L(<<"c", "b">>, -9, 2), L(<<"b", "d">>, -4, 0),
    L(<<"a", "b", "a">>, -3, 4), L(<<"<s>", "a", "b">>, -6, 0),
    L(<<"b", "a", "b">>, -4, -2), L(<<"d", "b", "a">>, -5, 1), L(<<"c", "b", "a">>, -2, -1),
    L(<<"d", "b", "a", "b">>, -2, 0), L(<<"c", "b", "a", "d">>, -3, 0) >>

ArpaSpelling == "<s>" :> 0 @@ "a" :> 1 @@ "b" :> 2 @@ "c" :> 3 @@ "d" :> 4

Unigram5 == << <<"a">>, <<"b">>, <<"c">>, <<"d">>, <<"<s>">> >>

ArpaNodes ==
    0 :> Unigram5 \o << <<"a", "<s>">>, <<"b", "a">>, <<"b", "d">>, <<"d", "b">>,
                     <<"b", "a", "b">>, <<"b", "a", "<s>">>, <<"b", "a", "b", "d">> >>
    @@ 1 :> Unigram5 \o << <<"a", "b">>, <<"b", "c">>, <<"b", "<s>">>, <<"c", "b">>,
                        <<"c", "<s>">>, <<"d", "a">>, <<"a", "b", "a">>, <<"a", "b", "c">>,
                        <<"a", "b", "d">>, <<"d", "a", "b">>, <<"d", "a", "b", "c">> >>

FromZero(seq) == [p \in 0 .. Len(seq) - 1 |-> seq[p + 1]]

ArpaLogprobs ==
    0 :> FromZero(<<-5, -5, -7, -9, -99, -4, -1, -2, -4, -4, -6, -2>>)
    @@ 1 :> FromZero(<<0, 0, 0, 0, 0, -7, -9, -8, -6, -3, Minimum,
                         -3, -2, -5, Minimum, -3>>)

ArpaBackoffs ==
    0 :> FromZero(<<2, -3, -4, 3, -7, 0, -2, 1, 0, -2, 0>>)
    @@ 1 :> FromZero(<<0, 0, 0, 0, 0, -5, 2, -1, 5, 0, 0, 4, -1, 1, 0>>)

-----------------------------------------------------------------------------
(* A model of bigrams in two shards.  What comes before "b" is in shard 1   *)
(* only.                                                                    *)

BigramWords == {"<s>", "a", "b"}

BigramHome == [pair \in BigramWords \X BigramWords |-> IF pair[1] = "a" THEN 0 ELSE 1]

BigramFile == <<
    L(<<"<s>">>, -99, -7), L(<<"a">>, -5, -2), L(<<"b">>, -5, -1),
    L(<<"<s>", "a">>, -4, 0), L(<<"<s>", "b">>, -8, 0), L(<<"a", "b">>, -1, 0) >>

BigramSpelling == "<s>" :> 0 @@ "a" :> 1 @@ "b" :> 2

Unigram3 == << <<"a">>, <<"b">>, <<"<s>">> >>

BigramNodes ==
    0 :> Unigram3 \o << <<"a", "<s>">> >>
    @@ 1 :> Unigram3 \o << <<"b", "a">>, <<"b", "<s>">> >>

BigramLogprobs ==
    0 :> FromZero(<<-5, -5, -99, -4>>) @@ 1 :> FromZero(<<0, 0, 0, -1, -8>>)

BigramBackoffs ==
    0 :> FromZero(<<-2, -1, -7>>) @@ 1 :> FromZero(<<0, 0, 0>>)

-----------------------------------------------------------------------------
(* Counts in two shards.  In the first all four counts of bigrams occur and *)
(* give modified Kneser-Ney discounts, in the second one of them is below   *)
(* zero; the third has two counts, and the fourth one, with a context that  *)
(* is followed by every word.  "c" is a word that nobody has counted, and   *)
(* the last vocabulary has no "<unk>".                                      *)

\* An n-gram, the number of words before it, and its count.
N(ngram, type, count) == [ngram |-> ngram, type |-> type, count |-> count]

Of(words, longest, ngrams) ==
    LET is(g) == CHOOSE n \in ngrams : n.ngram = g
        all == {n.ngram : n \in ngrams}
    IN [words |-> words, longest |-> longest,
        types |-> [g \in all |-> is(g).type], counts |-> [g \in all |-> is(g).count]]

SmallCorpora == {
    Of(<<"<s>", "<unk>", "a", "b", "c">>, 2,
       {N(<<"<s>">>, 3, 3), N(<<"<unk>">>, 1, 2), N(<<"a">>, 3, 8), N(<<"b">>, 2, 5), N(<<"c">>, 0, 0),
        N(<<"<s>", "a">>, 1, 1), N(<<"a", "a">>, 3, 3), N(<<"b", "a">>, 4, 4), N(<<"a", "<unk>">>, 2, 2),
        N(<<"a", "b">>, 2, 2), N(<<"b", "b">>, 3, 3)}),
    Of(<<"<s>", "<unk>", "a", "b">>, 3,
       {N(<<"<s>">>, 2, 2), N(<<"<unk>">>, 1, 4), N(<<"a">>, 3, 8), N(<<"b">>, 4, 10),
        N(<<"<s>", "a">>, 1, 1), N(<<"<s>", "b">>, 2, 2), N(<<"a", "a">>, 3, 3), N(<<"a", "b">>, 4, 4),
        N(<<"b", "a">>, 4, 4), N(<<"b", "<unk>">>, 4, 4), N(<<"b", "b">>, 0, 2)}),
    Of(<<"a", "b", "<unk>", "<s>">>, 3,
       {N(<<"<s>">>, 1, 1), N(<<"<unk>">>, 0, 1), N(<<"a">>, 2, 3), N(<<"b">>, 1, 3),
        N(<<"<s>", "a">>, 1, 2), N(<<"a", "b">>, 2, 3), N(<<"b", "a">>, 1, 1), N(<<"b", "<unk>">>, 0, 1)}),
    Of(<<"<s>", "a", "b">>, 2,
       {N(<<"<s>">>, 1, 1), N(<<"a">>, 2, 2), N(<<"b">>, 2, 2),
        N(<<"<s>", "a">>, 1, 1), N(<<"a", "a">>, 1, 1), N(<<"a", "b">>, 1, 1), N(<<"b", "b">>, 1, 1)}) }

SmallHome == [g \in UNION {DOMAIN c.types : c \in SmallCorpora} |->
    IF Len(g) = 1 \/ g[1] = "a" THEN 0 ELSE 1]

\* Nothing, something small, or something large.
Memory == {<<0, 0, 0>>, <<9, 1, 0>>, <<9, 9, 9>>}

-----------------------------------------------------------------------------

\* From three steps on, to two, and each of the options.
SomeOptions ==
    LET Plain(first, last, words) ==
          [first |-> first, last |-> last, words |-> words,
           counts |-> FALSE, pbs |-> FALSE, erase |-> FALSE]
        all == Plain(1, 7, "all")
        kbest == Plain(1, 7, "kbest")
    IN {Plain(1, 3, "cutoff"), Plain(2, 7, "cutoff"), kbest, Plain(4, 7, "kbest"),
        Plain(1, 7, "given"), [all EXCEPT !.counts = TRUE], [all EXCEPT !.erase = TRUE],
        [kbest EXCEPT !.pbs = TRUE, !.erase = TRUE]}

-----------------------------------------------------------------------------

\* The file is read behind the bounds of threads; processes open a model that is
\* read already.  What follows goes on from either's bounds.
beyond == <<phase, order, nodes, values, dump, codes, maps, parts>>

ArpaMPIInit == ScoreInit /\ BoundMPIInit

Threaded == medium = "threads" /\ ScoreNext /\ UNCHANGED boundMPIVars

ByProcesses ==
    /\ phase = "bounds"
    /\ SpawnBound \/ BoundMPINext
    /\ UNCHANGED beyond

arpaPartsVars == <<scoreVars, boundMPIVars, lowVars, pipelineVars, kind>>

OfArpa ==
    /\ kind = "arpa"
    /\ Threaded \/ ByProcesses
    /\ UNCHANGED <<lowVars, pipelineVars, kind>>

OfEstimate ==
    /\ kind = "estimate"
    /\ LowNext \/ (AllDone /\ UNCHANGED lowVars)
    /\ UNCHANGED <<scoreVars, boundMPIVars, pipelineVars, kind>>

OfPipeline ==
    /\ kind = "pipeline"
    /\ PipelineNext \/ PipelineStays
    /\ UNCHANGED <<scoreVars, boundMPIVars, lowVars, kind>>

ArpaPartsInit ==
    /\ kind \in {"arpa", "estimate", "pipeline"}
    /\ ArpaMPIInit
    /\ LowInit
    /\ PipelineInit
    /\ kind # "arpa" => medium = "threads"
    /\ kind # "estimate" => /\ corpus = CHOOSE c \in Corpora : TRUE
                            /\ way = [by |-> "threads", removed |-> FALSE]

ArpaPartsSpec == ArpaPartsInit /\ [][OfArpa \/ OfEstimate \/ OfPipeline]_arpaPartsVars
=============================================================================
