---------------------------- MODULE NGramScorer ----------------------------
(* Scoring words (NGram::lookup, lookup_partial, ngram_score,               *)
(* ngram_partial_score, ngram_score_update and logprob in expgram/NGram.hpp *)
(* and expgram/NGramState.hpp), and phrases that are put together in any    *)
(* order (expgram/NGramScorer.hpp), as a decoder does that builds           *)
(* translations from parts.                                                 *)
(*                                                                          *)
(* A backward index is walked from a word to the words before it.  A state  *)
(* is the longest context that the index has, the last word first, with the *)
(* back-off weight of each of its parts, so that the next word needs        *)
(* nothing else.  A state of the index, which is a shard and a node, stands *)
(* for the n-gram of the node, in the order of the index.                   *)
(*                                                                          *)
(* The words of a part whose context is not known yet are scored with       *)
(* bounds; the part keeps their nodes, its prefix, and the state behind its *)
(* last word, its suffix, and is scored again when another part comes       *)
(* before it.                                                               *)
(*                                                                          *)
(* The decoder is not part of the code: it starts parts, adds words of      *)
(* Spoken, and adds the part that it completed last to the one around it.   *)
(* It adds the scores of the parts up, here in prob.                        *)
EXTENDS NGramQuantize

CONSTANTS
    Spoken,         \* the words that the decoder uses
    MaxWords,       \* bound: the words in all the parts
    MaxParts        \* bound: the parts that are begun

VARIABLE
    parts       \* the parts that are begun, the innermost last

scoreVars == <<quantizeVars, parts>>

-----------------------------------------------------------------------------

IsNode(g) == Range(g) \subseteq Word /\ Has(shard_index(g), g)

\* The value of an n-gram in a table of the shards.
At(table, g) == table[shard_index(g)][Find(shard_index(g), g)]

\* The last order has no bounds.
logbound(g) == IF Len(g) < Order THEN At(logbounds, g) ELSE At(logprobs, g)

\* Only shard 0 is asked for the children of a unigram.
has_child(g) == Children(shard_index(g), Find(shard_index(g), g)) # {}

\* The values of an n-gram, or of its longest part that has some.
lookup_result(g) ==
    LET known == {n \in DOMAIN g : At(logprobs, SubSeq(g, 1, n)) # logprob_min}
        of(part) == [prob |-> At(logprobs, part), bound |-> logbound(part), length |-> Len(part)]
    IN  IF known = {}
          THEN [prob |-> smooth, bound |-> smooth, length |-> 0]
          ELSE of(SubSeq(g, 1, Max(known)))

State(context) ==
    [context |-> context,
     backoff |-> [n \in DOMAIN context |-> At(backoffs, SubSeq(context, 1, n))]]

WholeState(state, n) == state                       \* faulty Drop

\* What is left of a state without its first n words.
Drop(state, n) ==
    [context |-> SubSeq(state.context, n + 1, Len(state.context)),
     backoff |-> SubSeq(state.backoff, n + 1, Len(state.backoff))]

\* The weights from number n on; a smaller number than 1 stands for it.
Weights(state, n) ==
    FoldSeq(LAMBDA x, y : x + y, 0,
            SubSeq(state.backoff, Greater(n, 1), Len(state.backoff)))

\* From the node of g as far as the index has the context.  The part of the
\* state that the context added has at most Order - 1 words with g.
Walk(g, context) ==
    LET matched == Max({n \in 0 .. Len(context) :
                           \A k \in 1 .. n : IsNode(g \o SubSeq(context, 1, k))})
        at(node) ==
            [node |-> node,
             complete |-> \/ Len(node) < Len(g) + Len(context)
                          \/ Len(node) = Order
                          \/ ~ has_child(node),
             state |-> State(SubSeq(node, 1, IF Len(node) < Order THEN Len(node) ELSE Order - 1))]
    IN  at(g \o SubSeq(context, 1, matched))

\* A word after a state.  A word that is not in the index leaves no context.
ngram_score(state, word) ==
    LET with(walk, result) ==
            [prob |-> result.prob + Weights(state, result.length), bound |-> result.bound,
             complete |-> walk.complete, node |-> walk.node, state |-> walk.state]
        after(walk) == with(walk, lookup_result(walk.node))
    IN  IF IsNode(<<word>>)
          THEN after(Walk(<<word>>, state.context))
          ELSE [prob |-> smooth + Weights(state, 1), bound |-> smooth,
                complete |-> TRUE, node |-> << >>, state |-> State(<< >>)]

\* More context for a node that was scored with its bound: what that changes,
\* and the words that are still before it.
ngram_partial_score(state, node) ==
    LET with(walk, result, adjust) ==
            [prob |-> result.prob - adjust
                         + Weights(state, Greater(result.length, 1) - Len(node) + 1),
             bound |-> result.bound - adjust,
             complete |-> walk.complete, node |-> walk.node,
             state |-> Drop(walk.state, Len(node))]
        after(walk) == with(walk, lookup_result(walk.node), lookup_result(node).bound)
    IN  after(Walk(node, state.context))

NoUpdate(states) == 0                               \* faulty ngram_score_update

\* Probabilities in place of bounds.
ngram_score_update(states) ==
    FoldSeq(LAMBDA g, adjust : adjust + At(logprobs, g) - logbound(g), 0, states)

\* The longest context that the index has, the last word first.
lookup_context(words) ==
    LET context == Reverse(words)
        clipped == SubSeq(context, 1, IF Len(context) < Order THEN Len(context) ELSE Order - 1)
        indexed(g) ==
            Max({n \in 0 .. Len(g) : \A k \in 1 .. n : IsNode(SubSeq(g, 1, k))})
    IN  State(SubSeq(clipped, 1, indexed(clipped)))

\* Without a state.
logprob(words, word) == ngram_score(lookup_context(words), word).prob

-----------------------------------------------------------------------------

Listed(words) == \E line \in Range(Arpa) : line.words = words

\* Some line has more words before these.
Preceded(words) == \E line \in Range(Arpa) : IsStrictSuffix(words, line.words)

LineOf(words) == CHOOSE line \in Range(Arpa) : line.words = words

\* The definition of back-off over the lines of the file.
BackedOff(words, word) ==
    LET from(i) == SubSeq(words, i, Len(words))
        longest == Greater(1, Len(words) - Order + 2)
        prob[i \in longest .. Len(words) + 1] ==
            CASE Listed(Append(from(i), word)) -> LineOf(Append(from(i), word)).prob
              [] i > Len(words) -> smooth
              [] OTHER -> prob[i + 1] + IF Listed(from(i)) THEN LineOf(from(i)).backoff ELSE 0
    IN  prob[longest]

-----------------------------------------------------------------------------

Part(bos) ==
    [words |-> IF bos THEN <<Bos>> ELSE << >>,
     prefix |-> << >>,
     suffix |-> IF bos THEN lookup_context(<<Bos>>) ELSE State(<< >>),
     prob |-> 0,
     complete |-> bos]

Length(state) == Len(state.context)

Appended(state, rest) ==
    [context |-> state.context \o rest.context, backoff |-> state.backoff \o rest.backoff]

Replace(part) == Append(Front(parts), part)

-----------------------------------------------------------------------------

\* A word after what the part has.  A match that is shorter than the context
\* cannot be made longer by another part.
terminal(part, word) ==
    LET with(result, final) ==
            [words |-> Append(part.words, word),
             prefix |-> IF final THEN part.prefix ELSE Append(part.prefix, result.node),
             suffix |-> result.state,
             prob |-> part.prob + IF final THEN result.prob ELSE result.bound,
             complete |-> final \/ Length(result.state) # Length(part.suffix) + 1]
        after(result) == with(result, part.complete \/ result.complete)
    IN  after(ngram_score(part.suffix, word))

\* How far a node of the antecedent's prefix is scored again with the suffix
\* that is left.
Rescored(part, scored, node) ==
    LET with(result, final) ==
            [prefix |-> IF final THEN scored.prefix ELSE Append(scored.prefix, result.node),
             prob |-> scored.prob + IF final THEN result.prob ELSE result.bound,
             rest |-> result.state,
             complete |-> final \/ Length(result.state) # Length(part.suffix),
             stopped |-> IF Length(result.state) = 0 THEN Len(node) ELSE 0]
        after(result) == with(result, scored.complete \/ result.complete)
    IN  IF scored.stopped # 0 THEN scored
                              ELSE after(ngram_partial_score(scored.rest, node))

AllRescored(part, antecedent) ==
    FoldLeft(LAMBDA scored, node : Rescored(part, scored, node),
             [prefix |-> part.prefix, prob |-> part.prob, rest |-> part.suffix,
              complete |-> part.complete, stopped |-> 0],
             antecedent.prefix)

\* Every word of the antecedent has its last score, apart from the weights of
\* the contexts before it.
Settled(part, antecedent) ==
    IF antecedent.complete
      THEN [part EXCEPT !.prob = @ + Weights(part.suffix, 1), !.suffix = antecedent.suffix,
                        !.complete = TRUE]
      ELSE part

\* No word before the antecedent can match.
Unmatched(part, antecedent) ==
    [part EXCEPT
       !.suffix = antecedent.suffix,
       !.prefix = IF ~ part.complete /\ @ = << >> THEN antecedent.prefix ELSE @,
       !.prob = IF part.complete THEN @ + ngram_score_update(antecedent.prefix) ELSE @,
       !.complete = @ \/ part.prefix # << >> \/ antecedent.complete]

\* The nodes of the antecedent's prefix are scored again, until nothing of the
\* suffix is left; the words behind them have matched less than the antecedent.
Joined(part, antecedent, scored) ==
    LET new == [part EXCEPT !.prefix = scored.prefix, !.prob = scored.prob,
                            !.complete = scored.complete]
        behind == SubSeq(antecedent.prefix, scored.stopped + 1, Len(antecedent.prefix))
    IN  CASE scored.stopped # 0 ->
               [new EXCEPT !.suffix = antecedent.suffix, !.prob = @ + ngram_score_update(behind)]
          [] scored.stopped = 0 /\ antecedent.complete ->
               Settled([new EXCEPT !.suffix = scored.rest], antecedent)
          [] OTHER ->
               [new EXCEPT !.suffix =
                  IF Length(antecedent.suffix) < Len(antecedent.prefix)
                    THEN antecedent.suffix ELSE Appended(antecedent.suffix, scored.rest)]

non_terminal(part, antecedent) ==
    LET new == CASE antecedent.prefix = << >> -> Settled(part, antecedent)
                 [] antecedent.prefix # << >> /\ Length(part.suffix) = 0 ->
                        Unmatched(part, antecedent)
                 [] OTHER -> Joined(part, antecedent, AllRescored(part, antecedent))
    IN  [new EXCEPT !.words = @ \o antecedent.words, !.prob = @ + antecedent.prob]

initial_non_terminal(antecedent) == antecedent

\* A prefix of Order - 1 nodes needs no more words.
complete(part) == [part EXCEPT !.complete = @ \/ Len(part.prefix) = Order - 1]

-----------------------------------------------------------------------------

\* The programs expgram_perplexity and expgram score the words of a sentence one
\* after another, from the state behind "<s>".
Eos == "</s>"

is_oov(word) == word = Unk \/ word \notin Word

Scored(total, word) ==
    LET after(result) ==
            [total EXCEPT !.state = result.state,
                          !.logprob = @ + IF is_oov(word) THEN 0 ELSE result.prob,
                          !.logprob_oov = @ + result.prob,
                          !.num_oov = @ + IF is_oov(word) THEN 1 ELSE 0]
    IN  after(ngram_score(total.state, word))

\* The end of a sentence is in both totals, whether it is known or not.
Ended(total, words) ==
    LET prob == ngram_score(total.state, Eos).prob
    IN  [total EXCEPT !.logprob = @ + prob, !.logprob_oov = @ + prob,
                      !.num_word = @ + Len(words), !.num_sentence = @ + 1]

StateKept(total, words) ==                          \* faulty Sentence
    IF words = << >> THEN total ELSE Ended(FoldLeft(Scored, total, words), words)

\* An empty line is no sentence.
Sentence(total, words) ==
    IF words = << >>
      THEN total
      ELSE Ended(FoldLeft(Scored, [total EXCEPT !.state = lookup_context(<<Bos>>)], words),
                 words)

perplexity(sentences) ==
    FoldLeft(Sentence, [state |-> lookup_context(<<Bos>>), logprob |-> 0, logprob_oov |-> 0,
                        num_oov |-> 0, num_word |-> 0, num_sentence |-> 0], sentences)

\* What is printed for a sentence.
expgram(words) ==
    LET total == perplexity(<<words>>)
    IN  [logprob |-> total.logprob_oov, oov |-> total.num_oov]

-----------------------------------------------------------------------------

ScoreInit == QuantizeInit /\ parts = << >>

\* The model is opened by another program.
StartScore ==
    /\ Quantized
    /\ phase' = "score"
    /\ sent' = [s \in Shard |-> 0]
    /\ queue' = [s \in Shard |-> << >>]
    /\ num_empty' = [s \in Shard |-> 0]
    /\ popped' = [s \in Shard |-> {}]
    /\ stopped' = {}
    /\ codes' = [s \in Shard |-> << >>]
    /\ maps' = [s \in Shard |-> << >>]
    /\ lines' = << >>
    /\ lower' = FALSE
    /\ UNCHANGED <<admitted, uncounted, logbounds, order, nodes, values, dumped, taken,
                   awaited, pqueue, parts>>

Total == FoldSeq(LAMBDA part, n : n + Len(part.words), 0, parts)

Begin(bos) ==
    /\ phase = "score"
    /\ Len(parts) < MaxParts
    /\ Total + Len(parts) < MaxWords
    /\ bos => parts = << >>
    /\ parts' = Append(parts, Part(bos))
    /\ UNCHANGED quantizeVars

Speak(word) ==
    /\ parts # << >>
    /\ Total < MaxWords
    /\ parts' = Replace(terminal(Last(parts), word))
    /\ UNCHANGED quantizeVars

Combine ==
    /\ Len(parts) > 1
    /\ LET antecedent == complete(Last(parts))
           part == parts[Len(parts) - 1]
       IN  /\ antecedent.words # << >>
           /\ parts' = Append(SubSeq(parts, 1, Len(parts) - 2),
                          IF part.words = << >> THEN initial_non_terminal(antecedent)
                                                ELSE non_terminal(part, antecedent))
    /\ UNCHANGED quantizeVars

\* The decoder is done with the parts.
Clear ==
    /\ Len(parts) = 1
    /\ parts' = << >>
    /\ UNCHANGED quantizeVars

ScoreNext ==
    \/ QuantizeNext /\ UNCHANGED parts
    \/ StartScore
    \/ \E bos \in BOOLEAN : Begin(bos)
    \/ \E word \in Spoken : Speak(word)
    \/ Combine
    \/ Clear

-----------------------------------------------------------------------------

\* Words that are scored right: the index holds no part of them that the file
\* does not list, and what may be before a word is known to shard 0.
Rescorable(words) ==
    \A i \in DOMAIN words :
        /\ \A j \in i .. Len(words) :
              LET part == SubSeq(words, i, j) IN IsNode(Reverse(part)) => Listed(part)
        /\ Preceded(<<words[i]>>) => has_child(<<words[i]>>)

Sum(f) == FoldSeq(LAMBDA x, y : x + y, 0, f)

\* Words of the prefix count with their bounds, the others with what the
\* definition gives them after all the words that are known.
DefinedScore(part) ==
    Sum([i \in DOMAIN part.words |->
           CASE part.words[1] = Bos /\ i = 1 -> 0
             [] i <= Len(part.prefix) -> logbound(Reverse(SubSeq(part.words, 1, i)))
             [] OTHER -> BackedOff(SubSeq(part.words, 1, i - 1), part.words[i])])

\* The words of the parts as the lines of a text.
Lines == [k \in DOMAIN parts |-> IF Head(parts[k].words \o <<Eos>>) = Bos
                                    THEN Tail(parts[k].words) ELSE parts[k].words]

\* What back-off gives to a sentence, with its end; those words only that are
\* in the set of known ones.
DefinedSentence(words, known) ==
    LET all == <<Bos>> \o words \o <<Eos>>
    IN  Sum([i \in DOMAIN all |->
               IF i > 1 /\ all[i] \in known
                 THEN BackedOff(SubSeq(all, 1, i - 1), all[i]) ELSE 0])

\* Sentences one after another have the scores that they have alone, and these
\* are what back-off gives them, with and without the words that nobody knows.
SentencesRight ==
    parts # << >> =>
        LET spoken == SelectSeq(Lines, LAMBDA words : words # << >>)
            total == perplexity(Lines)
            scorable == \A k \in DOMAIN spoken : Rescorable(<<Bos>> \o spoken[k] \o <<Eos>>)
            defined(known) ==
                Sum([k \in DOMAIN spoken |-> DefinedSentence(spoken[k], known \cup {Eos})])
        IN  /\ total.num_oov = Sum([k \in DOMAIN spoken |-> expgram(spoken[k]).oov])
            /\ total.num_sentence = Len(spoken)
            /\ scorable =>
                  /\ total.logprob = defined(Word \ {Unk})
                  /\ total.logprob_oov = defined(Word \cup Spoken)
                  /\ \A k \in DOMAIN spoken :
                        expgram(spoken[k]).logprob
                          = DefinedSentence(spoken[k], Word \cup Spoken \cup {Eos})

\* In whatever order the words of a phrase are put together, its score is the
\* sum of what the definition of back-off gives each word, and of bounds for the
\* first words as long as the words before them are not known; a sentence has
\* no such words, and the programs that score texts give it the same.
ScoreRight ==
    /\ \A k \in DOMAIN parts :
          Rescorable(parts[k].words) => parts[k].prob = DefinedScore(parts[k])
    /\ SentencesRight

\* However a phrase was put together, its suffix is the longest context of its
\* words that the index has, and scoring a word after it gives what scoring
\* after all the words gives: phrases with equal states are the same to what
\* comes after them.
SuffixRight ==
    \A k \in DOMAIN parts :
        LET part == parts[k]
        IN  /\ part.suffix = lookup_context(part.words)
            /\ \A word \in Spoken :
                  ngram_score(part.suffix, word).prob = logprob(part.words, word)

\* "complete implies a complete ngram w/o further context" (NGram.hpp): no
\* n-gram of the file ends in the first word after the prefix of a complete
\* part and has more words before the part.
CompleteRight ==
    \A k \in DOMAIN parts :
        LET part == parts[k]
            first == SubSeq(part.words, 1, Len(part.prefix) + 1)
        IN  /\ part.complete
            /\ Len(part.prefix) < Len(part.words)
            /\ part.words[1] # Bos
            => ~ Preceded(first)
=============================================================================
