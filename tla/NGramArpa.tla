----------------------------- MODULE NGramArpa -----------------------------
(* Reading a model in the ARPA format (NGram::open_arpa and its reducer in  *)
(* expgram/NGram.cpp).  The program reads the unigrams, which give the      *)
(* words their identifiers, and then sends every longer line to the thread  *)
(* of the shard that the reversed n-gram hashes to.  The threads store the  *)
(* n-grams reversed: the index is a backward one.  Then come the bounds.    *)
(*                                                                          *)
(* A trie needs all the prefixes of its n-grams, and the file need not list *)
(* "b c" although it lists "a b c": a thread writes the prefixes of each    *)
(* reversed n-gram as "pseudo contexts" without a log-probability.          *)
(*                                                                          *)
(* A line is its words in the order of the text and its two values; how it  *)
(* is split into tokens is left out.  Words are listed once, and a line     *)
(* with a word that is not listed, which ends the program, does not occur.  *)
EXTENDS NGramBound

CONSTANTS
    Arpa,           \* the lines of the file, the shorter n-grams first
    Spelling,       \* Spelling[w]: the rank of word w in the order of strings
    Unk,            \* the word that stands for the unknown ones
    backoffs        \* backoffs[s][p]: the back-off weight of node p

LinesOf(n) == SelectSeq(Arpa, LAMBDA line : Len(line.words) = n)

ASSUME ArpaAssumption ==
    /\ Backward
    /\ \A i \in DOMAIN Arpa :
          /\ Arpa[i].words \in Seq(Word)
          /\ Len(Arpa[i].words) \in 1 .. Order
          /\ {Arpa[i].prob, Arpa[i].backoff} \subseteq Int
          /\ Len(Arpa[i].words) > 1 => i > Len(LinesOf(1))
    /\ IsInjective([i \in DOMAIN Arpa |-> Arpa[i].words])
    /\ Word = {Arpa[i].words[1] : i \in DOMAIN Arpa}
    /\ Spelling \in [Word -> Nat]
    /\ IsInjective(Spelling)

VARIABLES
    phase,      \* what the program does: "read", "bounds" and later phases
    order,      \* order[s]: the order that the reducer of s appends next
    nodes,      \* nodes[s]: the n-grams of the trie of s by position
    values      \* values[s]: the files of s, a record for each node

arpa == <<phase, order, nodes, values>>
arpaVars == <<vars, arpa>>

-----------------------------------------------------------------------------
(* The program.                                                             *)

\* Unigrams by falling log-probability, then by spelling.
greater_second_first_string(x, y) ==
    \/ x.prob > y.prob
    \/ x.prob = y.prob /\ Spelling[x.words[1]] < Spelling[y.words[1]]

Unigrams == SetToSortSeq(Range(LinesOf(1)), greater_second_first_string)

\* What an unknown word scores: the value of Unk, or the lowest one of a word
\* that can be predicted.
smooth ==
    LET Probs(words) == {line.prob : line \in {line \in Range(LinesOf(1)) :
                                                 line.words[1] \in words}}
    IN  IF Unk \in Word THEN CHOOSE prob \in Probs({Unk}) : TRUE
                        ELSE Min(Probs(Word \ {Bos}))

Longer == SelectSeq(Arpa, LAMBDA line : Len(line.words) > 1)

\* Backward sharding.
LineHome(g) == shard_index(Reverse(g))

LineTargets == [m \in {0} |-> [i \in DOMAIN Longer |-> LineHome(Longer[i].words)]]

Reading == INSTANCE MapReduce WITH
    Mapper <- {0}, Reducers <- Cardinality(Shard), To <- LineTargets

-----------------------------------------------------------------------------
(* The reducer.                                                             *)

Stored(line) == [context |-> Reverse(line.words), prob |-> line.prob, backoff |-> line.backoff]

Pseudo(context) == [context |-> context, prob |-> logprob_min, backoff |-> logprob_min]

PseudoContexts(g) == {Pseudo(SubSeq(g, 1, n)) : n \in 2 .. Len(g) - 1}

\* What the reducer of s has written to its file of order n.
Written(s, n) ==
    LET received == {Stored(Longer[item.index]) :
                        item \in {item \in popped[s] : ~ Reading!IsEmpty(item)}}
        all == received \union UNION {PseudoContexts(line.context) : line \in received}
    IN  {line \in all : Len(line.context) = n}

FirstValue(set) == Min(set)                         \* faulty Known

\* Lines of one n-gram are next to each other in any order after the sort;
\* a value that is known replaces one that is not.
Known(set) == IF set = {logprob_min} THEN logprob_min
                                     ELSE CHOOSE v \in set : v # logprob_min

Merged(written, context) ==
    LET same == {line \in written : line.context = context}
    IN  [context |-> context,
         prob |-> Known({line.prob : line \in same}),
         backoff |-> Known({line.backoff : line \in same})]

sized_key_less(x, y) == Before(x.context, y.context)

Sorted(s, n) ==
    LET written == Written(s, n)
    IN  SetToSortSeq({Merged(written, line.context) : line \in written}, sized_key_less)

\* The children of each node in turn.
Attached(s, lines) ==
    FlattenSeq([i \in DOMAIN nodes[s] |->
        SelectSeq(lines, LAMBDA line : Context(line.context) = nodes[s][i])])

\* What is written for a line; a weight that is not known becomes zero.
Value(line) ==
    IF Len(line.context) = Order
      THEN [prob |-> line.prob]
      ELSE [prob |-> line.prob,
            backoff |-> IF line.backoff = logprob_min THEN 0 ELSE line.backoff]

\* Append the nodes of one order, and their values in the order of the sort.
\* Quit if no n-gram of the order has arrived.
IndexOrder(s) ==
    LET lines == Sorted(s, order[s])
        attached == Attached(s, lines)
    IN  /\ phase = "read"
        /\ Reading!AllEnded(s)
        /\ order[s] <= Order
        /\ nodes' = [nodes EXCEPT ![s] = @ \o [i \in DOMAIN attached |-> attached[i].context]]
        /\ values' = [values EXCEPT ![s] = @ \o [i \in DOMAIN lines |-> Value(lines[i])]]
        /\ order' = [order EXCEPT ![s] = @ + 1]
        /\ UNCHANGED <<vars, phase>>

-----------------------------------------------------------------------------

ReadInit ==
    /\ Reading!Init
    /\ logbounds = [s \in Shard |-> << >>]
    /\ phase = "read"
    /\ order = [s \in Shard |-> 2]
    /\ nodes = [s \in Shard |-> [i \in DOMAIN Unigrams |-> Unigrams[i].words]]
    /\ values = [s \in Shard |->
          IF s = 0 THEN [i \in DOMAIN Unigrams |->
                            [prob |-> Unigrams[i].prob, backoff |-> Unigrams[i].backoff]]
                   ELSE << >>]

\* The program reads a line and pushes it, or an empty context at the end.
ReadLine == phase = "read" /\ Reading!Map(0) /\ UNCHANGED <<logbounds, arpa>>

PopLine(s) == phase = "read" /\ Reading!Pop(s) /\ UNCHANGED <<logbounds, arpa>>

\* All pushes have returned and the threads are joined; new ones compute the
\* bounds.
StartBounds ==
    /\ phase = "read"
    /\ uncounted = {}
    /\ \A s \in Shard : order[s] > Order
    /\ phase' = "bounds"
    /\ sent' = [s \in Shard |-> 0]
    /\ queue' = [s \in Shard |-> << >>]
    /\ num_empty' = [s \in Shard |-> 0]
    /\ popped' = [s \in Shard |-> {}]
    /\ logbounds' = OwnBounds
    /\ UNCHANGED <<admitted, uncounted, stopped, order, nodes, values>>

Bounding == phase = "bounds" /\ BoundNext /\ UNCHANGED arpa

ArpaNext ==
    \/ ReadLine
    \/ \E s \in Shard : PopLine(s)
    \/ \E s \in Shard : IndexOrder(s)
    \/ StartBounds
    \/ Bounding

-----------------------------------------------------------------------------

\* The n-grams that the trie of s needs up to the order n, reversed.
Needed(s, n) ==
    UNION {{g \in {SubSeq(Reverse(line.words), 1, k) : k \in 1 .. Len(line.words)} :
               Len(g) = 1 \/ (Len(g) <= n /\ shard_index(Reverse(line.words)) = s)} :
           line \in Range(Arpa)}

InOrder(seq) ==
    \A i, j \in DOMAIN seq :
        i < j => \/ Len(seq[i]) < Len(seq[j])
                 \/ Len(seq[i]) = Len(seq[j]) /\ Before(seq[i], seq[j])

\* The values of the n-gram whose reversal is g: none if the file lacks it.
OfLine(value, g) ==
    LET lines == {line \in Range(Arpa) : line.words = Reverse(g)}
    IN  /\ value.prob = IF lines = {} THEN logprob_min
                                      ELSE (CHOOSE line \in lines : TRUE).prob
        /\ Len(g) < Order =>
              value.backoff = IF lines = {} THEN 0 ELSE (CHOOSE line \in lines : TRUE).backoff

\* However the lines arrive, and whatever the file leaves out, a trie has
\* after each order every n-gram of its shard and every prefix, each once and
\* in the order that lookups need; although nodes are appended in the order of
\* their parents and values in the order of the sort, the value at a node's
\* position is that of its line, and a pseudo context never hides a line.  What
\* was read is the index whose bounds are computed.
ArpaRead ==
    /\ phase = "read" => \A s \in Shard :
          LET offset == IF s = 0 THEN 0 ELSE Len(Unigrams)
          IN  /\ InOrder(nodes[s])
              /\ Range(nodes[s]) = Needed(s, order[s] - 1)
              /\ Len(values[s]) = Len(nodes[s]) - offset
              /\ \A i \in DOMAIN values[s] : OfLine(values[s][i], nodes[s][i + offset])
    /\ phase = "bounds" => nodes = Nodes
=============================================================================
