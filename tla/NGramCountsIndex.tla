-------------------------- MODULE NGramCountsIndex --------------------------
(* Indexing the counts of a corpus (NGramCounts::open_google with its       *)
(* mapper and reducer in expgram/NGramCounts.cpp, and                       *)
(* expgram/NGramCountsIndexer.hpp).                                         *)
(*                                                                          *)
(* The counts of each order are in sorted files.  For one order after the   *)
(* other, every mapper merges its files and pushes each n-gram to the queue *)
(* that it shares with the reducer of the n-gram's shard.  A reducer merges *)
(* the queues that end at it, adds up the counts of equal n-grams, and      *)
(* appends the order to the tree of its shard.  It always waits for the     *)
(* queue that it took from last, and a mapper for room in the queue that    *)
(* its next n-gram belongs to.                                              *)
(*                                                                          *)
(* A word is a number that tells where its spelling sorts.  A queue of      *)
(* lockfree_list_queue has one producer here, so that a push finds the size *)
(* no smaller than it is, and is one step.                                  *)
EXTENDS Integers, SequencesExt, FiniteSetsExt

CONSTANTS
    Shards,     \* the number of shards, of mappers and of reducers
    Home,       \* Home[<<i, j>>]: the shard of the identifiers i and j
    Capacity    \* the max_size of a queue

Thread == 0 .. Shards - 1

\* The order of the spellings: that of the files, and of both priority queues.
Before(g, h) ==
    \E i \in 1 .. Len(g) : g[i] < h[i] /\ SubSeq(g, 1, i - 1) = SubSeq(h, 1, i - 1)

\* The members of a set from the least to the greatest.
Ranked(S, Less(_, _)) ==
    [i \in 1 .. Cardinality(S) |->
        CHOOSE x \in S : Cardinality({y \in S : Less(y, x)}) = i - 1]

VARIABLES
    vocab_cs,   \* the words, by identifier
    files,      \* files[n - 1]: the files of order n, sequences of lines
    order,      \* the order that is indexed
    unsent,     \* unsent[m]: the messages that mapper m has yet to push
    queue,      \* queue[m][r]: the queue from mapper m to reducer r
    opened,     \* opened[r]: how many queues r has taken its first message from
    heads,      \* heads[r][m]: the message of m that waits in r's pqueue, if any
    prefix,     \* prefix[r]: the context that r collects words for
    words,      \* words[r]: those words, as identifiers, and their counts
    indexer,    \* indexer[r]: the children of each node of the order before
    tree,       \* tree[r][n]: the nodes of n words of shard r and their counts
    joined      \* the reducers that have ended

indexVars == <<vocab_cs, files, order, unsent, queue, opened, heads, prefix, words,
               indexer, tree, joined>>

Id(w) == CHOOSE i \in 0 .. Len(vocab_cs) - 1 : vocab_cs[i + 1] = w

Ids(g) == [i \in DOMAIN g |-> Id(g[i])]

\* Words have different identifiers; a file is sorted, and its n-grams extend
\* those of the order before.
Indexable(V, F) ==
    /\ IsInjective(V)
    /\ \A n \in 2 .. Len(F) + 1 : \A file \in Range(F[n - 1]) :
          /\ \A i \in DOMAIN file : /\ file[i].ngram \in [1 .. n -> Range(V)]
                                    /\ file[i].count \in Nat \ {0}
          /\ \A i \in 1 .. Len(file) - 1 : Before(file[i].ngram, file[i + 1].ngram)
          /\ n > 2 => \A line \in Range(file) : \E other \in Range(F[n - 2]) :
                \E shorter \in Range(other) : shorter.ngram = Front(line.ngram)

-----------------------------------------------------------------------------
(* The mapper.                                                              *)

End == [ngram |-> << >>, count |-> 0]

\* The driver stops at the first order without files.
Listed(n) == n - 1 <= Len(files) /\ files[n - 1] # << >>

shard_index(g) == Home[<<Id(g[1]), Id(g[2])>>]

\* Files are dealt to the mappers in turn.
paths(n, m) == {i \in 1 .. Len(files[n - 1]) : (i - 1) % Shards = m}

Lines(n, m) == UNION {{<<i, j>> : j \in DOMAIN files[n - 1][i]} : i \in paths(n, m)}

\* The merge of its files: every n-gram once, with the sum of its counts.
Merged(n, m) ==
    LET Line(at) == files[n - 1][at[1]][at[2]]
        Count(g) == MapThenSumSet(LAMBDA at : Line(at).count,
                                  {at \in Lines(n, m) : Line(at).ngram = g})
        sorted == Ranked({Line(at).ngram : at \in Lines(n, m)}, Before)
    IN  [i \in DOMAIN sorted |-> [ngram |-> sorted[i], count |-> Count(sorted[i])]]

\* What a mapper pushes: each n-gram to its shard, and then an empty one to each.
ToShards(lines) ==
    [i \in DOMAIN lines |-> [line |-> lines[i], to |-> shard_index(lines[i].ngram)]]

Messages(lines) ==
    ToShards(lines) \o [i \in 1 .. Shards |-> [line |-> End, to |-> i - 1]]

Room(m, r) == Len(queue[m][r]) < Capacity

Push(m) ==
    LET message == Head(unsent[m])
    IN  /\ unsent[m] # << >>
        /\ Room(m, message.to)
        /\ unsent' = [unsent EXCEPT ![m] = Tail(@)]
        /\ queue' = [queue EXCEPT ![m][message.to] = Append(@, message.line)]
        /\ UNCHANGED <<vocab_cs, files, order, opened, heads, prefix, words, indexer,
                       tree, joined>>

-----------------------------------------------------------------------------
(* The reducer.                                                             *)

\* The first message of each queue, one queue after the other.
Open(r) ==
    LET m == opened[r]
    IN  /\ r \notin joined
        /\ m < Shards
        /\ queue[m][r] # << >>
        /\ queue' = [queue EXCEPT ![m][r] = Tail(@)]
        /\ heads' = [heads EXCEPT ![r][m] = Head(queue[m][r])]
        /\ opened' = [opened EXCEPT ![r] = @ + 1]
        /\ UNCHANGED <<vocab_cs, files, order, unsent, prefix, words, indexer, tree, joined>>

\* The n-grams that wait in the pqueue, by the mapper they came from.
Waiting(r) == {m \in Thread : heads[r][m] # End}

Opened(r) == r \notin joined /\ opened[r] = Shards

ById(x, y) == x.id < y.id

\* Words arrive sorted, so that equal ones follow each other.
Counted(list, id, count) ==
    IF list = << >> \/ Last(list).id # id
      THEN Append(list, [id |-> id, count |-> count])
      ELSE [list EXCEPT ![Len(list)].count = @ + count]

\* The indexer is given the words of a context: they become the children of its
\* node, by identifier.
Unsorted(list) == list                              \* faulty Sorted

Sorted(list) == Ranked(Range(list), ById)

Indexed(r) ==
    LET nodes == Last(tree[r])
        node == CHOOSE p \in DOMAIN nodes : nodes[p].ngram = Ids(prefix[r])
    IN  [indexer[r] EXCEPT ![node] = Sorted(words[r])]

\* The least waiting n-gram is counted, after the words of the last context are
\* indexed if it starts another one; then the next one of its queue is awaited.
Merge(r) ==
    \E m \in Waiting(r) :
        LET g == heads[r][m].ngram
            same == prefix[r] = Front(g)
        IN  /\ Opened(r)
            /\ \A other \in Waiting(r) : ~ Before(heads[r][other].ngram, g)
            /\ queue[m][r] # << >>
            /\ queue' = [queue EXCEPT ![m][r] = Tail(@)]
            /\ heads' = [heads EXCEPT ![r][m] = Head(queue[m][r])]
            /\ prefix' = [prefix EXCEPT ![r] = Front(g)]
            /\ words' = [words EXCEPT ![r] =
                  Counted(IF same THEN @ ELSE << >>, Id(Last(g)), heads[r][m].count)]
            /\ indexer' = [indexer EXCEPT ![r] =
                  IF same \/ words[r] = << >> THEN @ ELSE Indexed(r)]
            /\ UNCHANGED <<vocab_cs, files, order, unsent, opened, tree, joined>>

\* The new order: the children of each node of the order before.
Level(r, children) ==
    LET nodes == Last(tree[r])
        Extended(p) == [i \in DOMAIN children[p] |->
            [ngram |-> Append(nodes[p].ngram, children[p][i].id),
             count |-> children[p][i].count]]
    IN  FlattenSeq([p \in DOMAIN nodes |-> Extended(p)])

\* No n-gram waits.  A shard that got none keeps its tree as it is.
Finish(r) ==
    /\ Opened(r)
    /\ Waiting(r) = {}
    /\ tree' = IF words[r] = << >> THEN tree
                 ELSE [tree EXCEPT ![r] = Append(@, Level(r, Indexed(r)))]
    /\ joined' = joined \union {r}
    /\ UNCHANGED <<vocab_cs, files, order, unsent, queue, opened, heads, prefix, words, indexer>>

-----------------------------------------------------------------------------
(* The driver.                                                              *)

\* Every shard holds all the unigrams, by identifier; their counts are copied
\* from the vocabulary file to the counts of shard 0, and not followed here.
Unigrams(V) == [i \in DOMAIN V |-> [ngram |-> <<i - 1>>, count |-> 0]]

\* No node of the last order has children yet.
Childless(nodes) == [p \in DOMAIN nodes |-> << >>]

ForEach(x) == [t \in Thread |-> x]

IndexInit ==
    /\ order = 0
    /\ unsent = ForEach(<< >>)
    /\ queue = ForEach(ForEach(<< >>))
    /\ opened = ForEach(0)
    /\ heads = ForEach(ForEach(End))
    /\ prefix = ForEach(<< >>)
    /\ words = ForEach(<< >>)
    /\ indexer = ForEach(<< >>)
    /\ tree = ForEach(<< >>)
    /\ joined = Thread

\* The vocabulary is read.
OpenGoogle ==
    /\ order = 0
    /\ order' = 1
    /\ tree' = ForEach(<<Unigrams(vocab_cs)>>)
    /\ UNCHANGED <<vocab_cs, files, unsent, queue, opened, heads, prefix, words, indexer,
                   joined>>

\* All the mappers and all the reducers have been joined.
Joined == joined = Thread /\ \A m \in Thread : unsent[m] = << >>

NextOrder ==
    /\ order > 0
    /\ Joined
    /\ Listed(order + 1)
    /\ order' = order + 1
    /\ unsent' = [m \in Thread |-> Messages(Merged(order + 1, m))]
    /\ queue' = ForEach(ForEach(<< >>))
    /\ opened' = ForEach(0)
    /\ heads' = ForEach(ForEach(End))
    /\ prefix' = ForEach(<< >>)
    /\ words' = ForEach(<< >>)
    /\ indexer' = [r \in Thread |-> Childless(Last(tree[r]))]
    /\ joined' = {}
    /\ UNCHANGED <<vocab_cs, files, tree>>

IndexDone == order > 0 /\ Joined /\ ~ Listed(order + 1)

Reduce(r) == Open(r) \/ Merge(r) \/ Finish(r)

IndexNext ==
    \/ OpenGoogle
    \/ \E m \in Thread : Push(m)
    \/ \E r \in Thread : Reduce(r)
    \/ NextOrder

-----------------------------------------------------------------------------

\* The n-grams of n words that hash to shard r, by identifiers, with the sums
\* of their counts over all the files, in the order of the identifiers.
Corpus(r, n) ==
    LET lines == {at \in UNION {Lines(n, m) : m \in Thread} :
                    shard_index(files[n - 1][at[1]][at[2]].ngram) = r}
        At(at) == files[n - 1][at[1]][at[2]]
        ngrams == Ranked({Ids(At(at).ngram) : at \in lines}, Before)
        Count(g) == MapThenSumSet(LAMBDA at : At(at).count,
                                  {at \in lines : Ids(At(at).ngram) = g})
    IN  [p \in DOMAIN ngrams |-> [ngram |-> ngrams[p], count |-> Count(ngrams[p])]]

\* Whatever way the threads interleave, a shard's tree has each n-gram that
\* hashes to it once, with the sum of the counts of all the files, at the place
\* that the binary search for a child and the numbering of the nodes count on:
\* by identifier below its context, although the merge went by spelling.
\* It is stated of an index that is complete.
IndexRight ==
    \A r \in Thread :
        /\ \A n \in 2 .. Len(tree[r]) : tree[r][n] = Corpus(r, n)
        /\ \A n \in 2 .. Len(files) + 1 : Corpus(r, n) # << >> => Len(tree[r]) >= n
=============================================================================
