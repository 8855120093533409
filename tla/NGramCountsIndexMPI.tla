------------------------ MODULE NGramCountsIndexMPI ------------------------
(* Indexing the counts of a corpus by processes of MPI                      *)
(* (progs/expgram_counts_index_mpi.cpp): every shard has a process that     *)
(* reduces, and they spawn as many processes that map.                      *)
(*                                                                          *)
(* The mappers and the reducers go from one order to the next on their own: *)
(* the first mapper tells the others and the first reducer how many files   *)
(* an order has, and the first reducer tells the other ones.  A mapper      *)
(* writes to a device for each reducer, which sends what fits whenever the  *)
(* message before has arrived and grows otherwise, so that a mapper never   *)
(* waits; it is the queue of NGramCountsIndex without a limit.  A reducer   *)
(* reads a number of lines at a time, and hands the sums of equal n-grams   *)
(* to a thread of its own that indexes them.                                *)
EXTENDS NGramCountsIndex

CONSTANT Chunk      \* how many lines a reducer reads ahead, from one mapper

VARIABLES
    mapping,    \* mapping[m]: the order that mapper m is at
    reducing,   \* reducing[r]: the order that reducer r is at
    chunk,      \* chunk[r][m]: the lines of m that r has read and not merged
    sum,        \* sum[r]: the n-gram whose counts r adds up
    handed      \* handed[r]: the n-grams on their way to the thread of r

mpiVars == <<mapping, reducing, chunk, sum, handed>>

ProcessesInit ==
    /\ mapping = ForEach(1)
    /\ reducing = ForEach(1)
    /\ chunk = ForEach(ForEach(<< >>))
    /\ sum = ForEach(End)
    /\ handed = ForEach(<< >>)

-----------------------------------------------------------------------------
(* A process that maps.                                                     *)

\* The first mapper goes on when it has sent everything; the others when it has.
Map(m) ==
    LET n == mapping[m] + 1
    IN  /\ order = 1
        /\ unsent[m] = << >>
        /\ Listed(n)
        /\ m # 0 => mapping[0] >= n
        /\ mapping' = [mapping EXCEPT ![m] = n]
        /\ unsent' = [unsent EXCEPT ![m] = Messages(Merged(n, m))]
        /\ UNCHANGED <<vocab_cs, files, order, queue, opened, heads, prefix, words,
                       indexer, tree, joined, reducing, chunk, sum, handed>>

Send(m) ==
    LET message == Head(unsent[m])
    IN  /\ unsent[m] # << >>
        /\ unsent' = [unsent EXCEPT ![m] = Tail(@)]
        /\ queue' = [queue EXCEPT ![m][message.to] = Append(@, message.line)]
        /\ UNCHANGED <<vocab_cs, files, order, opened, heads, prefix, words, indexer,
                       tree, joined, mpiVars>>

-----------------------------------------------------------------------------
(* A process that reduces.                                                  *)

\* It joins its thread before it asks for the next order.
ReduceOrder(r) ==
    LET n == reducing[r] + 1
    IN  /\ order = 1
        /\ r \in joined
        /\ Listed(n)
        /\ IF r = 0 THEN mapping[0] >= n ELSE reducing[0] >= n
        /\ reducing' = [reducing EXCEPT ![r] = n]
        /\ joined' = joined \ {r}
        /\ prefix' = [prefix EXCEPT ![r] = << >>]
        /\ words' = [words EXCEPT ![r] = << >>]
        /\ indexer' = [indexer EXCEPT ![r] = Childless(Last(tree[r]))]
        /\ chunk' = [chunk EXCEPT ![r] = [m \in Thread |-> << >>]]
        /\ UNCHANGED <<vocab_cs, files, order, unsent, queue, opened, heads, tree,
                       mapping, sum, handed>>

\* Lines are waited for until there are enough of them or the end comes.
Readable(lines) == Len(lines) >= Chunk \/ End \in Range(lines)

ReadTo(lines) ==
    LET ends == {i \in DOMAIN lines : lines[i] = End}
    IN  IF \E i \in ends : i < Chunk THEN Min(ends) ELSE Chunk

\* The devices are read one after the other at first, and later when what had
\* been read of one is merged.
Read(r) ==
    \E m \in Thread :
        LET n == ReadTo(queue[m][r])
        IN  /\ r \notin joined
            /\ chunk[r][m] = << >>
            /\ \A before \in 0 .. m - 1 : chunk[r][before] # << >>
            /\ Readable(queue[m][r])
            /\ chunk' = [chunk EXCEPT ![r][m] = SubSeq(queue[m][r], 1, n)]
            /\ queue' = [queue EXCEPT ![m][r] = SubSeq(@, n + 1, Len(@))]
            /\ UNCHANGED <<vocab_cs, files, order, unsent, opened, heads, prefix, words,
                           indexer, tree, joined, mapping, reducing, sum, handed>>

\* The mappers whose lines r has not yet come to the end of.
Unmerged(r) == {m \in Thread : chunk[r][m] # <<End>>}

AllRead(r) == \A m \in Thread : chunk[r][m] # << >>

HandOver(r, line) ==
    /\ Len(handed[r]) < Capacity
    /\ handed' = [handed EXCEPT ![r] = Append(@, line)]

\* The least n-gram is added to the sum, which is handed over before when it was
\* that of another one.
Gather(r) ==
    \E m \in Unmerged(r) :
        LET line == Head(chunk[r][m])
        IN  /\ r \notin joined
            /\ AllRead(r)
            /\ \A other \in Unmerged(r) : ~ Before(Head(chunk[r][other]).ngram, line.ngram)
            /\ chunk' = [chunk EXCEPT ![r][m] = Tail(@)]
            /\ IF sum[r] = End \/ sum[r].ngram = line.ngram
                 THEN /\ sum' = [sum EXCEPT ![r] = [line EXCEPT !.count = @ + sum[r].count]]
                      /\ UNCHANGED handed
                 ELSE /\ sum' = [sum EXCEPT ![r] = line]
                      /\ HandOver(r, sum[r])
            /\ UNCHANGED <<vocab_cs, files, order, unsent, queue, opened, heads, prefix,
                           words, indexer, tree, joined, mapping, reducing>>

\* The last sum, and then an empty n-gram.
GatherLast(r) ==
    /\ r \notin joined
    /\ Unmerged(r) = {}
    /\ End \notin Range(handed[r])
    /\ HandOver(r, sum[r])
    /\ sum' = [sum EXCEPT ![r] = End]
    /\ UNCHANGED <<indexVars, mapping, reducing, chunk>>

-----------------------------------------------------------------------------
(* The thread of a process that reduces.                                    *)

IndexWord(r) ==
    LET line == Head(handed[r])
        same == prefix[r] = Front(line.ngram)
    IN  /\ handed[r] # << >>
        /\ line # End
        /\ handed' = [handed EXCEPT ![r] = Tail(@)]
        /\ prefix' = [prefix EXCEPT ![r] = Front(line.ngram)]
        /\ words' = [words EXCEPT ![r] =
              Append(IF same THEN @ ELSE << >>, [id |-> Id(Last(line.ngram)), count |-> line.count])]
        /\ indexer' = [indexer EXCEPT ![r] =
              IF same \/ words[r] = << >> THEN @ ELSE Indexed(r)]
        /\ UNCHANGED <<vocab_cs, files, order, unsent, queue, opened, heads, tree, joined,
                       mapping, reducing, chunk, sum>>

\* The end; the process has nothing else left to do.
IndexLast(r) ==
    /\ handed[r] = <<End>>
    /\ handed' = [handed EXCEPT ![r] = << >>]
    /\ tree' = IF words[r] = << >> THEN tree
                 ELSE [tree EXCEPT ![r] = Append(@, Level(r, Indexed(r)))]
    /\ joined' = joined \union {r}
    /\ UNCHANGED <<vocab_cs, files, order, unsent, queue, opened, heads, prefix, words,
                   indexer, mapping, reducing, chunk, sum>>

-----------------------------------------------------------------------------

ProcessesDone ==
    /\ order = 1
    /\ Joined
    /\ \A t \in Thread : ~ Listed(mapping[t] + 1) /\ ~ Listed(reducing[t] + 1)

ProcessesNext ==
    \/ OpenGoogle /\ UNCHANGED mpiVars
    \/ \E m \in Thread : Map(m) \/ Send(m)
    \/ \E r \in Thread : \/ ReduceOrder(r) \/ Read(r) \/ Gather(r) \/ GatherLast(r)
                         \/ IndexWord(r) \/ IndexLast(r)
=============================================================================
