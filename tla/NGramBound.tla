----------------------------- MODULE NGramBound -----------------------------
(* Upper bounds of the log-probabilities (NGram::bounds and its mapper and  *)
(* reducer in expgram/NGram.cpp).  A decoder that knows only the last words *)
(* of a context scores with the bound, so the bound of an n-gram must cover *)
(* every n-gram that ends in it and can decide a score.  In a backward      *)
(* index the n-grams are stored with their words reversed, and the last     *)
(* word of a node is the first one of the text.                             *)
(*                                                                          *)
(* The threads and queues are those of MapReduce.                           *)
EXTENDS NGramIndex, SequencesExt

CONSTANTS
    Bos,            \* the word that starts a sentence
    Backward,       \* is the index backward?
    logprobs,       \* logprobs[s][p]: the log-probability of node p
    logprob_min,    \* the log-probability of an n-gram that has none
    Capacity        \* the max_size of a queue

ASSUME BoundAssumption ==
    /\ Shard = 0 .. Cardinality(Shard) - 1
    /\ Bos \in Word
    /\ Backward \in BOOLEAN
    /\ logprob_min \in Int
    /\ \A s \in Shard : logprobs[s] \in [Pos(s) -> Int]
    /\ \A s \in Shard : \A p \in Pos(s) : logprobs[s][p] >= logprob_min

VARIABLES
    sent, admitted, uncounted, queue, num_empty, stopped, popped, \* of MapReduce
    logbounds           \* logbounds[s]: the bounds of the reducer of s

Greater(x, y) == IF x >= y THEN x ELSE y

-----------------------------------------------------------------------------
(* The mapper.                                                              *)

Message(g, logprob) == [to |-> shard_index(g), context |-> g, logprob |-> logprob]

\* The n-gram without n words at the start of the text.
Shorter(g, n) == IF Backward THEN SubSeq(g, 1, Len(g) - n) ELSE SubSeq(g, n + 1, Len(g))

StartsSentence(g) == IF Backward THEN LastWord(g) = Bos ELSE g[1] = Bos

FirstOfNode(g) == Len(g) = Order \/ g[1] = Bos      \* faulty Decides

\* An n-gram of the last order or at the start of a sentence is the longest
\* that a context can match.
Decides(g) == Len(g) = Order \/ StartsSentence(g)

\* Does node p of two or more words pass its log-probability on?
Passes(s, p) ==
    /\ Len(Ngram(s, p)) > 1
    /\ Decides(Ngram(s, p))
    /\ logprobs[s][p] # logprob_min

NextShorter(g) == <<Shorter(g, 1)>>                 \* faulty AllShorter

\* The shorter n-grams, the longest first.
AllShorter(g) == [n \in 1 .. Len(g) - 1 |-> Shorter(g, n)]

\* What the mapper pushes for node p: nothing for unigrams, kept apart.
Pushed(s, p) ==
    LET Longer(g) == Len(g) > 1
        To(g) == Message(g, logprobs[s][p])
        shorter == SelectSeq(AllShorter(Ngram(s, p)), Longer)
    IN  IF Passes(s, p) THEN [n \in DOMAIN shorter |-> To(shorter[n])] ELSE << >>

\* The local bound of the unigram of word w.
Unigram(s, w) ==
    FoldSet(Greater, logprob_min,
        {logprobs[s][p] : p \in {p \in Pos(s) : Passes(s, p)
            /\ Contains(AllShorter(Ngram(s, p)), <<w>>)}})

Messages(s) ==
    LET longer == FlattenSeq([i \in 1 .. Size(s) - Offset(s, 1) |->
                                 Pushed(s, Offset(s, 1) + i - 1)])
        unigrams == [i \in 1 .. Offset(s, 1) |->
                        Message(Ngram(s, i - 1), Unigram(s, Ngram(s, i - 1)[1]))]
        Bounded(message) == message.logprob > logprob_min
    IN  longer \o SelectSeq(unigrams, Bounded)

Output == [s \in Shard |-> Messages(s)]

Targets == [s \in Shard |-> [i \in 1 .. Len(Output[s]) |-> Output[s][i].to]]

Threads == INSTANCE MapReduce WITH
    Mapper <- Shard, Reducers <- Cardinality(Shard), To <- Targets

-----------------------------------------------------------------------------
(* The reducer.                                                             *)

\* Only shard 0 keeps log-probabilities of the unigrams.
BoundOffset(s) == IF s = 0 THEN 0 ELSE Offset(s, 1)

position_size(s) == Offset(s, Order - 1)

\* A bound starts as the log-probability of the n-gram itself.
OwnBounds ==
    [s \in Shard |-> [p \in BoundOffset(s) .. position_size(s) - 1 |-> logprobs[s][p]]]

Init == Threads!Init /\ logbounds = OwnBounds

vars == <<sent, admitted, uncounted, queue, num_empty, stopped, popped, logbounds>>

Map(s) == Threads!Map(s) /\ UNCHANGED logbounds

Received(item) == Output[item.from][item.index]

PopEmpty(s) ==
    /\ Threads!Pop(s)
    /\ Threads!IsEmpty(Head(queue[s]))
    /\ UNCHANGED logbounds

Overwrite(x, y) == y                                \* faulty Raised

Raised(x, y) == Greater(x, y)

\* A context that is not in the index is dropped with a warning.
PopBound(s) ==
    /\ Threads!Pop(s)
    /\ ~ Threads!IsEmpty(Head(queue[s]))
    /\ LET message == Received(Head(queue[s]))
       IN  logbounds' = IF Has(s, message.context)
              THEN [logbounds EXCEPT ![s][Find(s, message.context)] =
                       Raised(@, message.logprob)]
              ELSE logbounds

Write(s) == Threads!Stop(s) /\ UNCHANGED logbounds

Reduce(s) == PopEmpty(s) \/ PopBound(s) \/ Write(s)

BoundNext ==
    \/ \E s \in Shard : Map(s)
    \/ \E s \in Shard : Reduce(s)

-----------------------------------------------------------------------------

Text(g) == IF Backward THEN Reverse(g) ELSE g

\* The log-probabilities that a score of g with more words before it can be.
Covered(g) ==
    UNION {{logprobs[s][p] : p \in {p \in Pos(s) :
        /\ IsStrictSuffix(Text(g), Text(Ngram(s, p)))
        /\ Len(Ngram(s, p)) = Order \/ Text(Ngram(s, p))[1] = Bos}} : s \in Shard}

\* Whatever way the messages mix, the bound of an n-gram is exactly the
\* greatest of its own log-probability and of those of the n-grams that end
\* in it and that no longer context can overrule, over all the shards.  A
\* smaller one is no bound, a larger one prunes nothing.
BoundsTight ==
    \A s \in stopped : \A p \in BoundOffset(s) .. position_size(s) - 1 :
        logbounds[s][p] = FoldSet(Greater, logprobs[s][p], Covered(Ngram(s, p)))

-----------------------------------------------------------------------------
(* Upper bounds by MPI processes (progs/expgram_bound_mpi.cpp).  What the   *)
(* processes send and how they take maxima is what the threads of NGramBound*)
(* do; but a context that is not in the index stops all of them.            *)

CONSTANT BufferSize

VARIABLES
    medium,     \* "threads", "processes", or "aborted"
    device, reading     \* of MapReduceMPI

boundMPIVars == <<medium, device, reading>>

BoundProcesses == INSTANCE MapReduceMPI WITH
    Mapper <- Shard, Reducers <- Cardinality(Shard), To <- Targets

BoundMPIInit == medium = "threads" /\ BoundProcesses!MPIInit

\* The processes are started in place of the threads.
SpawnBound ==
    /\ medium = "threads"
    /\ \A s \in Shard : sent[s] = 0
    /\ admitted = {}
    /\ medium' = "processes"
    /\ UNCHANGED <<vars, device, reading>>

CarryBound(s) == BoundProcesses!Carry(s) /\ UNCHANGED <<logbounds, medium>>

InIndex(s) ==
    LET item == Head(queue[s])
    IN  ~ Threads!IsEmpty(item) => Has(s, Received(item).context)

ReduceBound(s) ==
    /\ queue[s] # << >>
    /\ InIndex(s)
    /\ PopEmpty(s) \/ PopBound(s)
    /\ UNCHANGED boundMPIVars

\* "no ngram?"
AbortBound(s) ==
    /\ queue[s] # << >>
    /\ ~ InIndex(s)
    /\ medium' = "aborted"
    /\ UNCHANGED <<vars, device, reading>>

WriteBound(s) ==
    /\ BoundProcesses!Barrier
    /\ Write(s)
    /\ UNCHANGED boundMPIVars

\* The mappers know of the end of all reducers.
ExitBound ==
    /\ Threads!Joined
    /\ medium' = "threads"
    /\ device' = BoundProcesses!Devices
    /\ UNCHANGED <<vars, reading>>

BoundMPINext ==
    /\ medium = "processes"
    /\ \/ \E s \in Shard : CarryBound(s)
       \/ \E s \in Shard : ReduceBound(s) \/ AbortBound(s) \/ WriteBound(s)
       \/ ExitBound
=============================================================================
