--------------------------- MODULE NGramBackward ---------------------------
(* The backward index (NGram::backward with its mapper and reducer in       *)
(* expgram/NGram.cpp), in which the n-grams are stored with their words     *)
(* reversed.  First come the bounds, then mappers and reducers over new     *)
(* queues: a mapper sends its n-grams to the shards of their reversals, a   *)
(* reducer keeps them in a file for each order until all have arrived, and  *)
(* then appends one order after the other to its trie.                      *)
(*                                                                          *)
(* The trie and the files of values are written in two different orders:    *)
(* the nodes in the order of the positions of their parents, the values in  *)
(* the order in which the n-grams were sorted.                              *)
EXTENDS NGramBound

CONSTANT backoffs       \* backoffs[s][p]: the back-off weight of node p

ASSUME BackwardAssumption ==
    /\ ~ Backward
    /\ \A s \in Shard : backoffs[s] \in [{p \in Pos(s) : Len(Ngram(s, p)) < Order} -> Int]

VARIABLES
    phase,      \* whose threads run: "bounds" or "backward"
    order,      \* order[s]: the order that the reducer of s appends next
    nodes,      \* nodes[s]: the n-grams of the new trie by position
    values,     \* values[s]: the three new files, one value per node
    thrown      \* the reducer that has thrown, which ends the program

new == <<order, nodes, values, thrown>>
queues == <<sent, admitted, uncounted, queue, num_empty, stopped, popped>>
backwardVars == <<vars, phase, new>>

-----------------------------------------------------------------------------
(* The mapper.                                                              *)

SameHome(g) == shard_index(g)                       \* faulty ReversedHome

ReversedHome(g) == shard_index(Reverse(g))

ReversedTargets ==
    [s \in Shard |-> [i \in 1 .. Size(s) - Offset(s, 1) |->
        ReversedHome(Ngram(s, Offset(s, 1) + i - 1))]]

Again == INSTANCE MapReduce WITH
    Mapper <- Shard, Reducers <- Cardinality(Shard), To <- ReversedTargets

\* What is sent of node p: its n-gram reversed, with its values.
Sent(s, p) ==
    LET shorter == Len(Ngram(s, p)) # Order
    IN  [context |-> Reverse(Ngram(s, p)),
         prob |-> logprobs[s][p],
         bound |-> IF shorter THEN logbounds[s][p] ELSE logprob_min,
         backoff |-> IF shorter THEN backoffs[s][p] ELSE logprob_min]

-----------------------------------------------------------------------------
(* The reducer.                                                             *)

\* What the reducer of s has written to its file of order n.
Lines(s, n) ==
    {line \in {Sent(item.from, Offset(item.from, 1) + item.index - 1) :
                  item \in {item \in popped[s] : ~ Again!IsEmpty(item)}} :
        Len(line.context) = n}

LastFirst(x, y) == Before(Reverse(x.context), Reverse(y.context))   \* faulty sized_key_less

sized_key_less(x, y) == Before(x.context, y.context)

Sorted(s, n) == SetToSortSeq(Lines(s, n), sized_key_less)

HasPrefix(s, line) == Contains(nodes[s], Context(line.context))

\* The children of each node in turn; a node of another order has none.
Attached(s, lines) ==
    FlattenSeq([i \in DOMAIN nodes[s] |->
        SelectSeq(lines, LAMBDA line : Context(line.context) = nodes[s][i])])

\* What is written for a line.  A weight that was never estimated becomes zero.
Value(line) ==
    IF Len(line.context) = Order
      THEN [prob |-> line.prob]
      ELSE [prob |-> line.prob, bound |-> line.bound,
            backoff |-> IF line.backoff = logprob_min THEN 0 ELSE line.backoff]

\* Append the nodes of one order and their values.
IndexOrder(s) ==
    LET lines == Sorted(s, order[s])
    IN  /\ lines # << >>
        /\ \A line \in Range(lines) : HasPrefix(s, line)
        /\ nodes' = [nodes EXCEPT ![s] =
               @ \o [i \in DOMAIN Attached(s, lines) |-> Attached(s, lines)[i].context]]
        /\ values' = [values EXCEPT ![s] = @ \o [i \in DOMAIN lines |-> Value(lines[i])]]
        /\ order' = [order EXCEPT ![s] = @ + 1]
        /\ UNCHANGED thrown

\* Quit if no n-gram of the order has arrived.
SkipOrder(s) ==
    /\ Lines(s, order[s]) = {}
    /\ order' = [order EXCEPT ![s] = @ + 1]
    /\ UNCHANGED <<nodes, values, thrown>>

\* No prefix: the exception leaves the thread.
Throw(s) ==
    /\ \E line \in Lines(s, order[s]) : ~ HasPrefix(s, line)
    /\ thrown' = {s}
    /\ UNCHANGED <<order, nodes, values>>

AppendOrder(s) ==
    /\ s \notin stopped
    /\ Again!AllEnded(s)
    /\ order[s] <= Order
    /\ IndexOrder(s) \/ SkipOrder(s) \/ Throw(s)
    /\ UNCHANGED <<queues, logbounds>>

-----------------------------------------------------------------------------

BackwardInit ==
    /\ Init
    /\ phase = "bounds"
    /\ order = [s \in Shard |-> 2]
    /\ nodes = [s \in Shard |-> << >>]
    /\ values = [s \in Shard |-> << >>]
    /\ thrown = {}

UnigramValues ==
    [i \in 1 .. Offset(0, 1) |->
        [prob |-> logprobs[0][i - 1], bound |-> logbounds[0][i - 1],
         backoff |-> backoffs[0][i - 1]]]

Bounding ==
    /\ phase = "bounds"
    /\ BoundNext
    /\ UNCHANGED <<phase, new>>

\* The driver: the unigrams, new queues and threads.
Start ==
    /\ phase = "bounds"
    /\ Threads!Joined
    /\ phase' = "backward"
    /\ nodes' = [s \in Shard |-> [i \in 1 .. Offset(s, 1) |-> Ngram(s, i - 1)]]
    /\ values' = [s \in Shard |-> IF s = 0 THEN UnigramValues ELSE << >>]
    /\ sent' = [s \in Shard |-> 0]
    /\ queue' = [s \in Shard |-> << >>]
    /\ num_empty' = [s \in Shard |-> 0]
    /\ stopped' = {}
    /\ popped' = [s \in Shard |-> {}]
    /\ UNCHANGED <<admitted, uncounted, logbounds, order, thrown>>

Transport(s) ==
    /\ Again!Map(s) \/ Again!Pop(s)
    /\ UNCHANGED <<logbounds, new>>

\* All orders are appended; the files are opened.
Open(s) ==
    /\ order[s] > Order
    /\ Again!Stop(s)
    /\ UNCHANGED <<logbounds, new>>

Reversing ==
    /\ phase = "backward"
    /\ thrown = {}
    /\ \E s \in Shard : Transport(s) \/ AppendOrder(s) \/ Open(s)
    /\ UNCHANGED phase

Ended == phase = "backward" /\ (Again!Joined \/ thrown # {})

BackwardNext == Bounding \/ Start \/ Reversing \/ (Ended /\ UNCHANGED backwardVars)

-----------------------------------------------------------------------------

Texts == {g \in UNION {Range(Nodes[s]) : s \in Shard} : Len(g) > 1}

\* Breadth first, and the n-grams of one length by their identifiers: as lookups,
\* which search the identifiers of a node's children, need them.
InOrder(seq) ==
    \A i, j \in DOMAIN seq :
        i < j => \/ Len(seq[i]) < Len(seq[j])
                 \/ Len(seq[i]) = Len(seq[j]) /\ Before(seq[i], seq[j])

\* The values written for the reversed n-gram g are those of the n-gram.
OfText(value, g) ==
    LET text == Reverse(g)
        home == shard_index(text)
        p == Find(home, text)
    IN  /\ value.prob = logprobs[home][p]
        /\ Len(g) # Order =>
              /\ value.bound = logbounds[home][p]
              /\ \/ value.backoff = backoffs[home][p]
                 \/ value.backoff = 0 /\ backoffs[home][p] = logprob_min

\* Whatever way the messages mix, a trie has after each order all the n-grams
\* up to it whose reversals belong to its shard, in the order of a trie, and
\* although nodes and values are written in different orders, the value at the
\* position of a node is that of its n-gram.
BackwardRight ==
    phase = "backward" => \A s \in Shard :
        LET offset == IF s = 0 THEN 0 ELSE Offset(s, 1)
            arrived == {g \in {Reverse(text) : text \in Texts} :
                           shard_index(g) = s /\ Len(g) < order[s]}
        IN  /\ InOrder(nodes[s])
            /\ {g \in Range(nodes[s]) : Len(g) > 1} = arrived
            /\ Len(values[s]) = Len(nodes[s]) - offset
            /\ \A i \in DOMAIN values[s] : OfText(values[s][i], nodes[s][i + offset])

\* The exception that ends the program is thrown for pruned n-grams only: the
\* n-gram without its first word, the prefix of the reversal, is not indexed.
ThrowsForPrunedOnly ==
    \A s \in thrown : \E text \in Texts :
        /\ shard_index(Reverse(text)) = s
        /\ Len(text) > 2
        /\ Tail(text) \notin Texts

-----------------------------------------------------------------------------
(* The backward index by MPI processes (progs/expgram_backward_mpi.cpp).    *)
(* What the processes send, the files and the tries of the reducers are     *)
(* those of NGramBackward.                                                  *)

BackwardProcesses == INSTANCE MapReduceMPI WITH
    Mapper <- Shard, Reducers <- Cardinality(Shard), To <- ReversedTargets

backwardMPIVars == <<backwardVars, boundMPIVars>>

BackwardMPIInit == BackwardInit /\ BoundMPIInit

\* The processes are started in place of the threads.
SpawnBackward ==
    /\ phase = "backward"
    /\ \A s \in Shard : sent[s] = 0
    /\ admitted = {}
    /\ medium' = "processes"
    /\ UNCHANGED <<backwardVars, device, reading>>

CarryBackward(s) ==
    /\ BackwardProcesses!Carry(s)
    /\ UNCHANGED <<logbounds, phase, new, medium>>

ReduceBackward(s) ==
    /\ Again!Pop(s)
    /\ UNCHANGED <<logbounds, phase, new, boundMPIVars>>

\* An exception is MPI's Abort.
AppendShard(s) == AppendOrder(s) /\ UNCHANGED <<phase, boundMPIVars>>

WriteShard(s) ==
    /\ \A r \in Shard : order[r] > Order
    /\ Open(s)
    /\ UNCHANGED <<phase, boundMPIVars>>

BackwardProcessesNext ==
    /\ phase = "backward"
    /\ medium = "processes"
    /\ thrown = {}
    /\ \E s \in Shard :
          CarryBackward(s) \/ ReduceBackward(s) \/ AppendShard(s) \/ WriteShard(s)

\* The threads.
ThreadsNext == BackwardNext /\ UNCHANGED boundMPIVars

BackwardMPINext ==
    \/ medium = "threads" /\ ThreadsNext
    \/ phase = "bounds" /\ SpawnBound /\ UNCHANGED <<phase, new>>
    \/ phase = "bounds" /\ BoundMPINext /\ UNCHANGED <<phase, new>>
    \/ medium = "threads" /\ SpawnBackward
    \/ BackwardProcessesNext
    \/ medium # "threads" /\ (Ended \/ medium = "aborted") /\ UNCHANGED backwardMPIVars

-----------------------------------------------------------------------------

\* What ends a program early is a pruned n-gram only: the exception of a
\* reducer of the backward index, or that of a process which has no place for a
\* bound because one of the shorter n-grams is not indexed.
EndsForPrunedOnly ==
    /\ ThrowsForPrunedOnly
    /\ medium = "aborted" =>
          \E text \in Texts : \E n \in 1 .. Len(text) - 2 : Shorter(text, n) \notin Texts
=============================================================================
