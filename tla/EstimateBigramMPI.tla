------------------------ MODULE EstimateBigramMPI ------------------------
(* Estimation of the bigrams by MPI processes (estimate_bigram in           *)
(* progs/expgram_counts_estimate_mpi.cpp).  The bigrams of one context lie  *)
(* in several shards, but have to be estimated together.  The mapper of a   *)
(* process sends the counts of its bigrams to the process that estimates    *)
(* the context; the estimator there merges what the processes send, context *)
(* by context, and sends every probability to the process of its shard,     *)
(* where the reducer stores it.  The main thread of a process carries the   *)
(* data between the queues of its threads and the streams.                  *)
(*                                                                          *)
(* A probability, bound or weight is abstracted to what it was computed     *)
(* from: Unset is the initial value, Partial one that was computed from a   *)
(* part of the counts of its context, or will be rewritten, and Final the   *)
(* right one.                                                               *)
EXTENDS NGramIndex, SequencesExt

Stream == INSTANCE MPIStream

CONSTANTS
    Unseen,     \* the n-grams whose modified count (types) is zero
    Rawless,    \* the n-grams whose raw count is zero
    Removed     \* {UNK} when remove_unk is set, {} otherwise

\* One process for each shard, numbered from zero.
ASSUME RankAssumption == Shard = 0 .. Cardinality(Shard) - 1

VARIABLES
    logprobs,   \* shard_data.logprobs, by process and node
    logbounds,  \* shard_data.logbounds
    backoffs,   \* shard_data.backoffs
    mapped,     \* [r]: the node that the mapper of r sends next
    queue,      \* [tag][r][q]: what the threads of r have for process q;
                \* ["logprobs"][r][r] is the queue of the reducer of r
    stream,     \* [tag][r][q]: the stream from r to q
    finished,   \* the <<tag, r, q>> whose end mark the main thread has taken
    arrived,    \* [r][q]: the queue of counts from q to the estimator of r
    heads,      \* [r][q]: the first count from q, in the estimator's heap
    counts,     \* [r]: the counts of the context that the estimator collects
    terminated, \* [r]: the end marks that the reducer has counted
    stage       \* [r]: "bigram" until all is joined and broadcast

tables == <<logprobs, logbounds, backoffs>>

bigramVars == <<mapped, queue, stream, finished, arrived, heads, counts, terminated>>

Unset == 0
Partial == 1
Final == 2

Ranks == Cardinality(Shard)

Tags == {"counts", "logprobs"}

\* A count or a value of a bigram in a queue; no bigram, id_type(-1), is the
\* end mark.
Message(gram, logprob, logbound) ==
    [gram |-> gram, logprob |-> logprob, logbound |-> logbound]

EndMark == Message(<< >>, Unset, Unset)

\* What the estimator's heap has of a process, if not a bigram: the next one
\* is to be popped, there is none, the estimator is gone.
Unread == <<"unread">>
Exhausted == << >>
Gone == <<"gone">>

Kept(s, p) == LastWord(Ngram(s, p)) \notin Removed

\* The counts that all the processes send for context w.
CountsOf(w) ==
    UNION {{Ngram(s, p) : p \in {p \in Pos(s) : /\ Len(Ngram(s, p)) = 2
                                                /\ Ngram(s, p)[1] = w
                                                /\ Kept(s, p)}} : s \in Shard}

\* estimate_unigram leaves process 0 with the values, and broadcasts all but
\* the bounds.
Init ==
    /\ logprobs = [r \in Shard |-> [p \in Pos(r) |->
                     IF Len(Ngram(r, p)) = 1 THEN Final ELSE Unset]]
    /\ logbounds = [r \in Shard |-> [p \in Pos(r) |->
                      IF /\ r = 0
                         /\ Len(Ngram(r, p)) = 1
                         /\ Kept(r, p)
                         /\ Ngram(r, p) \notin Rawless THEN Final ELSE Unset]]
    /\ backoffs = [r \in Shard |-> [p \in Pos(r) |-> Unset]]
    /\ mapped = [r \in Shard |-> Offset(r, 1)]
    /\ queue = [tag \in Tags |-> [r \in Shard |-> [q \in Shard |-> << >>]]]
    /\ stream = [tag \in Tags |-> [r \in Shard |-> [q \in Shard \ {r} |-> Stream!Opened]]]
    /\ finished = {}
    /\ arrived = [r \in Shard |-> [q \in Shard |-> << >>]]
    /\ heads = [r \in Shard |-> [q \in Shard |-> Unread]]
    /\ counts = [r \in Shard |-> << >>]
    /\ terminated = [r \in Shard |-> 0]
    /\ stage = [r \in Shard |-> "bigram"]

-----------------------------------------------------------------------------
(* The mapper.  Its queue for its own process is that of the estimator.     *)

EstimatorOf(w) == Id(w) % Ranks

MapTo(r, q, count) ==
    IF q = r THEN /\ arrived' = [arrived EXCEPT ![r][r] = Append(@, count)]
                  /\ UNCHANGED queue
             ELSE /\ queue' = [queue EXCEPT !["counts"][r][q] = Append(@, count)]
                  /\ UNCHANGED arrived

MapCount(r) ==
    /\ mapped[r] < Offset(r, 2)
    /\ mapped' = [mapped EXCEPT ![r] = @ + 1]
    /\ IF Kept(r, mapped[r])
         THEN LET bigram == Ngram(r, mapped[r])
              IN  MapTo(r, EstimatorOf(bigram[1]), Message(bigram, Unset, Unset))
         ELSE UNCHANGED <<queue, arrived>>
    /\ UNCHANGED <<tables, stream, finished, heads, counts, terminated, stage>>

MapEnd(r) ==
    /\ mapped[r] = Offset(r, 2)
    /\ mapped' = [mapped EXCEPT ![r] = @ + 1]
    /\ queue' = [queue EXCEPT !["counts"][r] =
          [q \in Shard |-> IF q = r THEN @[r] ELSE Append(@[q], EndMark)]]
    /\ arrived' = [arrived EXCEPT ![r][r] = Append(@, EndMark)]
    /\ UNCHANGED <<tables, stream, finished, heads, counts, terminated, stage>>

-----------------------------------------------------------------------------
(* The estimator.                                                           *)

\* Pop the next count of process q into the heap: from every process in turn
\* at first, later from the one whose count was taken.
PopCount(r, q) ==
    /\ heads[r][q] = Unread
    /\ \A s \in Shard : s < q => heads[r][s] # Unread
    /\ arrived[r][q] # << >>
    /\ heads' = [heads EXCEPT ![r][q] = Head(arrived[r][q]).gram]
    /\ arrived' = [arrived EXCEPT ![r][q] = Tail(@)]
    /\ UNCHANGED <<tables, mapped, queue, stream, finished, counts, terminated, stage>>

\* Probabilities and bounds are computed in the order of the counts, each for
\* the counts that are not zero.
Computed(collected, zero) == SelectSeq(collected, LAMBDA g : g \notin zero)

\* "try merge two streams": it takes both lists as sorted by word, which they
\* are not when several processes have words of the context.
Merged(xs, ys, value) ==
    LET merge[i \in 1 .. Len(xs) + 1, j \in 1 .. Len(ys) + 1] ==
          CASE i > Len(xs) /\ j > Len(ys) -> << >>
            [] i <= Len(xs) /\ (j > Len(ys) \/ Before(xs[i], ys[j])) ->
                 <<Message(xs[i], value, Unset)>> \o merge[i + 1, j]
            [] i <= Len(xs) /\ j <= Len(ys) /\ xs[i] = ys[j] ->
                 <<Message(xs[i], value, value)>> \o merge[i + 1, j + 1]
            [] OTHER -> <<Message(ys[j], Unset, value)>> \o merge[i, j + 1]
    IN  merge[1, 1]

\* The values of the context that was collected.
Estimated(collected) ==
    LET value == IF ToSet(collected) = CountsOf(collected[1][1]) THEN Final ELSE Partial
        bounded == IF Order > 2 THEN Computed(collected, Rawless) ELSE << >>
    IN  Merged(Computed(collected, Unseen), bounded, value)

\* estimate() stores the weight of the context and its result is pushed,
\* together with more to every process.
Estimate(r, more) ==
    LET collected == counts[r]
        context == Find(r, <<collected[1][1]>>)
        values == Estimated(collected)
        For(q) == SelectSeq(values, LAMBDA v : shard_index(v.gram) = q)
    IN  /\ backoffs' = IF Computed(collected, Unseen) = << >> THEN backoffs
             ELSE [backoffs EXCEPT ![r][context] =
                     IF ToSet(collected) = CountsOf(collected[1][1]) THEN Final ELSE Partial]
        /\ queue' = [queue EXCEPT !["logprobs"][r] =
              [q \in Shard |-> @[q] \o For(q) \o more]]

\* Take the count with the least context off the heap, whatever process it is
\* from.  A new context is the end of the one before.
TakeCount(r, q) ==
    LET first == heads[r][q]
        inHeap == {s \in Shard : heads[r][s] \notin {Exhausted, Gone}}
    IN  /\ \A s \in inHeap : heads[r][s] # Unread
        /\ q \in inHeap
        /\ \A s \in inHeap : Id(first[1]) <= Id(heads[r][s][1])
        /\ heads' = [heads EXCEPT ![r][q] = Unread]
        /\ IF counts[r] # << >> /\ counts[r][1][1] # first[1]
             THEN /\ Estimate(r, << >>)
                  /\ counts' = [counts EXCEPT ![r] = <<first>>]
             ELSE /\ counts' = [counts EXCEPT ![r] = Append(@, first)]
                  /\ UNCHANGED <<backoffs, queue>>
        /\ UNCHANGED <<logprobs, logbounds, mapped, stream, finished, arrived,
                       terminated, stage>>

\* The heap is empty: the last context, and an end mark for every process.
EstimateEnd(r) ==
    /\ \A s \in Shard : heads[r][s] = Exhausted
    /\ heads' = [heads EXCEPT ![r] = [s \in Shard |-> Gone]]
    /\ counts' = [counts EXCEPT ![r] = << >>]
    /\ IF counts[r] # << >>
         THEN Estimate(r, <<EndMark>>)
         ELSE /\ queue' = [queue EXCEPT !["logprobs"][r] =
                    [q \in Shard |-> Append(@[q], EndMark)]]
              /\ UNCHANGED backoffs
    /\ UNCHANGED <<logprobs, logbounds, mapped, stream, finished, arrived,
                   terminated, stage>>

-----------------------------------------------------------------------------
(* The reducer.  It ends with the end mark of the last process.             *)

Overwrite(old, new) == new                          \* faulty Store

\* A value of logprob_min is no value.
Store(old, new) == IF new = Unset THEN old ELSE new

Reduce(r) ==
    LET message == Head(queue["logprobs"][r][r])
    IN  /\ terminated[r] < Ranks
        /\ queue["logprobs"][r][r] # << >>
        /\ queue' = [queue EXCEPT !["logprobs"][r][r] = Tail(@)]
        /\ IF message = EndMark
             THEN /\ terminated' = [terminated EXCEPT ![r] = @ + 1]
                  /\ UNCHANGED <<logprobs, logbounds>>
             ELSE /\ Has(r, message.gram)
                  /\ LET p == Find(r, message.gram)
                     IN  /\ logprobs' = [logprobs EXCEPT ![r][p] =
                               Store(@, message.logprob)]
                         /\ logbounds' = [logbounds EXCEPT ![r][p] =
                               Store(@, message.logbound)]
                  /\ UNCHANGED terminated
        /\ UNCHANGED <<backoffs, mapped, stream, finished, arrived, heads,
                       counts, stage>>

-----------------------------------------------------------------------------
(* The main thread.                                                         *)

\* All that is in a queue for another process is written at once; the end mark
\* is kept back.
Send(tag, r, q) ==
    LET data == SelectSeq(queue[tag][r][q], LAMBDA x : x # EndMark)
    IN  /\ Stream!Writable(stream[tag][r][q])
        /\ queue[tag][r][q] # << >>
        /\ queue' = [queue EXCEPT ![tag][r][q] = << >>]
        /\ finished' = IF Contains(queue[tag][r][q], EndMark)
                         THEN finished \union {<<tag, r, q>>} ELSE finished
        /\ stream' = IF data = << >> THEN stream
                       ELSE [stream EXCEPT ![tag][r][q] = Stream!Write(@, data)]
        /\ UNCHANGED <<tables, mapped, arrived, heads, counts, terminated, stage>>

EndStream(tag, r, q) ==
    /\ <<tag, r, q>> \in finished
    /\ Stream!Writable(stream[tag][r][q])
    /\ stream' = [stream EXCEPT ![tag][r][q] = Stream!Terminate(@)]
    /\ UNCHANGED <<tables, mapped, queue, finished, arrived, heads, counts,
                   terminated, stage>>

\* What comes from q is pushed to the estimator's queue for q, or to the one
\* queue of the reducer; the end of the stream as an end mark.
Receive(tag, r, q) ==
    LET in == stream[tag][q][r]
        data == IF Stream!Readable(in) THEN in.data ELSE <<EndMark>>
    IN  /\ Stream!Readable(in) \/ Stream!Ended(in)
        /\ stream' = [stream EXCEPT ![tag][q][r] =
              IF Stream!Readable(in) THEN Stream!Read(@) ELSE Stream!Close(@)]
        /\ IF tag = "counts"
             THEN /\ arrived' = [arrived EXCEPT ![r][q] = @ \o data]
                  /\ UNCHANGED queue
             ELSE /\ queue' = [queue EXCEPT ![tag][r][r] = @ \o data]
                  /\ UNCHANGED arrived
        /\ UNCHANGED <<tables, mapped, finished, heads, counts, terminated, stage>>

\* All streams are gone and all threads joined.
Joined(r) ==
    /\ \A tag \in Tags, q \in Shard \ {r} :
          stream[tag][r][q].out = "terminated" /\ stream[tag][q][r].in = "closed"
    /\ mapped[r] > Offset(r, 2)
    /\ \A q \in Shard : heads[r][q] = Gone
    /\ terminated[r] = Ranks

BroadcastRank(p) == 0                               \* faulty Sender

\* The process that has estimated the context of unigram p.
Sender(p) == p % Ranks

\* Every process in turn broadcasts the weights of the contexts that it has
\* estimated; nobody goes on before all have come so far.
Broadcast ==
    /\ \A r \in Shard : stage[r] = "bigram" /\ Joined(r)
    /\ stage' = [r \in Shard |-> "ngram"]
    /\ backoffs' = [r \in Shard |-> [p \in Pos(r) |->
          IF p < Offset(r, 1) THEN backoffs[Sender(p)][p] ELSE backoffs[r][p]]]
    /\ UNCHANGED <<logprobs, logbounds, bigramVars>>

BigramThread(r) ==
    \/ MapCount(r)
    \/ MapEnd(r)
    \/ \E q \in Shard : PopCount(r, q) \/ TakeCount(r, q)
    \/ EstimateEnd(r)
    \/ Reduce(r)
    \/ \E tag \in Tags, q \in Shard \ {r} :
          Send(tag, r, q) \/ EndStream(tag, r, q) \/ Receive(tag, r, q)
=============================================================================
