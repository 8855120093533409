# A verification project for expgram

expgram builds n-gram language models.  It collects counts, indexes them in a
trie spread over *shards*, estimates modified Kneser-Ney probabilities, computes
upper bounds and backward indexes, and dumps and queries the result.  The
programs work with threads that share arrays and queues (or with MPI processes
that do the same by messages); the order of words, counts and probabilities in
the result must not depend on the schedule of those threads.  The models here
are about that: which thread reads what another one has not finished, who waits
for whom, and whether the parallel result is that of the sequential definition.

All paths below are relative to `src/`.

## Contents

 1. The components of the system
 2. The modules and how they correspond to the code
 3. The runs, their bounds and what they show
 4. Fairness
 5. What is proved, from what, and how
 6. Disagreements with the documentation
 7. Observations that are not findings
 8. What is not modelled
 9. Plan

## 1. The components of the system

| component | code | state | operations | partners |
|---|---|---|---|---|
| sharded n-gram index | `expgram/NGramIndex.hpp`, `.cpp` | per shard: identifiers in order of position, bit vector of the children, offsets of the orders | `parent`, `children_first/last`, `find`, `traverse`, `shard_index`, open/write | read by everything; written by the indexers |
| lookup cache | `NGramIndex.hpp:115-303` | a table of two-word entries (question, answer) | `find`: read, search, compare-and-swap | all threads that query |
| estimation | `NGramCounts.cpp:352-1210` | probabilities, lower-order probabilities, back-offs of each shard; a frontier `offsets[shard]` per shard | one thread per shard walks the orders, spins on the frontiers of other shards | other threads, through the frontiers only |
| modified counts | `NGramCounts.cpp:76-317` | one bounded queue per shard, the new counts | mapper per shard, reducer per shard | the map-reduce skeleton |
| upper bounds | `NGram.cpp:1021-1313` | one bounded queue per shard, the bounds | mapper per shard, reducer per shard | the map-reduce skeleton |
| backward index | `NGram.cpp:1315-1955` | queues, a new index built order by order | mapper, reducer, driver | map-reduce, indexer |
| indexing of counts | `NGramCounts.cpp:1811-2392`, `NGramCountsIndexer.hpp` | queues mapper x shard, heaps of the two merges, the trie under construction | driver, mapper, reducer, indexer per order | sorted count files, the index |
| dump | `NGramCounts.cpp:1255-1460`, `NGram.cpp:612-1018` | one queue per shard, a heap | producers and one k-way merge | index |
| ARPA reading, quantization | `NGram.cpp:385-610, 1973-2699` | queues, tables of codes | mapper, reducer | index |
| discounts, unigrams, bigrams | `NGramCounts.cpp:352-620, 930-1100`, `Discount.hpp` | counts of counts per shard, discounts per order | count, merge, estimate | before the threads of the estimation; the MPI estimation |
| lock-free list queue | `utils/lockfree_list_queue.hpp` | head and tail links with versions, external counters, a size | `push`, `pop` with spinning | all pipelines |
| readers-writer ticket lock | `utils/rwticket.hpp` | two 16-bit tickets in one word, a counter of readers | lock, try and unlock for readers and writers | the word table |
| other queues and locks | `utils/lockfree_queue.hpp`, `bounded_queue.hpp`, `lockfree_stack.hpp`, `spinlock.hpp` | ring or list, flags | push/pop, lock/unlock | none of the programs that are modelled |
| words and vocabulary | `expgram/Word.*`, `Vocab.*`, `utils/indexed_hashtable.hpp`, `chunk_vector.hpp` | global table of words that grows, maps per thread, caches of 64-bit entries | allocate, look up | everything that parses |
| scoring | `NGram.hpp`, `NGramScorer.hpp`, `NGramState*.hpp` | states of a hypothesis | probability, bound, extension on the left and right | index, model |
| extraction | `progs/expgram_counts_extract*`, `expgram_vocab*` | queues of texts, subprocesses | read, count, merge | files |
| MPI estimation | `progs/expgram_counts_estimate_mpi.cpp`, `utils/mpi_stream.hpp` | per process: tables of its own shard, queues between its threads, streams to the others, requests kept waiting | mapper, estimator, reducer, server and main loop of a process | the other processes, by messages only |
| other MPI programs | `progs/*_mpi.cpp`, `utils/mpi_*` | buffers and pending requests of a device | send, test, flush, terminate | the same algorithms over messages |
| succinct and packed data | `utils/succinct_*`, `packed_*`, `vertical_*`, `succinct_db/` | bit vectors | rank, select, hash lookup | index |
| repositories, temporary files | `utils/repository.hpp`, `tempfile.*` | directories, a list for signal handlers | open, write properties, remove | all writers |
| pipeline | `scripts/expgram.py` | files on disk | start programs step by step, from any step on | programs |

### What is hard in each, and what makes it correct

* **Estimation.**  The thread of a shard reads probabilities and back-offs of
  suffixes from other shards while their threads compute them.  There is no
  lock: `offsets[shard]` is the position below which values are final, it is
  raised context by context, and a reader spins on it.  Correct means: nobody
  computes from a value that changes afterwards (the normalisation of a context
  rewrites its values several times, `NGramCounts.cpp:849`), the lower orders
  are those of the sequential definition, and the spinning ends.
* **Map-reduce.**  A reducer ends after one *empty context* per mapper.  The
  queue is bounded, so a mapper can wait for a reducer.  Correct means: no
  message is left behind and nobody waits for ever.
* **Modified counts, upper bounds.**  Sums and maxima collected from all mappers
  in any order.  Correct means: equal to the definition over the whole index;
  nothing is written outside of the counts.
* **Indexing.**  The merge of a reducer needs one *particular* queue next, the
  next n-gram of a mapper goes to one *particular* queue, both wait.  Correct
  means: the trees hold the sums of the corpus, each context's words once and in
  the order of their identifiers, and the indexing ends.
* **Lookup cache.**  An entry of two words is read by two loads without a lock.
  Correct means: the answer is that of the search.
* **Queues and locks.**  Links, versions, tickets and sizes changed by several
  threads, numbers that wrap.  Correct means: FIFO, nothing freed while in use,
  mutual exclusion.
* **Words and vocabulary caches.**  One identifier for one spelling whatever
  thread asks first; a cached entry is right for the question it answers.
* **Extraction.**  One queue that many tasks pop from, ended by one empty item for each;
  counts dumped to files whenever memory runs short; children with two pipes each, which
  inherit the pipes of others; processes that are given lines when they are ready.  Correct
  means: each line is counted once, whoever counts it and whenever, and all ends.
* **Dump, backward index, ARPA.**  Merges and map-reduces as above; orders that
  are empty in one shard and not in another.
* **Scoring.**  A score taken from states and partial states equals the score of
  the whole sentence.
* **MPI estimation.**  A process sees the probabilities of its own shard only and asks
  for the others.  Answers carry no name and are matched by their order; a server keeps a
  request until its own reducer has come so far, or passes it on.  Correct means: every
  answer belongs to its request and has the value of the sequential definition, the
  tables are complete, and all processes come to their end.
* **Other MPI programs.**  The mappers and reducers again, as processes, over devices that
  buffer what is written and send it when the last message has arrived.  The end of a
  mapper must not overtake what is still in its buffers, and a process that finds no place
  for what it receives stops all of them.
* **Words.**  A table that grows while other threads hold pointers into it.  Correct means:
  what was handed out stays where it is.
* **Discounts, unigrams, bigrams.**  Differences near zero, discounts below zero or never
  set, contexts that every word follows.  Correct means: the probabilities behind each
  context, with those that it backs off to, sum up to one.
* **Repositories.**  Directories that several threads or processes empty and fill at once,
  and what a reader finds after a crash, or a failed call, between two steps.  Correct
  means: what opens is of one run and whole.
* **Packed data.**  Portions, blocks and units of different sizes, and caches.  Correct
  means: what is read is what was written, whatever the length.
* **Pipeline.**  Programs that fail, and invocations that go on with older files.  Correct
  means: a finished step was made from what the first step of the same invocation found.

The hazards that follow, with the lines where they bite and the properties that
cover them, are listed in `PROJECT.json`.

## 2. The modules and how they correspond to the code

```
NGramIndex ─────────┬─ NGramCountsEstimate (INSTANCE EstimateOrder) ── MCNGramCountsEstimate
  │                 │      └─ NGramCountsEstimate_proofs
  │                 ├─ EstimateBigramMPI (INSTANCE MPIStream) ── EstimateNGramMPI
  │                 │      └─ MCEstimateMPI
  │                 ├─ NGramCountsModify (EXTENDS MapReduce) ── NGramCountsDump
  │                 │      └─ NGramCountsModifyMPI (INSTANCE MapReduceMPI) ── MCNGramCountsDump
  │                 │             └─ NGramCountsModify_proofs (EXTENDS MapReduce_proofs, NGramIndex_proofs)
  NGramIndex_proofs └─ NGramBound (INSTANCE MapReduce, MapReduceMPI)
                         ├─ NGramBackward (INSTANCE MapReduce, MapReduceMPI) ── MCNGramBackward
                         └─ NGramArpa ── NGramDump ── NGramQuantize
                                └─ NGramScorer ── MCNGramArpa
MapReduce ── MapReduce_proofs, MapReduceMPI
LockfreeListQueue (INSTANCE BoundedFifo), NGramRepository, PackedData
  with NGramBackward ── MCNGramBackward
LockfreeListQueue ── LockfreeListQueue_proofs
LowOrders, Pipeline with NGramScorer ── MCNGramArpa
NGramIndexCache, Vocab ── Lookups_proofs
NGramIndexCache, Vocab, RWTicket ── MCLookups
Pipeline ── Pipeline_proofs
RWTicket ── RWTicket_proofs
NGramCountsIndex ── NGramCountsIndexMPI ──┐
CountTasks ── CountTasksMPI (INSTANCE MPIStream) ── NGramCountsExtract ── MCNGramCountsExtract
```

**NGramIndex** is the finished index as functions: `Nodes[s]` lists the n-grams
of shard `s` in the order of their positions, as the level-ordered trie of
`NGramIndex.hpp` numbers them.  From it follow `offsets` of the orders, parents,
children and the lookup with its three outcomes (the n-gram itself, only its
context, nothing).  A shard holds the n-grams whose first two words hash to it
(`Home`, for `shard_index`); unigrams have their values in shard 0.
`IndexAssumption` says what an index is: every node but a unigram has its parent
in the same shard, shorter n-grams first, no n-gram twice.

**NGramCountsEstimate** is `NGramCountsEstimateMapper`: a thread per shard with
the program points `enter` (take the next context and publish what precedes it),
`lower` (look a suffix up and spin until it is below its shard's frontier),
`backoff` (it was never estimated: read the weight of its context), `write` (the
probabilities of the children, perhaps several times), `store` or `rescale`
(the weight, or one more normalisation) and `publish`.  `offsets`, `logprobs`,
`backoffs` are variables.  Values are abstracted to the number of times they
were written: the properties ask whether a value that was read is the last one,
and not what it is.  `Unseen` are the n-grams with count zero (their probability
is left at `logprob_min`), `Removed` the words that `remove_unk` skips.
`MaxPass` bounds the repeated normalisation, whose number in the code depends on
floating-point sums.  The discounts, unigrams and bigrams are computed before
the threads start and are the initial state.

**EstimateOrder** is what the estimation promises without threads: the settled
values grow one context at a time, and a context is settled only after the
suffixes that its values need.  The frontiers implement it.

**MapReduce** is the skeleton that `modify()`, `bounds()` and `backward()` share: mappers
with a list of destinations, bounded queues whose `push` is three steps (look at the
size, link, count: `lockfree_list_queue.hpp:359-372`), one empty context per mapper to
every reducer, reducers that count them.  Its queues are those of BoundedFifo.

**NGramCountsModify** and **NGramBound** add the data: the mapper of each walks
the index and sends counts or probabilities to the shard of the shorter n-gram, the
reducer adds them up or takes maxima.  Each action of theirs is one of MapReduce's
threads, joined with what it does with the message.

**NGramCountsDump** goes on after the modification (it needs nothing of it: what is printed
are the counts of the corpus): a thread per shard pushes the contexts of the shard with the
words that were counted behind them, in the order of the nodes, to a queue of its own;
`dump()` prints the unigrams and merges the queues by length and identifiers of the
context.  It takes the next context from the queue it took from last (`awaited`).

**NGramBackward** goes on after the bounds: new queues (`Again`, a second instance of
MapReduce), mappers that send every n-gram reversed with its three values to the shard of
the reversal, reducers that keep what arrives in a file per order (`Lines`) and, when all
mappers have ended, append the orders one by one: `IndexOrder` writes the values in the
order of the sort and the nodes in the order of the positions of their parents,
`SkipOrder` is the early return for an order without n-grams, and `Throw` the exception
for a missing prefix.

**NGramArpa** is `NGram::open_arpa`: the program reads the unigrams, whose order gives
the words their identifiers, and sends every longer line to the thread of the shard that
its reversal hashes to; a thread keeps the lines of one order and, when the next order
begins, appends them to its trie with the prefixes that are missing there ("pseudo
contexts", `NGram.cpp:2367`).  The bounds of NGramBound, for a backward index, follow.

**NGramDump** is `NGram::dump`: a producer for each shard and the merge, over the model
that was just read, so that what comes out can be compared with what went in.

**NGramQuantize** is `NGram::quantize` with `Quantizer.hpp`: the values
of each order are cut into runs, zero and the two values for "none" have codes of their
own, and each shard writes the codes of its three files and a list of maps.  A code
stands for the run of values that it decodes to the average of.

**NGramScorer** is scoring: `lookup`, `lookup_partial`, `ngram_score`,
`ngram_partial_score`, `ngram_score_update` and `logprob` as operators over the backward
index, and the operations of `NGramScorer` as actions of a decoder (which is not part of
expgram): it starts a phrase, adds a word, adds a finished phrase to the one around it,
or begins with one.  The prefix of a phrase is what can still be scored better, its
suffix the state for the next word.
What `expgram` and `expgram_perplexity` add up over the sentences of a text are operators too
(`perplexity`, `expgram`); `ScoreRight` compares them with the definition of back-off for the
texts whose lines are the phrases of the decoder.

**MPIStream** is one direction between two processes, an `mpi_ostream` and an
`mpi_istream`: at most one write is under way, and a size of -1 ends it.

**EstimateBigramMPI** and **EstimateNGramMPI** are `estimate_bigram` and `estimate_ngram` of
`expgram_counts_estimate_mpi.cpp`, with the threads of every process, their bounded
queues, the streams, and the main loop.  The sections of the main loop are actions of
their own, because `test()` of a stream may be false at any time and a pass of the loop
may thus do any of them or none.  What was computed from what is kept with a value
(`Unset`, `Partial`, `Final`, or the set of what was added to an answer), and not the
number.  The estimator's results of one context are pushed in one step; `reset()` of a
stream belongs to its `terminate()`.

**MapReduceMPI** is `MapReduce` between processes: each mapper has a device
(`utils/mpi_device.hpp`) to each reducer, in place of a push into its queue.  What is
written goes to a buffer that may grow past one message (the programs ask for
`overcommit`), so that a mapper never waits; `flush` sends a piece of it when it fills a
message and the last message has arrived.  At its end the mapper sends what is left, and
then a message of size zero, which stands for the empty context.  The reducer turns to any
device that has a message, `reading` is the device in the midst of whose line it is.
`Barrier` is the barrier of the communicator, behind which the reducers write.

**NGramBound** and **NGramBackward** also hold `expgram_bound_mpi` and
`expgram_backward_mpi`, **NGramCountsModifyMPI** is `expgram_counts_modify_mpi`.  At the start
of a pass it is decided whether threads or processes run it (`medium`).  The actions on
bounds, tries and counts are those of the threads, because the code of the
reducers is the same, with two differences: an n-gram whose context is not indexed is an
exception, upon which MPI aborts all processes, where the threads drop it with a warning;
and nobody writes before the barrier.

**Vocab** is the table of words and the lookups of a vocabulary.  Words are allocated by
several threads under the table's lock (one holder; the lock itself is RWTicket).  The
table keeps its strings in pieces of memory that never move (`chunk_vector`: `chunks` is
the list of their addresses, which is reallocated), and an index of pointers to them
(`indexed_hashtable`) whose bins double; each thread remembers where the strings of the
numbers it has met are, and reads them there without a lock (`word_maps`).  A vocabulary is
written as a succinct hash table (`Insert`, `Lookup`), and words and identifiers are
looked up through two shared caches, each entry one 64-bit word that is replaced by
compare-and-swap.

**LowOrders** is what `NGramCounts::estimate` does before its threads, and
`expgram_counts_estimate_mpi` before its bigrams: each shard counts how often each count
occurs, the counts are added up (by processes: broadcast in turns, each adding what it
receives to a copy of its own), the discounts follow as `Discount.hpp` computes them
(`left` is what members hold that nobody has set), then the unigrams and the bigrams of each
context with its weight; both are estimated again with one more unit of `total` while they
leave nothing for other words (`Estimated`).  Probabilities are exact fractions; where the code
compares a difference with zero, an exact zero may come out as positive (`rounded`).

**NGramRepository** is a file system below one output directory and the calls of
`repository.hpp`, `map_file.hpp` and the vectors on it: each writer (a thread, a process) has a
sequence of steps, each as much as one system call makes visible.  `Fail` lets a
call fail: what was begun is unwound as the destructors do it.  A crash is no action: every
state is one that a crash may leave, and the properties are about every state.
It gives the steps of counts and models (`write`, `write_prepare` and
`write_shard`, the index, the vocabulary, the codes and their maps), and `Opens`, what a
program that opens the directory would read, or that it would throw.

**PackedData** is bits with rank, select and their two levels of totals, and the caches of a
mapped vector; integers in as few half or whole bytes as they need (`packed_vector`), with the
sink that codes and writes them in portions; and sequences that do not decrease, low bytes
first, then, as a sequence of the same kind, where each higher part starts
(`vertical_coded_vector`), layer upon layer until one byte is enough.  The sizes of bytes, blocks and buffers are constants.

**Pipeline** is `expgram.py`: what each of the seven steps reads and writes, by which options
it is run, what happens when a program fails (with a shell the script stops, under PBS the
next job is started), the erasing at the end, and further invocations.

**NGramIndexCache** is `Shard::find`: the two loads of an entry, the comparison,
the search, the compare-and-swap of both words with the pair that was read.
The positions that share one entry are the interesting ones, so one entry is
modelled.  The high half of an entry holds the node and the upper half of the
identifier, the low half the child and the lower half, as `cache_type` packs them
(`NGramIndex.hpp:115-153`).

**CountTasks** is what the programs that count words and n-grams share: a main thread that
pushes batches of lines (`TaskLine`) or files (`TaskFile`) to one queue and then an empty
item for each task, and tasks that count what they pop.  A line is the bag of what is
counted in it.  A task may find memory short at any line (the code looks every few
thousand); it then dumps its counts and goes on with none.  With a filter each task has a
child, a thread that feeds it, and a pipe that holds `PipeSize` lines; a child ends when
nobody holds its input any more, and the children that were started later hold it too
(`subprocess.hpp:63`: the pipes are inherited).

**CountTasksMPI** is the same by processes: process 0 reads the input and gives lines to
whichever device, or names of files to whichever stream, is ready, and to its own task
when its queue is empty; each process pushes to a queue of one item and ends its own task.
`Forgets` is where the two programs differ (section 6).

**NGramCountsExtract** is steps 1 to 3 of `expgram.py`: the passes over counts and text of
`expgram_vocab`, the words that the script keeps (`KeepWords`), the passes of
`expgram_counts_extract`, what `postprocess` leaves in the directory, and the index of it.
What is asked for, and with which options, is `input`.

**NGramCountsIndex** is `open_google`: mappers that merge their count files, one queue per
mapper and shard, reducers that merge the queues, the indexer that gathers the words of one
context and hands them over sorted by identifier, and the driver that joins the threads of
one order before the next.  Every file, mapper, queue, heap and tree of the code is there;
a line of a file is a record of words and count.

**NGramCountsIndexMPI** is `expgram_counts_index_mpi`: processes that map and processes
that reduce, which go from order to order on their own; devices in place of queues, lines
that are read ahead in chunks, sums, and the thread that indexes in each reducer.

**LockfreeListQueue** is the queue of all these pipelines: a linked list in which
head and tail each have two pointers, a version that says which is current, and
a count of the threads that loaded it (`ll_op`); `sc_op` swings the other pointer, moves
the version on, and hands the count over to the node that is left, whose last
reader frees it.  A step of the model is a step on shared memory; a loop that
repeats a compare-and-swap until it succeeds is the step that succeeds.  Memory that
is freed may be allocated again at once, with whatever pointers threads still hold.
A model step frees a node in the step that makes it freeable, the code a moment later, so
the model's memory is reused sooner.  `CountWidth` is the width of the counts
(2^32), larger than the number of threads.

**BoundedFifo** is what the queue promises: values come out once, oldest first,
and a push that has looked at the size may link its node later.  `ImplementsFifo`
maps the list to it: its contents are the values behind the head, except that a
consumer whose `sc_op` has put a node in the head's other pointer owns that node
already, whoever moves the version on.

**RWTicket** is the lock around the table of words: a writer draws a ticket, waits
for its turn, then waits until no reader is announced; a reader announces itself and
withdraws if a ticket is out.  `try_lock` reads `users` and then compares and swaps
both halves of the word.  `Tickets` stands for 2^16; the only assumption is that
there are fewer threads than tickets.

`MC*` modules hold the instances, `*_proofs` the theorems.

## 3. The runs, their bounds and what they show

| run | instance | shows |
|---|---|---|
| `estimate` | 2 shards, 5 orders, 2 normalisations, a removed word, n-grams without a modified count, pruned n-grams; trigrams of each shard are suffixes of 4-grams of the other, and a 5-gram adds a wait that depends on a wait | `SeenNeverWritten`, `LowersSequential`, `EstimateComplete`, `Termination`, and the frontiers implement `EstimateOrder` |
| `modify` | trigrams in 2 shards, starts of sentences, a suffix that is not indexed, a word that does not occur, queues of size 1; the modification by threads or by processes, then the dump | `ModifiedCounts`: the sums are those of the definition in every interleaving, among threads and among processes; `InsideCounts`: no index outside of the array; `StoppedHasAll` of the transport; `DumpRight`: every count is printed once and in order; `ModifyEnds`: all of it ends, and what stops the processes early is a suffix that is not indexed |
| `backward` | one of: pruned 4-grams in 2 shards, of which one gets no 4-gram and the other a 4-gram without its prefix; the bounds, then the backward index, each by threads or by processes; a list queue of size 1 with five nodes used again and again, and two producers or two consumers (`Work`); four writings of models and counts of order 2 in 2 shards, by threads, by processes and by the indexer, in a new directory or over a model of order 1, quantized or not, with at most one call that fails (`Writings`); bit vectors, packed and coded sequences with bytes of 2 bits, blocks of 4 and totals every 3 blocks, the sequences of up to 18 values of which 3 differ | `BoundsTight`: the bound of a node is the maximum over what can decide a score there; `BackwardRight`: after every order the new trie is sorted and complete and each node has its own values; `EndsForPrunedOnly`: an exception or an abort needs a pruned n-gram; `MemoryKept` of the list queue: nothing that was freed is touched, and when all threads are outside, all that is not free is the queue's own; `ImplementsFifo`: it is a bounded queue, and a pop that returns false has found it empty; `OpensRight`: whatever a crash or a failure leaves, what opens is of one run; `WrittenWhole`: what was written is all there and nothing older; `WaitsEnd`: nobody waits in vain for a directory; `PackedDataRight`: what is packed is read back |
| `arpa` | one of: 21 lines of up to 4-grams that leave contexts out, read into 2 shards with queues of size 2, bounded by threads or by processes, printed with or without bounds, quantized with 4 codes, and scored: phrases of up to 5 words in up to 3 parts, with one unknown word; four corpora of up to 11 n-grams in 2 shards (`SmallCorpora`), estimated up to the bigrams by threads or up to the unigrams by processes, with or without unknown words; up to 2 invocations of `expgram.py` with 8 sets of options and 2 corpora | `ArpaRead`: every line is in the index with its values, and what is there besides are pseudo contexts; `BoundsTight` for a backward index; `ArpaDumped`: what is printed is what was read; `QuantizedRight`: every value has a code whose run contains it, the three exact ones theirs alone, and the maps are at the places of their orders; `ScoreRight`: a phrase put together in any order scores as the sum over its words from left to right; `SuffixRight`: its state is the longest one the index has; `DiscountsRight`: discounts come from the counts of all n-grams, each once; `SumsToOne`: the unigrams, and the words behind each word, sum up to one; `PipelineRight`: an invocation goes on only with what it has made itself |
| `score_shards` | bigrams in 2 shards, what comes before "b" in shard 1 only | *violated*: `CompleteRight` (section 6) |
| `find` | one of: 2 threads, three nodes in one entry, two of them asked for the same word; 2 threads and a vocabulary with a spelling inserted twice, two keys in one bin, one entry in each cache, an unknown word, while the table of words grows (from one bin, in pieces of two strings); 3 threads that read, write and try the lock for ever, 4 tickets | `CacheRight`: what is in the cache is right; `UnmixableAnswersRight`: torn reads do no harm to a question that no mixture answers; `VocabRight`: one number for one spelling, whoever asks, its identifier, and remembered places that stay right; `Exclusion`, `FirstComeFirstServed`, `LockEntered`: who waits gets in |
| `find_torn` | the same | *violated*: an answer can be wrong (section 6) |
| `corpus` | 7 inputs of a few lines (text, count files, a directory of counts), each with other options: by lines or by files, threads or processes for the vocabulary, the extraction and the index, with a filter or without, a cutoff, the most frequent words or all; 2 tasks, 2 shards, trigrams, batches of 2 lines, memory short once at any line | `ExtractedRight`: the files have each n-gram of the kept words as often as the input, sorted and each once; `IndexComplete`: so has the index; `Termination` |
| `index_full` | 2 count files, queues shorter than the runs | *violated*: the indexing need not end (section 6) |
| `vocab_stuck` | 2 processes that count the words of 2 lines | *violated*: the program need not end (section 6) |
| `estimate_mpi` | 2 processes, order 4, queues of size 1; a context whose bigrams lie with both, suffixes that are with the other process or with none, a removed word | `AnswersSequential`: also that every answer is taken for the request it belongs to; `EstimateComplete`, `Termination` |
| `estimate_mpi_stuck` | 2 processes, five n-grams, requests that cross | *violated*: the estimation need not end (section 6) |

Why the bounds are enough to be of interest:

* Two shards that need each other are the smallest case in which a cycle of
  waits could form.  Orders 3 to 5 are computed by the threads, and a wait in the
  highest depends on one in the order below.
* The modified counts of the instance are those that `modify()` gives
  (`NotPreceded`).  So a probability that is found is missing only where a longer suffix
  was not indexed, as in pruned counts: lookups in the instance end at an n-gram, at
  its context, or at neither.  The weights that it reads without waiting are
  of contexts that the same thread has waited for before, so `SeenNeverWritten` holds
  although `SuffixClosed` (section 5) does not.
* A queue of size 1 with two mappers exceeds its size (the push in steps) and
  is full all the time; a larger queue has fewer waits.  That more mappers and
  reducers, or larger queues, change nothing for the bound of a queue and `StoppedHasAll` is
  proved.
* `modify` and `bounds` need order 3, because the highest order is treated
  differently from the ones between, and the lowest from both.  `backward` has order 4,
  so that two orders are appended before the last, and the queues of its two passes
  have room for two.  The shard that throws does so in the last order, when the other one
  may or may not have finished.
* A coded sequence has up to 18 values (`MaxCoded`), at most three of them different
  (`MaxDifferent`), in bytes that hold 0 to 3.  The higher parts are where it gets longer than
  256 values: from 5 values on a position does not fit a byte, from 9 on the low part of the last
  value may be looked for behind the places of the next layer, and with 17 a fourth layer of higher
  parts is written, which is the first where a layer that is searched is neither the first nor
  the last.  The values 0 to 70 have high parts that skip, repeat and stay below one byte.
  Two mutants are about these layers: one writes only the first, the other cuts a position
  to its low byte.  The cache is asked for sequences up to 5 values (`MaxAsked`), and
  every sequence is read at every place without it.
* A message of the processes holds two lines (`BufferSize`), so that a device may have less
  than a message to send, or a whole one that waits for the one before.
* The list queue has nothing that depends on its length beyond one node behind another:
  two producers meet at the tail, two consumers at the head, and the three spare
  nodes are used and used again.  `SYMMETRY` permutes the spare nodes; only safety is
  checked.  The counts wrap (modulo 5, with four threads) while a consumer polls.
  The versions cannot wrap in this run; in the code they wrap after 2^32 values, and a
  thread would have to sleep through exactly that many.
* With 3 threads and 4 tickets, the tickets wrap for ever, and all tickets but one
  can be out.
* The file of `arpa` leaves out two prefixes of longer reversed n-grams, one of them in
  each of the orders 2 and 3, so that a pseudo context is written while an order is
  appended; two values of every order share a code, and a value of each sign and an exact
  one are next to each other.  Order 4 is the least in which a phrase's prefix has inner
  orders whose back-off is not yet known when it is scored again.  With at most five
  words, a phrase of two words can be put behind a phrase of three whose state is as
  long as a state can be.
* `ScoreRight` is stated for phrases whose words were listed with their contexts
  (`Rescorable`): the code scores what ends in a pseudo context wrongly (section 7).
* In `estimate_mpi` a queue of size 1 makes every push of two threads a wait, and the two
  processes are enough for a request that is passed on, to come back to where it came
  from.  Requests that are passed on occur with pruned counts only.
* For the cache, one entry and two threads give all mixtures of two entries: the two
  nodes with the same word mix, the third one does not.
* The counts and log-probabilities in the instances are chosen so that different
  sets have different sums or maxima.
* In `index_full` a queue of size 1 and runs of three n-grams stand for 32768 and
  runs longer than 32769.
* The inputs of `corpus` have one line more than a batch, or one file more than tasks take at
  once, so that a task may get nothing, or the rest only; words that the cutoff removes and
  that come back as `<UNK>` next to each other; equal n-grams in different files and
  different dumps; an order without n-grams beyond `Order`; an empty line.  One line in a
  pipe and one in a batch are enough for a feeding thread to wait for its child and for the
  child to wait for its reader.  The queues between the indexing threads have room for the
  four lines that an order of these inputs can send to one shard; what a smaller queue does
  is `index_full`.  Chunks of two lines (256 in the code) are shorter than the runs.

* Two shards, an index and one or two files of values make the order of the steps of one writer
  and the races of two writers visible; that the older model has one order less makes its
  files and lists tell themselves from the new ones.  One call fails at most; after a failure
  the others go on or are ended, and all states in between are looked at.
* Vectors of up to 18 bits, in at most five runs of equal bits, reach behind the first total
  (12 bits) and end at every place in a block; packed values go past two portions of the
  sink, with values of the least and the greatest size.
* The four corpora have the discounts of both kinds, one below zero, and none
  (Witten-Bell); a context that every word follows; a word that nobody counted; no unknown
  word in the vocabulary.  The estimation is repeated at most twice (`MaxRounds`), which is
  enough for these corpora: with fewer the `CHOOSE` of `Estimated` would have nothing to choose.
* Two invocations and two corpora are what it takes for a file of another invocation to lie
  where a step looks for its own; a third would meet the same files.
* Four spellings, two of them there from the start, make the table of words double its bins twice
  and start another piece of memory while a thread remembers places in the first one.

Each property of a passing run has a mutant in `PROJECT.json`: a change of one
definition that a plausible slip in the code would make, with which the same run
finds the property violated.  The mutated forms stand beside the definitions they
replace, with a comment.

## 4. Fairness

Weak fairness of each thread (each mapper, each reducer) and of the driver,
nothing more.  The threads are threads of the operating system; the loops that
wait yield (`NGramCounts.cpp:706`) or sleep (`lockfree_list_queue.hpp:273-343`), so
no waiting thread keeps another one from running.  No lock or compare-and-swap
that could be lost for ever lies on the way: a compare-and-swap that fails in
`Shard::find` is not repeated.  The runs `backward` and `arpa`, and the caches in
`find`, check safety only and assume no fairness; that `WaitsEnd` is an invariant, and that the
writers' steps only get fewer, gives the end of the writing under the fairness of each writer.

In `corpus` the weak fairness is that of the whole system: the specification has no cycles
but the final stutter, so every behaviour comes to a state in which nobody can go on, and
`Termination` says that this is the end.  No process is favoured: that each thread goes on
when it can is a stronger assumption and is not needed.  The same holds of `index_full` and
`vocab_stuck`, whose behaviours stop short of the end.

In `estimate_mpi` the weak fairness is that of the whole system: the main loop of a
process polls all its streams and sleeps when nothing happens
(`expgram_counts_estimate_mpi.cpp:2086`), so whatever can go on goes on; the specification is
finite and without cycles, and so each behaviour ends where nothing can go on.  That
such an end is the right one is `Termination`; that it need not be in the other instance is
the finding `estimate_mpi_stuck`.

In `modify` a mapper process is one actor, with its devices and the arrival of what it has
sent: it tests all of its devices in one loop and sleeps when nothing happens
(`expgram_counts_modify_mpi.cpp:225`), and a message that was sent arrives.

The runs of the list queue check safety only.  It is lock-free, not wait-free: a
thread's compare-and-swap fails only when another one's has succeeded.  That a `push`
into a queue with room and a `pop` from a queue that is not empty come to an end
is what the fairness of the pipelines' models takes from it.

In the ticket lock a thread outside may stay there (`Ask` has no fairness); a
thread that has asked goes on.  The first part of `LockEntered`, `WriterEnters`, needs that nobody polls `trylock_reader` for
ever: each attempt announces a reader for a moment, and a writer that looks only at such
moments never gets in.  `lock_reader` stays away while a ticket is out and needs no such
condition.  The second, `ReaderEnters`, needs in addition that the writers stop, because writers have
precedence.  The code of the repository uses `lock_reader` and `lock_writer` only.

In the estimation the repetition of the normalisation is bounded by `MaxPass`:
that it ends is a matter of floating-point numbers and is assumed.

## 5. What is proved, from what, and how

All theorems hold for every value of the constants that satisfies the named
assumptions.

| module | theorem | says |
|---|---|---|
| `NGramIndex_proofs` | lemmas | parents, lookups and children of a node are nodes of its shard; the last child grows with the node; orders follow one another |
| `NGramCountsEstimate_proofs` | `Typing` | `Spec => []TypeOK` |
| | `SeenNeverWrittenHolds` | no thread computes from a value that changes afterwards |
| | `EstimateCompleteHolds` | `Spec => []EstimateComplete`: joined threads have estimated what was counted, and nothing else |
| | `LowersSequentialHolds` | `Spec => []LowersSequential`: the lower orders are those of the sequential definition |
| | `EstimateOrderImplemented` | `Spec => ImplementsEstimateOrder`: the frontiers implement the abstract order |
| `MapReduce_proofs` | `Typing` | `Spec => []TypeOK`, with the bound on a queue's length |
| | `StoppedHasAllHolds` | a reducer that has stopped has received all its messages |
| `NGramCountsModify_proofs` | `ImplementsMapReduce` | `ModifySpec => Spec`: the threads of `modify()` are those of MapReduce |
| | `ModifyHasAll` | `ModifySpec => []StoppedHasAll`: a reducer that writes its sums has popped every count meant for it |
| | `ModifyMPIHasAll` | `ModifyMPISpec => []StoppedHasAll`: the same of the program that lets processes of MPI do it |
| | `InsideCountsHolds` | `ModifyMPISpec => []InsideCounts`: no reducer, thread or process, counts outside its vector |
| | `ModifiedCountsHolds` | `ModifyMPISpec => []ModifiedCounts`: the sums of threads or processes are the modified counts of the definition, and those are what is written |
| `Lookups_proofs` | `CacheStaysRight` | `Spec => []CacheRight`: no right entry is ever mixed in the cache itself |
| | `UnmixableAnswers` | `Spec => []UnmixableAnswersRight`: a question that no mixture of two entries answers gets the answer of the search |
| | `VocabRightHolds` | `VocabSpec => []VocabRight`: lookups of words and identifiers are answered right, whoever shares the caches and the growing table |
| `Pipeline_proofs` | `PipelineRightHolds` | `PipelineSpec => []PipelineRight`: a finished step was made from what the first step of its invocation found |
| `RWTicket_proofs` | `TypeCorrect` | `LockSpec => []LockTypeOK`: the counters are what they stand for |
| | `WritersExclude` | `LockSpec => []Exclusion` |
| | `InOrder` | `LockSpec => FirstComeFirstServed` |
| `LockfreeListQueue_proofs` | `NeverTouchesFreedHolds` | `QueueSpec => []NeverTouchesFreed`: no thread reads or writes a node that was freed |
| | `NothingLostHolds` | `QueueSpec => []NothingLost`: no node stays allocated behind the head |
| | `MemoryKeptHolds` | `QueueSpec => []MemoryKept`: the two together |
| | `FalseOnlyIfEmptyHolds` | `QueueSpec => FalseOnlyIfEmpty`: a pop that returns false found nothing in it |
| | `ImplementsFifoHolds` | `QueueSpec => ImplementsFifo`: the list is a bounded queue, and the former |

**SeenNeverWritten.**  The hypothesis `SuffixClosed` says that the suffix of
every indexed n-gram is indexed, which holds of counts that were not pruned.
Without it the code reads a back-off without waiting (`NGramCounts.cpp:715`) and
the theorem would be false.  The invariant `SafeInv` has four parts: types; `FrontierInv`,
that a thread at work on a context has its frontier exactly at the first child
of it, and one between contexts has it no further than there; `LookupInv`, that
the suffix that a thread looks up is indexed, and published if its
probability was found missing; and `SeenInv`, that a probability that was read lies below the
frontier of its shard, and a weight that was read belongs to a context that its
thread has passed.  `SeenNeverWritten` is not inductive by itself: a step that writes is
harmless only because it writes at or above its own frontier, and what was read lies
below it.  That the weight of a context is passed when one of its children is
published is the step that needs the order of the nodes (breadth first).

**EstimateComplete.**  `WriteInv` counts the writes: the counted children of a context were
all written `n` times, or `n + 1` those before the child that the pass in progress has come to
(`WrittenTimes`), where `n` is positive for the contexts that the thread has passed, and for its
own one when the pass is over; other probabilities are never written.  A pass ends at the last
counted child, which is why the statement needs the child that the pass is at.  When the
threads are joined every context of an n-gram was passed (`AllPassed`), since the node of
the parent of an n-gram of more than two words precedes the first node of order `Order`.

**LowersSequential.**  `PathInv` says of a lookup that it has come to the `n`-th suffix of its
child, that what it has added up are the weights of the contexts of the suffixes before it,
and that each of these is not in the index, or is published and was never
estimated (`PassedOver`).  The last part is where the frontier is needed: a probability
that is zero behind a frontier stays zero, because `WriteInv` says that all that was counted
behind it was written (`KnownWritten`).  So the lookup returns at the suffix that `Stop`
names (`StopIs`), whatever the others did in between.  Unlike `SeenNeverWritten` this needs no `SuffixClosed`: which
cells are read is right in every index, only the time of reading is not.

**ImplementsEstimateOrder.**  `NeedsInv` adds to these what a thread knows to be
final: all that the kept children before the one in hand need while it looks suffixes up, all that
every child of the context needs afterwards (`AllKnown`).  A frontier moves in two places.
After the last write of a context it moves past its children.  A context of which
nothing was counted is left without moving it; the frontier catches up when the next
context is entered, so `NeedsInv` also holds on to the context before
(`NeedsAt`: between two contexts the frontier is at the first child of this one, or of the one before,
whose needs are known).  Either way the step is one `Settle` of `EstimateOrder` (`SettleStep`), or it moves
nothing.

**StoppedHasAll.**  A reducer stops on a count, so the invariant must say what the count
is made of.  `CountInv`: it is the number of mappers whose empty context was
popped, each counted once; `QueueInv`: what is queued was sent, to the right
reducer, and no message overtakes another of the same mapper; `PoppedInv`: what was
popped came before what is still queued; `SentInv`: what was sent is queued or was
popped; `RoomInv`: a queue and the pushes that found room in it together stay
within its size and the number of mappers (which makes the bound in `TypeOK`
inductive).  When the count reaches the number of mappers, every mapper's empty
context was popped, which is its last message to that reducer, so everything
before it was.  MapReduce knows nothing of what is sent; `ThreadsAssumption` says which
mappers, reducers and targets `modify()` has, and then each of its steps is a step of
MapReduce or leaves the queues alone (`StepOfThreads`), so the result carries over.

The processes need an invariant of their own, `PInv`, since a message can now be in the buffer of a device,
on its way, read, or handled, and the ends are sent by the device and not by the order of one queue.
`WrittenInv`: what was written and not handled is in the queue of its reducer or in the device, which
`flush` cuts and never drops (`FlushKeeps`).  `DeviceInv`: a device that was terminated has nothing but its
end; one that was not has only messages of its mapper for its reducer.  `EndInv`: when the end was
read the device is empty, and when it was handled nothing of the mapper is in the queue either.
`TerminatedInv` and `HeardInv` say what the two counts are made of.  `MediumInv` joins it to the invariant of the
threads: `Spawn` finds queues that are empty because nothing was sent (`SpawnPInv`).
That a reducer stops only behind the barrier is needed for one thing: a mapper counts each device it has terminated in
`sent`, and only when all reducers have heard of it has it terminated them all.

**InsideCounts.**  The queue of a reducer holds messages of `MessagesOf`, by either invariant (`QueuedIs`); what is
left is about the data.  `MessagesSendable` says what the mapper of a shard sends: n-grams with the shard they hash to, none of
the last order.  `Messages` flattens a sequence of sequences, a recursive function;
that it exists and has each element of the sequences in one place (`Placing`) is proved by the least counterexample (`HasLeast`).
By the order of the nodes (`OffsetBounds`) such an n-gram, if indexed, lies before
`position_size`, and behind the unigrams in every shard but the first (`ReceivedInside`).  `SumsInv` says that the domain of the
sums stays what it was.

**ModifiedCounts.**  Three things make it: what is sent is what is to be counted, each message is handled once, and all
of them are.  *What is sent*: a mapper pushes one message for each of its sources (`Sourcing`): a node whose
suffix was seen after one more word, a node that keeps its count, a unigram with its local count
(`SourcesOf`).  `Load(s, p, X)` has an element for each one that a message of `X` adds to node `p`.  Of all the messages
(`LoadOfAll`) it has as many elements as there are n-grams with one more word in front, and those of the node's own
count: for two or more words by a correspondence of the suffixes with these n-grams, which have one node each over all
the shards (`LoadOfSuffixes`, `OneNode`); for a unigram by one of the bigrams of each shard that end in it
(`LoadOfEndings`), and shard 0 alone adds the start of a sentence (`LoadOfBos`).
*Once*: a set of handled messages forgets how often, so the sum needs that the message at
the head of a queue was not handled before (`Fresh`).  Of threads `PoppedInv` says so.  Of processes `PInv` does
not, and is strengthened by `OrderInv`: what a reducer has handled was written before what it has read, that before what is on
the wire, and that before the buffer, for each mapper, whose next message is behind all of them (`SentOrder`).  Then
`LoadInv`, that a sum has the size of the load of what was handled, is inductive.
*All*: a reducer that has counted as many ends as there are mappers has handled what was meant for it (`EndedHasAll`,
`EndedPInv`).  A context that is not indexed is in no load, so that threads may drop it.  `TypesInv` carries the sums to what is written.

**CacheRight.**  What a compare-and-swap writes is a pair of question and answer
that a search produced, and it replaces both words at once, so whatever was
read the cache holds right pairs (`FetchInv` adds that what a thread has fetched
are words of right entries, or of none).  The same does not follow for answers: a thread
can read halves of two right entries.  `Unmixable(r)` says of a question `r` that
halves of two right entries never look like an answer to it, unless it is the right
one; it holds of a question whose node, or whose word, is the only one of its entry,
and `UnmixableAnswersRight` says that such questions are answered right.

**VocabRight.**  The invariant `VocabInv` is about three layers.  Of the vocabulary that was
written, nothing changes: a chain of the hash table leads from each bin to all the
keys in it, the latest first (`ChainPush`, `SearchFinds`), so a lookup returns a number under which the
spelling was inserted, or none if there is none (`LookupRight`); a vocabulary may hold a spelling
twice.  Of the table of words (`TableOk`): the strings of the numbers below `size` are at their places,
no two equal, and each bin's chain holds the numbers of its strings.  This is what makes
`FindWord` find the number of a string exactly when it has one, and it has to survive both that the
bins double, which chains all strings anew (`RebinOk`), and that the list of pieces
is allocated again: `Reallocate` keeps the addresses of the pieces, so a place that a
thread remembers stays right.  Of the threads (`ThreadOk`): what a thread holds is a number whose string is
what it asked for, an entry of a cache is a pair of a number and an identifier that are the same word
(`CachesOk`), and these survive a growing table because numbers and strings are never changed, only
added (`HolderOk` keeps it to one thread that adds).  One load or
compare-and-swap moves a whole entry, which is where this cache differs from that of `Shard::find`.
The folds of the model were rewritten as recursive functions to be reasoned about;
that these have a value at all is proved by induction on the length (`UpTo`).

**PipelineRight.**  Besides the property the invariant needs `FedInv`: what the next program will
read is what the first one has found.  Each program behind the second reads the one file that
the step before it has written, and no step is left out between two programs
(`ReadsResult`, `RunsOn`), so what it finds is what was found first.  Between the first program and the list of words that is
kept of its result, `KeepInv` stands in.  Files of earlier invocations need no
hypothesis: a step writes over its own before a later one reads it.  The corpus changes only
between invocations; under PBS, where a step follows a failed one, the property says nothing.

**Exclusion.**  The tickets that are out are an interval from `ticket` to `users` around
the end of the numbers.  The invariant says that its length is the number of threads
with a ticket (`UsersCount`: so it never closes, there being fewer threads than
tickets), that all their tickets lie in it (`InTheInterval`) and differ (`OneTicketEach`), and that a thread
past the wait has the first of them (`ServedInTurn`).  So there is one such thread.  A
reader enters only while the interval is empty, a writer only while nobody is announced.
`FirstComeFirstServed` follows: a returned ticket is the first of the interval,
so every other one comes nearer.

**NeverTouchesFreed.**  The list is described without paths: there is a number for every
node and a share of every count, `IInv == \E i, due : QueueInv(i, due)`.  Linked nodes have different
numbers, and the next one of a node that a side has not passed has the next
number (`IndexedOK`); the version of a side is the number of its
node (`PointersOK`).  A push that links gives its node the number after that of the last one, so that
a node whose memory is used again is a new one.  A thread's node has the number of the version
that it read (`HeldOK`), so a compare-and-swap that finds its version finds its node.

`due[x][n]` is what side `x` still owes to node `n`: the count of its entry while `n`
is current, and then `moved` of the thread that transfers it.  The exit of a node and what is due to it
together are the number of its readers, but for whole turns of the count (`ReadersOK`), and
`transfers_left` is the number of sides that have not passed it and transferred (`TransfersOK`).
So an exit that is clean means no reader and no side to come, because there are fewer
threads than a count has values.  A node that is not clean
keeps its predecessor, whose `nl_p` only its last reader sets (`PredecessorsOK`): without that the
comparison of `sc_op` with the predecessor could succeed on memory that is used again.  A value is taken by one consumer,
and only of a node that the head has come to or is about to (`ClaimsOK`).  The properties cannot be
proved one by one: that a reader's node is linked needs the counts, these need the order of the
versions, which needs that predecessors are not freed too early, which needs the counts.
`CountWidth` may be any number above that of the threads: a count that goes round below zero, which it does when a
reader leaves before the count is transferred, comes back when it is.

**ImplementsFifo.**  `Contents` is made with `Behind`, a recursive function of the pointers.  It is
replaced by a sequence: `Chain(next, n, s)` says that `s` are the nodes that follow `n`, up to one
without a next.  There is one such sequence (`ChainUnique`), it is what `Behind` computes
(`BehindIs`), and steps change it in two ways: a link at the last node adds one (`ChainGrow`), and a node that
is freed ends the lists it was in (`ChainCut`), which are none of a node that the head has not
passed, because the numbers of `QueueInv` rise along the list (`AheadLinked`).  `FifoInv`
adds to `QueueInv` that all lists end, that a new node has the next value of its producer
(`ValuesOK`), and that the size is what is linked, less the pushes and plus the pops that are not
counted yet (`SizeOK`), so that a push which finds room in the size finds it in the contents.  Four steps of the list are steps of
`BoundedFifo`: `StartPush` admits, the `Link` that appends links, `Count` counts, and the `Swing` of a consumer that
finds what it expects pops.  Every other step, the one that moves a version on and the ones that
free included, leaves all of it as it was (`Unnoticed`).

**FalseOnlyIfEmpty.**  The node that the pop has read has no next one, so it has the greatest number;
the head has not come further, so it is `First`, and nothing is behind it.

**NothingLost.**  That what was used is freed is the other half of `NeverTouchesFreed`, and not a consequence of it: the
thread that makes a node clean, the one that takes its value and the one that leaves the node behind it
can be three, and the last of them must find the marks of the others.  `KeptInv` says that no linked node
could be freed (`FreedOK`); that what the head has passed was claimed (`PassedOK`); that a node is marked by its successor,
or somebody is about to do so, or the successor is not clean yet (`MarksOK`); and that a tail that lags or a
half moved head has a thread on it (`LaggardsOK`).  When all are outside, the last two
leave only the nodes from the head's other pointer on.

**Checked by TLC only.**  Liveness (`Termination`, `ModifyEnds`, `LockEntered`), and `WaitsEnd`, which is about `ENABLED`:
out of the prover's reach.
`BoundsTight`, `IndexComplete`, `ExtractedRight`: sums and maxima over data,
for which the library has no theory; each would need inductions over the data, by least counterexamples.
`DumpRight`, `BackwardRight`, `ArpaRead`, `ArpaDumped`, `QuantizedRight`: likewise.
`ScoreRight`, `SuffixRight`: sums over the words of a phrase of any length.
`AnswersSequential`: not proved.  `SumsToOne`, `DiscountsRight`, `PackedDataRight`: over data, with
recursive definitions.  `OpensRight`, `WrittenWhole`: about the sequences of steps that
the instance lists, which TLC goes through in full.

## 6. Disagreements with the documentation

* **A lookup can answer with another node's child.**  `NEWS.rst:55` reports the
  repair of queries for nodes that do not exist.  `Shard::find` copies an entry with two
  loads (`NGramIndex.hpp:125`, `:284`); around another thread's replacement the pair
  is a mixture: the node of one entry and the child of another (`find_torn`).
  A question whose node or whose word is the only one of its entry is safe
  (`UnmixableAnswers`), and the cache itself stays right (`CacheStaysRight`).
* **Indexing can stop for ever.**  `man/expgram_counts_index.rst:21` promises an index.
  When a mapper has more n-grams in a row for one shard than a queue holds, and
  another mapper the same for another shard, each blocks on a queue that no
  reducer will empty, because each reducer's merge waits for the other mapper
  (`index_full`).  The queues hold 32768 messages (`NGramCounts.cpp:2361`); files are
  sorted, so runs of n-grams with the same first two words, and the same shard, are
  the normal case, and only their length is in question.
* **Counting words by processes can stop for ever.**  `man/expgram_vocab_mpi.rst:21` promises
  "a list of words with frequency".  By lines, which is how `expgram.py` runs it for one
  corpus, process 0 pushes the empty batch that ends its own task only if there is room at
  that moment, and leaves the loop when the other processes' devices are gone
  (`expgram_vocab_mpi.cpp:403-410`).  If its task is still busy with one batch and another
  one is in the queue, the end is never pushed, and `join` waits for ever (`vocab_stuck`).
  The program that extracts n-grams remembers whether it has pushed the end
  (`expgram_counts_extract_mpi.cpp:449`) and is in `corpus`.
* **The MPI estimation can stop for ever.**  `NEWS.rst:28` announces a "Potential bugfix for
  deadlock in MPI-based ngram LM estimation".  Answers go out strictly in the order of the
  requests (`expgram_counts_estimate_mpi.cpp:2000`), and a request that waits for the reducer
  holds up all answers behind it.  If the suffix of an n-gram is not indexed the rest of
  its back-off is asked of another process (`:1813`), behind what the mapper there has asked;
  two processes can so wait for each other (`estimate_mpi_stuck`).  Counts that are not
  pruned have all their suffixes, and no request is passed on.
* **A word can be taken for complete when it is not.**  `NGram.hpp:137` says "complete implies
  a complete ngram w/o further context".  For a unigram the flag looks for children in
  shard 0 only (`NGram.hpp:301`), but they are spread over all shards
  (`score_shards`).  A phrase that begins with such a word is not scored again.

## 7. Observations that are not findings

* The modified count of `<s>` is added while bigrams of shard 0 that start with
  `<s>` are walked (`NGramCounts.cpp:141`): if none of them is in shard 0, the unigram
  stays without a count.  `ModifiedCounts` states what the code does.
* The back-off of a context of a suffix that is not itself indexed is read without
  waiting (`NGramCounts.cpp:715`).  In pruned counts it may be read before it is
  written; nothing in the documents promises otherwise.
* A shard that gets no n-gram of an order does not extend its list of offsets
  (`NGramCounts.cpp:2112`), while the order of the index grows.  Readers index that list by
  the order (`NGram.cpp:1420`, `NGramCounts.cpp:110`): with one order missing they find
  the end of it, with two they read behind it.  The instances have all orders but the last.
* `NGram::backward` throws in a thread, which ends the program, when the n-gram without
  its first word is not indexed (`NGram.cpp:1617`), as in pruned counts.  That it does so for
  no other reason is `EndsForPrunedOnly`.
* For pruned counts threads and processes do different things: the threads that bound or modify
  drop an n-gram whose context is not indexed, with a warning (`NGramCounts.cpp:235`,
  `NGram.cpp:1239`), the processes throw (`expgram_bound_mpi.cpp:511`,
  `expgram_counts_modify_mpi.cpp:448`), which ends the program.
* `NGramCounts::dump` does not join its threads (`NGram::dump` does, `NGram.cpp:1016`).  It
  returns when it has popped the last empty context, and the queues are destroyed
  while the thread that pushed it may still have to count it (`lockfree_list_queue.hpp:372`).
* Bigrams with the same first word are printed shard by shard, since the merge compares
  contexts and not words: the lines of bigrams are not sorted.
* The number of n-grams in the heading of a dump counts the pseudo contexts
  (`NGram.cpp:827`), which are not printed.
* A pseudo context has no probability and no weight of its own, but the scoring of a
  phrase again meets it as a node: with `Rescorable` dropped, TLC shows a phrase "a d" behind
  "<s>" whose score leaves weights out.  `ScoreRight` excludes such phrases.
* The negative values of an order get their share of the codes, rounded down to none when
  one comes on hundreds of positive ones, and the length of their runs is then a division by
  zero (`Quantizer.hpp:83`).  Log-probabilities are negative and bounds too; only weights
  can be mostly positive.  The instances have negative values enough (`Divides`).
* In the MPI estimation of orders from 4 on over pruned counts a weight can be read before it
  is final (`expgram_counts_estimate_mpi.cpp:1810`), as in the threads.  The instance has no such
  n-gram.
* Two spellings with one identifier (`<s>`, `<S>`) would index one context twice
  (`NGramCounts.cpp:2096`); the model assumes that different words have different
  identifiers.
* A kept vocabulary without any word is taken for no vocabulary, and all words are counted
  (`expgram_counts_extract_impl.hpp:735`).
* The programs by threads look into a directory of counts (`expgram_counts_extract.cpp:181`,
  `expgram_vocab.cpp:181`); those by processes take it for a file.
* In a text `<s>` and `</s>` around a sentence are kept whatever the vocabulary; in counts they become
  `<UNK>` if the vocabulary has not got them (`expgram_counts_extract_impl.hpp:830`).
* With `--vocab` alone the script passes the variable that it is about to set
  (`scripts/expgram.py:904`), which is `None`, and ends with an exception before its first step.
* The words kept by rank and those kept by frequency go to `.vocab.N` both
  (`scripts/expgram.py:403`), so that with equal numbers one file stands for either.  In the model
  they are two files, as with different numbers.
* Under PBS the script ignores how a job has ended (`scripts/expgram.py:254`): the next step
  runs on whatever the failed one left.  `PipelineRight` is about invocations without PBS.
* `run_command` catches its own `sys.exit` (`scripts/expgram.py:118`) and raises `ValueError`
  instead, so the status of the failed program is lost; `--erase-temporary` ends with an
  exception when one of the directories is not there.
* Counts whose writing throws are closed by the destructors, which write their lists
  (`repository.hpp:194`); since their list has no property that is asked for, they open without
  what was not written.  The list of a model has (`smooth`), so that a model does not.
* An old model that is written over can be left, by a crash while it is emptied, such
  that it opens without its bounds or with fewer tables of codes; `OpensRight` allows it.
* `close` throws when the list cannot be written, and the destructor that calls it is
  `throw()` (`repository.hpp:125`), which ends the program.
* `vertical_coded_sink::close` with nothing written takes the last element of an empty
  vector (`vertical_coded_device.hpp:180`).  The sequences in the instances are not empty.
* The caches of mapped vectors keep positions in 32 bits (`succinct_vector.hpp:440`).
* When fewer than two different counts occur, `Discount` reads members that nobody has set
  (`Discount.hpp:33`), and a word may get the discount zero; the weight of the lower order tests
  the third discount for `> 0`, the discount itself for `>= 0`.  The sums are right all the same.
* When every word follows a context, and rounding leaves the denominator of its weight
  positive, the words behind it sum up to less than one (`NGramCounts.cpp:619`).
* The processes guard the bounds of the unigrams against a total of zero, the threads do not.
* With `--precompute`, `expgram_perplexity` adds the size of a sentence that it never reads to the number of
  words (`expgram_perplexity.cpp:139`), so that its perplexities are wrong: the words count zero.
  The model is of the program without the option.
* `NGram::logbound(first, last)` has no `return` for a phrase (`NGram.hpp:425`); nothing calls it,
  and it is left out.
* Without `<UNK>` in the vocabulary an unknown word gets the uniform probability of the
  words that were observed.
* A file of an order in which a dump had no n-gram with a count is left empty in the directory; it is not
  listed in the index file and not read (`expgram_counts_extract_impl.hpp:627`).
* `NEWS.rst:47` speaks of the "immediately bigger order" for bounds, the code
  raises the bounds of all shorter n-grams; the code's bounds are the safe ones.

## 8. What is not modelled

Values of probabilities of the higher orders (floating point): the log-probabilities of the
instances are integers that tell n-grams apart; those of the lower orders are exact
fractions.  File formats, tokens, parsing and compression; the headings of a dump; the
temporary files of the reducers and the signal handler that removes them (`tempfile`); memory
limits and `malloc` failures.  The decoder around `NGramScorer` is external.  The programs that only read options and call the components
(`expgram_index`, `expgram_dump`, `expgram_stat` and others) have no module.  A lookup of
a vocabulary that is still built in memory is left out of `Vocab`.  Of the MPI programs:
quantization by processes, which does with one shard each what the threads do; the compression
of messages, how lines are cut into messages, and the message that starts the processes.  Of the
pipeline: how command lines, queue scripts and hosts are put together; of the extraction the
tokens of a line, spellings that differ in case only, missing files.  The queues, the stack and
the locks that no program here uses (`lockfree_queue.hpp`, `bounded_queue.hpp`,
`lockfree_stack.hpp`, which does not compile, `spinlock.hpp`).  The tries of `succinct_db`, which no
n-gram program uses.  General containers and hash functions, which are sequential and taken as
the sets, functions and sequences that they store, but for the two that the table of words is
made of.

The reordering of memory accesses by compiler and processor is not modelled: a frontier of
the estimation is read by an atomic `fetch_and_add` (`NGramCounts.cpp:705`) but written by a
plain store (`:754`, `:899`), and the models assume that stores become visible in program
order, as on x86.

## 9. Plan

In order of importance; modules marked *done* exist.

 A. *done*: `NGramIndex`, `NGramCountsEstimate`, `EstimateOrder` with all safety properties proved,
    and the MPI estimation.  To prove: `EstimateComplete` of the latter.
 B. *done*: `MapReduce`, `NGramCountsModify` with the theorem that it implements
    `MapReduce` and that of its counts, `NGramBound`, `NGramBackward`, `NGramIndexCache`, and these by processes over
    `MapReduceMPI`.  To prove: the same of bounds and backward, whose
    passes repeat.
 C. *done*: `NGramCountsIndex`, `NGramCountsDump`, `NGramArpa`, `NGramDump`, `NGramQuantize`.
    To prove: the order of the merges.
 D. *done*: `LockfreeListQueue` with `BoundedFifo` and the proofs that it is one and keeps
    its memory, `RWTicket` and `Vocab` with their proofs.
 E. *done*: `NGramScorer`, `LowOrders`.
 F. *done*: `CountTasks`, `CountTasksMPI`, `NGramCountsExtract`, `NGramCountsIndexMPI`, `Pipeline` with its proof.
 G. *done*: `NGramRepository`, `PackedData`.  To do: temporary files and signals.
    To prove: `OpensRight` for any number of shards.
