-------------------------- MODULE NGramRepository --------------------------
(* Counts and models on disk: directories with a list of properties         *)
(* (utils/repository.hpp), what the programs write below one of them, by    *)
(* the threads of one process (write) or by one process per shard           *)
(* (write_prepare and write_shard), and what a program that opens the       *)
(* directory makes of it.                                                   *)
(*                                                                          *)
(* A writer is a thread or a process; what it still has to do is a sequence *)
(* of steps, the calls of the functions it runs in their order.  A step is  *)
(* as much as one system call makes visible to the others and to who comes  *)
(* after a crash: a crash is no action, since every state is one that a     *)
(* crash can leave.                                                         *)
(*                                                                          *)
(* A path is a sequence of names.  Of a file the model keeps which program  *)
(* run wrote it, and whether all of it is there; of a list of properties it *)
(* keeps the properties.                                                    *)
EXTENDS Naturals, FiniteSets, SequencesExt

CONSTANTS
    ShardDir,          \* the names of the shards' directories; who writes a shard, a
                    \* thread or a process, has its name
    Root,           \* the first of them
    Main,           \* the main thread of a program with threads
    VectorFiles     \* the files of a mapped vector, its list among them

ASSUME RepositoryAssumption ==
    Root \in ShardDir /\ Main \notin ShardDir /\ "prop.list" \in VectorFiles

Writer == ShardDir \cup {Main}

VARIABLES
    fs,             \* what is below the output directory, from paths
    todo,           \* todo[w]: the steps that writer w has before it
    writing,        \* writing[w]: the repositories it has open for writing
    seen,           \* seen[w]: the files of the vocabulary it opened
    failed          \* a system call failed

fsVars == <<fs, todo, writing, seen, failed>>

Dir == [is |-> "directory"]
Data(run, whole) == [is |-> "data", run |-> run, whole |-> whole]
Properties(props) == [is |-> "properties", props |-> props]

NoProps == [key \in {} |-> 0]

PropList(dir) == Append(dir, "prop.list")

Entries(dir) == {p \in DOMAIN fs : Len(p) = Len(dir) + 1 /\ IsPrefix(dir, p)}

\* repository::exists
IsRepository(dir) == {dir, PropList(dir)} \subseteq DOMAIN fs

VectorPaths(dir) == {Append(dir, f) : f \in VectorFiles}

\* exists of the vectors: the list and every file
IsVector(dir) == IsRepository(dir) /\ VectorPaths(dir) \subseteq DOMAIN fs

-----------------------------------------------------------------------------
(* The steps, and the functions of the library as sequences of them.        *)

Step(do, path) == [do |-> do, path |-> path]

\* The constructor of a repository with mode write: open_write and clear.
OpenWrite(dir) == <<Step("open", dir)>>

\* The end of its scope, with the properties that were set.
Close(dir, props) == <<[do |-> "close", path |-> dir, props |-> props]>>

\* open_read, and the change of properties of what was opened to be read.
OpenRead(dir) == <<Step("read", dir)>>
Change(dir, props) == <<[do |-> "change", path |-> dir, props |-> props]>>

\* write of a mapped vector: the files of a directory are copied as they come.
WriteVector(dir) ==
    <<Step("create", dir), [do |-> "copies", path |-> dir, files |-> VectorFiles]>>

\* copy_file, of map_file::write; and a file written by a stream.
WriteFile(path) == <<[do |-> "copies", path |-> Front(path), files |-> {Last(path)}]>>

Fork(run) == <<[do |-> "fork", run |-> run]>>
Join(threads) == <<[do |-> "join", threads |-> threads]>>

-----------------------------------------------------------------------------
Doing(w, do) == todo[w] # <<>> /\ Head(todo[w]).do = do

It(w) == Head(todo[w])

\* Writer w has done a step, and has steps to do in its place.
Goes(w, steps) == todo' = [todo EXCEPT ![w] = steps \o Tail(@)]

\* The destructors of the repositories close them without properties: whatever
\* can fail comes before the properties are set.
Unwind(w) ==
    [i \in DOMAIN writing[w] |->
        Close(Reverse(writing[w])[i], NoProps)[1]] \o <<Step("abort", <<>>)>>

\* An exception: main writes a message and leaves, or calls MPI's Abort.
Throws(w) == todo' = [todo EXCEPT ![w] = Unwind(w)]

Put(path, node) == fs' = [p \in DOMAIN fs \cup {path} |-> IF p = path THEN node ELSE fs[p]]

\* create_directories, then the entries are removed one after the other.  When
\* the constructor of a repository returns, its destructor will close it.
Create(w) ==
    /\ Doing(w, "create") \/ Doing(w, "open")
    /\ Put(It(w).path, Dir)
    /\ writing' = IF Doing(w, "open") THEN [writing EXCEPT ![w] = Append(@, It(w).path)]
                  ELSE writing
    /\ Goes(w, IF Entries(It(w).path) = {} THEN <<>> ELSE <<Step("clear", It(w).path)>>)
    /\ UNCHANGED <<seen, failed>>

Clear(w) ==
    /\ Doing(w, "clear")
    /\ IF Entries(It(w).path) = {} THEN Goes(w, <<>>)
       ELSE \E e \in Entries(It(w).path) :
               Goes(w, <<Step("remove", e), Step("clear", It(w).path)>>)
    /\ UNCHANGED <<fs, writing, seen, failed>>

\* remove_all: what is in a directory first, in the order the directory has it.
RemoveAll(w) ==
    /\ Doing(w, "remove")
    /\ IF Entries(It(w).path) = {}
       THEN /\ fs' = [p \in DOMAIN fs \ {It(w).path} |-> fs[p]]
            /\ Goes(w, <<>>)
       ELSE /\ \E e \in Entries(It(w).path) : Goes(w, <<Step("remove", e), It(w)>>)
            /\ UNCHANGED fs
    /\ UNCHANGED <<writing, seen, failed>>

\* close: the list is opened, which empties it, and written when the stream goes.
Truncate(w) ==
    /\ Doing(w, "close")
    /\ Put(PropList(It(w).path), Properties(NoProps))
    /\ Goes(w, <<[It(w) EXCEPT !.do = "flush"]>>)
    /\ UNCHANGED <<writing, seen, failed>>

Flush(w) ==
    /\ Doing(w, "flush")
    /\ Put(PropList(It(w).path), Properties(It(w).props))
    /\ writing' = [writing EXCEPT ![w] = SelectSeq(@, LAMBDA dir : dir # It(w).path)]
    /\ Goes(w, <<>>)
    /\ UNCHANGED <<seen, failed>>

\* What was opened to be read is written on closing when a property was set.
Modify(w) ==
    /\ Doing(w, "change")
    /\ LET list == PropList(It(w).path)
           old == fs[list].props
       IN /\ Put(list, Properties(NoProps))
          /\ Goes(w, <<[It(w) EXCEPT !.do = "flush",
                        !.props = [key \in DOMAIN old \cup DOMAIN @ |->
                                     IF key \in DOMAIN @ THEN @[key] ELSE old[key]]]>>)
    /\ UNCHANGED <<writing, seen, failed>>

Read(w) ==
    /\ Doing(w, "read")
    /\ IF IsRepository(It(w).path) THEN Goes(w, <<>>) ELSE Throws(w)
    /\ UNCHANGED <<fs, writing, seen, failed>>

\* One of the files; copy_file opens the target for itself only, and throws when
\* there is one.
CopyStart(w) ==
    /\ Doing(w, "copies")
    /\ \E f \in It(w).files :
         LET path == Append(It(w).path, f)
             others == It(w).files \ {f}
         IN IF path \in DOMAIN fs
            THEN Throws(w) /\ UNCHANGED fs
            ELSE /\ Put(path, Data("new", FALSE))
                 /\ Goes(w, <<Step("copied", path)>>
                              \o IF others = {} THEN <<>> ELSE <<[It(w) EXCEPT !.files = others]>>)
    /\ UNCHANGED <<writing, seen, failed>>

CopyEnd(w) ==
    /\ Doing(w, "copied")
    /\ Put(It(w).path, Data("new", TRUE))
    /\ Goes(w, <<>>)
    /\ UNCHANGED <<writing, seen, failed>>

-----------------------------------------------------------------------------
(* Threads, and processes.                                                  *)

ForkThreads(w) ==
    /\ Doing(w, "fork")
    /\ todo' = [t \in Writer |-> IF t = w THEN Tail(todo[w])
                                 ELSE IF t \in DOMAIN It(w).run THEN It(w).run[t]
                                 ELSE todo[t]]
    /\ UNCHANGED <<fs, writing, seen, failed>>

JoinThreads(w) ==
    /\ Doing(w, "join")
    /\ \A t \in It(w).threads : todo[t] = <<>>
    /\ Goes(w, <<>>)
    /\ UNCHANGED <<fs, writing, seen, failed>>

\* while (! boost::filesystem::exists(path)) yield();
AwaitPath(w) ==
    /\ Doing(w, "await")
    /\ It(w).path \in DOMAIN fs
    /\ Goes(w, <<>>)
    /\ UNCHANGED <<fs, writing, seen, failed>>

\* while (! repository_type::exists(path)) yield();
AwaitRepository(w) ==
    /\ Doing(w, "await_repository")
    /\ IsRepository(It(w).path)
    /\ Goes(w, <<>>)
    /\ UNCHANGED <<fs, writing, seen, failed>>

\* while (! vocab_type::exists(path)) yield(); and the vocabulary is opened.
AwaitVocab(w) ==
    /\ Doing(w, "vocab")
    /\ IsVector(It(w).path)
    /\ seen' = [seen EXCEPT ![w] = {fs[p] : p \in VectorPaths(It(w).path)}]
    /\ Goes(w, <<>>)
    /\ UNCHANGED <<fs, writing, failed>>

Barrier ==
    /\ \A w \in ShardDir : Doing(w, "barrier")
    /\ todo' = [w \in Writer |-> IF w \in ShardDir THEN Tail(todo[w]) ELSE todo[w]]
    /\ UNCHANGED <<fs, writing, seen, failed>>

\* The root goes on; the others wait until it has sent.
Bcast(w) ==
    /\ Doing(w, "bcast")
    /\ w = Root \/ \A i \in DOMAIN todo[Root] : todo[Root][i].do \notin {"bcast", "abort"}
    /\ Goes(w, <<>>)
    /\ UNCHANGED <<fs, writing, seen, failed>>

Abort(w) ==
    /\ Doing(w, "abort")
    /\ todo' = [t \in Writer |-> <<>>]
    /\ UNCHANGED <<fs, writing, seen, failed>>

\* A directory cannot be made, or a file not be written.  Nobody catches what a
\* thread throws, and the process is terminated at once.
Fail(w, isThread) ==
    /\ ~ failed
    /\ \E do \in {"create", "open", "copies", "copied"} : Doing(w, do)
    /\ failed' = TRUE
    /\ IF isThread THEN todo' = [t \in Writer |-> <<>>] ELSE Throws(w)
    /\ UNCHANGED <<fs, writing, seen>>

Steps(w) ==
    \/ Create(w) \/ Clear(w) \/ RemoveAll(w)
    \/ Truncate(w) \/ Flush(w) \/ Modify(w) \/ Read(w)
    \/ CopyStart(w) \/ CopyEnd(w)
    \/ ForkThreads(w) \/ JoinThreads(w)
    \/ AwaitPath(w) \/ AwaitRepository(w) \/ AwaitVocab(w)
    \/ Bcast(w) \/ Abort(w)

-----------------------------------------------------------------------------
(* What is written.                                                         *)

CONSTANTS
    Jobs,       \* the writings looked at; see Job
    Highest         \* the order of what is written; an older model has one order less

\* of: a model or counts; levels: what there is beside the index, in the order it
\* is written; by: the threads of a program, the processes of an MPI program, or
\* those of expgram_counts_index_mpi; over: the directory holds an older model.
Job(of, levels, quantized, by, over) ==
    [of |-> of, levels |-> levels, quantized |-> quantized, by |-> by, over |-> over]

VARIABLE job

repositoryVars == <<fsVars, job>>

Index == <<"index">>
VocabPath == <<"index", "vocab">>

OrderOf(run) == IF run = "new" THEN Highest ELSE Highest - 1

\* The codes of the model have a table for each order, those of a context's
\* values one less.
Maps(level, order) == IF level = "logprob" THEN 1..order ELSE 1..order - 1

MapFile(n) == <<"0", "1-logprob-map", "2-logprob-map", "3-logprob-map">>[n + 1]

IndexProps(order) == [shard |-> Cardinality(ShardDir), order |-> order, backward |-> 0]

\* One key stands for the offsets of all orders.
ShardProps(order) == [order |-> order, offsets |-> order]

LevelProps == [shard |-> Cardinality(ShardDir)]
DataProps == [offset |-> 0]
TopProps(of) == IF of = "ngram" THEN [smooth |-> 0] ELSE NoProps

ForEach(levels, Of(_)) == FlattenSeq([i \in DOMAIN levels |-> Of(levels[i])])

-----------------------------------------------------------------------------
(* What is written.                                                         *)

\* NGramIndex::Shard::write
IndexShard(w) ==
    LET dir == Append(Index, w)
    IN OpenWrite(dir) \o WriteVector(Append(dir, "index"))
         \o WriteVector(Append(dir, "position")) \o Close(dir, ShardProps(Highest))

\* ShardData::write
LevelShard(j, level, w) ==
    LET dir == <<level, w>>
        maps == Maps(level, Highest)
    IN OpenWrite(dir)
         \o (CASE j.of = "counts" -> WriteVector(Append(dir, "counts"))
               [] j.of = "ngram" /\ j.quantized ->
                    WriteVector(Append(dir, "quantized"))
                      \o [n \in maps |-> WriteFile(Append(dir, MapFile(n)))[1]]
               [] OTHER -> WriteFile(Append(dir, "logprob")))
         \o Close(dir, DataProps)

\* NGramIndex::write: threads for the shards, and the vocabulary meanwhile
IndexWrite ==
    OpenWrite(Index) \o Close(Index, IndexProps(Highest))
      \o Fork([w \in ShardDir |-> IndexShard(w)])
      \o WriteVector(VocabPath)
      \o Join(ShardDir)

\* write_shards
LevelWrite(j, level) ==
    OpenWrite(<<level>>) \o Close(<<level>>, LevelProps)
      \o Fork([w \in ShardDir \ {Root} |-> LevelShard(j, level, w)])
      \o LevelShard(j, level, Root)
      \o Join(ShardDir \ {Root})

\* faulty WriteFiles
ListFirst(j) ==
    OpenWrite(<<>>) \o Close(<<>>, TopProps(j.of)) \o IndexWrite
      \o ForEach(j.levels, LAMBDA level : LevelWrite(j, level))

\* NGram::write, NGramCounts::write
WriteFiles(j) ==
    OpenWrite(<<>>) \o IndexWrite
      \o ForEach(j.levels, LAMBDA level : LevelWrite(j, level))
      \o Close(<<>>, TopProps(j.of))

\* write_prepare of the index, of a level, and of the whole; the index program
\* has not seen all n-grams yet, and does not know the order.
VocabularyLater(order) ==                           \* faulty IndexPrepare
    OpenWrite(Index) \o Close(Index, IndexProps(order))

IndexPrepare(order) ==
    OpenWrite(Index) \o WriteVector(VocabPath) \o Close(Index, IndexProps(order))

LevelPrepare(level) == OpenWrite(<<level>>) \o Close(<<level>>, LevelProps)

WritePrepare(j) ==
    OpenWrite(<<>>)
      \o IndexPrepare(IF j.by = "index" THEN 0 ELSE Highest)
      \o ForEach(j.levels, LevelPrepare)
      \o Close(<<>>, TopProps(j.of))

\* write_shard of the index: the first process knows the order now
IndexWriteShard(w) ==
    <<Step("await", Index)>> \o OpenRead(Index) \o IndexShard(w)
      \o IF w = Root THEN Change(Index, [order |-> Highest, backward |-> 0]) ELSE <<>>

\* write_shards of one shard
LevelWriteShard(j, level, w) ==
    <<Step(IF j.of = "ngram" THEN "await" ELSE "await_repository", <<level>>)>>
      \o OpenRead(<<level>>) \o LevelShard(j, level, w)

WriteShardFiles(j, w) ==
    <<Step(IF j.of = "ngram" THEN "await" ELSE "await_repository", <<>>)>>
      \o OpenRead(<<>>) \o IndexWriteShard(w)
      \o ForEach(j.levels, LAMBDA level : LevelWriteShard(j, level, w))

\* faulty Shards
NoBarrier(j, w) == (IF w = Root THEN WritePrepare(j) ELSE <<>>) \o WriteShardFiles(j, w)

\* The last lines of the MPI programs.
Shards(j, w) ==
    (IF w = Root THEN WritePrepare(j) ELSE <<>>)
      \o <<Step("barrier", <<>>)>> \o WriteShardFiles(j, w)

\* faulty IndexProgram
SentBefore(j, w) ==
    <<Step("bcast", <<>>)>>
      \o (IF w = Root THEN WritePrepare(j)
          ELSE <<Step("await_repository", Index), Step("vocab", VocabPath)>>)
      \o WriteShardFiles(j, w)

\* index_unigram and the end of main of expgram_counts_index_mpi
IndexProgram(j, w) ==
    (IF w = Root THEN WritePrepare(j) \o <<Step("bcast", <<>>)>>
     ELSE <<Step("bcast", <<>>)>>
            \o <<Step("await_repository", <<>>)>> \o OpenRead(<<>>)
            \o <<Step("await_repository", Index)>> \o OpenRead(Index)
            \o <<Step("vocab", VocabPath)>>)
      \o WriteShardFiles(j, w)

Program(j, w) ==
    CASE j.by = "threads" /\ w = Main -> WriteFiles(j)
      [] j.by = "processes" /\ w \in ShardDir -> Shards(j, w)
      [] j.by = "index" /\ w \in ShardDir -> IndexProgram(j, w)
      [] OTHER -> <<>>

-----------------------------------------------------------------------------
(* A directory that was written whole, and what is read of one.             *)

LevelFiles(j, level, w, order) ==
    LET dir == <<level, w>>
    IN CASE j.of = "counts" -> VectorPaths(Append(dir, "counts"))
         [] j.of = "ngram" /\ j.quantized ->
              VectorPaths(Append(dir, "quantized"))
                \cup {Append(dir, MapFile(n)) : n \in Maps(level, order)}
         [] OTHER -> {Append(dir, "logprob")}

IndexFiles(w) ==
    VectorPaths(<<"index", w, "index">>) \cup VectorPaths(<<"index", w, "position">>)

Whole(j, levels, run) ==
    LET order == OrderOf(run)
        lists == [d \in {<<>>, Index} \cup {<<l>> : l \in levels}
                         \cup {<<"index", w>> : w \in ShardDir}
                         \cup {<<l, w>> : l \in levels, w \in ShardDir} |->
                    CASE d = <<>> -> TopProps(j.of)
                      [] d = Index -> IndexProps(order)
                      [] Len(d) = 1 /\ d # Index -> LevelProps
                      [] Len(d) = 2 /\ Head(d) = "index" -> ShardProps(order)
                      [] OTHER -> DataProps]
        files == VectorPaths(VocabPath) \cup UNION {IndexFiles(w) : w \in ShardDir}
                   \cup UNION {LevelFiles(j, l, w, order) : l \in levels, w \in ShardDir}
        dirs == DOMAIN lists \cup {Front(f) : f \in files}
    IN [p \in dirs \cup files \cup {PropList(d) : d \in DOMAIN lists} |->
          IF p \in dirs THEN Dir
          ELSE IF p \in files THEN Data(run, TRUE)
          ELSE Properties(lists[Front(p)])]

\* The list of a directory has a value for the key.
HasKey(dir, key) == IsRepository(dir) /\ key \in DOMAIN fs[PropList(dir)].props

\* What there is beside the index is found out by looking for its directory.
Levels == {l \in {"logprob", "backoff", "logbound", "count", "type"} : <<l>> \in DOMAIN fs}

\* ShardData::open: which file of the values there is decides how they are read,
\* and tables of codes are read until one is missing.
LevelRead(level, w) ==
    LET dir == <<level, w>>
        There(n) == \A m \in 1..n : Append(dir, MapFile(m)) \in DOMAIN fs
    IN CASE job.of = "counts" -> VectorPaths(Append(dir, "counts"))
         [] job.of = "ngram" /\ Append(dir, "quantized") \in DOMAIN fs ->
              VectorPaths(Append(dir, "quantized"))
                \cup {Append(dir, MapFile(n)) : n \in {n \in 1..Highest : There(n)}}
         [] OTHER -> {Append(dir, "logprob")}

\* The files that open (all shards) or open_shard (one) maps or reads.
FilesRead(shards) ==
    VectorPaths(VocabPath) \cup UNION {IndexFiles(w) : w \in shards}
      \cup UNION {LevelRead(l, w) : l \in Levels, w \in shards}

\* open_binary and open_shard come to their end without an exception.
Opens(shards) ==
    /\ IsRepository(<<>>)
    /\ HasKey(Index, "shard") /\ HasKey(Index, "order")
    /\ \A w \in shards : HasKey(<<"index", w>>, "order") /\ HasKey(<<"index", w>>, "offsets")
    /\ \A l \in Levels : /\ HasKey(<<l>>, "shard")
                         /\ \A w \in shards : HasKey(<<l, w>>, "offset")
    /\ FilesRead(shards) \subseteq DOMAIN fs
    /\ job.of = "ngram" => HasKey(<<>>, "smooth")

-----------------------------------------------------------------------------
OldLevels(j) ==
    Range(j.levels) \cup (IF j.of = "ngram" THEN {"logbound"} ELSE {"type"})

RepositoryInit ==
    /\ job \in Jobs
    /\ fs = IF job.over THEN Whole(job, OldLevels(job), "old") ELSE [p \in {} |-> Dir]
    /\ todo = [w \in Writer |-> Program(job, w)]
    /\ writing = [w \in Writer |-> <<>>]
    /\ seen = [w \in Writer |-> {}]
    /\ failed = FALSE

WriterStep(w) == Steps(w) /\ UNCHANGED job

WriterFails(w) == Fail(w, job.by = "threads" /\ w # Main) /\ UNCHANGED job

AllArrive == Barrier /\ UNCHANGED job

RepositoryNext ==
    \/ \E w \in Writer : WriterStep(w) \/ WriterFails(w)
    \/ AllArrive

\* All have come to their end, or were stopped.
Written == \A w \in Writer : todo[w] = <<>>

\* Whatever was running when the programs were stopped: if the directory can be
\* opened, what is read is of one run and whole.  Of the run before, files that
\* need not be there may be gone, since its directory is emptied in any order;
\* of the new one nothing is (open_binary, NGram.cpp:351 and NGramCounts.cpp:1729,
\* against the lists that close writes, repository.hpp:194).  Counts are less
\* safe: what throws leaves a list in their directory, and since their list has
\* no property that would be missing, they open without what was not written.
OpensRight ==
    Opens(ShardDir) =>
      \E run \in {"old", "new"} :
        /\ \A p \in FilesRead(ShardDir) : fs[p].run = run
        /\ fs[PropList(Index)].props.order = OrderOf(run)
        /\ \/ failed /\ job.of = "counts"
           \/ /\ \A p \in FilesRead(ShardDir) : fs[p].whole
              /\ run = "new" => fs = Whole(job, Range(job.levels), run)

\* A process that waits for the vocabulary in the output directory opens the one
\* of this run, and all of it (expgram_counts_index_mpi.cpp:435).
VocabularyShared ==
    \A w \in Writer : \A file \in seen[w] : file = Data("new", TRUE)

\* When all of them have come to their end and nothing failed, the directory is
\* what was written, nothing of an older one is left in it, and it can be opened
\* as a whole and by shards: nobody's files were removed by another one's clear
\* (write_prepare and the barrier, expgram_bound_mpi.cpp:104).  Nor does one of
\* them read what another one has not finished.
WrittenWhole ==
    /\ VocabularyShared
    /\ Written /\ ~ failed =>
      /\ fs = Whole(job, Range(job.levels), "new")
      /\ Opens(ShardDir)
      /\ \A w \in ShardDir : Opens({w})

\* Whoever waits for a directory, for its list, for a vocabulary or for the other
\* processes waits in vain for nothing, also when one of them fails: since the
\* programs have no loops but these, they come to their end (NGramIndex.cpp:284,
\* NGramCounts.cpp:1672, expgram_counts_index_mpi.cpp:432).
WaitsEnd ==
    Written \/ ENABLED (AllArrive \/ \E w \in Writer : WriterStep(w))
=============================================================================
