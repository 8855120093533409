------------------------- MODULE NGramCountsExtract -------------------------
(* From a corpus to indexed counts: the words are counted and chosen        *)
(* (progs/expgram_vocab.cpp, or expgram_vocab_mpi.cpp, and the class Vocab  *)
(* of scripts/expgram.py), the n-grams of the chosen words are counted      *)
(* (progs/expgram_counts_extract.cpp, or expgram_counts_extract_mpi.cpp,    *)
(* with expgram_counts_extract_impl.hpp) and the counts are indexed         *)
(* (NGramCountsIndex, or NGramCountsIndexMPI).                              *)
(*                                                                          *)
(* Both programs that count go first over counts and then over text, each   *)
(* time with the tasks of CountTasks.  A word is a number that tells where  *)
(* its spelling sorts.                                                      *)
EXTENDS CountTasksMPI, NGramCountsIndexMPI

CONSTANTS
    Inputs,     \* what may be asked for, with which options
    Order       \* max_order

EOS == 1        \* </s>
UNK == 2        \* <UNK>
BOS == 3        \* <s>

VARIABLES
    input,          \* what is asked for
    passes,         \* what remains to be done before the counts are indexed
    paths_counts,   \* the counts that the tasks of the passes before have dumped
    vocabulary      \* the words to keep; if there is none, all

corpusVars == <<input, passes, paths_counts, vocabulary>>
vars == <<taskVars, processVars, corpusVars, indexVars, mpiVars>>

\* The sum of f over the members of all the sequences of a sequence.
SumOver(seqs, f(_)) ==
    MapThenSumSet(LAMBDA at : f(seqs[at[1]][at[2]]),
                  UNION {{<<i, j>> : j \in DOMAIN seqs[i]} : i \in DOMAIN seqs})

-----------------------------------------------------------------------------
(* What is counted in a line.                                               *)

Known(w) == IF vocabulary = {} \/ w \in vocabulary THEN w ELSE UNK

\* The bag of f over a sequence.
BagOf(seq, f(_)) == FoldLeft(LAMBDA bag, x : bag (+) f(x), EmptyBag, seq)

Single(g) == SetToBag({g})

Framed(sentence) == <<BOS>> \o sentence \o <<EOS>>

\* An empty line counts for nothing.
WordsOfText(sentence) ==
    IF sentence = << >> THEN EmptyBag
      ELSE BagOf(Framed(sentence), LAMBDA w : Single(<<w>>))

WordsOfCounts(line) ==
    IF Len(line.ngram) = 1 THEN (line.ngram :> line.count) ELSE EmptyBag

WindowEnd(s, i) == IF i + Order - 1 < Len(s) THEN i + Order - 1 ELSE Len(s)

\* All n-grams of up to Order words that start at a word.
NGramsOfText(sentence) ==
    LET s == Framed([i \in DOMAIN sentence |-> Known(sentence[i])])
    IN  IF sentence = << >> THEN EmptyBag
          ELSE BagOf([i \in DOMAIN s |-> i], LAMBDA i :
                 SetToBag({SubSeq(s, i, j) : j \in i .. WindowEnd(s, i)}))

NGramsOfCounts(line) ==
    IF Len(line.ngram) > Order THEN EmptyBag
      ELSE [i \in DOMAIN line.ngram |-> Known(line.ngram[i])] :> line.count

-----------------------------------------------------------------------------
(* The passes.                                                              *)

Cuts == input.cutoff > 1 \/ input.kbest > 0

Passes(what) ==
    LET counting(first, second, last) ==
          (IF what.counts = << >> THEN << >> ELSE <<first>>)
          \o (IF what.text = << >> THEN << >> ELSE <<second>>) \o <<last>>
    IN  (IF what.cutoff > 1 \/ what.kbest > 0
           THEN counting("words of counts", "words of text", "vocabulary") ELSE << >>)
        \o counting("ngrams of counts", "ngrams of text", "ngrams")

\* A directory of counts is a sequence of files for each order.  The programs
\* of threads look into it; the words are counted from the unigrams alone.
CountsFiles(extracts) ==
    IF ~ input.directory THEN input.counts
      ELSE IF extracts THEN FlattenSeq(SubSeq(input.counts, 1, Order))
                       ELSE Head(input.counts)

Each(f(_), fileset) == [i \in DOMAIN fileset |-> [j \in DOMAIN fileset[i] |-> f(fileset[i][j])]]

FilesOf(pass) ==
    CASE pass = "words of counts"  -> Each(WordsOfCounts, CountsFiles(FALSE))
      [] pass = "words of text"    -> Each(WordsOfText, input.text)
      [] pass = "ngrams of counts" -> Each(NGramsOfCounts, CountsFiles(TRUE))
      [] pass = "ngrams of text"   -> Each(NGramsOfText, input.text)

\* Lines are read across the files, threads push them in batches.
Batches(all) ==
    [i \in 1 .. (Len(all) + Batch - 1) \div Batch |->
        SubSeq(all, (i - 1) * Batch + 1, IF i * Batch < Len(all) THEN i * Batch ELSE Len(all))]

Job(extracts, medium) ==
    [extracts |-> extracts, medium |-> medium, byline |-> input.byline,
     filtered |-> input.filtered,
     room |-> IF medium = "processes" THEN 1 ELSE IF input.byline THEN 8 * Tasks ELSE Tasks]

ToPush(pass, what) ==
    LET fileset == FilesOf(pass)
        threads == what.medium = "threads"
    IN  IF what.byline
          THEN IF threads THEN Ends(Batches(FlattenSeq(fileset))) ELSE FlattenSeq(fileset)
          ELSE IF threads THEN Ends(fileset) ELSE fileset

\* All tasks have been joined.
Idle == AllEnded /\ (job.medium = "processes" => left)

\* What the tasks have dumped, in their order.
AllDumped == paths_counts \o FlattenSeq([i \in 1 .. Tasks |-> dumped[i - 1]])

\* Threads hand over what they have dumped after every pass, processes when
\* both passes are done.
Accumulate ==
    LET pass == Head(passes)
        extracts == pass \in {"ngrams of counts", "ngrams of text"}
        what == Job(extracts, IF extracts THEN input.medium ELSE input.vocab_medium)
    IN  /\ passes # << >>
        /\ pass \notin {"vocabulary", "ngrams"}
        /\ Idle
        /\ StartTasks(what, ToPush(pass, what))
        /\ StartMapReduce
        /\ IF job.medium = "threads" THEN paths_counts' = AllDumped /\ dumped' = ForAll(<< >>)
                                     ELSE UNCHANGED <<paths_counts, dumped>>
        /\ passes' = Tail(passes)
        /\ UNCHANGED <<input, vocabulary, indexVars, mpiVars>>

-----------------------------------------------------------------------------
(* The end of a program.                                                    *)

\* The words of a bag of counts by count, from the most frequent, and by
\* spelling.
ByCount(bag) ==
    Ranked(BagToSet(bag),
                 LAMBDA v, w : \/ bag[v] > bag[w]
                               \/ bag[v] = bag[w] /\ v[1] < w[1])

EndProgram ==
    /\ Idle
    /\ passes # << >>
    /\ passes' = Tail(passes)
    /\ paths_counts' = << >>
    /\ dumped' = ForAll(<< >>)
    /\ job' = NoJob
    /\ UNCHANGED <<input, unread, items, feed, pipe, stage, counts, spilt, processVars,
                   order, unsent, queue, opened, heads, prefix, words, indexer, tree, joined,
                   mpiVars>>

\* The script keeps the first words, or those of a count that is great enough.
KeepWords ==
    LET bag == Added(EmptyBag, AllDumped)
        sorted == ByCount(bag)
        kept == IF input.kbest > 0 THEN [i \in DOMAIN sorted \intersect 1 .. input.kbest |-> sorted[i]]
                                   ELSE SelectSeq(sorted, LAMBDA w : bag[w] >= input.cutoff)
    IN  /\ EndProgram
        /\ Head(passes) = "vocabulary"
        /\ vocabulary' = {w[1] : w \in Range(kept)}
        /\ UNCHANGED <<vocab_cs, files>>

\* dump_counts: the n-grams of one order, sorted.
CountsFile(bag, n) ==
    LET sorted == Ranked({g \in BagToSet(bag) : Len(g) = n}, Before)
    IN  [i \in DOMAIN sorted |-> [ngram |-> sorted[i], count |-> bag[sorted[i]]]]

\* The unigrams of all files are added up; the other files are listed by order.
postprocess ==
    LET unigrams == Added(EmptyBag, AllDumped)
        sorted == ByCount([g \in {h \in BagToSet(unigrams) : Len(h) = 1} |-> unigrams[g]])
        fileset(n) == [i \in DOMAIN AllDumped |-> CountsFile(AllDumped[i], n)]
    IN  /\ EndProgram
        /\ Head(passes) = "ngrams"
        /\ vocab_cs' = [i \in DOMAIN sorted |-> sorted[i][1]]
        /\ files' = [i \in 1 .. Order - 1 |->
                        SelectSeq(fileset(i + 1), LAMBDA file : file # << >>)]
        /\ UNCHANGED vocabulary

-----------------------------------------------------------------------------
(* The specification.                                                       *)

Init ==
    /\ input \in Inputs
    /\ passes = Passes(input)
    /\ paths_counts = << >>
    /\ vocabulary = {}
    /\ vocab_cs = << >>
    /\ files = << >>
    /\ TasksInit
    /\ MapReduceInit
    /\ IndexInit
    /\ ProcessesInit

Extracted == passes = << >>

Count ==
    \/ Accumulate
    \/ KeepWords
    \/ postprocess
    \/ /\ \/ PushItem
          \/ \E t \in Task : Work(t)
       /\ UNCHANGED <<processVars, corpusVars, indexVars, mpiVars>>
    \/ Distribute /\ UNCHANGED <<corpusVars, indexVars, mpiVars>>

IndexCounts ==
    /\ Extracted
    /\ IF input.index_medium = "threads" THEN IndexNext /\ UNCHANGED mpiVars
                                         ELSE ProcessesNext
    /\ UNCHANGED <<taskVars, processVars, corpusVars>>

Complete ==
    /\ Extracted
    /\ IF input.index_medium = "threads" THEN IndexDone ELSE ProcessesDone

Next == Count \/ IndexCounts \/ (Complete /\ UNCHANGED vars)

Spec == Init /\ [][Next]_vars

FairSpec == Spec /\ WF_vars(Next)

-----------------------------------------------------------------------------
(* Properties.                                                              *)

InputCounts == IF input.directory THEN FlattenSeq(input.counts) ELSE input.counts

Turned(s, f(_)) == [i \in DOMAIN s |-> f(s[i])]

Texts(f(_)) ==
    {Framed(Turned(s, f)) : s \in UNION {Range(file) : file \in Range(input.text)} \ {<< >>}}

CountedNGrams(f(_)) ==
    {Turned(line.ngram, f) : line \in UNION {Range(file) : file \in Range(InputCounts)}}

\* How often an n-gram starts in a text.
Occurrences(g, s) ==
    Cardinality({i \in 1 .. Len(s) - Len(g) + 1 : SubSeq(s, i, i + Len(g) - 1) = g})

\* The occurrences of the n-grams in the text and the counts that turn into g
\* when f is done to their words.
Expected(g, f(_)) ==
    LET InText(s) == IF s = << >> THEN 0 ELSE Occurrences(g, Framed(Turned(s, f)))
        InCounts(line) == IF Turned(line.ngram, f) = g THEN line.count ELSE 0
    IN  SumOver(input.text, InText) + SumOver(InputCounts, InCounts)

Same(w) == w

AllWords == UNION {Range(s) : s \in Texts(Same) \union CountedNGrams(Same)}

\* A word is kept if it is as frequent as asked for, or if not too many words
\* are before it.
Keeps(w) ==
    LET count == [v \in AllWords |-> Expected(<<v>>, Same)]
    IN  /\ count[w] > 0
        /\ IF input.kbest > 0
             THEN Cardinality({v \in AllWords :
                      \/ count[v] > count[w]
                      \/ count[v] = count[w] /\ v < w}) < input.kbest
             ELSE count[w] >= input.cutoff

\* The n-grams of the words that are kept.
AllNGrams ==
    LET Within(s) == {SubSeq(s, p[1], p[2]) : p \in {q \in (1 .. Len(s)) \X (1 .. Len(s)) :
                                                    q[2] - q[1] \in 0 .. Order - 1}}
    IN  UNION {Within(s) : s \in Texts(Known)}
        \union {g \in CountedNGrams(Known) : Len(g) <= Order}

InFiles(g) ==
    SumOver(files[Len(g) - 1], LAMBDA line : IF line.ngram = g THEN line.count ELSE 0)

\* However the lines are dealt to tasks, whenever memory runs short and whatever
\* way they come through a child: each n-gram of the words that are frequent
\* enough, and no other, is in the files as often as it is in the input; no
\* file has an n-gram twice or unsorted, and the n-grams of a file extend ones
\* of the order before, as the indexer expects.
ExtractedRight ==
    Extracted /\ order = 0 =>
        /\ Cuts => vocabulary = {w \in AllWords : Keeps(w)}
        /\ Indexable(vocab_cs, files)
        /\ Range(vocab_cs) = {g[1] : g \in {h \in AllNGrams : Len(h) = 1}}
        /\ \A n \in 2 .. Order :
              {g \in AllNGrams : Len(g) = n} = UNION {{line.ngram : line \in Range(file)} :
                                                            file \in Range(files[n - 1])}
        /\ \A g \in AllNGrams : Len(g) > 1 => InFiles(g) = Expected(g, Known)

\* The index of the extracted counts (NGramCountsIndex).
IndexComplete == Complete => IndexRight

\* Extraction and indexing come to their end.
Termination == <>Complete
=============================================================================
