------------------------ MODULE MCNGramCountsExtract ------------------------
(* Two tasks and two shards, n-grams of up to three words.  The counts of a *)
(* directory are of three orders, in two files each but for the words.      *)
EXTENDS NGramCountsExtract

A == 4
B == 5
C == 6

\* The second word is that of shard 0.
FirstWord == [pair \in (0 .. 5) \X (0 .. 5) |-> IF pair[1] = 1 THEN 0 ELSE 1]

Line(g, count) == [ngram |-> g, count |-> count]

Unigrams3 == <<Line(<<A>>, 4), Line(<<B>>, 2), Line(<<C>>, 1)>>

Directory ==
    << <<Unigrams3>>,
       << <<Line(<<A, A>>, 1), Line(<<A, B>>, 1)>>,
          <<Line(<<A, B>>, 1), Line(<<B, C>>, 1)>> >>,
       << <<Line(<<A, A, B>>, 1)>>, <<Line(<<A, B, C>>, 1)>> >>,
       << <<Line(<<A, A, B, C>>, 1)>> >> >>

Plain == [counts |-> << >>, directory |-> FALSE, text |-> << >>,
          byline |-> FALSE, filtered |-> FALSE, cutoff |-> 1, kbest |-> 0,
          vocab_medium |-> "threads", medium |-> "threads", index_medium |-> "threads"]

\* One text, as the script has it read by lines, and words that occur twice.
ByLine == [Plain EXCEPT !.text = << << <<A>>, <<B, A>>, <<A>> >> >>,
                        !.byline = TRUE, !.cutoff = 2]

\* The same by processes, with all words.
ProcessesByLine ==
    [Plain EXCEPT !.text = << << <<A>>, <<B, A>>, << >> >>, << <<A>> >> >>, !.byline = TRUE,
                  !.medium = "processes"]

\* A directory and a text.
ByFile == [Plain EXCEPT !.counts = Directory, !.directory = TRUE, !.text = << << <<A, C>> >> >>]

\* Files of counts and texts by processes, and the four most frequent words.
ProcessesByFile ==
    [Plain EXCEPT !.counts = <<Unigrams3, Directory[2][2]>>,
                  !.text = << << <<A, B>> >>, << <<A>>, <<B>> >> >>,
                  !.kbest = 4, !.vocab_medium = "processes", !.medium = "processes"]

\* Through children.
Filtered == [Plain EXCEPT !.text = << << <<A>>, <<B>>, <<A>> >> >>, !.byline = TRUE,
                          !.filtered = TRUE, !.cutoff = 2]

ProcessesFiltered ==
    [Plain EXCEPT !.text = << << <<A>>, <<B>> >>, << <<A>> >> >>, !.filtered = TRUE,
                  !.medium = "processes"]

\* Two texts, indexed by processes.
IndexedByProcesses ==
    [Plain EXCEPT !.text = << << <<A>> >>, << <<B>>, <<A>> >> >>, !.index_medium = "processes"]

\* Words are counted by processes, by lines.
VocabByProcesses == [Plain EXCEPT !.text = << << <<A>>, <<A>> >> >>, !.byline = TRUE,
                                  !.cutoff = 2, !.vocab_medium = "processes"]

\* The first file starts with a run of n-grams of shard 1 and the second with
\* one of n-grams of shard 0.
Runs == [Plain EXCEPT !.counts = << Unigrams3 \o <<Line(<<A, A>>, 1), Line(<<A, B>>, 1),
                                                  Line(<<A, C>>, 1)>>,
                                    <<Line(<<B, A>>, 1), Line(<<B, B>>, 1),
                                      Line(<<B, C>>, 1), Line(<<C, A>>, 1)>> >>]

Ending == {ByLine, ProcessesByLine, ByFile, ProcessesByFile, Filtered, ProcessesFiltered,
           IndexedByProcesses}

OnlyVocab == {VocabByProcesses}

OnlyRuns == {Runs}
=============================================================================
