--------------------------- MODULE MCEstimateMPI ---------------------------
(* Two processes and an index of order 4: one that ends, and one of pruned  *)
(* counts in which requests cross.                                          *)
EXTENDS EstimateNGramMPI, TLC

Words == {"a", "b", "UNK"}

Homes == [pair \in Words \X Words |->
    IF pair \in {<<"a", "b">>, <<"a", "c">>, <<"b", "b">>} THEN 0 ELSE 1]

Unigrams == << <<"a">>, <<"b">>, <<"UNK">> >>

\* modify() counts the words before an n-gram; the longest ones keep their counts.
NotPreceded(nodes) ==
    LET ngrams == UNION {Range(nodes[s]) : s \in Shard}
    IN  {g \in ngrams : Len(g) < Order /\ \A h \in ngrams : Len(h) < 2 \/ Tail(h) # g}

\* The bigrams after "b" lie with both processes.  "b a a" and "b a a c" are of
\* pruned counts: "a a" is not indexed, so that process 1 asks process 0 for the
\* rest.  "a c" has no word before it that was counted.
NodesHere ==
    0 :> Unigrams \o << <<"a", "b">>, <<"b", "b">>, <<"a", "b", "a">> >>
    @@ 1 :> Unigrams \o << <<"b", "a">>, <<"b", "UNK">>,
               <<"b", "a", "a">>, <<"b", "a", "b">>,
               <<"b", "a", "b", "a">> >>

UnseenHere == NotPreceded(NodesHere)

-----------------------------------------------------------------------------

\* "b a b b" of process 1 asks process 0 for "a b b", whose own estimation asks
\* process 1 for "b b", which was pruned.
StuckWords == {"a", "b"}

StuckHomes ==
    [pair \in StuckWords \X StuckWords |-> IF pair = <<"a", "b">> THEN 0 ELSE 1]

StuckUnigrams == << <<"a">>, <<"b">> >>

StuckNodes ==
    0 :> StuckUnigrams \o << <<"a", "b">>, <<"a", "b", "b">> >>
    @@ 1 :> StuckUnigrams \o << <<"b", "a">>, <<"b", "a", "b">>, <<"b", "a", "b", "b">> >>
=============================================================================
