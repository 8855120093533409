----------------------- MODULE MCNGramCountsEstimate -----------------------
(* Indexes small enough to explore every schedule of the estimation.        *)
EXTENDS NGramCountsEstimate, SequencesExt, TLC

-----------------------------------------------------------------------------
(* modify() counts the words before an n-gram.  Nothing here starts with    *)
(* BOS, and the longest n-grams keep their counts.                          *)

NotPreceded(nodes) ==
    LET ngrams == UNION {Range(nodes[s]) : s \in Shard}
    IN  {g \in ngrams : Len(g) < Order /\ \A h \in ngrams : Len(h) < 2 \/ Tail(h) # g}

-----------------------------------------------------------------------------
(* Two shards.  The 4-grams of each need trigrams of the other, and the     *)
(* 5-gram of shard 0 adds a chain of waits over two orders.  "b a b b" and  *)
(* "b a b b a" are n-grams of pruned counts: the suffix "a b b" of one is   *)
(* not indexed, only its context; of the suffix of the other not even that. *)

CycleWords == {"a", "b", "UNK"}

CycleHome == [pair \in CycleWords \X CycleWords |->
    IF pair = <<"a", "b">> THEN 0 ELSE 1]

CycleNodes ==
    0 :> << <<"UNK">>, <<"a">>, <<"b">>, <<"a", "b">>,
            <<"a", "b", "UNK">>, <<"a", "b", "a">>,
            <<"a", "b", "a", "b">>, <<"a", "b", "a", "b", "a">> >>
    @@ 1 :> << <<"UNK">>, <<"a">>, <<"b">>, <<"b", "UNK">>, <<"b", "a">>, <<"b", "b">>,
               <<"b", "a", "b">>, <<"b", "a", "b", "a">>, <<"b", "a", "b", "b">>,
               <<"b", "a", "b", "b", "a">> >>

CycleUnseen == NotPreceded(CycleNodes)
=============================================================================
