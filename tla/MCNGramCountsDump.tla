------------------------- MODULE MCNGramCountsDump -------------------------
(* The trigrams of "<s> a b a ...", "<s> b a b ...", and "b a a", whose     *)
(* suffix "a a" is not in the index.  The vocabulary has a word that does not *)
(* occur.                                                                   *)
EXTENDS NGramCountsModifyMPI

TrigramWords == {"<s>", "a", "b", "<unk>"}

TrigramHome == [pair \in TrigramWords \X TrigramWords |->
    IF pair \in {<<"<s>", "a">>, <<"b", "a">>} THEN 0 ELSE 1]

TrigramNodes ==
    0 :> << <<"<s>">>, <<"a">>, <<"b">>, <<"<unk>">>, <<"<s>", "a">>, <<"b", "a">>,
            <<"<s>", "a", "b">>, <<"b", "a", "a">>, <<"b", "a", "b">> >>
    @@ 1 :> << <<"<s>">>, <<"a">>, <<"b">>, <<"<unk>">>, <<"<s>", "b">>, <<"a", "b">>,
               <<"<s>", "b", "a">>, <<"a", "b", "a">> >>

\* Counts that tell the nodes apart.
TrigramCounts ==
    [s \in Shard |-> [p \in 0 .. Len(TrigramNodes[s]) - 1 |->
        IF TrigramNodes[s][p + 1] = <<"<unk>">> THEN 0 ELSE 10 * (p + 1) + s]]
=============================================================================
