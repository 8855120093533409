-------------------------- MODULE MCNGramBackward --------------------------
(* N-grams of "<s> a b a", "<s> b a b" and "a b b" in two shards that       *)
(* exchange them.  They are pruned counts: "a b a", the suffix of the       *)
(* 4-gram, is not indexed, which stops the reducer of shard 1 when it has   *)
(* appended two orders.  No reversed 4-gram belongs to shard 0.             *)
(*                                                                          *)
(* The values tell the nodes apart.  The greatest log-probability is that   *)
(* of a bigram which does not start a sentence and so must raise no bound.  *)
(*                                                                          *)
(* What it stands on is checked beside it: the queue that the threads       *)
(* share, with a few threads of its own, in memory that is soon used again; *)
(* how bits and numbers are packed; and how directories are written, also   *)
(* by other programs.  A behaviour is about one of them only.               *)
EXTENDS NGramBackward, LockfreeListQueue, NGramRepository, PackedData

CONSTANTS p1, p2, c1, c2

VARIABLE
    kind        \* what runs: "index", "queue", "files" or "packing"

TextWords == {"<s>", "a", "b"}

TextHome == [pair \in TextWords \X TextWords |->
    IF pair \in {<<"<s>", "a">>, <<"b", "a">>} THEN 0 ELSE 1]

TextNodes ==
    0 :> << <<"<s>">>, <<"a">>, <<"b">>, <<"<s>", "a">>, <<"b", "a">>,
            <<"<s>", "a", "b">>, <<"b", "a", "b">>, <<"<s>", "a", "b", "a">> >>
    @@ 1 :> << <<"<s>">>, <<"a">>, <<"b">>, <<"<s>", "b">>, <<"a", "b">>, <<"b", "b">>,
               <<"<s>", "b", "a">>, <<"a", "b", "b">> >>

FromZero(seq) == [p \in 0 .. Len(seq) - 1 |-> seq[p + 1]]

Never == -9

TextLogprobs ==
    0 :> FromZero(<<1, 3, 4, 6, 12, 2, 8, 5>>)
    @@ 1 :> FromZero(<<0, 0, 0, 9, 3, Never, 7, 10>>)

TextBackoffs ==
    0 :> FromZero(<<1, 2, Never, 3, Never, 6, 8>>)
    @@ 1 :> FromZero(<<0, 0, 0, 4, 5, Never, 9, 10>>)
\* Either both producers meet at the tail, or both consumers at the head.
Meetings ==
    {[pushes |-> p1 :> 2 @@ p2 :> 2, pops |-> {c1}],
     [pushes |-> p1 :> 3 @@ p2 :> 0, pops |-> {c1, c2}]}

Memory == Permutations(Node \ {Node0, Node1})

\* An old model is written over by threads, and a quantized one by processes;
\* counts are written to a new directory, and indexed over older ones.
Writings == {
    Job("ngram", <<"logprob", "backoff">>, FALSE, "threads", TRUE),
    Job("ngram", <<"logprob">>, TRUE, "processes", TRUE),
    Job("counts", <<"count">>, FALSE, "threads", FALSE),
    Job("counts", <<"count">>, FALSE, "index", TRUE) }

\* Values of one unit and of more, for each way to pack them.
PackableValues == 1 :> {0, 1, 2, 3} @@ 2 :> {0, 3, 4, 15} @@ 4 :> {0, 5, 16, 255}

allPartsVars == <<backwardMPIVars, queueVars, repositoryVars, packedVars, kind>>

OfIndex ==
    /\ kind = "index"
    /\ BackwardMPINext
    /\ UNCHANGED <<queueVars, repositoryVars, packedVars, kind>>

OfQueue ==
    /\ kind = "queue"
    /\ QueueNext
    /\ UNCHANGED <<backwardMPIVars, repositoryVars, packedVars, kind>>

\* The programs end.
OfFiles ==
    /\ kind = "files"
    /\ RepositoryNext \/ (Written /\ UNCHANGED repositoryVars)
    /\ UNCHANGED <<backwardMPIVars, queueVars, packedVars, kind>>

\* Whoever packs may stop at any time.
OfPacking ==
    /\ kind = "packing"
    /\ PackedNext \/ UNCHANGED packedVars
    /\ UNCHANGED <<backwardMPIVars, queueVars, repositoryVars, kind>>

BackwardPartsInit ==
    /\ kind \in {"index", "queue", "files", "packing"}
    /\ BackwardMPIInit
    /\ QueueInit
    /\ kind # "queue" => work = CHOOSE w \in Work : TRUE
    /\ RepositoryInit
    /\ kind # "files" => job = CHOOSE j \in Jobs : ~ j.over
    /\ PackedInit
    /\ kind # "packing" => use = [kind |-> "bits", size |-> 0]

BackwardPartsSpec ==
    /\ BackwardPartsInit
    /\ [][OfIndex \/ OfQueue \/ OfFiles \/ OfPacking]_allPartsVars
=============================================================================
