---------------------------- MODULE NGramIndex ----------------------------
(* The sharded n-gram index that every pipeline of expgram walks            *)
(* (expgram/NGramIndex.hpp).  An index is a forest of tries: every shard    *)
(* holds all the unigrams, and an n-gram of two or more words belongs to    *)
(* the shard its first two words hash to.  Inside a shard the nodes are     *)
(* numbered 0, 1, ... in breadth-first order; the succinct bit vector that  *)
(* stores them answers "parent" and "last child" by rank and select, which  *)
(* is what Parent and ChildrenLast compute from the numbering.              *)
(*                                                                          *)
(* An n-gram is a non-empty sequence of words.  The index is data that no   *)
(* pipeline modelled here changes, so it is a constant.                     *)
EXTENDS Integers, Sequences, FiniteSets

CONSTANTS
    Shard,      \* the shards; shard 0 is also the home of the unigrams
    Word,       \* the vocabulary
    Order,      \* the length of the longest n-grams
    Nodes,      \* Nodes[s] is the sequence of the n-grams of shard s, by node
    Home        \* Home[<<v, w>>] is the shard that v and w hash to

Size(s) == Len(Nodes[s])

Pos(s) == 0 .. Size(s) - 1

\* The n-gram of node p of shard s; the code reads it off the path to the root.
Ngram(s, p) == Nodes[s][p + 1]

Context(g) == SubSeq(g, 1, Len(g) - 1)

LastWord(g) == g[Len(g)]

shard_index(g) == IF Len(g) <= 1 THEN 0 ELSE Home[<<g[1], g[2]>>]

Has(s, g) == \E p \in Pos(s) : Ngram(s, p) = g

Find(s, g) == CHOOSE p \in Pos(s) : Ngram(s, p) = g

\* Words are compared by their identifiers, the positions of the unigrams.
Id(w) == Find(0, <<w>>)

\* The order of n-grams of one length.
Before(g, h) ==
    \E i \in DOMAIN g :
        /\ SubSeq(g, 1, i - 1) = SubSeq(h, 1, i - 1)
        /\ Id(g[i]) < Id(h[i])

\* The parents of all nodes: a table, which TLC computes once.
Parents ==
    [s \in Shard |-> [p \in Pos(s) |->
        IF Len(Ngram(s, p)) = 1 THEN -1 ELSE Find(s, Context(Ngram(s, p)))]]

Parent(s, p) == Parents[s][p]

\* One past the last child of p; with p = -1, one past the last unigram.
ChildrenLast(s, p) == Cardinality({q \in Pos(s) : Parent(s, q) <= p})

ChildrenFirst(s, p) == ChildrenLast(s, p - 1)

Children(s, p) == ChildrenFirst(s, p) .. ChildrenLast(s, p) - 1

\* One past the last node of order n: the table offsets[n] of the shard.
Offset(s, n) == Cardinality({p \in Pos(s) : Len(Ngram(s, p)) <= n})

-----------------------------------------------------------------------------

\* Every shard holds all the unigrams and n-grams of at most Order words,
\* each once.
ASSUME IndexAssumption ==
    /\ 0 \in Shard
    /\ Order \in Nat
    /\ Order >= 2
    /\ Home \in [Word \X Word -> Shard]
    /\ Nodes \in [Shard -> Seq(Seq(Word))]
    /\ \A s \in Shard : \A p \in Pos(s) : Len(Ngram(s, p)) \in 1 .. Order
    /\ \A s \in Shard, w \in Word : Has(s, <<w>>)
    /\ \A s \in Shard : \A p, q \in Pos(s) : Ngram(s, p) = Ngram(s, q) => p = q

\* A node lives in the shard that its n-gram hashes to, and its context is a
\* node of the same shard with a smaller number.
ASSUME ShardAssumption ==
    \A s \in Shard : \A p \in Pos(s) :
        Len(Ngram(s, p)) > 1 =>
            /\ shard_index(Ngram(s, p)) = s
            /\ Has(s, Context(Ngram(s, p)))
            /\ Parent(s, p) < p

\* The numbering is breadth first: orders come one after the other, and
\* the children of an earlier node come before those of a later one.
ASSUME BreadthFirstAssumption ==
    \A s \in Shard : \A p, q \in Pos(s) :
        p < q => /\ Len(Ngram(s, p)) <= Len(Ngram(s, q))
                 /\ Parent(s, p) <= Parent(s, q)

\* Every suffix of a node is a node.  An index of the counts of a corpus has
\* this property; one of counts from which n-grams were dropped may not.
SuffixClosed ==
    \A s \in Shard : \A p \in Pos(s) :
        LET suffix == Tail(Ngram(s, p))
        IN  suffix # << >> => Has(shard_index(suffix), suffix)
=============================================================================
