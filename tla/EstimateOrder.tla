--------------------------- MODULE EstimateOrder ---------------------------
(* What the estimation of the higher orders promises, whatever threads do   *)
(* it: probabilities become final one context at a time, and those of a     *)
(* context's children only after the lower-order values they are computed   *)
(* from are final.                                                          *)
EXTENDS NGramIndex

CONSTANTS Unseen, Removed

VARIABLE settled    \* the nodes whose probability is final

\* Is the probability of node p of shard s ever estimated?
Estimated(s, p) ==
    LastWord(Ngram(s, p)) \notin Removed /\ Ngram(s, p) \notin Unseen

Node(g) == <<shard_index(g), Find(shard_index(g), g)>>

Suffix(g, n) == SubSeq(g, n + 1, Len(g))

\* The nodes whose probability the value of g is computed from: its suffixes
\* in the index down to the first that is estimated.
Needs(g) ==
    LET suffixes == {n \in 1 .. Len(g) - 1 : Has(shard_index(Suffix(g, n)), Suffix(g, n))}
    IN  {Node(Suffix(g, n)) : n \in
            {n \in suffixes : \A m \in suffixes :
                m < n => ~ Estimated(Node(Suffix(g, m))[1], Node(Suffix(g, m))[2])}}

Init == settled =
    UNION {{<<s, p>> : p \in 0 .. Offset(s, 2) - 1} : s \in Shard}

Settle(s, c) ==
    LET children == {p \in Pos(s) : Parent(s, p) = c}
    IN  /\ children # {}
        /\ \A p \in children : <<s, p>> \notin settled
        /\ \A p \in children :
              LastWord(Ngram(s, p)) \notin Removed => Needs(Ngram(s, p)) \subseteq settled
        /\ settled' = settled \union {<<s, p>> : p \in children}

Next == \E s \in Shard : \E c \in Pos(s) : Settle(s, c)

Spec == Init /\ [][Next]_settled
=============================================================================
