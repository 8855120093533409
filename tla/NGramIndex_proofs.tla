------------------------- MODULE NGramIndex_proofs -------------------------
(* What the breadth-first numbering of a shard gives its readers: where the *)
(* children of a node begin and end.                                        *)
EXTENDS NGramIndex, FiniteSetTheorems, WellFoundedInduction, TLAPS

\* A non-empty set of numbers has a least one.
LEMMA HasLeast ==
    ASSUME NEW S \in SUBSET Nat, S # {}
    PROVE  \E x \in S : \A y \in S : x <= y
<1> DEFINE R == OpToRel(<, Nat)
<1>1. IsWellFoundedOn(R, Nat)
  BY NatLessThanWellFounded
<1>2. \E x \in S : \A y \in S : ~ (<<y, x>> \in R)
  <2> HIDE DEF R
  <2>1. QED
    BY <1>1, WFMin
<1>3. PICK x \in S : \A y \in S : ~ (<<y, x>> \in R)
  BY <1>2
<1>4. ASSUME NEW y \in S PROVE x <= y
  <2>1. x \in Nat /\ y \in Nat
    OBVIOUS
  <2>2. ~ (y < x)
    BY <1>3, <2>1 DEF OpToRel
  <2>3. QED
    BY <2>1, <2>2
<1>5. QED
  BY <1>4

\* Nodes of a shard are natural numbers, n-grams are sequences of words.
LEMMA NodeType ==
    ASSUME NEW s \in Shard
    PROVE  /\ Size(s) \in Nat
           /\ Pos(s) \subseteq Nat
           /\ IsFiniteSet(Pos(s))
           /\ Cardinality(Pos(s)) = Size(s)
           /\ \A p \in Pos(s) : /\ Ngram(s, p) \in Seq(Word)
                                /\ Len(Ngram(s, p)) \in 1 .. Order
<1>1. Nodes[s] \in Seq(Seq(Word))
  BY IndexAssumption
<1>2. Size(s) \in Nat
  BY <1>1 DEF Size
<1>3. Pos(s) \subseteq Nat
  BY <1>2 DEF Pos
<1>4. IsFiniteSet(Pos(s)) /\ Cardinality(Pos(s)) = Size(s)
  BY <1>2, FS_Interval DEF Pos
<1>5. ASSUME NEW p \in Pos(s) PROVE Ngram(s, p) \in Seq(Word)
  <2>1. p + 1 \in 1 .. Len(Nodes[s])
    BY <1>2 DEF Pos, Size
  <2>2. QED
    BY <1>1, <2>1 DEF Ngram
<1>6. QED
  BY <1>2, <1>3, <1>4, <1>5, IndexAssumption

\* An n-gram has at least one word.
LEMMA NgramLength ==
    ASSUME NEW s \in Shard, NEW p \in Pos(s)
    PROVE  Len(Ngram(s, p)) \in Int /\ Len(Ngram(s, p)) >= 1
<1>1. Len(Ngram(s, p)) \in 1 .. Order /\ Order \in Nat
  BY IndexAssumption
<1>2. QED
  BY <1>1

\* Find returns the node of an n-gram that the shard has.
LEMMA FindHas ==
    ASSUME NEW s, NEW g, Has(s, g)
    PROVE  Find(s, g) \in Pos(s) /\ Ngram(s, Find(s, g)) = g
BY DEF Has, Find

\* The parent of a node is a node of the shard, or -1 for a unigram.
LEMMA ParentType ==
    ASSUME NEW s \in Shard, NEW p \in Pos(s)
    PROVE  /\ Parent(s, p) \in Int
           /\ Parent(s, p) >= -1
           /\ Len(Ngram(s, p)) = 1 => Parent(s, p) = -1
           /\ Len(Ngram(s, p)) > 1 =>
                 /\ Has(s, Context(Ngram(s, p)))
                 /\ Parent(s, p) = Find(s, Context(Ngram(s, p)))
                 /\ Parent(s, p) \in Pos(s)
                 /\ Ngram(s, Parent(s, p)) = Context(Ngram(s, p))
<1>1. Len(Ngram(s, p)) \in Nat /\ Len(Ngram(s, p)) >= 1
  BY NodeType, IndexAssumption
<1>2. CASE Len(Ngram(s, p)) = 1
  <2>1. Parent(s, p) = -1
    BY <1>2 DEF Parent, Parents
  <2>2. QED
    BY <1>2, <2>1
<1>3. CASE Len(Ngram(s, p)) # 1
  <2>1. Len(Ngram(s, p)) > 1
    BY <1>1, <1>3
  <2>2. Has(s, Context(Ngram(s, p)))
    BY <2>1, ShardAssumption
  <2>3. Parent(s, p) = Find(s, Context(Ngram(s, p)))
    BY <1>3 DEF Parent, Parents
  <2>4. /\ Find(s, Context(Ngram(s, p))) \in Pos(s)
        /\ Ngram(s, Find(s, Context(Ngram(s, p)))) = Context(Ngram(s, p))
    BY <2>2, FindHas
  <2>5. Parent(s, p) \in Nat
    BY <2>3, <2>4, NodeType
  <2>6. Parent(s, p) \in Int /\ Parent(s, p) >= -1
    BY <2>5
  <2>7. QED
    BY <1>3, <2>2, <2>3, <2>4, <2>6
<1>4. QED
  BY <1>2, <1>3

\* A set of nodes that contains every node before one of its own is the
\* initial segment whose length is its cardinality.
LEMMA InitialSegment ==
    ASSUME NEW n \in Nat, NEW T \in SUBSET (0 .. n - 1),
           \A p \in T : \A q \in 0 .. n - 1 : q < p => q \in T
    PROVE  /\ Cardinality(T) \in 0 .. n
           /\ \A q \in 0 .. n - 1 : q < Cardinality(T) <=> q \in T
<1>1. IsFiniteSet(0 .. n - 1) /\ Cardinality(0 .. n - 1) = n
  BY FS_Interval
<1>2. IsFiniteSet(T) /\ Cardinality(T) <= n
  BY <1>1, FS_Subset
<1>3. Cardinality(T) \in Nat
  BY <1>2, FS_CardinalityType
<1>4. ASSUME NEW q \in 0 .. n - 1, q \notin T PROVE ~ (q < Cardinality(T))
  <2>1. T \in SUBSET (0 .. q - 1)
    <3>1. SUFFICES ASSUME NEW p \in T PROVE p \in 0 .. q - 1
      OBVIOUS
    <3>2. p \in 0 .. n - 1 /\ p # q /\ ~ (q < p)
      BY <1>4
    <3>3. QED
      BY <3>2
  <2>2. IsFiniteSet(0 .. q - 1) /\ Cardinality(0 .. q - 1) = q
    BY FS_Interval
  <2>3. Cardinality(T) <= q
    BY <2>1, <2>2, FS_Subset
  <2>4. QED
    BY <1>3, <2>3
<1>5. ASSUME NEW q \in 0 .. n - 1, q \in T PROVE q < Cardinality(T)
  <2>1. 0 .. q \in SUBSET T
    <3>1. SUFFICES ASSUME NEW p \in 0 .. q PROVE p \in T
      OBVIOUS
    <3>2. p = q \/ (p < q /\ p \in 0 .. n - 1)
      OBVIOUS
    <3>3. QED
      BY <1>5, <3>2
  <2>2. Cardinality(0 .. q) = q + 1
    BY FS_Interval
  <2>3. q + 1 <= Cardinality(T)
    BY <1>2, <2>1, <2>2, FS_Subset
  <2>4. QED
    BY <1>3, <2>3
<1>6. QED
  BY <1>2, <1>3, <1>4, <1>5

\* The nodes before ChildrenLast(s, p) are those whose parent is p or earlier.
LEMMA ChildrenLastBounds ==
    ASSUME NEW s \in Shard, NEW p \in Int
    PROVE  /\ ChildrenLast(s, p) \in 0 .. Size(s)
           /\ \A q \in Pos(s) : q < ChildrenLast(s, p) <=> Parent(s, q) <= p
<1> DEFINE T == {q \in Pos(s) : Parent(s, q) <= p}
<1>1. Size(s) \in Nat /\ Pos(s) = 0 .. Size(s) - 1
  BY NodeType DEF Pos
<1>2. T \in SUBSET (0 .. Size(s) - 1)
  BY <1>1
<1>3. ASSUME NEW r \in T, NEW q \in 0 .. Size(s) - 1, q < r PROVE q \in T
  <2>1. r \in Pos(s) /\ q \in Pos(s) /\ Parent(s, r) <= p
    BY <1>1
  <2>2. Parent(s, q) <= Parent(s, r)
    BY <1>3, <2>1, BreadthFirstAssumption
  <2>3. Parent(s, q) \in Int /\ Parent(s, r) \in Int
    BY <2>1, ParentType
  <2>4. QED
    BY <2>1, <2>2, <2>3
<1>4. /\ Cardinality(T) \in 0 .. Size(s)
      /\ \A q \in 0 .. Size(s) - 1 : q < Cardinality(T) <=> q \in T
  <2> HIDE DEF T
  <2>1. QED
    BY <1>1, <1>2, <1>3, InitialSegment
<1>5. QED
  BY <1>1, <1>4 DEF ChildrenLast

\* Later nodes have their children later.
LEMMA ChildrenLastMonotone ==
    ASSUME NEW s \in Shard, NEW p \in Int, NEW r \in Int, p <= r
    PROVE  ChildrenLast(s, p) <= ChildrenLast(s, r)
<1> DEFINE T(x) == {q \in Pos(s) : Parent(s, q) <= x}
<1>1. IsFiniteSet(Pos(s))
  BY NodeType
<1>2. IsFiniteSet(T(r))
  BY <1>1, FS_Subset
<1>3. T(p) \in SUBSET T(r)
  BY ParentType
<1>4. QED
  BY <1>2, <1>3, FS_Subset DEF ChildrenLast

\* The nodes before Offset(s, n) are those of at most n words.
LEMMA OffsetBounds ==
    ASSUME NEW s \in Shard, NEW n \in Int
    PROVE  /\ Offset(s, n) \in 0 .. Size(s)
           /\ \A q \in Pos(s) : q < Offset(s, n) <=> Len(Ngram(s, q)) <= n
<1> DEFINE T == {q \in Pos(s) : Len(Ngram(s, q)) <= n}
<1>1. Size(s) \in Nat /\ Pos(s) = 0 .. Size(s) - 1
  BY NodeType DEF Pos
<1>2. T \in SUBSET (0 .. Size(s) - 1)
  BY <1>1
<1>3. ASSUME NEW r \in T, NEW q \in 0 .. Size(s) - 1, q < r PROVE q \in T
  <2>1. r \in Pos(s) /\ q \in Pos(s) /\ Len(Ngram(s, r)) <= n
    BY <1>1
  <2>2. Len(Ngram(s, q)) <= Len(Ngram(s, r))
    BY <1>3, <2>1, BreadthFirstAssumption
  <2>3. Len(Ngram(s, q)) \in Int /\ Len(Ngram(s, r)) \in Int
    BY <2>1, NodeType
  <2>4. QED
    BY <2>1, <2>2, <2>3
<1>4. /\ Cardinality(T) \in 0 .. Size(s)
      /\ \A q \in 0 .. Size(s) - 1 : q < Cardinality(T) <=> q \in T
  <2> HIDE DEF T
  <2>1. QED
    BY <1>1, <1>2, <1>3, InitialSegment
<1>5. QED
  BY <1>1, <1>4 DEF Offset

\* The children of a node are nodes, and they are the nodes it is the parent of.
LEMMA ChildrenNodes ==
    ASSUME NEW s \in Shard, NEW c \in Nat
    PROVE  /\ ChildrenFirst(s, c) \in 0 .. Size(s)
           /\ ChildrenFirst(s, c) <= ChildrenLast(s, c)
           /\ ChildrenFirst(s, c + 1) = ChildrenLast(s, c)
           /\ Children(s, c) \subseteq Pos(s)
           /\ \A q \in Children(s, c) : Parent(s, q) = c
<1>1. c - 1 \in Int /\ c - 1 <= c /\ (c + 1) - 1 = c
  OBVIOUS
<1>2. ChildrenFirst(s, c) \in 0 .. Size(s)
  BY <1>1, ChildrenLastBounds DEF ChildrenFirst
<1>3. ChildrenFirst(s, c) <= ChildrenLast(s, c)
  BY <1>1, ChildrenLastMonotone DEF ChildrenFirst
<1>4. ChildrenFirst(s, c + 1) = ChildrenLast(s, c)
  BY <1>1 DEF ChildrenFirst
<1>5. ChildrenLast(s, c) \in 0 .. Size(s) /\ Size(s) \in Nat
  BY ChildrenLastBounds, NodeType
<1>6. Children(s, c) \subseteq Pos(s)
  BY <1>2, <1>5 DEF Children, Pos
<1>7. ASSUME NEW q \in Children(s, c) PROVE Parent(s, q) = c
  <2>1. q \in Pos(s) /\ q < ChildrenLast(s, c) /\ ~ (q < ChildrenLast(s, c - 1))
    BY <1>2, <1>5, <1>6 DEF Children, ChildrenFirst
  <2>2. Parent(s, q) <= c /\ ~ (Parent(s, q) <= c - 1)
    BY <1>1, <2>1, ChildrenLastBounds
  <2>3. QED
    BY <2>1, <2>2, ParentType
<1>8. QED
  BY <1>2, <1>3, <1>4, <1>6, <1>7
=============================================================================
