--------------------- MODULE NGramCountsEstimate_proofs ---------------------
(* The estimation, proved for every index, every number of shards, every    *)
(* number of passes and every schedule. First the protocol of the frontiers: *)
(* what a thread has seen is never written again. Then what is computed:     *)
(* each counted n-gram gets its probability, from the lower orders that the  *)
(* sequential definition names, and in the order that EstimateOrder states.  *)
EXTENDS NGramCountsEstimate, NGramIndex_proofs, SequenceTheorems

\* A non-empty set of nodes has a first one.
LEMMA LeastMember ==
    ASSUME NEW S \in SUBSET Nat, S # {}
    PROVE  Least(S) \in S
BY HasLeast DEF Least

\* The children that a thread goes through are nodes of its shard.
LEMMA ChildrenOfContext ==
    ASSUME NEW s \in Shard, NEW c \in Nat
    PROVE  /\ KeptChildren(s, c) \in SUBSET Pos(s)
           /\ CountedChildren(s, c) \in SUBSET Pos(s)
           /\ KeptChildren(s, c) \in SUBSET Nat
           /\ CountedChildren(s, c) \in SUBSET Nat
BY ChildrenNodes, NodeType DEF KeptChildren, CountedChildren

\* The lower-order n-gram of a child is a sequence of words.
LEMMA LowerType ==
    ASSUME NEW s \in Shard, NEW p \in Pos(s)
    PROVE  Tail(Ngram(s, p)) \in Seq(Word)
<1>1. Ngram(s, p) \in Seq(Word) /\ Len(Ngram(s, p)) >= 1
  BY NodeType, IndexAssumption
<1>2. Ngram(s, p) # << >>
  BY <1>1
<1>3. QED
  BY <1>1, <1>2

-----------------------------------------------------------------------------

\* Writing one cell of a table of the shards leaves the others alone.
LEMMA WriteCell ==
    ASSUME NEW table, DOMAIN table = Shard,
           \A x \in Shard : table[x] \in [Pos(x) -> Nat],
           NEW s \in Shard, NEW p,
           NEW new, new = [table EXCEPT ![s][p] = @ + 1]
    PROVE  /\ DOMAIN new = Shard
           /\ \A x \in Shard : new[x] \in [Pos(x) -> Nat]
           /\ \A x \in Shard : \A q \in Pos(x) :
                 x # s \/ q # p => new[x][q] = table[x][q]
<1>1. DOMAIN new = Shard
  OBVIOUS
<1>2. \A x \in Shard : x # s => new[x] = table[x]
  OBVIOUS
<1>3. new[s] = [table[s] EXCEPT ![p] = table[s][p] + 1]
  OBVIOUS
<1>4. new[s] \in [Pos(s) -> Nat] /\ \A q \in Pos(s) : q # p => new[s][q] = table[s][q]
  <2>1. table[s] \in [Pos(s) -> Nat]
    OBVIOUS
  <2>2. DOMAIN new[s] = Pos(s) /\ \A q \in Pos(s) : q # p => new[s][q] = table[s][q]
    BY <1>3, <2>1
  <2>3. ASSUME NEW q \in Pos(s) PROVE new[s][q] \in Nat
    BY <1>3, <2>1
  <2>4. QED
    BY <1>3, <2>1, <2>2, <2>3
<1>5. QED
  BY <1>1, <1>2, <1>4

-----------------------------------------------------------------------------

\* The type invariant needs to know where a thread reads a back-off weight and
\* that it writes the probabilities of counted children only.
TypeInv ==
    /\ TypeOK
    /\ \A s \in Shard :
          /\ pc[s] = "backoff" => Len(suffix[s]) > 1
          /\ pc[s] \in {"write", "rescale"} => pos[s] \in CountedChildren(s, ctx[s])

\* A lookup that returns leaves its thread at the head of the loop, at the
\* next child, or at a counted child to write.
LEMMA ReturnTypes ==
    ASSUME TypeOK, NEW s \in Shard, NEW cell, Return(s, cell)
    PROVE  /\ pos' \in [Shard -> Nat]
           /\ ctx' \in [Shard -> Nat]
           /\ suffix' \in [Shard -> Seq(Word)]
           /\ DOMAIN logbackoff' = Shard
           /\ DOMAIN lowers' = Shard
           /\ \E l \in {"enter", "lower", "write"} :
                 /\ pc' = [pc EXCEPT ![s] = l]
                 /\ l = "write" => pos'[s] \in CountedChildren(s, ctx[s]) /\ ctx' = ctx
<1> DEFINE more == {p \in KeptChildren(s, ctx[s]) : p > pos[s]}
           counted == CountedChildren(s, ctx[s])
<1>1. ctx[s] \in Nat /\ more \in SUBSET Pos(s) /\ more \in SUBSET Nat /\ counted \in SUBSET Nat
  BY ChildrenOfContext DEF TypeOK
<1>2. DOMAIN lowers' = Shard
  BY DEF Return, TypeOK
<1>3. CASE more # {} /\ StartChild(s, Least(more)) /\ Goto(s, "lower") /\ UNCHANGED ctx
  <2>1. Least(more) \in Nat /\ Least(more) \in Pos(s)
    BY <1>1, <1>3, LeastMember
  <2>2. Tail(Ngram(s, Least(more))) \in Seq(Word)
    BY <2>1, LowerType
  <2> HIDE DEF more
  <2>3. QED
    BY <1>2, <1>3, <2>1, <2>2 DEF StartChild, Goto, TypeOK
<1>4. CASE NextContext(s) /\ UNCHANGED <<pos, suffix, logbackoff>>
  BY <1>2, <1>4 DEF NextContext, Goto, TypeOK
<1>5. CASE /\ counted # {}
           /\ pos' = [pos EXCEPT ![s] = Least(counted)]
           /\ Goto(s, "write")
           /\ UNCHANGED <<ctx, suffix, logbackoff>>
  <2>1. Least(counted) \in Nat /\ Least(counted) \in counted
    BY <1>1, <1>5, LeastMember
  <2>2. pos'[s] \in CountedChildren(s, ctx[s])
    BY <1>5, <2>1 DEF TypeOK
  <2> HIDE DEF counted
  <2>3. QED
    BY <1>2, <1>5, <2>1, <2>2 DEF Goto, TypeOK
<1>6. QED
  BY <1>3, <1>4, <1>5 DEF Return

\* Adding a back-off weight keeps the types, and leaves a shorter suffix.
LEMMA AddBackoffTypes ==
    ASSUME TypeInv, NEW s \in Shard, Len(suffix[s]) > 1, AddBackoff(s)
    PROVE  TypeInv'
<1>1. suffix[s] \in Seq(Word)
  BY DEF TypeInv, TypeOK
<1>2. suffix[s] # << >>
  BY <1>1
<1>3. Tail(suffix[s]) \in Seq(Word)
  BY <1>1, <1>2
<1>4. QED
  BY <1>3 DEF AddBackoff, Goto, TypeInv, TypeOK

\* Entering a context keeps the types: the frontier stays inside the shard and
\* the first child to look up is one of its nodes.
LEMMA EnterTypes ==
    ASSUME TypeInv, NEW s \in Shard, Enter(s)
    PROVE  TypeInv'
<1> DEFINE kept == KeptChildren(s, ctx[s])
<1>1. ctx[s] \in Nat /\ kept \in SUBSET Pos(s) /\ kept \in SUBSET Nat
  BY ChildrenOfContext DEF TypeInv, TypeOK
<1>2. EnterOffset(s) \in Nat /\ EnterOffset(s) <= Size(s)
  <2>1. ChildrenFirst(s, ctx[s]) \in 0 .. Size(s)
    BY <1>1, ChildrenNodes
  <2>2. QED
    BY <2>1, NodeType DEF EnterOffset
<1>3. CASE NextContext(s) /\ UNCHANGED <<pos, suffix, logbackoff, lowers>>
  BY <1>2, <1>3 DEF Enter, NextContext, Goto, TypeInv, TypeOK
<1>4. CASE /\ kept # {}
           /\ StartChild(s, Least(kept))
           /\ lowers' = [lowers EXCEPT ![s] = {}]
           /\ Goto(s, "lower")
           /\ UNCHANGED ctx
  <2>1. Least(kept) \in Nat /\ Least(kept) \in Pos(s)
    BY <1>1, <1>4, LeastMember
  <2>2. Tail(Ngram(s, Least(kept))) \in Seq(Word)
    BY <2>1, LowerType
  <2> HIDE DEF kept
  <2>3. QED
    BY <1>2, <1>4, <2>1, <2>2 DEF Enter, StartChild, Goto, TypeInv, TypeOK
<1>5. QED
  BY <1>3, <1>4 DEF Enter

\* A lookup that returns keeps the types.
LEMMA ReturnTypeInv ==
    ASSUME TypeInv, NEW s \in Shard, NEW cell, Return(s, cell),
           UNCHANGED <<offsets, logprobs, backoffs>>
    PROVE  TypeInv'
<1>1. PICK l \in {"enter", "lower", "write"} :
          /\ pc' = [pc EXCEPT ![s] = l]
          /\ l = "write" => pos'[s] \in CountedChildren(s, ctx[s]) /\ ctx' = ctx
  BY ReturnTypes DEF TypeInv
<1>2. /\ pos' \in [Shard -> Nat]
      /\ ctx' \in [Shard -> Nat]
      /\ suffix' \in [Shard -> Seq(Word)]
      /\ DOMAIN logbackoff' = Shard
      /\ DOMAIN lowers' = Shard
  BY ReturnTypes DEF TypeInv
<1>3. TypeOK'
  BY <1>1, <1>2 DEF TypeInv, TypeOK
<1>4. pc'[s] = l
  BY <1>1 DEF TypeInv, TypeOK
<1>5. ASSUME NEW x \in Shard, x # s
      PROVE  /\ pc'[x] = pc[x] /\ ctx'[x] = ctx[x]
             /\ pos'[x] = pos[x] /\ suffix'[x] = suffix[x]
  BY <1>1, <1>5 DEF Return, StartChild, NextContext, TypeInv, TypeOK
<1>6. ASSUME NEW x \in Shard
      PROVE  /\ pc'[x] = "backoff" => Len(suffix'[x]) > 1
             /\ pc'[x] \in {"write", "rescale"} => pos'[x] \in CountedChildren(x, ctx'[x])
  <2>1. CASE x = s
    BY <1>1, <1>4, <2>1
  <2>2. CASE x # s
    BY <1>5, <2>2 DEF TypeInv
  <2>3. QED
    BY <2>1, <2>2
<1>7. QED
  BY <1>3, <1>6 DEF TypeInv

\* Reading a lower-order probability keeps the types, found or not.
LEMMA ReadLogprobTypes ==
    ASSUME TypeInv, NEW s \in Shard, ReadLogprob(s)
    PROVE  TypeInv'
<1>1. CASE Return(s, Logprob(suffix[s]))
  BY <1>1, ReturnTypeInv DEF ReadLogprob
<1>2. CASE Goto(s, "backoff") /\ UNCHANGED <<ctx, pos, suffix, logbackoff, lowers>>
  BY <1>2 DEF ReadLogprob, Goto, TypeInv, TypeOK
<1>3. QED
  BY <1>1, <1>2 DEF ReadLogprob

\* A write of a probability keeps the types: it writes a node of its shard, and
\* so will the next one.
LEMMA WriteLogprobTypes ==
    ASSUME TypeInv, NEW s \in Shard, WriteLogprob(s)
    PROVE  TypeInv'
<1> DEFINE counted == CountedChildren(s, ctx[s])
           more == {p \in counted : p > pos[s]}
<1>1. pos[s] \in counted /\ counted \in SUBSET Nat /\ more \in SUBSET Nat
  BY ChildrenOfContext DEF WriteLogprob, TypeInv, TypeOK
<1>2. DOMAIN logprobs' = Shard /\ \A x \in Shard : logprobs'[x] \in [Pos(x) -> Nat]
  BY WriteCell DEF WriteLogprob, TypeInv, TypeOK
<1>3. PICK p \in counted : pos' = [pos EXCEPT ![s] = p]
  <2>1. more # {} => Least(more) \in counted
    BY <1>1, LeastMember
  <2>2. Least(counted) \in counted
    BY <1>1, LeastMember
  <2>3. QED
    BY <2>1, <2>2 DEF WriteLogprob
<1>4. PICK l \in {"write", "store", "rescale", "publish"} : pc' = [pc EXCEPT ![s] = l]
  BY DEF WriteLogprob, Goto, TypeInv, TypeOK
<1>5. UNCHANGED <<offsets, backoffs, ctx, suffix, logbackoff, lowers>>
  BY DEF WriteLogprob
<1>6. p \in Nat
  BY <1>1
<1> HIDE DEF more, counted
<1>7. TypeOK'
  BY <1>2, <1>3, <1>4, <1>5, <1>6 DEF TypeInv, TypeOK
<1>8. ASSUME NEW x \in Shard
      PROVE  /\ pc'[x] = "backoff" => Len(suffix'[x]) > 1
             /\ pc'[x] \in {"write", "rescale"} => pos'[x] \in CountedChildren(x, ctx'[x])
  <2>1. CASE x = s
    BY <1>3, <1>4, <1>5, <2>1 DEF counted, TypeInv, TypeOK
  <2>2. CASE x # s
    BY <1>3, <1>4, <1>5, <2>2 DEF TypeInv, TypeOK
  <2>3. QED
    BY <2>1, <2>2
<1>9. QED
  BY <1>7, <1>8 DEF TypeInv

\* Normalising a probability keeps the types.
LEMMA RescaleTypes ==
    ASSUME TypeInv, NEW s \in Shard, Rescale(s)
    PROVE  TypeInv'
<1> DEFINE more == {p \in CountedChildren(s, ctx[s]) : p > pos[s]}
<1>1. more \in SUBSET Nat
  BY ChildrenOfContext DEF TypeInv, TypeOK
<1>2. DOMAIN logprobs' = Shard /\ \A x \in Shard : logprobs'[x] \in [Pos(x) -> Nat]
  BY WriteCell DEF Rescale, TypeInv, TypeOK
<1>3. UNCHANGED <<offsets, backoffs, ctx, suffix, logbackoff, lowers>>
  BY DEF Rescale
<1>4. CASE more # {} /\ pos' = [pos EXCEPT ![s] = Least(more)] /\ UNCHANGED pc
  <2>1. Least(more) \in Nat /\ Least(more) \in CountedChildren(s, ctx[s])
    BY <1>1, <1>4, LeastMember
  <2>2. QED
    BY <1>2, <1>3, <1>4, <2>1 DEF TypeInv, TypeOK
<1>5. CASE Goto(s, "publish") /\ UNCHANGED pos
  BY <1>2, <1>3, <1>5 DEF Goto, TypeInv, TypeOK
<1>6. QED
  BY <1>4, <1>5 DEF Rescale

\* Storing a back-off weight keeps the types: the context is a node.
LEMMA StoreBackoffTypes ==
    ASSUME TypeInv, NEW s \in Shard, StoreBackoff(s)
    PROVE  TypeInv'
<1>1. DOMAIN backoffs' = Shard /\ \A x \in Shard : backoffs'[x] \in [Pos(x) -> Nat]
  BY WriteCell DEF StoreBackoff, TypeInv, TypeOK
<1>2. QED
  BY <1>1 DEF StoreBackoff, Goto, TypeInv, TypeOK

\* Skipping a suffix that is not indexed keeps the types.
LEMMA SkipSuffixTypes ==
    ASSUME TypeInv, NEW s \in Shard, SkipSuffix(s)
    PROVE  TypeInv'
<1>1. suffix[s] \in Seq(Word) /\ suffix[s] # << >>
  BY DEF SkipSuffix, TypeInv, TypeOK
<1>2. Tail(suffix[s]) \in Seq(Word)
  BY <1>1
<1>3. QED
  BY <1>2 DEF SkipSuffix, TypeInv, TypeOK

\* Publishing the children of a context keeps the frontier inside the shard.
LEMMA PublishTypes ==
    ASSUME TypeInv, NEW s \in Shard, Publish(s)
    PROVE  TypeInv'
<1>1. DoneOffset(s) \in Nat /\ DoneOffset(s) <= Size(s)
  BY ChildrenLastBounds, NodeType DEF DoneOffset, TypeInv, TypeOK
<1>2. QED
  BY <1>1 DEF Publish, NextContext, Goto, TypeInv, TypeOK

\* The tables that estimate() hands to the threads have their types.
LEMMA TypeInit == Init => TypeInv
<1>1. SUFFICES ASSUME Init PROVE TypeInv
  OBVIOUS
<1>2. \A s \in Shard : \A n \in Int : Offset(s, n) \in Nat /\ Offset(s, n) <= Size(s)
  BY OffsetBounds, NodeType
<1>3. \A s \in Shard : 1 \in Int /\ 2 \in Int
  OBVIOUS
<1>4. << >> \in Seq(Word)
  OBVIOUS
<1>5. QED
  BY <1>1, <1>2, <1>3, <1>4 DEF Init, TypeInv, TypeOK

\* Every step of every thread keeps the types.
LEMMA TypeStep == TypeInv /\ [Next]_vars => TypeInv'
<1>1. SUFFICES ASSUME TypeInv, [Next]_vars PROVE TypeInv'
  OBVIOUS
<1>2. ASSUME NEW s \in Shard, Thread(s) PROVE TypeInv'
  <2>1. CASE Enter(s)
    BY <1>1, <2>1, EnterTypes
  <2>2. CASE ReadLogprob(s)
    BY <1>1, <2>2, ReadLogprobTypes
  <2>3. CASE ReadBackoff(s)
    BY <1>1, <2>3, AddBackoffTypes DEF ReadBackoff, TypeInv
  <2>4. CASE ReadContext(s)
    BY <1>1, <2>4, AddBackoffTypes DEF ReadContext
  <2>5. CASE SkipSuffix(s)
    BY <1>1, <2>5, SkipSuffixTypes
  <2>6. CASE ReadUnigram(s)
    BY <1>1, <2>6, ReturnTypeInv DEF ReadUnigram
  <2>7. CASE WriteLogprob(s)
    BY <1>1, <2>7, WriteLogprobTypes
  <2>8. CASE StoreBackoff(s)
    BY <1>1, <2>8, StoreBackoffTypes
  <2>9. CASE Rescale(s)
    BY <1>1, <2>9, RescaleTypes
  <2>10. CASE Publish(s)
    BY <1>1, <2>10, PublishTypes
  <2>11. CASE Finish(s)
    BY <1>1, <2>11 DEF Finish, Goto, TypeInv, TypeOK
  <2>12. QED
    BY <1>2, <2>1, <2>2, <2>3, <2>4, <2>5, <2>6, <2>7, <2>8, <2>9, <2>10, <2>11 DEF Thread
<1>3. CASE UNCHANGED vars
  BY <1>1, <1>3 DEF vars, TypeInv, TypeOK
<1>4. QED
  BY <1>1, <1>2, <1>3 DEF Next

\* The variables of the estimation keep their types, the frontier of a shard
\* never leaves it and only cells of the shard are written, for every index.
THEOREM Typing == Spec => []TypeOK
<1>1. TypeInv => TypeOK
  BY DEF TypeInv
<1>2. QED
  BY TypeInit, TypeStep, <1>1, PTL DEF Spec

-----------------------------------------------------------------------------

AtLoopHead == {"enter", "done"}

\* A thread moves only its own frontier and place.
LEMMA OthersStay ==
    ASSUME TypeInv, NEW s \in Shard, Thread(s), NEW x \in Shard, x # s
    PROVE  /\ offsets'[x] = offsets[x] /\ ctx'[x] = ctx[x] /\ pc'[x] = pc[x]
           /\ suffix'[x] = suffix[x] /\ pos'[x] = pos[x]
<1> USE DEF TypeInv, TypeOK, Goto, NextContext, StartChild
<1>1. CASE Enter(s)
  BY <1>1 DEF Enter
<1>2. CASE ReadLogprob(s)
  BY <1>2 DEF ReadLogprob, Return
<1>3. CASE ReadBackoff(s) \/ ReadContext(s) \/ SkipSuffix(s)
  BY <1>3 DEF ReadBackoff, ReadContext, SkipSuffix, AddBackoff
<1>4. CASE ReadUnigram(s)
  BY <1>4 DEF ReadUnigram, Return
<1>5. CASE WriteLogprob(s)
  BY <1>5 DEF WriteLogprob
<1>6. CASE StoreBackoff(s) \/ Rescale(s) \/ Publish(s) \/ Finish(s)
  BY <1>6 DEF StoreBackoff, Rescale, Publish, Finish
<1>7. QED
  BY <1>1, <1>2, <1>3, <1>4, <1>5, <1>6 DEF Thread

\* How the thread that takes a step moves: within a context, out of one with
\* nothing to estimate, into one, past one it publishes, or to its end.
Moves(s) ==
    \/ /\ pc[s] \notin AtLoopHead /\ pc'[s] \notin AtLoopHead
       /\ offsets'[s] = offsets[s] /\ ctx'[s] = ctx[s]
    \/ /\ pc[s] \notin AtLoopHead /\ pc'[s] = "enter"
       /\ offsets'[s] = offsets[s] /\ ctx'[s] = ctx[s] + 1
    \/ /\ pc[s] = "enter" /\ pc'[s] \notin AtLoopHead
       /\ offsets'[s] = ChildrenFirst(s, ctx[s]) /\ ctx'[s] = ctx[s]
    \/ /\ pc[s] = "enter" /\ pc'[s] = "enter"
       /\ offsets'[s] = ChildrenFirst(s, ctx[s]) /\ ctx'[s] = ctx[s] + 1
    \/ /\ pc[s] \notin AtLoopHead /\ pc'[s] = "enter"
       /\ offsets'[s] = ChildrenLast(s, ctx[s]) /\ ctx'[s] = ctx[s] + 1
    \/ /\ pc[s] = "enter" /\ pc'[s] = "done"
       /\ offsets'[s] = offsets[s] /\ ctx'[s] = ctx[s]

\* How each step of a thread moves its frontier and its place.
LEMMA ThreadMoves ==
    ASSUME TypeInv, NEW s \in Shard, Thread(s)
    PROVE  Moves(s)
<1> USE DEF TypeInv, TypeOK, Goto, NextContext, StartChild, AtLoopHead, Moves
<1>1. CASE Enter(s)
  BY <1>1 DEF Enter, EnterOffset
<1>2. CASE ReadLogprob(s)
  BY <1>2 DEF ReadLogprob, Return
<1>3. CASE ReadBackoff(s) \/ ReadContext(s) \/ SkipSuffix(s)
  BY <1>3 DEF ReadBackoff, ReadContext, SkipSuffix, AddBackoff
<1>4. CASE ReadUnigram(s)
  BY <1>4 DEF ReadUnigram, Return
<1>5. CASE WriteLogprob(s)
  BY <1>5 DEF WriteLogprob
<1>6. CASE StoreBackoff(s) \/ Rescale(s)
  BY <1>6 DEF StoreBackoff, Rescale
<1>7. CASE Publish(s)
  BY <1>7 DEF Publish, DoneOffset
<1>8. CASE Finish(s)
  BY <1>8 DEF Finish
<1>9. QED
  BY <1>1, <1>2, <1>3, <1>4, <1>5, <1>6, <1>7, <1>8 DEF Thread

\* Where the frontier stands: at the children of the context a thread is
\* working on, and not beyond them when it is between two contexts.
FrontierInv ==
    \A s \in Shard :
        /\ Offset(s, 1) <= offsets[s]
        /\ Offset(s, 1) <= ctx[s]
        /\ pc[s] \in AtLoopHead => offsets[s] <= ChildrenFirst(s, ctx[s])
        /\ pc[s] \notin AtLoopHead => offsets[s] = ChildrenFirst(s, ctx[s])

\* The unigrams come before the children of any node.
LEMMA UnigramsFirst ==
    ASSUME NEW s \in Shard, NEW c \in Nat
    PROVE  Offset(s, 1) <= ChildrenFirst(s, c)
<1> DEFINE T == {q \in Pos(s) : Len(Ngram(s, q)) <= 1}
           U == {q \in Pos(s) : Parent(s, q) <= c - 1}
<1>1. IsFiniteSet(U)
  BY NodeType, FS_Subset
<1>2. ASSUME NEW q \in T PROVE q \in U
  <2>1. q \in Pos(s) /\ Len(Ngram(s, q)) <= 1
    OBVIOUS
  <2>2. Len(Ngram(s, q)) \in Int /\ Len(Ngram(s, q)) >= 1
    BY <2>1, NgramLength
  <2>3. Len(Ngram(s, q)) = 1
    <3>1. \A n \in Int : n >= 1 /\ n <= 1 => n = 1
      OBVIOUS
    <3>2. QED
      BY <2>1, <2>2, <3>1
  <2>4. QED
    BY <2>1, <2>3, ParentType
<1>3. QED
  BY <1>1, <1>2, FS_Subset DEF Offset, ChildrenFirst, ChildrenLast

\* The bigrams come before the children of the first bigram.
LEMMA BigramsFirst ==
    ASSUME NEW s \in Shard
    PROVE  /\ Offset(s, 1) <= Offset(s, 2)
           /\ Offset(s, 2) <= ChildrenFirst(s, Offset(s, 1))
<1> DEFINE T(n) == {q \in Pos(s) : Len(Ngram(s, q)) <= n}
           U == {q \in Pos(s) : Parent(s, q) <= Offset(s, 1) - 1}
<1>2. IsFiniteSet(T(2)) /\ IsFiniteSet(U)
  BY NodeType, FS_Subset
<1>3. T(1) \in SUBSET T(2)
  BY NodeType
<1>4. ASSUME NEW q \in T(2) PROVE q \in U
  <2>1. Offset(s, 1) \in Nat
    BY OffsetBounds, NodeType
  <2>2. CASE Len(Ngram(s, q)) = 1
    BY <2>1, <2>2, ParentType
  <2>3. CASE Len(Ngram(s, q)) # 1
    <3>1. Len(Ngram(s, q)) = 2
      <4>1. q \in Pos(s) /\ Len(Ngram(s, q)) <= 2
        OBVIOUS
      <4>2. Len(Ngram(s, q)) \in Int /\ Len(Ngram(s, q)) >= 1
        BY <4>1, NgramLength
      <4>3. \A n \in Int : n >= 1 /\ n <= 2 /\ n # 1 => n = 2
        OBVIOUS
      <4>4. QED
        BY <2>3, <4>1, <4>2, <4>3
    <3>2. /\ Parent(s, q) \in Pos(s)
          /\ Ngram(s, Parent(s, q)) = Context(Ngram(s, q))
      BY <3>1, ParentType
    <3>3. Len(Context(Ngram(s, q))) = 1
      <4>1. Ngram(s, q) \in Seq(Word)
        BY NodeType
      <4>2. QED
        BY <3>1, <4>1 DEF Context
    <3>4. Parent(s, q) < Offset(s, 1)
      <4>1. \A r \in Pos(s) : r < Offset(s, 1) <=> Len(Ngram(s, r)) <= 1
        BY OffsetBounds
      <4>2. Len(Ngram(s, Parent(s, q))) <= 1
        BY <3>2, <3>3
      <4>3. QED
        BY <3>2, <4>1, <4>2
    <3>5. QED
      BY <2>1, <3>2, <3>4, NodeType
  <2>4. QED
    BY <2>2, <2>3
<1>5. Cardinality(T(1)) <= Cardinality(T(2)) /\ Cardinality(T(2)) <= Cardinality(U)
  <2> HIDE DEF T, U
  <2>1. T(2) \in SUBSET U
    BY <1>4
  <2>2. QED
    BY <1>2, <1>3, <2>1, FS_Subset
<1>6. QED
  BY <1>5 DEF Offset, ChildrenFirst, ChildrenLast

\* The frontiers start where the bigrams end.
LEMMA FrontierInit == Init => FrontierInv
<1>1. \A s \in Shard : Offset(s, 1) \in Int
  BY OffsetBounds
<1>2. QED
  BY <1>1, BigramsFirst DEF Init, FrontierInv, AtLoopHead

\* A step keeps the frontier where it belongs, and no frontier goes back.
LEMMA FrontierStep ==
    ASSUME TypeInv, FrontierInv, NEW s \in Shard, Thread(s)
    PROVE  /\ FrontierInv'
           /\ \A x \in Shard : offsets[x] <= offsets'[x] /\ ctx[x] <= ctx'[x]
<1>1. ctx[s] \in Nat /\ offsets[s] \in Nat
  BY DEF TypeInv, TypeOK
<1>2. /\ Offset(s, 1) \in Int
      /\ ChildrenFirst(s, ctx[s]) \in Int /\ ChildrenLast(s, ctx[s]) \in Int
      /\ Offset(s, 1) <= ChildrenFirst(s, ctx[s])
      /\ ChildrenFirst(s, ctx[s]) <= ChildrenLast(s, ctx[s])
      /\ ChildrenFirst(s, ctx[s] + 1) = ChildrenLast(s, ctx[s])
  <2>1. Offset(s, 1) \in Int /\ Size(s) \in Nat
    BY OffsetBounds, NodeType
  <2>2. ChildrenFirst(s, ctx[s]) \in 0 .. Size(s) /\ ChildrenLast(s, ctx[s]) \in 0 .. Size(s)
    BY <1>1, ChildrenNodes, ChildrenLastBounds
  <2>3. QED
    BY <1>1, <2>1, <2>2, UnigramsFirst, ChildrenNodes
<1>3. /\ Offset(s, 1) <= offsets[s] /\ Offset(s, 1) <= ctx[s]
      /\ pc[s] \in AtLoopHead => offsets[s] <= ChildrenFirst(s, ctx[s])
      /\ pc[s] \notin AtLoopHead => offsets[s] = ChildrenFirst(s, ctx[s])
  BY DEF FrontierInv
<1>4. /\ Offset(s, 1) <= offsets'[s] /\ Offset(s, 1) <= ctx'[s]
      /\ pc'[s] \in AtLoopHead => offsets'[s] <= ChildrenFirst(s, ctx'[s])
      /\ pc'[s] \notin AtLoopHead => offsets'[s] = ChildrenFirst(s, ctx'[s])
      /\ offsets[s] <= offsets'[s] /\ ctx[s] <= ctx'[s]
  BY <1>1, <1>2, <1>3, ThreadMoves DEF Moves, AtLoopHead
<1>5. \A x \in Shard : x # s =>
          offsets'[x] = offsets[x] /\ ctx'[x] = ctx[x] /\ pc'[x] = pc[x]
  BY OthersStay
<1>6. \A x \in Shard : offsets[x] \in Nat /\ ctx[x] \in Nat
  BY DEF TypeInv, TypeOK
<1>7. QED
  BY <1>4, <1>5, <1>6 DEF FrontierInv

-----------------------------------------------------------------------------

Indexed(g) == g \in Seq(Word) /\ g # << >> /\ Has(shard_index(g), g)

\* Every n-gram hashes to a shard.
LEMMA ShardIndexType ==
    ASSUME NEW g \in Seq(Word), g # << >>
    PROVE  shard_index(g) \in Shard
<1>1. CASE Len(g) <= 1
  BY <1>1, IndexAssumption DEF shard_index
<1>2. CASE Len(g) > 1
  <2>1. g[1] \in Word /\ g[2] \in Word
    BY <1>2
  <2>2. QED
    BY <1>2, <2>1, IndexAssumption DEF shard_index
<1>3. QED
  BY <1>1, <1>2

\* The suffix of a node of a suffix-closed index is a node.
LEMMA SuffixIndexed ==
    ASSUME SuffixClosed, NEW s \in Shard, NEW p \in Pos(s), Len(Ngram(s, p)) > 1
    PROVE  Indexed(Tail(Ngram(s, p)))
<1>1. Ngram(s, p) \in Seq(Word)
  BY NodeType
<1>2. Tail(Ngram(s, p)) \in Seq(Word) /\ Tail(Ngram(s, p)) # << >>
  <2>1. \A g \in Seq(Word) : Len(g) > 1 => Tail(g) \in Seq(Word) /\ Len(Tail(g)) > 0
    OBVIOUS
  <2>2. \A g \in Seq(Word) : Len(g) > 0 => g # << >>
    OBVIOUS
  <2>3. QED
    BY <1>1, <2>1, <2>2
<1>3. Has(shard_index(Tail(Ngram(s, p))), Tail(Ngram(s, p)))
  BY <1>2 DEF SuffixClosed
<1>4. QED
  BY <1>2, <1>3 DEF Indexed

\* In an index closed under suffixes, a lookup goes from one indexed n-gram to
\* the next.
LEMMA TailIndexed ==
    ASSUME SuffixClosed, NEW g, Indexed(g), Len(g) > 1
    PROVE  Indexed(Tail(g))
<1>1. shard_index(g) \in Shard
  BY ShardIndexType DEF Indexed
<1>2. PICK p \in Pos(shard_index(g)) : Ngram(shard_index(g), p) = g
  BY DEF Indexed, Has
<1>3. Len(Ngram(shard_index(g), p)) > 1
  BY <1>2
<1>4. Indexed(Tail(Ngram(shard_index(g), p)))
  BY <1>1, <1>3, SuffixIndexed
<1>5. QED
  BY <1>2, <1>4

\* The lower-order n-gram of a child is a node.
LEMMA ChildLowerIndexed ==
    ASSUME SuffixClosed, NEW s \in Shard, NEW c \in Nat, NEW p \in KeptChildren(s, c)
    PROVE  Indexed(Tail(Ngram(s, p)))
<1>1. p \in Pos(s) /\ Parent(s, p) = c
  BY ChildrenNodes DEF KeptChildren
<1>2. Len(Ngram(s, p)) # 1
  BY <1>1, ParentType
<1>3. Len(Ngram(s, p)) > 1
  <2>1. Len(Ngram(s, p)) \in Int /\ Len(Ngram(s, p)) >= 1
    BY <1>1, NgramLength
  <2>2. \A n \in Int : n >= 1 /\ n # 1 => n > 1
    OBVIOUS
  <2>3. QED
    BY <1>2, <2>1, <2>2
<1>4. QED
  BY <1>1, <1>3, SuffixIndexed

\* A thread in logprob_backoff looks up nodes only, and reads the weight of a
\* node's context after the node was published.
LookupInv ==
    \A s \in Shard :
        /\ pc[s] \in {"lower", "backoff"} => Indexed(suffix[s])
        /\ pc[s] = "backoff" =>
              Published(shard_index(suffix[s]), Find(shard_index(suffix[s]), suffix[s]))

\* What a cell that was read must not be any more: at or past the frontier, or
\* the weight of a context whose turn is still to come.
SettledCell(cell) ==
    /\ cell.shard \in Shard
    /\ cell.node \in Pos(cell.shard)
    /\ IF cell.table = "logprob" THEN cell.node < offsets[cell.shard]
                                 ELSE cell.node < ctx[cell.shard]

SeenInv == \A cell \in seen : SettledCell(cell)

SafeInv == TypeInv /\ FrontierInv /\ LookupInv /\ SeenInv

\* Unigrams are settled from the start.
LEMMA UnigramSettled ==
    ASSUME TypeInv, FrontierInv, NEW g \in Seq(Word), Len(g) = 1
    PROVE  SettledCell(Logprob(g)) /\ SettledCell(Backoff(g))
<1>1. shard_index(g) = 0 /\ 0 \in Shard
  BY IndexAssumption DEF shard_index
<1>2. Has(0, g)
  <2>1. g[1] \in Word /\ g = <<g[1]>>
    OBVIOUS
  <2>2. QED
    BY <1>1, <2>1, IndexAssumption
<1>3. Find(0, g) \in Pos(0) /\ Ngram(0, Find(0, g)) = g
  BY <1>2, FindHas
<1>4. Find(0, g) < Offset(0, 1)
  <2>1. \A q \in Pos(0) : q < Offset(0, 1) <=> Len(Ngram(0, q)) <= 1
    BY <1>1, OffsetBounds
  <2>2. Len(Ngram(0, Find(0, g))) = 1
    BY <1>3
  <2>3. Len(Ngram(0, Find(0, g))) <= 1
    <3>1. \A n : n = 1 => n <= 1
      OBVIOUS
    <3>2. QED
      BY <2>2, <3>1
  <2>4. QED
    BY <1>3, <2>1, <2>3
<1>5. Find(0, g) < offsets[0] /\ Find(0, g) < ctx[0]
  <2>1. Find(0, g) \in Nat /\ Offset(0, 1) \in Int
    <3>1. Pos(0) \subseteq Nat
      BY <1>1, NodeType
    <3>2. \A s \in Shard : Offset(s, 1) \in Int
      BY OffsetBounds
    <3>3. QED
      BY <1>1, <1>3, <3>1, <3>2
  <2>2. offsets[0] \in Nat /\ ctx[0] \in Nat
    BY <1>1 DEF TypeInv, TypeOK
  <2>3. Offset(0, 1) <= offsets[0] /\ Offset(0, 1) <= ctx[0]
    BY <1>1 DEF FrontierInv
  <2>4. QED
    BY <1>4, <2>1, <2>2, <2>3
<1>6. QED
  BY <1>1, <1>3, <1>5 DEF SettledCell, Logprob, Backoff

\* The parent of a published node has been dealt with.
LEMMA ParentSettled ==
    ASSUME TypeInv, FrontierInv, NEW t \in Shard, NEW q \in Pos(t), Published(t, q)
    PROVE  Parent(t, q) < ctx[t]
<1>1. ctx[t] \in Nat /\ offsets[t] \in Nat /\ q \in Nat /\ Size(t) \in Nat
  BY NodeType DEF TypeInv, TypeOK
<1>2. offsets[t] <= ChildrenLast(t, ctx[t] - 1)
  <2>1. ChildrenFirst(t, ctx[t]) \in 0 .. Size(t)
    BY <1>1, ChildrenNodes
  <2>2. QED
    BY <1>1, <2>1 DEF FrontierInv, ChildrenFirst
<1>3. ChildrenLast(t, ctx[t] - 1) \in 0 .. Size(t)
  BY <1>1, ChildrenLastBounds
<1>4. q < ChildrenLast(t, ctx[t] - 1)
  BY <1>1, <1>2, <1>3 DEF Published
<1>5. Parent(t, q) <= ctx[t] - 1
  BY <1>1, <1>4, ChildrenLastBounds
<1>6. QED
  BY <1>1, <1>5, ParentType

\* Below the frontier, the back-off weight of a node's context is settled: its
\* context was left before the node was published.
LEMMA BackoffSettled ==
    ASSUME TypeInv, FrontierInv, NEW g, Indexed(g), Len(g) > 1,
           Published(shard_index(g), Find(shard_index(g), g))
    PROVE  SettledCell(Backoff(Context(g)))
<1> DEFINE t == shard_index(g)
           q == Find(t, g)
<1>1. g \in Seq(Word) /\ t \in Shard
  BY ShardIndexType DEF Indexed
<1>2. q \in Pos(t) /\ Ngram(t, q) = g
  BY FindHas DEF Indexed
<1>3. Context(g) \in Seq(Word) /\ Len(Context(g)) = Len(g) - 1
  BY <1>1 DEF Context
<1>4. CASE Len(g) = 2
  BY <1>3, <1>4, UnigramSettled
<1>5. CASE Len(g) # 2
  <2>1. shard_index(Context(g)) = t
    <3>1. Len(g) > 2 /\ Len(Context(g)) > 1
      BY <1>1, <1>3, <1>5
    <3>2. Context(g)[1] = g[1] /\ Context(g)[2] = g[2]
      BY <1>1, <3>1 DEF Context
    <3>3. QED
      BY <1>1, <1>3, <3>1, <3>2 DEF shard_index
  <2> HIDE DEF t, q
  <2>2. Parent(t, q) = Find(t, Context(g)) /\ Parent(t, q) \in Pos(t)
    BY <1>1, <1>2, ParentType
  <2>3. Parent(t, q) < ctx[t]
    BY <1>1, <1>2, ParentSettled DEF t, q
  <2>4. QED
    BY <1>1, <2>1, <2>2, <2>3 DEF SettledCell, Backoff
<1>6. QED
  BY <1>4, <1>5

-----------------------------------------------------------------------------

\* The invariant holds when the threads start.
LEMMA SafeInit == Init => SafeInv
<1>1. Init => LookupInv /\ SeenInv
  BY DEF Init, LookupInv, SeenInv
<1>2. QED
  BY <1>1, TypeInit, FrontierInit DEF SafeInv

\* Cells settled before a step are settled after it.
LEMMA SettledStays ==
    ASSUME SafeInv, NEW s \in Shard, Thread(s), NEW cell, SettledCell(cell)
    PROVE  SettledCell(cell)'
<1>1. /\ offsets[cell.shard] <= offsets'[cell.shard]
      /\ ctx[cell.shard] <= ctx'[cell.shard]
  BY FrontierStep DEF SafeInv, SettledCell
<1>2. cell.node \in Nat
  BY NodeType DEF SettledCell
<1>3. /\ offsets[cell.shard] \in Nat /\ offsets'[cell.shard] \in Nat
      /\ ctx[cell.shard] \in Nat /\ ctx'[cell.shard] \in Nat
  <2>1. TypeInv'
    BY TypeStep DEF SafeInv, Next
  <2>2. QED
    BY <2>1 DEF SafeInv, TypeInv, TypeOK, SettledCell
<1>4. QED
  BY <1>1, <1>2, <1>3 DEF SettledCell

\* Every cell that a step reads is settled.
LEMMA SeenStep ==
    ASSUME SuffixClosed, SafeInv, NEW s \in Shard, Thread(s)
    PROVE  SeenInv'
<1>1. SUFFICES ASSUME NEW cell \in seen' \ seen PROVE SettledCell(cell)
  BY SettledStays DEF SafeInv, SeenInv
<1>2. CASE ReadLogprob(s)
  <2>1. cell = Logprob(suffix[s])
    BY <1>1, <1>2 DEF ReadLogprob
  <2>2. Indexed(suffix[s]) /\ Published(cell.shard, cell.node)
    BY <1>2, <2>1 DEF ReadLogprob, SafeInv, LookupInv
  <2>3. cell.shard \in Shard /\ cell.node \in Pos(cell.shard)
    BY <2>1, <2>2, ShardIndexType, FindHas DEF Indexed, Logprob
  <2>4. QED
    BY <2>1, <2>2, <2>3 DEF SettledCell, Published, Logprob
<1>3. CASE ReadBackoff(s)
  <2>1. cell = Backoff(Context(suffix[s]))
    BY <1>1, <1>3 DEF ReadBackoff, AddBackoff
  <2>2. QED
    BY <1>3, <2>1, BackoffSettled DEF ReadBackoff, SafeInv, LookupInv, TypeInv
<1>4. CASE ReadContext(s)
  BY <1>4 DEF ReadContext, SafeInv, LookupInv, Indexed
<1>5. CASE ReadUnigram(s)
  <2>1. cell = Logprob(suffix[s]) /\ Len(suffix[s]) = 1 /\ suffix[s] \in Seq(Word)
    BY <1>1, <1>5 DEF ReadUnigram, SafeInv, TypeInv, TypeOK
  <2>2. QED
    BY <2>1, UnigramSettled DEF SafeInv
<1>6. CASE Enter(s) \/ SkipSuffix(s) \/ WriteLogprob(s)
  BY <1>1, <1>6 DEF Enter, SkipSuffix, WriteLogprob
<1>7. CASE StoreBackoff(s) \/ Rescale(s) \/ Publish(s) \/ Finish(s)
  BY <1>1, <1>7 DEF StoreBackoff, Rescale, Publish, Finish
<1>8. QED
  BY <1>2, <1>3, <1>4, <1>5, <1>6, <1>7 DEF Thread

\* Every step keeps the lookups inside the index, and a thread that has passed
\* a frontier stays behind it.
LEMMA LookupStep ==
    ASSUME SuffixClosed, SafeInv, NEW s \in Shard, Thread(s)
    PROVE  LookupInv'
<1>1. ASSUME NEW x \in Shard, x # s
      PROVE  /\ pc'[x] \in {"lower", "backoff"} => Indexed(suffix'[x])
             /\ pc'[x] = "backoff" =>
                   Published(shard_index(suffix[x]), Find(shard_index(suffix[x]), suffix[x]))'
  <2>1. pc'[x] = pc[x] /\ suffix'[x] = suffix[x]
    BY <1>1, OthersStay DEF SafeInv
  <2>2. CASE pc[x] = "backoff"
    <3>1. Indexed(suffix[x]) /\ SettledCell(Logprob(suffix[x]))
      <4>1. /\ Indexed(suffix[x])
            /\ Published(shard_index(suffix[x]), Find(shard_index(suffix[x]), suffix[x]))
        BY <2>2 DEF SafeInv, LookupInv
      <4>2. QED
        BY <4>1, ShardIndexType, FindHas DEF Indexed, SettledCell, Published, Logprob
    <3>2. SettledCell(Logprob(suffix[x]))'
      BY <2>1, <3>1, SettledStays DEF Logprob
    <3>3. QED
      BY <2>1, <3>1, <3>2 DEF SettledCell, Published, Logprob
  <2>3. CASE pc[x] # "backoff"
    BY <2>1, <2>3 DEF SafeInv, LookupInv
  <2>4. QED
    BY <2>2, <2>3
<1>2. ASSUME NEW cell, Return(s, cell)
      PROVE  /\ pc'[s] # "backoff"
             /\ pc'[s] = "lower" => Indexed(suffix'[s])
  <2>1. ctx[s] \in Nat /\ DOMAIN pc = Shard /\ DOMAIN suffix = Shard
    BY DEF SafeInv, TypeInv, TypeOK
  <2> DEFINE more == {p \in KeptChildren(s, ctx[s]) : p > pos[s]}
  <2>2. CASE more # {} /\ StartChild(s, Least(more)) /\ Goto(s, "lower")
    <3>1. Least(more) \in KeptChildren(s, ctx[s])
      <4>1. more \in SUBSET Nat
        BY <2>1, ChildrenOfContext
      <4>2. QED
        BY <2>2, <4>1, LeastMember
    <3>2. Indexed(Tail(Ngram(s, Least(more))))
      BY <2>1, <3>1, ChildLowerIndexed
    <3> HIDE DEF more
    <3>3. QED
      BY <2>1, <2>2, <3>2 DEF StartChild, Goto
  <2>3. CASE NextContext(s) \/ Goto(s, "write")
    BY <2>1, <2>3 DEF NextContext, Goto
  <2>4. QED
    BY <1>2, <2>2, <2>3 DEF Return
<1>3. /\ pc'[s] \in {"lower", "backoff"} => Indexed(suffix'[s])
      /\ pc'[s] = "backoff" =>
            Published(shard_index(suffix[s]), Find(shard_index(suffix[s]), suffix[s]))'
  <2> USE DEF SafeInv, TypeInv, TypeOK, Goto
  <2>1. CASE Enter(s)
    <3> DEFINE kept == KeptChildren(s, ctx[s])
    <3>1. CASE kept # {} /\ StartChild(s, Least(kept)) /\ Goto(s, "lower")
      <4>1. ctx[s] \in Nat /\ kept \in SUBSET Nat
        BY ChildrenOfContext
      <4>2. Least(kept) \in kept
        BY <3>1, <4>1, LeastMember
      <4>3. Indexed(Tail(Ngram(s, Least(kept))))
        BY <4>1, <4>2, ChildLowerIndexed
      <4> HIDE DEF kept
      <4>4. QED
        BY <3>1, <4>3 DEF StartChild
    <3>2. CASE NextContext(s)
      BY <3>2 DEF NextContext
    <3>3. QED
      BY <2>1, <3>1, <3>2 DEF Enter
  <2>2. CASE ReadLogprob(s)
    <3>1. CASE Return(s, Logprob(suffix[s]))
      BY <1>2, <3>1
    <3>2. CASE Goto(s, "backoff") /\ UNCHANGED <<offsets, suffix>>
      BY <2>2, <3>2 DEF ReadLogprob, LookupInv, Published, Logprob
    <3>3. QED
      BY <2>2, <3>1, <3>2 DEF ReadLogprob
  <2>3. CASE AddBackoff(s) /\ Len(suffix[s]) > 1 /\ pc[s] \in {"lower", "backoff"}
    <3>1. Indexed(Tail(suffix[s]))
      BY <2>3, TailIndexed DEF LookupInv
    <3>2. QED
      BY <2>3, <3>1 DEF AddBackoff
  <2>4. CASE SkipSuffix(s)
    BY <2>4 DEF SkipSuffix, LookupInv, Indexed
  <2>5. CASE ReadUnigram(s)
    BY <1>2, <2>5 DEF ReadUnigram
  <2>6. CASE WriteLogprob(s) \/ StoreBackoff(s) \/ Rescale(s) \/ Publish(s) \/ Finish(s)
    BY <2>6 DEF WriteLogprob, StoreBackoff, Rescale, Publish, NextContext, Finish
  <2>7. QED
    BY <2>1, <2>2, <2>3, <2>4, <2>5, <2>6 DEF Thread, ReadBackoff, ReadContext
<1>4. QED
  BY <1>1, <1>3 DEF LookupInv

\* A step writes only cells that are not settled.
LEMMA SettledUnwritten ==
    ASSUME SafeInv, NEW s \in Shard, Thread(s), NEW cell, SettledCell(cell)
    PROVE  Value(cell)' = Value(cell)
<1>1. /\ DOMAIN logprobs = Shard /\ DOMAIN backoffs = Shard
      /\ \A x \in Shard : logprobs[x] \in [Pos(x) -> Nat] /\ backoffs[x] \in [Pos(x) -> Nat]
  BY DEF SafeInv, TypeInv, TypeOK
<1>2. cell.shard \in Shard /\ cell.node \in Pos(cell.shard)
  BY DEF SettledCell
<1>3. CASE WriteLogprob(s) \/ Rescale(s)
  <2>1. logprobs' = [logprobs EXCEPT ![s][pos[s]] = @ + 1] /\ backoffs' = backoffs
    BY <1>3 DEF WriteLogprob, Rescale
  <2>2. ~ (cell.table = "logprob" /\ cell.shard = s /\ cell.node = pos[s])
    <3>1. ctx[s] \in Nat /\ pos[s] \in Children(s, ctx[s]) /\ offsets[s] = ChildrenFirst(s, ctx[s])
      BY <1>3 DEF WriteLogprob, Rescale, SafeInv, TypeInv, TypeOK, FrontierInv, AtLoopHead, CountedChildren
    <3>2. ChildrenFirst(s, ctx[s]) \in Nat
      BY <3>1, ChildrenNodes, NodeType
    <3>3. pos[s] \in Int /\ offsets[s] <= pos[s]
      BY <3>1, <3>2 DEF Children
    <3>4. QED
      BY <3>2, <3>1, <3>3 DEF SettledCell
  <2>3. \A x \in Shard : \A q \in Pos(x) :
            x # s \/ q # pos[s] => logprobs'[x][q] = logprobs[x][q]
    BY <1>1, <2>1, WriteCell
  <2>4. QED
    BY <1>2, <2>1, <2>2, <2>3 DEF Value
<1>4. CASE StoreBackoff(s)
  <2>1. backoffs' = [backoffs EXCEPT ![s][ctx[s]] = @ + 1] /\ logprobs' = logprobs
    BY <1>4 DEF StoreBackoff
  <2>2. ~ (cell.table # "logprob" /\ cell.shard = s /\ cell.node = ctx[s])
    BY DEF SettledCell, SafeInv, TypeInv, TypeOK
  <2>3. \A x \in Shard : \A q \in Pos(x) :
            x # s \/ q # ctx[s] => backoffs'[x][q] = backoffs[x][q]
    BY <1>1, <2>1, WriteCell
  <2>4. QED
    BY <1>2, <2>1, <2>2, <2>3 DEF Value
<1>5. CASE Enter(s) \/ ReadLogprob(s) \/ ReadBackoff(s) \/ ReadContext(s)
  BY <1>5 DEF Enter, ReadLogprob, ReadBackoff, ReadContext, AddBackoff, Value
<1>6. CASE SkipSuffix(s) \/ ReadUnigram(s) \/ Publish(s) \/ Finish(s)
  BY <1>6 DEF SkipSuffix, ReadUnigram, Publish, Finish, Value
<1>7. QED
  BY <1>3, <1>4, <1>5, <1>6 DEF Thread

\* Every step keeps the invariant.
LEMMA SafeStep ==
    ASSUME SuffixClosed
    PROVE  SafeInv /\ [Next]_vars => SafeInv'
<1>1. SUFFICES ASSUME SafeInv, [Next]_vars PROVE SafeInv'
  OBVIOUS
<1>2. TypeInv'
  BY <1>1, TypeStep DEF SafeInv
<1>3. CASE \E s \in Shard : Thread(s)
  BY <1>1, <1>2, <1>3, FrontierStep, LookupStep, SeenStep DEF SafeInv
<1>4. CASE UNCHANGED vars
  <2>1. FrontierInv'
    BY <1>1, <1>4 DEF vars, SafeInv, FrontierInv
  <2>2. LookupInv'
    BY <1>1, <1>4 DEF vars, SafeInv, LookupInv, Published
  <2>3. SeenInv'
    BY <1>1, <1>4 DEF vars, SafeInv, SeenInv, SettledCell
  <2>4. QED
    BY <1>2, <2>1, <2>2, <2>3 DEF SafeInv
<1>5. QED
  BY <1>1, <1>3, <1>4 DEF Next

\* In a suffix-closed index no probability and no back-off weight changes after
\* a thread has read it, whatever the schedule, the shards and the counts: the
\* frontiers in offsets are enough to order writers and readers.
THEOREM SeenNeverWrittenHolds ==
    ASSUME SuffixClosed
    PROVE  Spec => SeenNeverWritten
<1>1. SafeInv /\ [Next]_vars => [\A cell \in seen : Value(cell)' = Value(cell)]_vars
  <2>1. SUFFICES ASSUME SafeInv, NEW s \in Shard, Thread(s), NEW cell \in seen
                 PROVE  Value(cell)' = Value(cell)
    BY DEF Next
  <2>2. QED
    BY <2>1, SettledUnwritten DEF SafeInv, SeenInv
<1>2. QED
  BY SafeInit, SafeStep, <1>1, PTL DEF Spec, SeenNeverWritten

-----------------------------------------------------------------------------

Looking == {"lower", "backoff"}

Writing == {"write", "rescale"}

\* The children of a context are all the nodes it is the parent of.
LEMMA ChildrenAll ==
    ASSUME NEW s \in Shard, NEW q \in Pos(s), Parent(s, q) \in Nat
    PROVE  q \in Children(s, Parent(s, q))
<1> DEFINE c == Parent(s, q)
<1>1. c \in Int /\ c - 1 \in Int /\ c <= c /\ ~ (c <= c - 1)
  OBVIOUS
<1>2. q < ChildrenLast(s, c) /\ ~ (q < ChildrenLast(s, c - 1))
  BY <1>1, ChildrenLastBounds
<1>3. /\ ChildrenLast(s, c) \in Int /\ ChildrenLast(s, c - 1) \in Int /\ q \in Int
  BY <1>1, ChildrenLastBounds, NodeType
<1>4. QED
  BY <1>2, <1>3 DEF Children, ChildrenFirst

\* An n-gram has one word, two, or more.
LEMMA NgramOrders ==
    ASSUME NEW s \in Shard, NEW p \in Pos(s)
    PROVE  \/ Len(Ngram(s, p)) = 1 /\ ~ (Len(Ngram(s, p)) > 1)
           \/ Len(Ngram(s, p)) = 2 /\ Len(Ngram(s, p)) > 1 /\ ~ (Len(Ngram(s, p)) > 2)
           \/ /\ Len(Ngram(s, p)) > 2 /\ Len(Ngram(s, p)) > 1
              /\ Len(Ngram(s, p)) # 1 /\ Len(Ngram(s, p)) # 2
<1> DEFINE n == Len(Ngram(s, p))
<1>1. n \in Int /\ n >= 1
  BY NgramLength
<1>2. \/ n = 1 /\ ~ (n > 1)
      \/ n = 2 /\ n > 1 /\ ~ (n > 2)
      \/ n > 2 /\ n > 1 /\ n # 1 /\ n # 2
  <2> HIDE DEF n
  <2>1. QED
    BY <1>1
<1>3. QED
  BY <1>2

\* A node of three or more words has a parent of two or more.
LEMMA HigherParent ==
    ASSUME NEW s \in Shard, NEW p \in Pos(s), Len(Ngram(s, p)) > 1
    PROVE  /\ Parent(s, p) \in Pos(s)
           /\ Len(Ngram(s, Parent(s, p))) = Len(Ngram(s, p)) - 1
<1>1. Ngram(s, p) \in Seq(Word)
  BY NodeType
<1>2. Len(Context(Ngram(s, p))) = Len(Ngram(s, p)) - 1
  BY <1>1 DEF Context
<1>3. QED
  BY <1>2, ParentType

\* The first member of a set of numbers is the only one that no other precedes.
LEMMA LeastIs ==
    ASSUME NEW S \in SUBSET Nat, NEW n \in S, \A m \in S : n <= m
    PROVE  Least(S) = n
<1>1. \E x \in S : \A y \in S : x <= y
  OBVIOUS
<1>2. Least(S) \in S /\ \A m \in S : Least(S) <= m
  BY <1>1 DEF Least
<1>3. Least(S) \in Nat /\ n \in Nat /\ Least(S) <= n /\ n <= Least(S)
  BY <1>2
<1>4. QED
  BY <1>3

\* The least member of a non-empty set of numbers is below all the others.
LEMMA LeastBounds ==
    ASSUME NEW S \in SUBSET Nat, S # {}
    PROVE  Least(S) \in S /\ \A m \in S : Least(S) <= m
BY HasLeast DEF Least

-----------------------------------------------------------------------------

\* How the thread that takes a step goes through the phases of its context,
\* and which probability the step writes.
Phase(s) ==
    LET counted == CountedChildren(s, ctx[s])
        more == {p \in counted : p > pos[s]}
        written == logprobs' = [logprobs EXCEPT ![s][pos[s]] = @ + 1]
    IN  \/ /\ pc[s] \in {"enter"} \union Looking /\ pc'[s] \in Looking
           /\ logprobs' = logprobs /\ ctx'[s] = ctx[s]
        \/ /\ pc[s] \in {"enter"} \union Looking /\ pc'[s] = "enter"
           /\ counted = {}
           /\ logprobs' = logprobs /\ ctx'[s] = ctx[s] + 1
        \/ /\ pc[s] \in Looking /\ pc'[s] = "write"
           /\ counted # {} /\ pos'[s] = Least(counted)
           /\ logprobs' = logprobs /\ ctx'[s] = ctx[s]
        \/ /\ pc[s] \in Writing /\ pc'[s] = pc[s]
           /\ more # {} /\ pos'[s] = Least(more)
           /\ written /\ ctx'[s] = ctx[s]
        \/ /\ pc[s] = "write" /\ pc'[s] \in {"write", "store", "rescale", "publish"}
           /\ more = {} /\ pos'[s] = Least(counted)
           /\ written /\ ctx'[s] = ctx[s]
        \/ /\ pc[s] = "rescale" /\ pc'[s] = "publish"
           /\ more = {}
           /\ written /\ ctx'[s] = ctx[s]
        \/ /\ pc[s] = "store" /\ pc'[s] = "publish"
           /\ logprobs' = logprobs /\ ctx'[s] = ctx[s]
        \/ /\ pc[s] = "publish" /\ pc'[s] = "enter"
           /\ logprobs' = logprobs /\ ctx'[s] = ctx[s] + 1
        \/ /\ pc[s] = "enter" /\ pc'[s] = "done"
           /\ ctx[s] >= Offset(s, Order - 1)
           /\ logprobs' = logprobs /\ ctx'[s] = ctx[s]

\* Which phase each step of a thread belongs to.
LEMMA ThreadPhases ==
    ASSUME TypeInv, NEW s \in Shard, Thread(s)
    PROVE  Phase(s)
<1> USE DEF TypeInv, TypeOK, Goto, NextContext, StartChild, Phase, Looking, Writing
<1>1. CASE Enter(s)
  <2>1. KeptChildren(s, ctx[s]) = {} => CountedChildren(s, ctx[s]) = {}
    BY DEF KeptChildren, CountedChildren, Counted
  <2>2. QED
    BY <1>1, <2>1 DEF Enter
<1>2. CASE ReadLogprob(s)
  BY <1>2 DEF ReadLogprob, Return
<1>3. CASE ReadBackoff(s) \/ ReadContext(s) \/ SkipSuffix(s)
  BY <1>3 DEF ReadBackoff, ReadContext, SkipSuffix, AddBackoff
<1>4. CASE ReadUnigram(s)
  BY <1>4 DEF ReadUnigram, Return
<1>5. CASE WriteLogprob(s)
  BY <1>5 DEF WriteLogprob
<1>6. CASE StoreBackoff(s) \/ Publish(s) \/ Finish(s)
  BY <1>6 DEF StoreBackoff, Publish, Finish
<1>7. CASE Rescale(s)
  BY <1>7 DEF Rescale
<1>8. QED
  BY <1>1, <1>2, <1>3, <1>4, <1>5, <1>6, <1>7 DEF Thread

\* Every counted child of context c was written n times; n + 1 times the ones
\* before the child that the pass in progress has come to.
WrittenTimes(s, c, n) ==
    /\ \A p \in CountedChildren(s, c) :
          logprobs[s][p] = IF c = ctx[s] /\ pc[s] \in Writing /\ p < pos[s]
                             THEN n + 1 ELSE n
    /\ c < ctx[s] => n > 0
    /\ c = ctx[s] /\ pc[s] \in {"store", "rescale", "publish"} => n > 0
    /\ c = ctx[s] /\ pc[s] \in AtLoopHead \union Looking => n = 0
    /\ c > ctx[s] => n = 0

\* What has been written, of the n-grams that are not counted, of the bigrams
\* and of the children of each context of two and more words.
WriteInv ==
    \A s \in Shard :
        /\ pc[s] = "done" => ctx[s] >= Offset(s, Order - 1)
        /\ \A p \in Pos(s) :
              /\ Len(Ngram(s, p)) > 1 /\ ~ Counted(s, p) => logprobs[s][p] = 0
              /\ Len(Ngram(s, p)) = 2 /\ Counted(s, p) => logprobs[s][p] > 0
        /\ \A c \in Nat : c >= Offset(s, 1) => \E n \in Nat : WrittenTimes(s, c, n)

\* Nothing of the higher orders is written when the threads start.
LEMMA WriteInit == Init => WriteInv
<1>1. SUFFICES ASSUME Init, NEW s \in Shard
      PROVE  /\ \A p \in Pos(s) :
                   /\ Len(Ngram(s, p)) > 1 /\ ~ Counted(s, p) => logprobs[s][p] = 0
                   /\ Len(Ngram(s, p)) = 2 /\ Counted(s, p) => logprobs[s][p] > 0
             /\ \A c \in Nat : c >= Offset(s, 1) => WrittenTimes(s, c, 0)
  BY DEF Init, WriteInv
<1>2. \A p \in Pos(s) : logprobs[s][p] =
          IF Len(Ngram(s, p)) = 1 \/ (Len(Ngram(s, p)) = 2 /\ Counted(s, p)) THEN 1 ELSE 0
  BY <1>1 DEF Init
<1>3. ASSUME NEW c \in Nat, c >= Offset(s, 1), NEW p \in CountedChildren(s, c)
      PROVE  logprobs[s][p] = 0
  <2>1. p \in Pos(s) /\ Parent(s, p) = c
    BY ChildrenNodes DEF CountedChildren
  <2>2. Len(Ngram(s, p)) > 2
    <3>1. CASE Len(Ngram(s, p)) = 1
      BY <2>1, <3>1, ParentType
    <3>2. CASE Len(Ngram(s, p)) = 2
      <4>1. Len(Ngram(s, p)) > 1
        BY <2>1, <3>2, NgramOrders
      <4>2. c \in Pos(s) /\ Len(Ngram(s, c)) = Len(Ngram(s, p)) - 1
        BY <2>1, <4>1, HigherParent
      <4>3. Len(Ngram(s, c)) <= 1
        <5>1. \A m, n : m = 2 /\ n = m - 1 => n <= 1
          OBVIOUS
        <5>2. QED
          BY <3>2, <4>2, <5>1
      <4>4. c < Offset(s, 1) /\ Offset(s, 1) \in Int
        BY <4>2, <4>3, OffsetBounds
      <4>5. QED
        BY <1>3, <4>4
    <3>3. QED
      BY <2>1, <3>1, <3>2, NgramOrders
  <2>3. QED
    BY <1>2, <2>1, <2>2, NgramOrders
<1>4. ASSUME NEW c \in Nat, c >= Offset(s, 1) PROVE WrittenTimes(s, c, 0)
  <2>1. pc[s] = "enter" /\ ctx[s] = Offset(s, 1) /\ Offset(s, 1) \in Int
    BY <1>1, OffsetBounds DEF Init
  <2>2. QED
    BY <1>3, <1>4, <2>1 DEF WrittenTimes, Writing, Looking, AtLoopHead
<1>5. ASSUME NEW p \in Pos(s)
      PROVE  /\ Len(Ngram(s, p)) > 1 /\ ~ Counted(s, p) => logprobs[s][p] = 0
             /\ Len(Ngram(s, p)) = 2 /\ Counted(s, p) => logprobs[s][p] > 0
  BY <1>2, NgramOrders
<1>6. QED
  BY <1>4, <1>5

\* Only counted children of the context in hand are written, and all of them
\* have at least three words.
LEMMA WrittenChild ==
    ASSUME TypeInv, FrontierInv, NEW s \in Shard, pc[s] \in Writing
    PROVE  /\ pos[s] \in CountedChildren(s, ctx[s])
           /\ pos[s] \in Pos(s) /\ Counted(s, pos[s]) /\ Parent(s, pos[s]) = ctx[s]
           /\ Len(Ngram(s, pos[s])) # 2 /\ Len(Ngram(s, pos[s])) > 1
<1>1. pos[s] \in CountedChildren(s, ctx[s]) /\ ctx[s] \in Nat
  BY DEF TypeInv, TypeOK, Writing
<1>2. pos[s] \in Pos(s) /\ Counted(s, pos[s]) /\ Parent(s, pos[s]) = ctx[s]
  BY <1>1, ChildrenNodes DEF CountedChildren
<1>3. ctx[s] >= Offset(s, 1) /\ Offset(s, 1) \in Int
  BY <1>1, OffsetBounds DEF FrontierInv
<1>4. CASE Len(Ngram(s, pos[s])) = 1
  BY <1>1, <1>2, <1>4, ParentType
<1>5. CASE Len(Ngram(s, pos[s])) = 2
  <2>1. Len(Ngram(s, pos[s])) > 1
    BY <1>2, <1>5, NgramOrders
  <2>2. ctx[s] \in Pos(s) /\ Len(Ngram(s, ctx[s])) = Len(Ngram(s, pos[s])) - 1
    BY <1>2, <2>1, HigherParent
  <2>3. Len(Ngram(s, ctx[s])) <= 1
    <3>1. \A m, n : m = 2 /\ n = m - 1 => n <= 1
      OBVIOUS
    <3>2. QED
      BY <1>5, <2>2, <3>1
  <2>4. ctx[s] < Offset(s, 1)
    BY <2>2, <2>3, OffsetBounds
  <2>5. QED
    BY <1>1, <1>3, <2>4
<1>6. QED
  BY <1>1, <1>2, <1>4, <1>5, NgramOrders

\* A step of a thread writes the children of its context once more, or none.
LEMMA WrittenStep ==
    ASSUME TypeInv, TypeInv', NEW s \in Shard, Phase(s),
           NEW c \in Nat, NEW n \in Nat, WrittenTimes(s, c, n)
    PROVE  \E k \in Nat : WrittenTimes(s, c, k)'
<1> DEFINE counted == CountedChildren(s, ctx[s])
           more == {p \in counted : p > pos[s]}
<1>1. /\ ctx[s] \in Nat /\ ctx'[s] \in Nat /\ pos[s] \in Nat /\ pos'[s] \in Nat
      /\ counted \in SUBSET Nat /\ more \in SUBSET Nat /\ CountedChildren(s, c) \in SUBSET Pos(s)
      /\ CountedChildren(s, c) \in SUBSET Nat
  BY ChildrenOfContext DEF TypeInv, TypeOK
<1>2. logprobs[s] \in [Pos(s) -> Nat] /\ DOMAIN logprobs = Shard
  BY DEF TypeInv, TypeOK
<1>3. more # {} => Least(more) \in more /\ \A q \in more : Least(more) <= q
  BY <1>1, LeastBounds
<1>4. counted # {} => Least(counted) \in counted /\ \A q \in counted : Least(counted) <= q
  BY <1>1, LeastBounds
<1>5. logprobs' = [logprobs EXCEPT ![s][pos[s]] = @ + 1] =>
          \A q \in Pos(s) : logprobs'[s][q] = IF q = pos[s] THEN logprobs[s][q] + 1 ELSE logprobs[s][q]
  BY <1>2
<1> USE DEF WrittenTimes, Writing, Looking, AtLoopHead
<1>6. CASE c # ctx[s]
  <2>1. \/ logprobs' = logprobs
        \/ pc[s] \in Writing /\ logprobs' = [logprobs EXCEPT ![s][pos[s]] = @ + 1]
    BY DEF Phase
  <2>2. \A p \in CountedChildren(s, c) : logprobs'[s][p] = logprobs[s][p]
    <3>1. ASSUME pc[s] \in Writing, NEW p \in CountedChildren(s, c) PROVE p # pos[s]
      <4>1. pos[s] \in CountedChildren(s, ctx[s])
        BY <3>1 DEF TypeInv
      <4>2. Parent(s, pos[s]) = ctx[s] /\ Parent(s, p) = c
        BY <1>1, <4>1, ChildrenNodes DEF CountedChildren
      <4>3. QED
        BY <1>6, <4>2
    <3>2. QED
      BY <1>1, <1>5, <2>1, <3>1
  <2>3. ctx'[s] = ctx[s] \/ (ctx'[s] = ctx[s] + 1 /\ pc'[s] = "enter")
    BY DEF Phase
  <2>4. WrittenTimes(s, c, n)'
    BY <1>1, <1>6, <2>2, <2>3
  <2>5. QED
    BY <2>4
<1>7. CASE c = ctx[s] /\ counted = {}
  <2>1. \E k \in {0, 1} : WrittenTimes(s, c, k)'
    BY <1>1, <1>7 DEF Phase
  <2>2. QED
    BY <2>1
<1>8. CASE c = ctx[s] /\ counted # {}
  <2> HIDE DEF counted, more
  <2>1. CASE pc[s] \notin Writing
    <3>1. WrittenTimes(s, c, n)'
      BY <1>1, <1>4, <1>8, <2>1 DEF Phase, counted
    <3>2. QED
      BY <3>1
  <2>2. CASE logprobs' = [logprobs EXCEPT ![s][pos[s]] = @ + 1] /\ pc[s] \in Writing
    <3>1. pos[s] \in counted
      BY <2>2 DEF TypeInv, counted
    <3>2. CASE more # {} /\ pos'[s] = Least(more) /\ pc'[s] = pc[s] /\ ctx'[s] = ctx[s]
      <4>1. \A p \in counted : p < pos'[s] <=> (p < pos[s] \/ p = pos[s])
        <5>1. Least(more) \in Nat /\ Least(more) > pos[s]
          BY <1>1, <1>3, <3>2 DEF more
        <5>2. \A p \in counted : p > pos[s] => Least(more) <= p
          BY <1>3, <3>2 DEF more
        <5>3. \A p \in counted : p \in Nat
          BY <1>1
        <5>4. pos'[s] = Least(more) /\ pos[s] \in Nat
          BY <1>1, <3>2
        <5>5. ASSUME NEW p \in counted
              PROVE  p < pos'[s] <=> (p < pos[s] \/ p = pos[s])
          <6>1. p \in Nat /\ (p > pos[s] => Least(more) <= p)
            BY <5>2, <5>3
          <6>2. QED
            BY <5>1, <5>4, <6>1
        <5>6. QED
          BY <5>5
      <4>2. WrittenTimes(s, c, n)'
        BY <1>1, <1>5, <1>8, <2>2, <3>2, <4>1 DEF counted
      <4>3. QED
        BY <4>2
    <3>3. CASE /\ more = {} /\ ctx'[s] = ctx[s]
               /\ \/ /\ pc[s] = "write" /\ pc'[s] \in {"write", "store", "rescale", "publish"}
                     /\ pos'[s] = Least(counted)
                  \/ pc[s] = "rescale" /\ pc'[s] = "publish"
      <4>1. \A p \in counted : p < pos[s] \/ p = pos[s]
        BY <1>1, <3>1, <3>3 DEF more
      <4>2. \A p \in counted : logprobs'[s][p] = n + 1
        BY <1>1, <1>5, <1>8, <2>2, <3>1, <4>1 DEF counted
      <4>3. pc'[s] \in Writing => \A p \in counted : ~ (p < pos'[s])
        BY <1>1, <1>4, <1>8, <3>3
      <4>4. WrittenTimes(s, c, n + 1)'
        BY <1>1, <1>8, <3>3, <4>2, <4>3 DEF counted
      <4>5. QED
        BY <4>4
    <3>4. QED
      BY <2>2, <3>2, <3>3 DEF Phase, counted, more
  <2>3. QED
    BY <2>1, <2>2 DEF Phase
<1>9. QED
  BY <1>6, <1>7, <1>8

\* Every step of a thread keeps what is known of the writes.
LEMMA WriteStep ==
    ASSUME TypeInv, FrontierInv, WriteInv, NEW s \in Shard, Thread(s)
    PROVE  WriteInv'
<1>1. TypeInv' /\ Phase(s)
  BY TypeStep, ThreadPhases DEF Next
<1>2. /\ DOMAIN logprobs = Shard
      /\ \A x \in Shard : logprobs[x] \in [Pos(x) -> Nat]
  BY DEF TypeInv, TypeOK
<1>3. \/ logprobs' = logprobs
      \/ pc[s] \in Writing /\ logprobs' = [logprobs EXCEPT ![s][pos[s]] = @ + 1]
  BY <1>1 DEF Phase, Writing
<1>4. ASSUME NEW x \in Shard, x # s
      PROVE  /\ logprobs'[x] = logprobs[x]
             /\ ctx'[x] = ctx[x] /\ pc'[x] = pc[x] /\ pos'[x] = pos[x]
  BY <1>2, <1>3, <1>4, OthersStay
<1>5. ASSUME NEW p \in Pos(s), logprobs'[s][p] # logprobs[s][p]
      PROVE  Counted(s, p) /\ Len(Ngram(s, p)) # 2
  <2>1. pc[s] \in Writing /\ p = pos[s]
    BY <1>2, <1>3, <1>5
  <2>2. QED
    BY <2>1, WrittenChild
<1>6. ASSUME NEW x \in Shard
      PROVE  /\ pc'[x] = "done" => ctx'[x] >= Offset(x, Order - 1)
             /\ \A p \in Pos(x) :
                   /\ Len(Ngram(x, p)) > 1 /\ ~ Counted(x, p) => logprobs'[x][p] = 0
                   /\ Len(Ngram(x, p)) = 2 /\ Counted(x, p) => logprobs'[x][p] > 0
             /\ \A c \in Nat : c >= Offset(x, 1) => \E n \in Nat : WrittenTimes(x, c, n)'
  <2>1. CASE x # s
    BY <1>4, <2>1 DEF WriteInv, WrittenTimes
  <2>2. CASE x = s
    <3>1. pc'[s] = "done" => ctx'[s] >= Offset(s, Order - 1)
      BY <1>1 DEF Phase, Looking, Writing
    <3>2. ASSUME NEW p \in Pos(s)
          PROVE  /\ Len(Ngram(s, p)) > 1 /\ ~ Counted(s, p) => logprobs'[s][p] = 0
                 /\ Len(Ngram(s, p)) = 2 /\ Counted(s, p) => logprobs'[s][p] > 0
      BY <1>5 DEF WriteInv
    <3>3. ASSUME NEW c \in Nat, c >= Offset(s, 1)
          PROVE  \E n \in Nat : WrittenTimes(s, c, n)'
      BY <1>1, <3>3, WrittenStep DEF WriteInv
    <3>4. QED
      BY <2>2, <3>1, <3>2, <3>3
  <2>3. QED
    BY <2>1, <2>2
<1>7. QED
  BY <1>6 DEF WriteInv

-----------------------------------------------------------------------------

\* What holds of the frontiers and of the writes in every state.
ProgressInv == TypeInv /\ FrontierInv /\ WriteInv

\* The threads start with what they have written and published in step.
LEMMA ProgressInit == Init => ProgressInv
BY TypeInit, FrontierInit, WriteInit DEF ProgressInv

\* Every step keeps it so.
LEMMA ProgressStep == ProgressInv /\ [Next]_vars => ProgressInv'
<1>1. SUFFICES ASSUME ProgressInv, [Next]_vars PROVE ProgressInv'
  OBVIOUS
<1>2. TypeInv'
  BY <1>1, TypeStep DEF ProgressInv
<1>3. CASE \E s \in Shard : Thread(s)
  BY <1>1, <1>2, <1>3, FrontierStep, WriteStep DEF ProgressInv
<1>4. CASE UNCHANGED vars
  BY <1>1, <1>2, <1>4 DEF vars, ProgressInv, FrontierInv, WriteInv, WrittenTimes
<1>5. QED
  BY <1>1, <1>3, <1>4 DEF Next

\* The children of a context that its thread has left were written, all of
\* them as often.
LEMMA PassedContext ==
    ASSUME ProgressInv, NEW s \in Shard, NEW p \in Pos(s),
           Len(Ngram(s, p)) > 2, Parent(s, p) < ctx[s]
    PROVE  \E n \in Nat :
               /\ n > 0
               /\ \A q \in Pos(s) :
                     Parent(s, q) = Parent(s, p) /\ Counted(s, q) => logprobs[s][q] = n
<1> DEFINE c == Parent(s, p)
<1>1. ctx[s] \in Nat /\ Offset(s, 1) \in Int
  BY OffsetBounds DEF ProgressInv, TypeInv, TypeOK
<1>2. Len(Ngram(s, p)) > 1
  BY NgramOrders
<1>3. c \in Pos(s) /\ c \in Nat /\ Len(Ngram(s, c)) = Len(Ngram(s, p)) - 1
  BY <1>2, HigherParent, NodeType
<1>4. ~ (Len(Ngram(s, c)) <= 1)
  <2> DEFINE m == Len(Ngram(s, p))
             n == Len(Ngram(s, c))
  <2>1. m \in Int
    BY NgramLength
  <2>2. n = m - 1 /\ m > 2
    BY <1>3
  <2> HIDE DEF m, n
  <2>3. ~ (n <= 1)
    BY <2>1, <2>2
  <2>4. QED
    BY <2>3 DEF n
<1>5. c >= Offset(s, 1)
  <2>1. ~ (c < Offset(s, 1))
    BY <1>3, <1>4, OffsetBounds
  <2>2. QED
    BY <1>1, <1>3, <2>1
<1>6. PICK n \in Nat : WrittenTimes(s, c, n)
  BY <1>3, <1>5 DEF ProgressInv, WriteInv
<1>7. n > 0 /\ \A q \in CountedChildren(s, c) : logprobs[s][q] = n
  BY <1>1, <1>3, <1>6 DEF WrittenTimes
<1>8. \A q \in Pos(s) : Parent(s, q) = c /\ Counted(s, q) => q \in CountedChildren(s, c)
  BY <1>3, ChildrenAll DEF CountedChildren
<1>9. QED
  BY <1>7, <1>8

\* Once its thread has left the context of an n-gram, it has a probability if
\* and only if it is counted.
LEMMA PassedWritten ==
    ASSUME ProgressInv, NEW s \in Shard, NEW p \in Pos(s),
           Len(Ngram(s, p)) > 1, Parent(s, p) < ctx[s]
    PROVE  /\ Counted(s, p) => logprobs[s][p] > 0
           /\ ~ Counted(s, p) => logprobs[s][p] = 0
<1>1. ~ Counted(s, p) => logprobs[s][p] = 0
  BY DEF ProgressInv, WriteInv
<1>2. CASE Len(Ngram(s, p)) = 2
  BY <1>1, <1>2 DEF ProgressInv, WriteInv
<1>3. CASE Len(Ngram(s, p)) > 2
  BY <1>1, <1>3, PassedContext
<1>4. QED
  BY <1>2, <1>3, NgramOrders

\* A thread at its end has left every context of fewer than Order words.
LEMMA AllPassed ==
    ASSUME ProgressInv, NEW s \in Shard, pc[s] = "done",
           NEW p \in Pos(s), Len(Ngram(s, p)) > 1
    PROVE  Parent(s, p) < ctx[s]
<1>1. /\ ctx[s] \in Nat /\ Order - 1 \in Int /\ Offset(s, Order - 1) \in Int
      /\ ctx[s] >= Offset(s, Order - 1)
  <2>1. Order - 1 \in Int
    BY IndexAssumption
  <2>2. Offset(s, Order - 1) \in Int
    BY <2>1, OffsetBounds
  <2>3. QED
    BY <2>1, <2>2 DEF ProgressInv, WriteInv, TypeInv, TypeOK
<1> DEFINE c == Parent(s, p)
<1>2. c \in Pos(s) /\ c \in Nat /\ Len(Ngram(s, c)) = Len(Ngram(s, p)) - 1
  BY HigherParent, NodeType
<1>3. Len(Ngram(s, c)) <= Order - 1
  <2> DEFINE m == Len(Ngram(s, p))
             n == Len(Ngram(s, c))
  <2>1. m \in Int /\ m <= Order /\ Order \in Int
    BY NodeType, IndexAssumption
  <2>2. n = m - 1
    BY <1>2
  <2> HIDE DEF m, n
  <2>3. n <= Order - 1
    BY <2>1, <2>2
  <2>4. QED
    BY <2>3 DEF n
<1>4. \A q \in Pos(s) : q < Offset(s, Order - 1) <=> Len(Ngram(s, q)) <= Order - 1
  BY <1>1, OffsetBounds
<1>5. QED
  BY <1>1, <1>2, <1>3, <1>4

\* When all the threads have come to their end, the estimation is complete.
LEMMA JoinedComplete == ProgressInv => EstimateComplete
<1>1. SUFFICES ASSUME ProgressInv, Joined, NEW s \in Shard, NEW p \in Pos(s),
                      Len(Ngram(s, p)) > 1
               PROVE  /\ (logprobs[s][p] > 0) <=> Counted(s, p)
                      /\ \A q \in Pos(s) :
                            /\ Len(Ngram(s, p)) > 2
                            /\ Parent(s, q) = Parent(s, p)
                            /\ Counted(s, p) /\ Counted(s, q)
                            => logprobs[s][p] = logprobs[s][q]
  <2>1. \A s \in Shard : \A p \in Pos(s) : Counted(s, p) \in BOOLEAN
    BY DEF Counted, Kept
  <2>2. \A n : (n > 0) \in BOOLEAN
    OBVIOUS
  <2>3. \A s \in Shard : \A p \in Pos(s) :
            ((logprobs[s][p] > 0) <=> Counted(s, p)) => (logprobs[s][p] > 0) = Counted(s, p)
    BY <2>1, <2>2
  <2>4. QED
    BY <2>3 DEF EstimateComplete
<1>2. Parent(s, p) < ctx[s]
  BY <1>1, AllPassed DEF Joined
<1>3. (logprobs[s][p] > 0) <=> Counted(s, p)
  <2>1. ASSUME Counted(s, p) PROVE logprobs[s][p] > 0
    BY <1>1, <1>2, <2>1, PassedWritten
  <2>2. ASSUME ~ Counted(s, p) PROVE ~ (logprobs[s][p] > 0)
    <3>1. logprobs[s][p] = 0
      BY <1>1, <1>2, <2>2, PassedWritten
    <3>2. QED
      BY <3>1
  <2>3. QED
    BY <2>1, <2>2
<1>4. QED
  BY <1>1, <1>2, <1>3, PassedContext

\* When the threads of estimate() are joined, every counted n-gram of two and
\* more words has a probability and no other has one, and the passes over a
\* context left its children alike, for every index, every number of passes
\* and every schedule, whether the index has all its suffixes or not.
THEOREM EstimateCompleteHolds == Spec => []EstimateComplete
BY ProgressInit, ProgressStep, JoinedComplete, PTL DEF Spec

-----------------------------------------------------------------------------

\* What a lookup has before it after its first n words.
Lower(g, n) == SubSeq(g, n + 1, Len(g))

InIndex(g) == Has(shard_index(g), g)

NodeKnown(g) == Published(shard_index(g), Find(shard_index(g), g))

NgramCounted(g) == Counted(shard_index(g), Find(shard_index(g), g))

\* A shorter suffix is the rest of a longer one.
LEMMA LowerIsSuffix ==
    ASSUME NEW g \in Seq(Word), NEW n \in 0 .. Len(g) - 1
    PROVE  /\ Lower(g, n) \in Seq(Word)
           /\ Len(Lower(g, n)) = Len(g) - n
           /\ Lower(g, n) # << >>
           /\ Tail(Lower(g, n)) = Lower(g, n + 1)
           /\ Context(Lower(g, n)) = SubSeq(g, n + 1, Len(g) - 1)
<1>1. Len(g) \in Nat /\ n \in Nat /\ n + 1 \in Int /\ n + 1 <= Len(g)
  OBVIOUS
<1>2. /\ Lower(g, n) \in Seq(Word)
      /\ Len(Lower(g, n)) = Len(g) - n
      /\ \A i \in 1 .. Len(g) - n : Lower(g, n)[i] = g[n + i]
  BY <1>1, SubSeqProperties DEF Lower
<1>3. Lower(g, n) # << >>
  BY <1>1, <1>2
<1>4. /\ Lower(g, n + 1) \in Seq(Word)
      /\ Len(Lower(g, n + 1)) = Len(g) - n - 1
      /\ \A i \in 1 .. Len(g) - n - 1 : Lower(g, n + 1)[i] = g[n + i + 1]
  BY <1>1, SubSeqProperties DEF Lower
<1>5. /\ Tail(Lower(g, n)) \in Seq(Word)
      /\ Len(Tail(Lower(g, n))) = Len(g) - n - 1
      /\ \A i \in 1 .. Len(g) - n - 1 : Tail(Lower(g, n))[i] = Lower(g, n)[i + 1]
  BY <1>1, <1>2, <1>3, HeadTailProperties
<1>6. Tail(Lower(g, n)) = Lower(g, n + 1)
  <2>1. \A i \in 1 .. Len(Tail(Lower(g, n))) : Tail(Lower(g, n))[i] = Lower(g, n + 1)[i]
    BY <1>1, <1>2, <1>4, <1>5
  <2>2. QED
    BY <1>4, <1>5, <2>1, SeqEqual
<1>7. Context(Lower(g, n)) = SubSeq(g, n + 1, Len(g) - 1)
  <2> DEFINE h == Lower(g, n)
             k == SubSeq(g, n + 1, Len(g) - 1)
  <2>1. /\ Context(h) \in Seq(Word)
        /\ Len(Context(h)) = Len(g) - n - 1
        /\ \A i \in 1 .. Len(g) - n - 1 : Context(h)[i] = h[i]
    BY <1>1, <1>2, SubSeqProperties DEF Context
  <2>2. /\ k \in Seq(Word)
        /\ Len(k) = Len(g) - n - 1
        /\ \A i \in 1 .. Len(g) - n - 1 : k[i] = g[n + i]
    BY <1>1, SubSeqProperties
  <2> HIDE DEF h, k
  <2>3. ASSUME NEW i \in 1 .. Len(Context(h)) PROVE Context(h)[i] = k[i]
    <3>1. i \in 1 .. Len(g) - n - 1 /\ i \in 1 .. Len(g) - n
      BY <1>1, <2>1
    <3>2. Context(h)[i] = h[i] /\ k[i] = g[n + i]
      BY <2>1, <2>2, <3>1
    <3>3. h[i] = g[n + i]
      BY <1>2, <3>1 DEF h
    <3>4. QED
      BY <3>2, <3>3
  <2>4. Context(h) = k
    BY <2>1, <2>2, <2>3, SeqEqual
  <2>5. QED
    BY <2>4 DEF h, k
<1>8. QED
  BY <1>2, <1>3, <1>6, <1>7

\* The first suffix is the n-gram without its first word.
LEMMA LowerIsTail ==
    ASSUME NEW g \in Seq(Word), Len(g) >= 1
    PROVE  Tail(g) = Lower(g, 1)
<1>1. g # << >>
  OBVIOUS
<1>2. QED
  BY <1>1, TailIsSubSeq DEF Lower

\* An indexed n-gram is a node of the shard it hashes to.
LEMMA IndexedNode ==
    ASSUME NEW g \in Seq(Word), g # << >>, InIndex(g)
    PROVE  /\ shard_index(g) \in Shard
           /\ Find(shard_index(g), g) \in Pos(shard_index(g))
           /\ Ngram(shard_index(g), Find(shard_index(g), g)) = g
BY ShardIndexType, FindHas DEF InIndex

\* The context of a suffix is in the index of the suffix's shard if it is in
\* that of its own; and it is if the suffix is.
LEMMA ContextHome ==
    ASSUME NEW g \in Seq(Word), Len(g) > 1
    PROVE  /\ Has(shard_index(g), Context(g)) <=> InIndex(Context(g))
           /\ InIndex(g) => InIndex(Context(g))
<1>1. /\ Context(g) \in Seq(Word)
      /\ Len(Context(g)) = Len(g) - 1
      /\ \A i \in 1 .. Len(g) - 1 : Context(g)[i] = g[i]
  BY SubSeqProperties DEF Context
<1>2. shard_index(g) \in Shard /\ 0 \in Shard
  BY ShardIndexType, IndexAssumption
<1>3. CASE Len(g) = 2
  <2>1. g[1] \in Word /\ Context(g) = <<g[1]>>
    BY <1>1, <1>3
  <2>2. Has(shard_index(g), Context(g)) /\ Has(0, Context(g))
    BY <1>2, <2>1, IndexAssumption
  <2>3. shard_index(Context(g)) = 0
    BY <1>1, <1>3 DEF shard_index
  <2>4. QED
    BY <2>2, <2>3 DEF InIndex
<1>4. CASE Len(g) # 2
  <2>1. shard_index(Context(g)) = shard_index(g)
    <3>1. Len(g) > 2 /\ Len(Context(g)) > 1
      BY <1>1, <1>4
    <3>2. Context(g)[1] = g[1] /\ Context(g)[2] = g[2]
      BY <3>1 DEF Context
    <3>3. QED
      BY <1>1, <3>1, <3>2 DEF shard_index
  <2>2. InIndex(g) => Has(shard_index(g), Context(g))
    <3>1. SUFFICES ASSUME InIndex(g) PROVE Has(shard_index(g), Context(g))
      OBVIOUS
    <3> DEFINE p == Find(shard_index(g), g)
    <3>2. p \in Pos(shard_index(g)) /\ Ngram(shard_index(g), p) = g
      BY <3>1, IndexedNode
    <3>3. QED
      BY <1>2, <3>2, ShardAssumption
  <2>3. QED
    BY <2>1, <2>2 DEF InIndex
<1>5. QED
  BY <1>3, <1>4

-----------------------------------------------------------------------------

\* A lookup goes on past a suffix that is not in the index, and past one whose
\* probability is final and was never estimated.
PassedOver(g) == InIndex(g) => NodeKnown(g) /\ ~ NgramCounted(g)

\* The back-off weights that a lookup for g adds up before its n-th suffix.
BackoffCells(g, n) ==
    {Backoff(c) : c \in {c \in {SubSeq(g, m + 1, Len(g) - 1) : m \in 1 .. n - 1} : InIndex(c)}}

\* The lookup for the child in hand has come to its n-th suffix.
AtSuffix(s, n) ==
    /\ suffix[s] = Lower(Ngram(s, pos[s]), n)
    /\ \A m \in 1 .. n - 1 : PassedOver(Lower(Ngram(s, pos[s]), m))
    /\ logbackoff[s] = BackoffCells(Ngram(s, pos[s]), n)

\* The way a lookup has come.
PathInv ==
    \A s \in Shard : pc[s] \in Looking =>
        /\ pos[s] \in KeptChildren(s, ctx[s])
        /\ \E n \in 1 .. Len(Ngram(s, pos[s])) - 1 : AtSuffix(s, n)
        /\ pc[s] = "backoff" => InIndex(suffix[s]) /\ PassedOver(suffix[s])

\* A child of a context is an n-gram of at least two words.
LEMMA ChildNgram ==
    ASSUME NEW s \in Shard, NEW c \in Nat, NEW p \in KeptChildren(s, c)
    PROVE  /\ p \in Pos(s) /\ p \in Nat
           /\ Ngram(s, p) \in Seq(Word) /\ Len(Ngram(s, p)) \in Nat
           /\ Len(Ngram(s, p)) > 1
<1>1. p \in Pos(s) /\ Parent(s, p) = c
  BY ChildrenNodes DEF KeptChildren
<1>2. Len(Ngram(s, p)) # 1
  BY <1>1, ParentType
<1>3. QED
  BY <1>1, <1>2, NodeType, NgramOrders

\* What was published stays published.
LEMMA KnownStays ==
    ASSUME TypeInv, FrontierInv, NEW s \in Shard, Thread(s),
           NEW g \in Seq(Word), g # << >>, InIndex(g), NodeKnown(g)
    PROVE  NodeKnown(g)'
<1> DEFINE x == shard_index(g)
           q == Find(x, g)
<1>1. x \in Shard /\ q \in Pos(x)
  BY IndexedNode
<1>2. q \in Nat
  BY <1>1, NodeType
<1>3. TypeInv'
  BY TypeStep DEF Next
<1>4. offsets[x] \in Nat /\ offsets'[x] \in Nat /\ offsets[x] <= offsets'[x]
  BY <1>1, <1>3, FrontierStep DEF TypeInv, TypeOK
<1>5. QED
  BY <1>2, <1>4 DEF NodeKnown, Published

\* A suffix that was passed over stays so.
LEMMA PassedOverStays ==
    ASSUME TypeInv, FrontierInv, NEW s \in Shard, Thread(s),
           NEW g \in Seq(Word), g # << >>, PassedOver(g)
    PROVE  PassedOver(g)'
BY KnownStays DEF PassedOver

\* The lookup for a new child begins at its first suffix.
LEMMA StartPath ==
    ASSUME TypeInv, NEW s \in Shard, NEW c \in Nat, NEW p \in KeptChildren(s, c),
           StartChild(s, p)
    PROVE  /\ pos'[s] = p
           /\ \E n \in 1 .. Len(Ngram(s, p)) - 1 : AtSuffix(s, n)'
<1>1. Ngram(s, p) \in Seq(Word) /\ Len(Ngram(s, p)) > 1 /\ Len(Ngram(s, p)) \in Nat
  BY ChildNgram
<1>2. pos'[s] = p /\ suffix'[s] = Tail(Ngram(s, p)) /\ logbackoff'[s] = {}
  BY DEF StartChild, TypeInv, TypeOK
<1>3. suffix'[s] = Lower(Ngram(s, p), 1)
  <2>1. Len(Ngram(s, p)) >= 1
    BY <1>1
  <2>2. QED
    BY <1>1, <1>2, <2>1, LowerIsTail
<1>4. 1 .. 1 - 1 = {}
  OBVIOUS
<1>5. BackoffCells(Ngram(s, p), 1) = {}
  BY <1>4 DEF BackoffCells
<1>6. AtSuffix(s, 1)'
  BY <1>2, <1>3, <1>4, <1>5 DEF AtSuffix
<1>7. 1 \in 1 .. Len(Ngram(s, p)) - 1
  BY <1>1
<1>8. QED
  BY <1>2, <1>6, <1>7

\* One suffix further there is one more weight, if the suffix's context is
\* in the index.
LEMMA NextBackoffCells ==
    ASSUME NEW g \in Seq(Word), NEW n \in 1 .. Len(g) - 1
    PROVE  LET c == Context(Lower(g, n))
           IN  /\ InIndex(c) => BackoffCells(g, n + 1) = BackoffCells(g, n) \union {Backoff(c)}
               /\ ~ InIndex(c) => BackoffCells(g, n + 1) = BackoffCells(g, n)
<1> DEFINE cs(k) == {SubSeq(g, m + 1, Len(g) - 1) : m \in 1 .. k - 1}
           c == Context(Lower(g, n))
<1>1. n \in 0 .. Len(g) - 1 /\ n \in Nat
  OBVIOUS
<1>2. c = SubSeq(g, n + 1, Len(g) - 1)
  BY <1>1, LowerIsSuffix
<1>3. 1 .. (n + 1) - 1 = (1 .. n - 1) \union {n}
  BY <1>1
<1>4. cs(n + 1) = cs(n) \union {c}
  BY <1>2, <1>3
<1> HIDE DEF c
<1>5. {x \in cs(n + 1) : InIndex(x)} =
          {x \in cs(n) : InIndex(x)} \union (IF InIndex(c) THEN {c} ELSE {})
  BY <1>4
<1>6. QED
  BY <1>5 DEF BackoffCells, c

\* A lookup that goes on comes to the next suffix of its child.
LEMMA PathGoesOn ==
    ASSUME TypeInv, FrontierInv, PathInv, NEW s \in Shard, Thread(s), pc[s] \in Looking,
           Len(suffix[s]) > 1, PassedOver(suffix[s]),
           pos'[s] = pos[s], suffix'[s] = Tail(suffix[s]),
           logbackoff'[s] = logbackoff[s] \union
               (IF InIndex(Context(suffix[s])) THEN {Backoff(Context(suffix[s]))} ELSE {})
    PROVE  \E n \in 1 .. Len(Ngram(s, pos[s])) - 1 : AtSuffix(s, n)'
<1> DEFINE g == Ngram(s, pos[s])
<1>1. PICK n \in 1 .. Len(g) - 1 : AtSuffix(s, n)
  BY DEF PathInv
<1>2. g \in Seq(Word) /\ Len(g) \in Nat
  BY ChildNgram DEF PathInv, TypeInv, TypeOK
<1> HIDE DEF g
<1>3. /\ suffix[s] = Lower(g, n) /\ logbackoff[s] = BackoffCells(g, n)
      /\ \A m \in 1 .. n - 1 : PassedOver(Lower(g, m))
  BY <1>1 DEF AtSuffix, g
<1>4. n \in 0 .. Len(g) - 1 /\ n \in Nat
  BY <1>2
<1>5. Len(suffix[s]) = Len(g) - n /\ Tail(suffix[s]) = Lower(g, n + 1)
  BY <1>2, <1>3, <1>4, LowerIsSuffix
<1>6. n + 1 \in 1 .. Len(g) - 1
  BY <1>2, <1>4, <1>5
<1>7. logbackoff'[s] = BackoffCells(g, n + 1)
  BY <1>2, <1>3, NextBackoffCells
<1>8. ASSUME NEW m \in 1 .. (n + 1) - 1 PROVE PassedOver(Lower(g, m))'
  <2>1. PassedOver(Lower(g, m))
    <3>1. m = n \/ m \in 1 .. n - 1
      BY <1>4
    <3>2. QED
      BY <1>3, <3>1
  <2>2. m \in 0 .. Len(g) - 1
    BY <1>2, <1>4
  <2>3. Lower(g, m) \in Seq(Word) /\ Lower(g, m) # << >>
    BY <1>2, <2>2, LowerIsSuffix
  <2>4. \A h \in Seq(Word) : h # << >> /\ PassedOver(h) => PassedOver(h)'
    BY PassedOverStays
  <2>5. g' = g
    BY DEF g
  <2>6. QED
    BY <2>1, <2>3, <2>4, <2>5
<1>9. AtSuffix(s, n + 1)'
  BY <1>5, <1>7, <1>8 DEF AtSuffix, g
<1>10. QED
  BY <1>6, <1>9 DEF g

\* A published n-gram has a probability if and only if it is counted.
LEMMA KnownWritten ==
    ASSUME ProgressInv, NEW g \in Seq(Word), Len(g) > 1, InIndex(g), NodeKnown(g)
    PROVE  /\ NgramCounted(g) => logprobs[shard_index(g)][Find(shard_index(g), g)] # 0
           /\ ~ NgramCounted(g) => logprobs[shard_index(g)][Find(shard_index(g), g)] = 0
<1> DEFINE t == shard_index(g)
           q == Find(t, g)
<1>1. g # << >>
  OBVIOUS
<1>2. t \in Shard /\ q \in Pos(t) /\ Ngram(t, q) = g
  BY <1>1, IndexedNode
<1>3. Published(t, q)
  BY DEF NodeKnown
<1>4. Len(Ngram(t, q)) > 1
  BY <1>2
<1> HIDE DEF t, q
<1>5. Parent(t, q) < ctx[t]
  BY <1>2, <1>3, ParentSettled DEF ProgressInv
<1>6. /\ Counted(t, q) => logprobs[t][q] > 0
      /\ ~ Counted(t, q) => logprobs[t][q] = 0
  BY <1>2, <1>4, <1>5, PassedWritten
<1>7. \A n : n > 0 => n # 0
  OBVIOUS
<1>8. Counted(t, q) => logprobs[t][q] # 0
  BY <1>6, <1>7
<1>9. QED
  BY <1>6, <1>8 DEF NgramCounted, t, q

\* A thread changes only its own sums and results.
LEMMA OthersKeep ==
    ASSUME TypeInv, NEW s \in Shard, Thread(s), NEW x \in Shard, x # s
    PROVE  logbackoff'[x] = logbackoff[x] /\ lowers'[x] = lowers[x]
<1> USE DEF TypeInv, TypeOK, Goto, NextContext, StartChild
<1>1. CASE Enter(s)
  BY <1>1 DEF Enter
<1>2. CASE ReadLogprob(s)
  BY <1>2 DEF ReadLogprob, Return
<1>3. CASE ReadBackoff(s) \/ ReadContext(s) \/ SkipSuffix(s)
  BY <1>3 DEF ReadBackoff, ReadContext, SkipSuffix, AddBackoff
<1>4. CASE ReadUnigram(s)
  BY <1>4 DEF ReadUnigram, Return
<1>5. CASE WriteLogprob(s)
  BY <1>5 DEF WriteLogprob
<1>6. CASE StoreBackoff(s) \/ Rescale(s) \/ Publish(s) \/ Finish(s)
  BY <1>6 DEF StoreBackoff, Rescale, Publish, Finish
<1>7. QED
  BY <1>1, <1>2, <1>3, <1>4, <1>5, <1>6 DEF Thread

\* A thread that returns from a lookup and goes on to the next child starts at
\* the first suffix of it.
LEMMA ReturnPath ==
    ASSUME TypeInv, NEW s \in Shard, NEW cell, Return(s, cell), pc'[s] \in Looking
    PROVE  /\ pc'[s] = "lower"
           /\ pos'[s] \in KeptChildren(s, ctx[s]) /\ ctx'[s] = ctx[s]
           /\ pos[s] < pos'[s]
           /\ \A p \in KeptChildren(s, ctx[s]) : p < pos'[s] => ~ (p > pos[s])
           /\ \E n \in 1 .. Len(Ngram(s, pos'[s])) - 1 : AtSuffix(s, n)'
<1> DEFINE more == {p \in KeptChildren(s, ctx[s]) : p > pos[s]}
<1>1. ctx[s] \in Nat /\ pos[s] \in Nat /\ more \in SUBSET Nat /\ DOMAIN pc = Shard
  BY ChildrenOfContext DEF TypeInv, TypeOK
<1>2. more # {} /\ StartChild(s, Least(more)) /\ Goto(s, "lower") /\ UNCHANGED ctx
  BY <1>1 DEF Return, NextContext, Goto, Looking
<1>3. Least(more) \in more /\ \A p \in more : Least(more) <= p
  BY <1>1, <1>2, LeastBounds
<1>4. Least(more) \in KeptChildren(s, ctx[s]) /\ Least(more) > pos[s] /\ Least(more) \in Nat
  BY <1>1, <1>3
<1>5. /\ pos'[s] = Least(more)
      /\ \E n \in 1 .. Len(Ngram(s, Least(more))) - 1 : AtSuffix(s, n)'
  <2> HIDE DEF more
  <2>1. QED
    BY <1>1, <1>2, <1>4, StartPath
<1>6. ASSUME NEW p \in KeptChildren(s, ctx[s]), p < pos'[s] PROVE ~ (p > pos[s])
  <2>1. p \in Nat
    BY <1>1, ChildrenOfContext
  <2>2. p > pos[s] => Least(more) <= p
    BY <1>3
  <2>3. QED
    BY <1>4, <1>5, <1>6, <2>1, <2>2
<1>7. pc'[s] = "lower"
  BY <1>1, <1>2 DEF Goto
<1> HIDE DEF more
<1>8. QED
  BY <1>1, <1>2, <1>4, <1>5, <1>6, <1>7

\* Entering a context starts at the first suffix of its first child.
LEMMA EnterPath ==
    ASSUME TypeInv, NEW s \in Shard, Enter(s), pc'[s] \in Looking
    PROVE  /\ pc'[s] = "lower"
           /\ pos'[s] \in KeptChildren(s, ctx[s]) /\ ctx'[s] = ctx[s]
           /\ \A p \in KeptChildren(s, ctx[s]) : ~ (p < pos'[s])
           /\ lowers'[s] = {}
           /\ \E n \in 1 .. Len(Ngram(s, pos'[s])) - 1 : AtSuffix(s, n)'
<1> DEFINE kept == KeptChildren(s, ctx[s])
<1>1. ctx[s] \in Nat /\ kept \in SUBSET Nat /\ DOMAIN pc = Shard /\ DOMAIN lowers = Shard
  BY ChildrenOfContext DEF TypeInv, TypeOK
<1>2. /\ kept # {} /\ StartChild(s, Least(kept)) /\ Goto(s, "lower") /\ UNCHANGED ctx
      /\ lowers' = [lowers EXCEPT ![s] = {}]
  BY <1>1 DEF Enter, NextContext, Goto, Looking
<1>3. Least(kept) \in kept /\ \A p \in kept : Least(kept) <= p
  BY <1>1, <1>2, LeastBounds
<1>4. pc'[s] = "lower" /\ lowers'[s] = {}
  BY <1>1, <1>2 DEF Goto
<1>5. /\ pos'[s] = Least(kept)
      /\ \E n \in 1 .. Len(Ngram(s, Least(kept))) - 1 : AtSuffix(s, n)'
  <2>1. Least(kept) \in KeptChildren(s, ctx[s])
    BY <1>3
  <2> HIDE DEF kept
  <2>2. QED
    BY <1>1, <1>2, <2>1, StartPath
<1>6. \A p \in kept : ~ (p < pos'[s])
  <2>1. \A p \in kept : p \in Nat /\ Least(kept) <= p
    BY <1>1, <1>3
  <2>2. Least(kept) \in Nat
    BY <1>1, <1>3
  <2> HIDE DEF kept
  <2>3. QED
    BY <1>5, <2>1, <2>2
<1>7. QED
  BY <1>1, <1>2, <1>3, <1>4, <1>5, <1>6

\* Every step of a thread keeps to the way of its lookup.
LEMMA PathStep ==
    ASSUME ProgressInv, PathInv, NEW s \in Shard, Thread(s)
    PROVE  PathInv'
<1> DEFINE P(x) == /\ pos[x] \in KeptChildren(x, ctx[x])
                   /\ \E n \in 1 .. Len(Ngram(x, pos[x])) - 1 : AtSuffix(x, n)
                   /\ pc[x] = "backoff" => InIndex(suffix[x]) /\ PassedOver(suffix[x])
<1>1. TypeInv /\ FrontierInv
  BY DEF ProgressInv
<1>2. ASSUME NEW x \in Shard, x # s, pc'[x] \in Looking PROVE P(x)'
  <2>1. /\ ctx'[x] = ctx[x] /\ pc'[x] = pc[x] /\ suffix'[x] = suffix[x]
        /\ pos'[x] = pos[x] /\ logbackoff'[x] = logbackoff[x]
    BY <1>1, <1>2, OthersStay, OthersKeep
  <2>2. pos[x] \in KeptChildren(x, ctx[x])
    BY <1>2, <2>1 DEF PathInv
  <2> DEFINE g == Ngram(x, pos[x])
  <2>3. g \in Seq(Word) /\ Len(g) \in Nat /\ g' = g
    BY <1>1, <2>1, <2>2, ChildNgram DEF TypeInv, TypeOK
  <2>4. PICK n \in 1 .. Len(g) - 1 : AtSuffix(x, n)
    BY <1>2, <2>1 DEF PathInv
  <2>5. \A h \in Seq(Word) : h # << >> /\ PassedOver(h) => PassedOver(h)'
    BY <1>1, PassedOverStays
  <2>6. \A m \in 1 .. n - 1 : Lower(g, m) \in Seq(Word) /\ Lower(g, m) # << >>
    BY <2>3, LowerIsSuffix
  <2> HIDE DEF g
  <2>7. \A m \in 1 .. n - 1 : PassedOver(Lower(g, m))'
    BY <2>3, <2>4, <2>5, <2>6 DEF AtSuffix, g
  <2>8. AtSuffix(x, n)'
    BY <2>1, <2>3, <2>4, <2>7 DEF AtSuffix, g
  <2>9. n \in 0 .. Len(g) - 1
    BY <2>3
  <2>10. suffix[x] \in Seq(Word) /\ suffix[x] # << >>
    BY <2>3, <2>4, <2>9, LowerIsSuffix DEF AtSuffix, g
  <2>11. pc'[x] = "backoff" => (InIndex(suffix[x]) /\ PassedOver(suffix[x]))'
    <3>1. pc[x] = "backoff" => InIndex(suffix[x]) /\ PassedOver(suffix[x])
      BY <1>2, <2>1 DEF PathInv
    <3>2. suffix'[x] = suffix[x] /\ pc'[x] = pc[x]
      BY <2>1
    <3>3. PICK h \in Seq(Word) : h = suffix[x]
      BY <2>10
    <3>4. pc[x] = "backoff" => InIndex(h) /\ PassedOver(h)'
      BY <2>5, <2>10, <3>1, <3>3
    <3>5. PassedOver(h)' => PassedOver(suffix[x])'
      BY <3>2, <3>3
    <3>6. QED
      BY <3>2, <3>3, <3>4, <3>5
  <2>12. QED
    BY <2>1, <2>2, <2>8, <2>11 DEF g
<1>3. ASSUME NEW cell, Return(s, cell), pc'[s] \in Looking PROVE P(s)'
  BY <1>1, <1>3, ReturnPath
<1>4. ASSUME pc'[s] \in Looking PROVE P(s)'
  <2>1. CASE Enter(s)
    BY <1>1, <1>4, <2>1, EnterPath
  <2>2. CASE ReadLogprob(s)
    <3>1. CASE Return(s, Logprob(suffix[s]))
      BY <1>3, <1>4, <3>1
    <3>2. CASE /\ logprobs[Logprob(suffix[s]).shard][Logprob(suffix[s]).node] = 0
               /\ Goto(s, "backoff") /\ UNCHANGED <<ctx, pos, suffix, logbackoff, offsets>>
      <4>1. /\ suffix[s] \in Seq(Word) /\ Len(suffix[s]) > 1 /\ InIndex(suffix[s])
            /\ NodeKnown(suffix[s])
        BY <1>1, <2>2 DEF ReadLogprob, Logprob, InIndex, NodeKnown, TypeInv, TypeOK
      <4>2. ~ NgramCounted(suffix[s])
        BY <3>2, <4>1, KnownWritten DEF Logprob
      <4>3. (InIndex(suffix[s]) /\ PassedOver(suffix[s]))'
        BY <3>2, <4>1, <4>2 DEF PassedOver, InIndex, NodeKnown, NgramCounted, Published
      <4>4. pc[s] \in Looking
        BY <2>2 DEF ReadLogprob, Looking
      <4>5. PICK n \in 1 .. Len(Ngram(s, pos[s])) - 1 : AtSuffix(s, n)
        BY <4>4 DEF PathInv
      <4>6. AtSuffix(s, n)'
        BY <3>2, <4>5 DEF AtSuffix, PassedOver, NodeKnown, Published
      <4>7. QED
        BY <3>2, <4>3, <4>4, <4>5, <4>6 DEF PathInv
    <3>3. QED
      BY <2>2, <3>1, <3>2 DEF ReadLogprob
  <2>3. CASE ReadBackoff(s) \/ ReadContext(s) \/ SkipSuffix(s)
    <3>1. pc[s] \in Looking /\ Len(suffix[s]) > 1 /\ suffix[s] \in Seq(Word)
      BY <1>1, <2>3 DEF ReadBackoff, ReadContext, SkipSuffix, Looking, TypeInv, TypeOK
    <3>2. /\ Has(shard_index(suffix[s]), Context(suffix[s])) <=> InIndex(Context(suffix[s]))
          /\ InIndex(suffix[s]) => InIndex(Context(suffix[s]))
      BY <3>1, ContextHome
    <3>3. PassedOver(suffix[s])
      BY <2>3, <3>1 DEF ReadBackoff, ReadContext, SkipSuffix, PathInv, PassedOver, InIndex
    <3>4. /\ pos'[s] = pos[s] /\ ctx'[s] = ctx[s] /\ suffix'[s] = Tail(suffix[s])
          /\ pc'[s] # "backoff"
      BY <1>1, <2>3 DEF ReadBackoff, ReadContext, SkipSuffix, AddBackoff, Goto, TypeInv, TypeOK
    <3>5. logbackoff'[s] = logbackoff[s] \union
              (IF InIndex(Context(suffix[s])) THEN {Backoff(Context(suffix[s]))} ELSE {})
      <4>1. CASE ReadBackoff(s)
        <5>1. InIndex(suffix[s])
          BY <3>1, <4>1 DEF ReadBackoff, PathInv
        <5>2. QED
          BY <1>1, <3>2, <4>1, <5>1 DEF ReadBackoff, AddBackoff, TypeInv, TypeOK
      <4>2. CASE ReadContext(s)
        BY <1>1, <3>2, <4>2 DEF ReadContext, AddBackoff, TypeInv, TypeOK
      <4>3. CASE SkipSuffix(s)
        BY <1>1, <3>2, <4>3 DEF SkipSuffix, TypeInv, TypeOK
      <4>4. QED
        BY <2>3, <4>1, <4>2, <4>3
    <3>6. \E n \in 1 .. Len(Ngram(s, pos[s])) - 1 : AtSuffix(s, n)'
      BY <1>1, <3>1, <3>3, <3>4, <3>5, PathGoesOn
    <3>7. pos[s] \in KeptChildren(s, ctx[s])
      BY <3>1 DEF PathInv
    <3>8. QED
      BY <3>4, <3>6, <3>7
  <2>4. CASE ReadUnigram(s)
    BY <1>3, <1>4, <2>4 DEF ReadUnigram
  <2>5. CASE WriteLogprob(s) \/ StoreBackoff(s) \/ Rescale(s) \/ Publish(s) \/ Finish(s)
    BY <1>1, <1>4, <2>5 DEF WriteLogprob, StoreBackoff, Rescale, Publish, Finish, NextContext,
       Goto, Looking, TypeInv, TypeOK
  <2>6. QED
    BY <2>1, <2>2, <2>3, <2>4, <2>5 DEF Thread
<1>5. QED
  BY <1>2, <1>4 DEF PathInv

\* What is known of the lookups in every state.
LookupsInv == ProgressInv /\ PathInv

\* No thread is looking anything up at the start.
LEMMA LookupsInit == Init => LookupsInv
<1>1. Init => PathInv
  BY DEF Init, PathInv, Looking
<1>2. QED
  BY <1>1, ProgressInit DEF LookupsInv

\* Every step keeps the lookups on their paths of suffixes.
LEMMA LookupsStep == LookupsInv /\ [Next]_vars => LookupsInv'
<1>1. SUFFICES ASSUME LookupsInv, [Next]_vars PROVE LookupsInv'
  OBVIOUS
<1>2. ProgressInv'
  BY <1>1, ProgressStep DEF LookupsInv
<1>3. CASE \E s \in Shard : Thread(s)
  BY <1>1, <1>2, <1>3, PathStep DEF LookupsInv
<1>4. CASE UNCHANGED vars
  BY <1>1, <1>2, <1>4 DEF vars, LookupsInv, PathInv, AtSuffix, PassedOver, NodeKnown, Published
<1>5. QED
  BY <1>1, <1>3, <1>4 DEF Next

\* The steps with which a lookup returns.
Returns(s) ==
    \/ ReadUnigram(s)
    \/ /\ ReadLogprob(s)
       /\ logprobs[Logprob(suffix[s]).shard][Logprob(suffix[s]).node] # 0

\* A lookup returns at the first suffix that is counted, or at the unigram, and
\* the probability it returns is final.
LEMMA ReturnsAt ==
    ASSUME LookupsInv, NEW s \in Shard, Returns(s)
    PROVE  \E n \in 1 .. Len(Ngram(s, pos[s])) - 1 :
               /\ AtSuffix(s, n)
               /\ InIndex(suffix[s]) /\ NodeKnown(suffix[s])
               /\ n = Len(Ngram(s, pos[s])) - 1 \/ NgramCounted(suffix[s])
<1> DEFINE g == Ngram(s, pos[s])
           h == suffix[s]
<1>1. TypeInv /\ FrontierInv /\ pc[s] \in Looking
  BY DEF Returns, ReadUnigram, ReadLogprob, Looking, LookupsInv, ProgressInv
<1>2. h \in Seq(Word)
  BY <1>1 DEF TypeInv, TypeOK
<1>3. PICK n \in 1 .. Len(g) - 1 : AtSuffix(s, n)
  BY <1>1 DEF LookupsInv, PathInv
<1>4. g \in Seq(Word) /\ Len(g) \in Nat
  BY <1>1, ChildNgram DEF LookupsInv, PathInv, TypeInv, TypeOK
<1>5. Len(h) = Len(g) - n
  <2>1. n \in 0 .. Len(g) - 1
    BY <1>4
  <2>2. h = Lower(g, n)
    BY <1>3 DEF AtSuffix
  <2> HIDE DEF g, h
  <2>3. QED
    BY <1>4, <2>1, <2>2, LowerIsSuffix
<1>6. CASE ReadUnigram(s)
  <2>1. Len(h) = 1
    BY <1>6 DEF ReadUnigram
  <2>2. InIndex(h)
    <3>1. h[1] \in Word /\ h = <<h[1]>>
      BY <1>2, <2>1
    <3>2. shard_index(h) = 0
      BY <2>1 DEF shard_index
    <3> HIDE DEF h
    <3>3. QED
      BY <3>1, <3>2, IndexAssumption DEF InIndex
  <2>3. NodeKnown(h)
    <3>1. SettledCell(Logprob(h))
      BY <1>1, <1>2, <2>1, UnigramSettled
    <3>2. h # << >>
      <4>1. Len(<< >>) = 0
        BY EmptySeq
      <4> HIDE DEF h
      <4>2. QED
        BY <2>1, <4>1
    <3>3. Find(shard_index(h), h) \in Nat /\ offsets[shard_index(h)] \in Nat
      BY <1>1, <1>2, <2>2, <3>2, IndexedNode, NodeType DEF TypeInv, TypeOK
    <3>4. QED
      BY <3>1, <3>3 DEF SettledCell, Logprob, NodeKnown, Published
  <2>4. n = Len(g) - 1
    <3>1. \A m \in Nat : \A k \in 1 .. m - 1 : 1 = m - k => k = m - 1
      OBVIOUS
    <3> HIDE DEF g, h
    <3>2. QED
      BY <1>3, <1>4, <1>5, <2>1, <3>1
  <2>5. QED
    BY <1>3, <2>2, <2>3, <2>4
<1>7. CASE /\ ReadLogprob(s)
           /\ logprobs[Logprob(suffix[s]).shard][Logprob(suffix[s]).node] # 0
  <2>1. Len(h) > 1 /\ InIndex(h) /\ NodeKnown(h) /\ logprobs[shard_index(h)][Find(shard_index(h), h)] # 0
    BY <1>7 DEF ReadLogprob, Logprob, InIndex, NodeKnown
  <2>2. NgramCounted(h)
    BY <1>2, <2>1, KnownWritten DEF LookupsInv
  <2>3. QED
    BY <1>3, <2>1, <2>2
<1>8. QED
  BY <1>6, <1>7 DEF Returns

\* Stop is the suffix at which a lookup returns, Passed the contexts before it.
LEMMA StopIs ==
    ASSUME NEW g \in Seq(Word), NEW n \in 1 .. Len(g) - 1,
           \A m \in 1 .. n - 1 : InIndex(Lower(g, m)) => ~ NgramCounted(Lower(g, m)),
           n = Len(g) - 1 \/ (InIndex(Lower(g, n)) /\ NgramCounted(Lower(g, n)))
    PROVE  /\ Stop(g) = Lower(g, n)
           /\ Passed(g) = {SubSeq(g, m + 1, Len(g) - 1) : m \in 1 .. n - 1}
<1> DEFINE S == {m \in 1 .. Len(g) - 1 :
                    \/ m = Len(g) - 1
                    \/ InIndex(Lower(g, m)) /\ NgramCounted(Lower(g, m))}
<1>1. Len(g) \in Nat /\ n \in Nat
  OBVIOUS
<1>2. S \in SUBSET Nat /\ n \in S
  OBVIOUS
<1>3. ASSUME NEW m \in S PROVE n <= m
  <2>1. m \in Nat
    BY <1>2
  <2>2. ~ (m < n)
    <3>1. SUFFICES ASSUME m < n PROVE FALSE
      OBVIOUS
    <3>2. m \in 1 .. n - 1 /\ m # Len(g) - 1
      BY <1>1, <3>1
    <3>3. QED
      BY <3>2
  <2>3. QED
    BY <1>1, <2>1, <2>2
<1>4. Least(S) = n
  <2> HIDE DEF S
  <2>1. QED
    BY <1>2, <1>3, LeastIs
<1>5. Stop(g) = Lower(g, Least(S))
  BY DEF Stop, Lower, InIndex, NgramCounted
<1>6. Len(Lower(g, n)) = Len(g) - n
  <2>1. n \in 0 .. Len(g) - 1
    BY <1>1
  <2>2. QED
    BY <2>1, LowerIsSuffix
<1>7. Len(g) - Len(Stop(g)) - 1 = n - 1
  BY <1>1, <1>4, <1>5, <1>6
<1>8. QED
  BY <1>4, <1>5, <1>7 DEF Passed

-----------------------------------------------------------------------------

\* A lookup that returns has the sequential value of its child.
LEMMA ReturnsSequential ==
    ASSUME LookupsInv, NEW s \in Shard, Returns(s)
    PROVE  LET g == Ngram(s, pos[s])
           IN  /\ Logprob(suffix[s]) = Logprob(Stop(g))
               /\ logbackoff[s] = {Backoff(c) : c \in {c \in Passed(g) : Has(shard_index(c), c)}}
<1> DEFINE g == Ngram(s, pos[s])
<1>1. PICK n \in 1 .. Len(g) - 1 :
          /\ AtSuffix(s, n) /\ InIndex(suffix[s])
          /\ n = Len(g) - 1 \/ NgramCounted(suffix[s])
  BY ReturnsAt
<1>2. g \in Seq(Word)
  BY ChildNgram DEF Returns, ReadUnigram, ReadLogprob, Looking, LookupsInv, PathInv,
     ProgressInv, TypeInv, TypeOK
<1>3. /\ suffix[s] = Lower(g, n) /\ logbackoff[s] = BackoffCells(g, n)
      /\ \A m \in 1 .. n - 1 : InIndex(Lower(g, m)) => ~ NgramCounted(Lower(g, m))
  BY <1>1 DEF AtSuffix, PassedOver
<1> HIDE DEF g
<1>4. /\ Stop(g) = Lower(g, n)
      /\ Passed(g) = {SubSeq(g, m + 1, Len(g) - 1) : m \in 1 .. n - 1}
  BY <1>1, <1>2, <1>3, StopIs
<1>5. QED
  BY <1>3, <1>4 DEF BackoffCells, InIndex, g

\* Every step of a thread keeps the lower-order values sequential.
LEMMA LowersStep ==
    ASSUME LookupsInv, LowersSequential, NEW s \in Shard, Thread(s)
    PROVE  LowersSequential'
<1> DEFINE Right(x, lower) ==
               LET g == Ngram(x, lower.child)
               IN  /\ lower.logprob = Logprob(Stop(g))
                   /\ lower.backoffs = {Backoff(c) : c \in
                         {c \in Passed(g) : Has(shard_index(c), c)}}
<1>1. TypeInv
  BY DEF LookupsInv, ProgressInv
<1>2. ASSUME NEW lower \in lowers[s] PROVE Right(s, lower)
  BY DEF LowersSequential
<1>3. ASSUME Returns(s), NEW lower \in lowers'[s] PROVE Right(s, lower)
  <2>1. Return(s, Logprob(suffix[s]))
    BY <1>3 DEF Returns, ReadUnigram, ReadLogprob
  <2>2. lowers'[s] = lowers[s] \union
            {[child |-> pos[s], backoffs |-> logbackoff[s], logprob |-> Logprob(suffix[s])]}
    BY <1>1, <2>1 DEF Return, TypeInv, TypeOK
  <2>3. Right(s, [child |-> pos[s], backoffs |-> logbackoff[s], logprob |-> Logprob(suffix[s])])
    BY <1>3, ReturnsSequential
  <2> HIDE DEF Right
  <2>4. QED
    BY <1>2, <1>3, <2>2, <2>3
<1>4. ASSUME ~ Returns(s) PROVE lowers'[s] = lowers[s] \/ lowers'[s] = {}
  <2>1. CASE Enter(s)
    BY <1>1, <2>1 DEF Enter, TypeInv, TypeOK
  <2>2. CASE ReadLogprob(s) \/ ReadBackoff(s) \/ ReadContext(s) \/ SkipSuffix(s) \/ ReadUnigram(s)
    BY <1>4, <2>2 DEF Returns, ReadLogprob, ReadBackoff, ReadContext, SkipSuffix, AddBackoff
  <2>3. CASE WriteLogprob(s) \/ StoreBackoff(s) \/ Rescale(s) \/ Publish(s) \/ Finish(s)
    BY <2>3 DEF WriteLogprob, StoreBackoff, Rescale, Publish, Finish
  <2>4. QED
    BY <2>1, <2>2, <2>3 DEF Thread
<1>5. \A x \in Shard : x # s => lowers'[x] = lowers[x]
  BY <1>1, OthersKeep
<1>6. ASSUME NEW x \in Shard, NEW lower \in lowers'[x] PROVE Right(x, lower)
  <2>1. CASE x # s
    BY <1>5, <1>6, <2>1 DEF LowersSequential
  <2>2. CASE x = s
    <3> HIDE DEF Right
    <3>1. QED
      BY <1>2, <1>3, <1>4, <1>6, <2>2
  <2>3. QED
    BY <2>1, <2>2
<1>7. QED
  BY <1>6 DEF LowersSequential

\* Whatever the schedule, the lower-order value of every child is made of the
\* cells that the sequential definition of the back-off names, for every
\* index, also one from which suffixes are missing.
THEOREM LowersSequentialHolds == Spec => []LowersSequential
<1>1. Init => LowersSequential
  BY DEF Init, LowersSequential
<1>2. LookupsInv /\ LowersSequential /\ [Next]_vars => LowersSequential'
  <2>1. SUFFICES ASSUME LookupsInv, LowersSequential, [Next]_vars PROVE LowersSequential'
    OBVIOUS
  <2>2. CASE \E s \in Shard : Thread(s)
    BY <2>1, <2>2, LowersStep
  <2>3. CASE UNCHANGED vars
    BY <2>1, <2>3 DEF vars, LowersSequential
  <2>4. QED
    BY <2>1, <2>2, <2>3 DEF Next
<1>3. QED
  BY LookupsInit, LookupsStep, <1>1, <1>2, PTL DEF Spec

-----------------------------------------------------------------------------

\* The n-th suffix of g is one that its value is computed from.
Needed(g, n) ==
    /\ InIndex(Lower(g, n))
    /\ \A m \in 1 .. n - 1 : InIndex(Lower(g, m)) => ~ NgramCounted(Lower(g, m))

\* All that the value of g is computed from is final.
NeedsKnown(g) == \A n \in 1 .. Len(g) - 1 : Needed(g, n) => NodeKnown(Lower(g, n))

\* All that the children of context c before node q need is final.
KnownBefore(s, c, q) ==
    \A p \in KeptChildren(s, c) : p < q => NeedsKnown(Ngram(s, p))

AllKnown(s, c) == \A p \in KeptChildren(s, c) : NeedsKnown(Ngram(s, p))

\* The children that a thread has looked up had all they need, and its frontier
\* stands at the children of the context in hand, or at those of the one before.
NeedsAt(s) ==
    /\ pc[s] \in Looking => KnownBefore(s, ctx[s], pos[s])
    /\ pc[s] \notin Looking \union AtLoopHead => AllKnown(s, ctx[s])
    /\ pc[s] \in AtLoopHead =>
          \/ offsets[s] = ChildrenFirst(s, ctx[s])
          \/ \E c \in Nat : /\ ctx[s] = c + 1 /\ offsets[s] = ChildrenFirst(s, c)
                           /\ AllKnown(s, c)

NeedsInv == \A s \in Shard : NeedsAt(s)

\* The frontiers start exactly at the children of the first bigram.
LEMMA BigramsEnd ==
    ASSUME NEW s \in Shard
    PROVE  Offset(s, 2) = ChildrenFirst(s, Offset(s, 1))
<1> DEFINE a == Offset(s, 2)
           b == ChildrenFirst(s, Offset(s, 1))
           c == Offset(s, 1)
<1>1. c \in Nat /\ a \in 0 .. Size(s) /\ Size(s) \in Nat /\ 2 \in Int /\ 1 \in Int
  BY OffsetBounds, NodeType
<1>2. b \in 0 .. Size(s) /\ b = ChildrenLast(s, c - 1) /\ c - 1 \in Int
  BY <1>1, ChildrenNodes DEF ChildrenFirst
<1>3. a <= b
  BY BigramsFirst
<1>4. ASSUME a < b PROVE FALSE
  <2>1. a \in Pos(s)
    BY <1>1, <1>2, <1>4 DEF Pos
  <2>2. Parent(s, a) <= c - 1
    BY <1>2, <1>4, <2>1, ChildrenLastBounds
  <2>3. ~ (a < a)
    BY <1>1
  <2>4. ~ (Len(Ngram(s, a)) <= 2)
    BY <1>1, <2>1, <2>3, OffsetBounds
  <2> HIDE DEF a
  <2>5. Len(Ngram(s, a)) > 2 /\ Len(Ngram(s, a)) > 1
    <3>1. \A n : n = 1 \/ n = 2 => n <= 2
      OBVIOUS
    <3>2. QED
      BY <2>1, <2>4, <3>1, NgramOrders
  <2>6. Parent(s, a) \in Pos(s) /\ Len(Ngram(s, Parent(s, a))) = Len(Ngram(s, a)) - 1
    BY <2>1, <2>5, HigherParent
  <2>7. ~ (Len(Ngram(s, Parent(s, a))) <= 1)
    <3> DEFINE m == Len(Ngram(s, a))
               n == Len(Ngram(s, Parent(s, a)))
    <3>1. m \in Int /\ n = m - 1 /\ m > 2
      BY <2>1, <2>5, <2>6, NgramLength
    <3> HIDE DEF m, n
    <3>2. ~ (n <= 1)
      BY <3>1
    <3>3. QED
      BY <3>2 DEF n
  <2>8. ~ (Parent(s, a) < c)
    BY <1>1, <2>6, <2>7, OffsetBounds
  <2>9. Parent(s, a) \in Nat
    BY <2>6, NodeType
  <2>10. QED
    BY <1>1, <2>2, <2>8, <2>9
<1>5. QED
  BY <1>1, <1>2, <1>3, <1>4

\* Nothing but the unigrams and bigrams is published at the start.
LEMMA NeedsInit == Init => NeedsInv
BY BigramsEnd DEF Init, NeedsInv, NeedsAt, Looking, AtLoopHead

\* A lookup that returns has found all that its child needs.
LEMMA ReturnKnows ==
    ASSUME LookupsInv, NEW s \in Shard, Returns(s)
    PROVE  NeedsKnown(Ngram(s, pos[s]))
<1> DEFINE g == Ngram(s, pos[s])
<1>1. PICK n \in 1 .. Len(g) - 1 :
          /\ AtSuffix(s, n) /\ InIndex(suffix[s]) /\ NodeKnown(suffix[s])
          /\ n = Len(g) - 1 \/ NgramCounted(suffix[s])
  BY ReturnsAt
<1>2. g \in Seq(Word) /\ Len(g) \in Nat
  BY ChildNgram DEF Returns, ReadUnigram, ReadLogprob, Looking, LookupsInv, PathInv,
     ProgressInv, TypeInv, TypeOK
<1>3. suffix[s] = Lower(g, n) /\ \A m \in 1 .. n - 1 : PassedOver(Lower(g, m))
  BY <1>1 DEF AtSuffix
<1> HIDE DEF g
<1>4. ASSUME NEW m \in 1 .. Len(g) - 1, Needed(g, m) PROVE NodeKnown(Lower(g, m))
  <2>1. CASE m \in 1 .. n - 1
    BY <1>3, <1>4, <2>1 DEF PassedOver, Needed
  <2>2. CASE m = n
    BY <1>1, <1>3, <2>2
  <2>3. CASE m > n
    <3>1. n \in 1 .. m - 1 /\ n # Len(g) - 1
      BY <1>1, <1>2, <2>3
    <3>2. QED
      BY <1>1, <1>3, <1>4, <3>1 DEF Needed
  <2>4. m \in 1 .. n - 1 \/ m = n \/ m > n
    BY <1>1, <1>2
  <2>5. QED
    BY <2>1, <2>2, <2>3, <2>4
<1>5. QED
  BY <1>4 DEF NeedsKnown, g

\* What is known stays known.
LEMMA NeedsStay ==
    ASSUME TypeInv, FrontierInv, NEW s \in Shard, Thread(s),
           NEW g \in Seq(Word), NeedsKnown(g)
    PROVE  NeedsKnown(g)'
<1>1. SUFFICES ASSUME NEW n \in 1 .. Len(g) - 1, Needed(g, n)
               PROVE  NodeKnown(Lower(g, n))'
  BY DEF NeedsKnown, Needed
<1>2. n \in 0 .. Len(g) - 1
  OBVIOUS
<1>3. Lower(g, n) \in Seq(Word) /\ Lower(g, n) # << >>
  BY <1>2, LowerIsSuffix
<1>4. QED
  BY <1>1, <1>3, KnownStays DEF NeedsKnown, Needed

\* What the children of a context need stays final, whatever thread moves.
LEMMA AllStays ==
    ASSUME TypeInv, FrontierInv, NEW s \in Shard, Thread(s),
           NEW x \in Shard, NEW c \in Nat
    PROVE  /\ AllKnown(x, c) => AllKnown(x, c)'
           /\ \A q : KnownBefore(x, c, q) => KnownBefore(x, c, q)'
BY ChildNgram, NeedsStay DEF AllKnown, KnownBefore

\* What the thread that takes a step knows of the children of its context.
LEMMA NeedsOwnStep ==
    ASSUME LookupsInv, NEW s \in Shard, NeedsAt(s), Thread(s)
    PROVE  NeedsAt(s)'
<1>1. TypeInv /\ FrontierInv
  BY DEF LookupsInv, ProgressInv
<1>2. PICK c \in Nat, q \in Nat : ctx[s] = c /\ pos[s] = q
  BY <1>1 DEF TypeInv, TypeOK
<1>3. /\ AllKnown(s, c) => AllKnown(s, c)'
      /\ KnownBefore(s, c, q) => KnownBefore(s, c, q)'
      /\ \A d \in Nat : AllKnown(s, d) => AllKnown(s, d)'
  BY <1>1, AllStays
<1>4. pc[s] \notin AtLoopHead => offsets[s] = ChildrenFirst(s, c)
  BY <1>1, <1>2 DEF FrontierInv
<1>5. KeptChildren(s, c) \in SUBSET Nat
  BY ChildrenOfContext
<1> USE DEF Looking, AtLoopHead
<1>6. CASE Enter(s)
  <2>1. CASE KeptChildren(s, c) = {}
    <3>1. /\ pc'[s] = "enter" /\ ctx'[s] = c + 1
          /\ offsets'[s] = ChildrenFirst(s, c)
      BY <1>1, <1>2, <1>6, <2>1 DEF Enter, NextContext, Goto, EnterOffset, TypeInv, TypeOK
    <3>2. AllKnown(s, c)'
      BY <2>1 DEF AllKnown
    <3>3. QED
      BY <3>1, <3>2 DEF NeedsAt
  <2>2. CASE KeptChildren(s, c) # {}
    <3>1. pc'[s] \in Looking
      BY <1>1, <1>2, <1>6, <2>2 DEF Enter, Goto, TypeInv, TypeOK
    <3>2. ctx'[s] = c /\ \A p \in KeptChildren(s, c) : ~ (p < pos'[s])
      BY <1>1, <1>2, <1>6, <3>1, EnterPath
    <3>3. KnownBefore(s, ctx[s], pos[s])'
      BY <3>2 DEF KnownBefore
    <3>4. QED
      BY <3>1, <3>3 DEF NeedsAt
  <2>3. QED
    BY <2>1, <2>2
<1>7. CASE Returns(s)
  <2>1. Return(s, Logprob(suffix[s])) /\ pc[s] \in Looking /\ UNCHANGED offsets
    BY <1>7 DEF Returns, ReadUnigram, ReadLogprob
  <2>2. NeedsKnown(Ngram(s, q)) /\ KnownBefore(s, c, q)
    BY <1>2, <1>7, <2>1, ReturnKnows DEF NeedsAt
  <2>3. q \in KeptChildren(s, c)
    BY <1>2, <2>1 DEF LookupsInv, PathInv
  <2>4. Ngram(s, q) \in Seq(Word)
    BY <2>3, ChildNgram
  <2>5. NeedsKnown(Ngram(s, q))' /\ KnownBefore(s, c, q)'
    BY <1>1, <1>3, <2>2, <2>4, NeedsStay
  <2>6. ASSUME NEW p \in KeptChildren(s, c), ~ (p > q) PROVE NeedsKnown(Ngram(s, p))'
    <3>1. p < q \/ p = q
      BY <1>5, <2>6
    <3>2. QED
      BY <2>5, <3>1 DEF KnownBefore
  <2>7. CASE pc'[s] \in Looking
    <3>1. ctx'[s] = c /\ \A p \in KeptChildren(s, c) : p < pos'[s] => ~ (p > q)
      BY <1>1, <1>2, <2>1, <2>7, ReturnPath
    <3>2. KnownBefore(s, ctx[s], pos[s])'
      BY <2>6, <3>1 DEF KnownBefore
    <3>3. QED
      BY <2>7, <3>2 DEF NeedsAt
  <2>8. CASE pc'[s] \notin Looking
    <3>1. /\ {p \in KeptChildren(s, c) : p > q} = {}
          /\ \/ pc'[s] = "enter" /\ ctx'[s] = c + 1
             \/ pc'[s] = "write" /\ ctx'[s] = c
      BY <1>1, <1>2, <2>1, <2>8 DEF Return, NextContext, Goto, TypeInv, TypeOK
    <3>2. AllKnown(s, c)'
      BY <2>6, <3>1 DEF AllKnown
    <3>3. offsets'[s] = ChildrenFirst(s, c)
      BY <1>4, <2>1
    <3>4. CASE pc'[s] = "enter" /\ ctx'[s] = c + 1
      BY <3>2, <3>3, <3>4 DEF NeedsAt
    <3>5. CASE pc'[s] = "write" /\ ctx'[s] = c
      BY <3>2, <3>5 DEF NeedsAt
    <3>6. QED
      BY <3>1, <3>4, <3>5
  <2>9. QED
    BY <2>7, <2>8
<1>8. CASE /\ ~ Returns(s)
           /\ \/ ReadLogprob(s) \/ ReadBackoff(s) \/ ReadContext(s)
              \/ SkipSuffix(s) \/ ReadUnigram(s)
  <2>1. pc[s] \in Looking /\ pc'[s] \in Looking /\ ctx'[s] = c /\ pos'[s] = q
    BY <1>1, <1>2, <1>8 DEF Returns, ReadLogprob, ReadBackoff, ReadContext, SkipSuffix,
       ReadUnigram, AddBackoff, Goto, TypeInv, TypeOK
  <2>2. KnownBefore(s, c, q)'
    BY <1>2, <1>3, <2>1 DEF NeedsAt
  <2>3. KnownBefore(s, ctx[s], pos[s])'
    BY <2>1, <2>2
  <2>4. QED
    BY <2>1, <2>3 DEF NeedsAt
<1>9. CASE WriteLogprob(s) \/ StoreBackoff(s) \/ Rescale(s)
  <2>1. /\ pc[s] \notin Looking \union AtLoopHead /\ pc'[s] \notin Looking \union AtLoopHead
        /\ ctx'[s] = c
    BY <1>1, <1>2, <1>9 DEF WriteLogprob, StoreBackoff, Rescale, Goto, TypeInv, TypeOK
  <2>2. AllKnown(s, c)'
    BY <1>2, <1>3, <2>1 DEF NeedsAt
  <2>3. AllKnown(s, ctx[s])'
    BY <2>1, <2>2
  <2>4. QED
    BY <2>1, <2>3 DEF NeedsAt
<1>10. CASE Publish(s)
  <2>1. /\ pc'[s] = "enter" /\ ctx'[s] = c + 1 /\ offsets'[s] = ChildrenLast(s, c)
    BY <1>1, <1>2, <1>10 DEF Publish, NextContext, Goto, DoneOffset, TypeInv, TypeOK
  <2>2. ChildrenLast(s, c) = ChildrenFirst(s, c + 1)
    BY <1>2, ChildrenNodes
  <2>3. QED
    BY <2>1, <2>2 DEF NeedsAt
<1>11. CASE Finish(s)
  <2>1. /\ pc[s] = "enter" /\ pc'[s] = "done" /\ ctx'[s] = c /\ offsets'[s] = offsets[s]
    BY <1>1, <1>2, <1>11 DEF Finish, Goto, TypeInv, TypeOK
  <2>2. \/ offsets[s] = ChildrenFirst(s, c)
        \/ \E d \in Nat : c = d + 1 /\ offsets[s] = ChildrenFirst(s, d) /\ AllKnown(s, d)
    BY <1>2, <2>1 DEF NeedsAt
  <2>3. \/ offsets[s] = ChildrenFirst(s, c)
        \/ \E d \in Nat : c = d + 1 /\ offsets[s] = ChildrenFirst(s, d) /\ AllKnown(s, d)'
    BY <1>3, <2>2
  <2>4. QED
    BY <2>1, <2>3 DEF NeedsAt
<1>12. QED
  BY <1>6, <1>7, <1>8, <1>9, <1>10, <1>11 DEF Thread

\* A step of a thread keeps this of every thread.
LEMMA NeedsStep ==
    ASSUME LookupsInv, NeedsInv, NEW s \in Shard, Thread(s)
    PROVE  NeedsInv'
<1>1. TypeInv /\ FrontierInv
  BY DEF LookupsInv, ProgressInv
<1>2. ASSUME NEW x \in Shard, x # s PROVE NeedsAt(x)'
  <2>1. offsets'[x] = offsets[x] /\ ctx'[x] = ctx[x] /\ pc'[x] = pc[x] /\ pos'[x] = pos[x]
    BY <1>1, <1>2, OthersStay
  <2>2. PICK c \in Nat, q \in Nat : ctx[x] = c /\ pos[x] = q
    BY <1>1 DEF TypeInv, TypeOK
  <2>3. /\ AllKnown(x, c) => AllKnown(x, c)'
        /\ KnownBefore(x, c, q) => KnownBefore(x, c, q)'
        /\ \A d \in Nat : AllKnown(x, d) => AllKnown(x, d)'
    BY <1>1, AllStays
  <2>4. NeedsAt(x)
    BY DEF NeedsInv
  <2>5. QED
    BY <2>1, <2>2, <2>3, <2>4 DEF NeedsAt
<1>3. QED
  BY <1>2, NeedsOwnStep DEF NeedsInv

-----------------------------------------------------------------------------

\* The nodes below the frontiers: what the refinement maps settled to.
Settled == UNION {{<<s, p>> : p \in 0 .. offsets[s] - 1} : s \in Shard}

\* The abstract specification has the same index.
LEMMA SameIndex ==
    ASSUME NEW s, NEW g, NEW n
    PROVE  /\ Estimation!Pos(s) = Pos(s)
           /\ Estimation!Ngram(s, n) = Ngram(s, n)
           /\ Estimation!Parent(s, n) = Parent(s, n)
           /\ Estimation!Offset(s, n) = Offset(s, n)
           /\ Estimation!shard_index(g) = shard_index(g)
           /\ Estimation!Has(s, g) = Has(s, g)
           /\ Estimation!Find(s, g) = Find(s, g)
           /\ Estimation!Suffix(g, n) = Lower(g, n)
           /\ Estimation!LastWord(g) = LastWord(g)
<1>1. \A x : Estimation!Pos(x) = Pos(x)
  BY DEF Estimation!Pos, Estimation!Size, Pos, Size
<1>2. \A x, p : Estimation!Ngram(x, p) = Ngram(x, p)
  BY DEF Estimation!Ngram, Ngram
<1>3. \A x, h : Estimation!Find(x, h) = Find(x, h)
  BY DEF Estimation!Find, Find, Estimation!Pos, Estimation!Size, Pos, Size, Estimation!Ngram, Ngram
<1>4. Estimation!Parents = Parents
  BY DEF Estimation!Parents, Parents, Estimation!Find, Find, Estimation!Pos, Estimation!Size,
     Pos, Size, Estimation!Ngram, Ngram, Estimation!Context, Context
<1>5. Estimation!Offset(s, n) = Offset(s, n)
  <2>1. {p \in Estimation!Pos(s) : Len(Estimation!Ngram(s, p)) <= n}
            = {p \in Pos(s) : Len(Ngram(s, p)) <= n}
    BY <1>1, <1>2
  <2>2. QED
    BY <2>1 DEF Estimation!Offset, Offset, Estimation!Cardinality, Cardinality
<1>6. Estimation!Has(s, g) = Has(s, g)
  BY <1>1, <1>2 DEF Estimation!Has, Has
<1>7. QED
  BY <1>1, <1>2, <1>3, <1>4, <1>5, <1>6 DEF Estimation!Parent, Parent, Estimation!shard_index,
     shard_index, Estimation!Suffix, Lower, Estimation!LastWord, LastWord

\* A node is settled if and only if it lies below its shard's frontier.
LEMMA SettledBelow ==
    ASSUME TypeInv, NEW x, NEW q
    PROVE  <<x, q>> \in Settled <=> x \in Shard /\ q \in Nat /\ q < offsets[x]
<1>1. \A s \in Shard : offsets[s] \in Nat
  BY DEF TypeInv, TypeOK
<1>2. \A s \in Shard : q \in 0 .. offsets[s] - 1 <=> q \in Nat /\ q < offsets[s]
  BY <1>1
<1>3. QED
  BY <1>2 DEF Settled

\* What an n-gram needs is settled once it is known.
LEMMA NeedsSettled ==
    ASSUME TypeInv, NEW g \in Seq(Word), NeedsKnown(g)
    PROVE  Estimation!Needs(g) \subseteq Settled
<1>1. SUFFICES ASSUME NEW x \in Estimation!Needs(g) PROVE x \in Settled
  OBVIOUS
<1>2. Len(g) \in Nat
  OBVIOUS
<1>3. \A h : Estimation!Has(Estimation!shard_index(h), h) <=> InIndex(h)
  BY SameIndex DEF InIndex
<1>4. \A h : /\ Estimation!Node(h)[1] = shard_index(h)
             /\ Estimation!Node(h)[2] = Find(shard_index(h), h)
             /\ Estimation!Node(h) = <<shard_index(h), Find(shard_index(h), h)>>
  BY SameIndex DEF Estimation!Node
<1>5. \A h : Estimation!Estimated(shard_index(h), Find(shard_index(h), h)) <=> NgramCounted(h)
  BY SameIndex DEF Estimation!Estimated, NgramCounted, Counted, Kept
<1>6. \A n : Estimation!Suffix(g, n) = Lower(g, n)
  BY SameIndex
<1>7. PICK n \in 1 .. Len(g) - 1 :
          /\ x = Estimation!Node(Lower(g, n))
          /\ InIndex(Lower(g, n))
          /\ \A m \in 1 .. Len(g) - 1 :
                InIndex(Lower(g, m)) /\ m < n => ~ NgramCounted(Lower(g, m))
  BY <1>1, <1>3, <1>4, <1>5, <1>6 DEF Estimation!Needs
<1>8. Needed(g, n)
  <2>1. \A m \in 1 .. n - 1 : m \in 1 .. Len(g) - 1 /\ m < n
    BY <1>2
  <2>2. QED
    BY <1>7, <2>1 DEF Needed
<1>9. NodeKnown(Lower(g, n))
  BY <1>8 DEF NeedsKnown
<1>10. Lower(g, n) \in Seq(Word) /\ Lower(g, n) # << >>
  <2>1. n \in 0 .. Len(g) - 1
    BY <1>2
  <2>2. QED
    BY <2>1, LowerIsSuffix
<1> DEFINE h == Lower(g, n)
           t == shard_index(h)
           q == Find(t, h)
<1>11. t \in Shard /\ q \in Pos(t)
  BY <1>7, <1>10, IndexedNode
<1>12. q \in Nat /\ q < offsets[t]
  <2>1. q \in Nat /\ offsets[t] \in Nat
    BY <1>11, NodeType DEF TypeInv, TypeOK
  <2>2. offsets[t] > q
    BY <1>9 DEF NodeKnown, Published
  <2> HIDE DEF q, t
  <2>3. QED
    BY <2>1, <2>2
<1>13. QED
  BY <1>4, <1>7, <1>11, <1>12, SettledBelow

\* A frontier that moves past the children of a context settles them.
LEMMA SettleStep ==
    ASSUME TypeInv, TypeInv', NEW s \in Shard, NEW c \in Nat,
           offsets[s] = ChildrenFirst(s, c), offsets'[s] = ChildrenLast(s, c),
           offsets[s] # offsets'[s],
           \A x \in Shard : x # s => offsets'[x] = offsets[x],
           AllKnown(s, c)
    PROVE  Estimation!Next
<1> DEFINE children == {p \in Pos(s) : Parent(s, p) = c}
<1>1. /\ offsets[s] \in Nat /\ offsets'[s] \in Nat
      /\ offsets[s] \in 0 .. Size(s) /\ offsets'[s] \in 0 .. Size(s) /\ Size(s) \in Nat
      /\ offsets[s] <= offsets'[s]
  <2>1. c \in Int
    OBVIOUS
  <2>2. QED
    BY <2>1, NodeType, ChildrenNodes, ChildrenLastBounds DEF TypeInv, TypeOK
<1>2. \A p \in children : p \in Children(s, c)
  BY ChildrenAll
<1>3. \A p : p \in children <=> p \in Nat /\ offsets[s] <= p /\ p < offsets'[s]
  <2>1. \A p \in Children(s, c) : p \in children
    BY ChildrenNodes
  <2>2. Children(s, c) = offsets[s] .. offsets'[s] - 1
    BY DEF Children
  <2> HIDE DEF children
  <2>3. \A p : p \in children <=> p \in offsets[s] .. offsets'[s] - 1
    BY <1>2, <2>1, <2>2
  <2>4. QED
    BY <1>1, <2>3
<1>4. offsets[s] \in children
  <2> HIDE DEF children
  <2>1. offsets[s] < offsets'[s]
    BY <1>1
  <2>2. QED
    BY <1>1, <1>3, <2>1
<1>5. c \in Pos(s)
  <2>1. PICK p \in Pos(s) : Parent(s, p) = c
    BY <1>4
  <2>2. Len(Ngram(s, p)) # 1
    BY <2>1, ParentType
  <2>3. Len(Ngram(s, p)) > 1
    BY <2>1, <2>2, NgramOrders
  <2>4. QED
    BY <2>1, <2>3, ParentType
<1>6. \A p \in children : <<s, p>> \notin Settled
  <2> HIDE DEF children
  <2>1. QED
    BY <1>1, <1>3, SettledBelow
<1>7. ASSUME NEW p \in children, LastWord(Ngram(s, p)) \notin Removed
      PROVE  Estimation!Needs(Ngram(s, p)) \subseteq Settled
  <2>1. p \in KeptChildren(s, c)
    BY <1>2, <1>7 DEF KeptChildren, Kept
  <2>2. NeedsKnown(Ngram(s, p)) /\ Ngram(s, p) \in Seq(Word)
    BY <2>1, ChildNgram DEF AllKnown
  <2>3. QED
    BY <2>2, NeedsSettled
<1>8. Settled' = Settled \union {<<s, p>> : p \in children}
  <2>1. \A x \in Shard : 0 .. offsets'[x] - 1 =
            (0 .. offsets[x] - 1) \union (IF x = s THEN children ELSE {})
    <3> HIDE DEF children
    <3>1. \A x \in Shard : x # s => 0 .. offsets'[x] - 1 = 0 .. offsets[x] - 1
      OBVIOUS
    <3>2. \A p : p \in 0 .. offsets'[s] - 1 <=> p \in 0 .. offsets[s] - 1 \/ p \in children
      BY <1>1, <1>3
    <3>3. QED
      BY <3>1, <3>2
  <2> HIDE DEF children
  <2>2. QED
    BY <2>1 DEF Settled
<1>9. Estimation!Settle(s, c)
  <2>1. {p \in Estimation!Pos(s) : Estimation!Parent(s, p) = c} = children
    BY SameIndex
  <2>2. QED
    BY <1>4, <1>6, <1>7, <1>8, <2>1, SameIndex DEF Estimation!Settle, Settled
<1>10. QED
  BY <1>5, <1>9, SameIndex DEF Estimation!Next

\* The threads that have not moved their frontiers have settled nothing.
LEMMA NothingSettled ==
    ASSUME \A s \in Shard : offsets'[s] = offsets[s]
    PROVE  Settled' = Settled
BY DEF Settled

\* The step of a thread that moves its frontier settles the children of one
\* context; every other step settles nothing.
LEMMA ThreadSettles ==
    ASSUME LookupsInv, LookupsInv', NeedsInv, NEW s \in Shard, Thread(s)
    PROVE  Estimation!Next \/ UNCHANGED Settled
<1>1. TypeInv /\ TypeInv' /\ FrontierInv /\ NeedsAt(s)
  BY DEF LookupsInv, ProgressInv, NeedsInv
<1>2. PICK c \in Nat : ctx[s] = c
  BY <1>1 DEF TypeInv, TypeOK
<1>3. \A x \in Shard : x # s => offsets'[x] = offsets[x]
  BY <1>1, OthersStay
<1>4. CASE offsets'[s] = offsets[s]
  BY <1>3, <1>4, NothingSettled
<1>5. CASE Enter(s) /\ offsets'[s] # offsets[s]
  <2>1. pc[s] \in AtLoopHead /\ offsets'[s] = ChildrenFirst(s, c)
    BY <1>1, <1>2, <1>5 DEF Enter, EnterOffset, AtLoopHead, TypeInv, TypeOK
  <2>2. PICK d \in Nat : c = d + 1 /\ offsets[s] = ChildrenFirst(s, d) /\ AllKnown(s, d)
    BY <1>1, <1>2, <1>5, <2>1 DEF NeedsAt
  <2>3. offsets'[s] = ChildrenLast(s, d)
    BY <2>1, <2>2, ChildrenNodes
  <2>4. QED
    BY <1>1, <1>3, <1>5, <2>2, <2>3, SettleStep
<1>6. CASE Publish(s) /\ offsets'[s] # offsets[s]
  <2>1. pc[s] \notin Looking \union AtLoopHead /\ offsets'[s] = ChildrenLast(s, c)
    BY <1>1, <1>2, <1>6 DEF Publish, DoneOffset, Looking, AtLoopHead, TypeInv, TypeOK
  <2>2. AllKnown(s, c) /\ offsets[s] = ChildrenFirst(s, c)
    BY <1>1, <1>2, <2>1 DEF NeedsAt, FrontierInv
  <2>3. QED
    BY <1>1, <1>3, <1>6, <2>1, <2>2, SettleStep
<1>7. ASSUME ~ Enter(s), ~ Publish(s) PROVE offsets'[s] = offsets[s]
  BY <1>7 DEF Thread, ReadLogprob, ReadBackoff, ReadContext, SkipSuffix, ReadUnigram,
     AddBackoff, Return, WriteLogprob, StoreBackoff, Rescale, Finish
<1>8. QED
  BY <1>4, <1>5, <1>6, <1>7

\* The frontiers implement the order that the estimation promises: the threads
\* make the probabilities of one context's children final at a time, and only
\* when every lower-order value they are computed from is final.
THEOREM EstimateOrderImplemented == Spec => ImplementsEstimateOrder
<1>1. Init => Estimation!Init
  <2>1. \A s : Estimation!Offset(s, 2) = Offset(s, 2)
    BY SameIndex
  <2>2. ASSUME Init, NEW s \in Shard PROVE offsets[s] = Offset(s, 2)
    BY <2>2 DEF Init
  <2>3. QED
    BY <2>1, <2>2 DEF Estimation!Init
<1>2. ASSUME LookupsInv, LookupsInv', NeedsInv, [Next]_vars
      PROVE  [Estimation!Next]_Settled
  <2>1. CASE \E s \in Shard : Thread(s)
    BY <1>2, <2>1, ThreadSettles
  <2>2. CASE UNCHANGED vars
    BY <2>2, NothingSettled DEF vars
  <2>3. QED
    BY <1>2, <2>1, <2>2 DEF Next
<1>3. LookupsInv /\ NeedsInv /\ [Next]_vars => NeedsInv'
  <2>1. SUFFICES ASSUME LookupsInv, NeedsInv, [Next]_vars PROVE NeedsInv'
    OBVIOUS
  <2>2. CASE \E s \in Shard : Thread(s)
    BY <2>1, <2>2, NeedsStep
  <2>3. CASE UNCHANGED vars
    BY <2>1, <2>3 DEF vars, NeedsInv, NeedsAt, KnownBefore, AllKnown, NeedsKnown, NodeKnown,
       Published
  <2>4. QED
    BY <2>1, <2>2, <2>3 DEF Next
<1>4. QED
  BY LookupsInit, LookupsStep, NeedsInit, <1>1, <1>2, <1>3, PTL
  DEF Spec, ImplementsEstimateOrder, Estimation!Spec, Settled
=============================================================================
