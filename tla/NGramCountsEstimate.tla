------------------------ MODULE NGramCountsEstimate ------------------------
(* Kneser-Ney estimation of the n-grams of three and more words             *)
(* (NGramCountsEstimateMapper in expgram/NGramCounts.cpp).                  *)
(*                                                                          *)
(* One thread per shard walks the contexts of its shard in node order.  For *)
(* every child of a context it needs the probability of the child with its  *)
(* first word dropped, which another thread may still be computing.  There  *)
(* is no lock: a thread publishes in offsets how far it has come, and a     *)
(* reader spins until the node it needs lies below that frontier.           *)
(*                                                                          *)
(* A probability is abstracted to the number of times its cell was written: *)
(* zero is the initial logprob_min, and any other number is a value.  The   *)
(* sum logbackoff is abstracted to the set of the cells it adds up.  The    *)
(* bounds in logbounds are left out: a thread writes only its own and none  *)
(* reads them.                                                              *)
EXTENDS NGramIndex

CONSTANTS
    Unseen,     \* the n-grams whose modified count (types) is zero
    Removed,    \* {UNK} when remove_unk is set, {} otherwise
    MaxPass     \* bound: how often one context's probabilities are rewritten

ASSUME EstimateAssumption ==
    /\ Removed \subseteq Word
    /\ MaxPass \in Nat \ {0}

VARIABLES
    offsets,    \* the frontier that each thread publishes
    logprobs,   \* logprobs[s][p]: the number of writes of the cell
    backoffs,   \* backoffs[s][p]: the same for the weights, from the start of the
                \* threads on
    pc,         \* where the thread of a shard is
    ctx,        \* pos_context, the context it works on
    pos,        \* the child it works on
    suffix,     \* first .. last in logprob_backoff
    logbackoff, \* the back-off cells added up for this child so far
    lowers,     \* the lower-order values computed for this context
    seen        \* history: every cell that logprob_backoff has read

vars == <<offsets, logprobs, backoffs, pc, ctx, pos, suffix, logbackoff,
          lowers, seen>>

-----------------------------------------------------------------------------

Least(S) == CHOOSE x \in S : \A y \in S : x <= y

Kept(s, p) == LastWord(Ngram(s, p)) \notin Removed

Counted(s, p) == Kept(s, p) /\ Ngram(s, p) \notin Unseen

KeptChildren(s, c) == {p \in Children(s, c) : Kept(s, p)}

ZeroCountKept(s, c) == KeptChildren(s, c)           \* faulty CountedChildren

CountedChildren(s, c) == {p \in Children(s, c) : Counted(s, p)}

\* The node of n-gram g; the back-off weight of a unigram is kept in shard 0.
Logprob(g) == [table |-> "logprob", shard |-> shard_index(g),
               node |-> Find(shard_index(g), g)]

Backoff(g) == [table |-> "backoff", shard |-> shard_index(g),
               node |-> Find(shard_index(g), g)]

-----------------------------------------------------------------------------

\* estimate() has done the unigrams and bigrams when the threads start.
Init ==
    /\ offsets = [s \in Shard |-> Offset(s, 2)]
    /\ logprobs = [s \in Shard |-> [p \in Pos(s) |->
          IF Len(Ngram(s, p)) = 1 \/ (Len(Ngram(s, p)) = 2 /\ Counted(s, p))
            THEN 1 ELSE 0]]
    /\ backoffs = [s \in Shard |-> [p \in Pos(s) |-> 0]]
    /\ pc = [s \in Shard |-> "enter"]
    /\ ctx = [s \in Shard |-> Offset(s, 1)]
    /\ pos = [s \in Shard |-> 0]
    /\ suffix = [s \in Shard |-> << >>]
    /\ logbackoff = [s \in Shard |-> {}]
    /\ lowers = [s \in Shard |-> {}]
    /\ seen = {}

Goto(s, label) == pc' = [pc EXCEPT ![s] = label]

NextContext(s) ==
    /\ ctx' = [ctx EXCEPT ![s] = @ + 1]
    /\ Goto(s, "enter")

StartChild(s, p) ==
    /\ pos' = [pos EXCEPT ![s] = p]
    /\ suffix' = [suffix EXCEPT ![s] = Tail(Ngram(s, p))]
    /\ logbackoff' = [logbackoff EXCEPT ![s] = {}]

\* Is node p of shard s below the frontier, so that a reader stops spinning?
SpinsOneLess(s, p) == offsets[s] >= p               \* faulty Published

SpinsOneMore(s, p) == offsets[s] > p + 1            \* faulty Published

Published(s, p) == offsets[s] > p

\* What the frontier is set to on entering a context, and when it is done.
EnterPublishesAll(s) == ChildrenLast(s, ctx[s])     \* faulty EnterOffset

EnterOffset(s) == ChildrenFirst(s, ctx[s])

DoneOffset(s) == ChildrenLast(s, ctx[s])

\* Take the next context, publishing that everything before its children is
\* done.  With nothing to estimate the loop goes on to the next context.
Enter(s) ==
    /\ pc[s] = "enter"
    /\ ctx[s] < Offset(s, Order - 1)
    /\ offsets' = [offsets EXCEPT ![s] = EnterOffset(s)]
    /\ LET kept == KeptChildren(s, ctx[s])
       IN  \/ /\ kept = {}
              /\ NextContext(s)
              /\ UNCHANGED <<pos, suffix, logbackoff, lowers>>
           \/ /\ kept # {}
              /\ StartChild(s, Least(kept))
              /\ lowers' = [lowers EXCEPT ![s] = {}]
              /\ Goto(s, "lower")
              /\ UNCHANGED ctx
    /\ UNCHANGED <<logprobs, backoffs, seen>>

\* logprob_backoff returns: record what it added up, go on to the next child,
\* or to the writes, or past a context none of whose children were counted.
Return(s, cell) ==
    LET more == {p \in KeptChildren(s, ctx[s]) : p > pos[s]}
        counted == CountedChildren(s, ctx[s])
    IN  /\ lowers' = [lowers EXCEPT ![s] = @ \union
              {[child |-> pos[s], backoffs |-> logbackoff[s], logprob |-> cell]}]
        /\ \/ /\ more # {}
              /\ StartChild(s, Least(more))
              /\ Goto(s, "lower")
              /\ UNCHANGED ctx
           \/ /\ more = {}
              /\ counted = {}
              /\ NextContext(s)
              /\ UNCHANGED <<pos, suffix, logbackoff>>
           \/ /\ more = {}
              /\ counted # {}
              /\ pos' = [pos EXCEPT ![s] = Least(counted)]
              /\ Goto(s, "write")
              /\ UNCHANGED <<ctx, suffix, logbackoff>>

\* The lower n-gram is in the index: spin until its shard's frontier is past
\* it, then read its probability.
ReadLogprob(s) ==
    LET cell == Logprob(suffix[s])
    IN  /\ pc[s] = "lower"
        /\ Len(suffix[s]) > 1
        /\ Has(shard_index(suffix[s]), suffix[s])
        /\ Published(cell.shard, cell.node)
        /\ seen' = seen \union {cell}
        /\ \/ /\ logprobs[cell.shard][cell.node] # 0
              /\ Return(s, cell)
           \/ /\ logprobs[cell.shard][cell.node] = 0
              /\ Goto(s, "backoff")
              /\ UNCHANGED <<ctx, pos, suffix, logbackoff, lowers>>
        /\ UNCHANGED <<offsets, logprobs, backoffs>>

AddBackoff(s) ==
    LET cell == Backoff(Context(suffix[s]))
    IN  /\ seen' = seen \union {cell}
        /\ logbackoff' = [logbackoff EXCEPT ![s] = @ \union {cell}]
        /\ suffix' = [suffix EXCEPT ![s] = Tail(@)]
        /\ Goto(s, "lower")
        /\ UNCHANGED <<offsets, logprobs, backoffs, ctx, pos, lowers>>

\* Its probability was never estimated: add the back-off weight of its context.
ReadBackoff(s) ==
    /\ pc[s] = "backoff"
    /\ AddBackoff(s)

\* Only its context is in the index: the weight is read without waiting.
ReadContext(s) ==
    LET home == shard_index(suffix[s])
    IN  /\ pc[s] = "lower"
        /\ Len(suffix[s]) > 1
        /\ ~ Has(home, suffix[s])
        /\ Has(home, Context(suffix[s]))
        /\ AddBackoff(s)

\* Neither is in the index.
SkipSuffix(s) ==
    LET home == shard_index(suffix[s])
    IN  /\ pc[s] = "lower"
        /\ Len(suffix[s]) > 1
        /\ ~ Has(home, suffix[s])
        /\ ~ Has(home, Context(suffix[s]))
        /\ suffix' = [suffix EXCEPT ![s] = Tail(@)]
        /\ UNCHANGED <<offsets, logprobs, backoffs, pc, ctx, pos, logbackoff,
                       lowers, seen>>

ReadUnigram(s) ==
    LET cell == Logprob(suffix[s])
    IN  /\ pc[s] = "lower"
        /\ Len(suffix[s]) = 1
        /\ seen' = seen \union {cell}
        /\ Return(s, cell)
        /\ UNCHANGED <<offsets, logprobs, backoffs>>

\* The probabilities of the children, all of them again with a larger total
\* while they sum up to one or more.  Then the back-off weight is stored, or
\* the probabilities are normalised, or neither.
WriteLogprob(s) ==
    LET counted == CountedChildren(s, ctx[s])
        more == {p \in counted : p > pos[s]}
        first == Least(counted)
    IN  /\ pc[s] = "write"
        /\ logprobs' = [logprobs EXCEPT ![s][pos[s]] = @ + 1]
        /\ \/ /\ more # {}
              /\ pos' = [pos EXCEPT ![s] = Least(more)]
              /\ UNCHANGED pc
           \/ /\ more = {}
              /\ pos' = [pos EXCEPT ![s] = first]
              /\ \/ logprobs'[s][pos[s]] < MaxPass /\ UNCHANGED pc
                 \/ \E label \in {"store", "rescale", "publish"} : Goto(s, label)
        /\ UNCHANGED <<offsets, backoffs, ctx, suffix, logbackoff, lowers, seen>>

StoreBackoff(s) ==
    /\ pc[s] = "store"
    /\ backoffs' = [backoffs EXCEPT ![s][ctx[s]] = @ + 1]
    /\ Goto(s, "publish")
    /\ UNCHANGED <<offsets, logprobs, ctx, pos, suffix, logbackoff, lowers, seen>>

Rescale(s) ==
    LET more == {p \in CountedChildren(s, ctx[s]) : p > pos[s]}
    IN  /\ pc[s] = "rescale"
        /\ logprobs' = [logprobs EXCEPT ![s][pos[s]] = @ + 1]
        /\ \/ more # {} /\ pos' = [pos EXCEPT ![s] = Least(more)] /\ UNCHANGED pc
           \/ more = {} /\ Goto(s, "publish") /\ UNCHANGED pos
        /\ UNCHANGED <<offsets, backoffs, ctx, suffix, logbackoff, lowers, seen>>

\* The children of this context are done.
Publish(s) ==
    /\ pc[s] = "publish"
    /\ offsets' = [offsets EXCEPT ![s] = DoneOffset(s)]
    /\ NextContext(s)
    /\ UNCHANGED <<logprobs, backoffs, pos, suffix, logbackoff, lowers, seen>>

Finish(s) ==
    /\ pc[s] = "enter"
    /\ ctx[s] >= Offset(s, Order - 1)
    /\ Goto(s, "done")
    /\ UNCHANGED <<offsets, logprobs, backoffs, ctx, pos, suffix, logbackoff,
                   lowers, seen>>

Thread(s) ==
    \/ Enter(s)
    \/ ReadLogprob(s)
    \/ ReadBackoff(s)
    \/ ReadContext(s)
    \/ SkipSuffix(s)
    \/ ReadUnigram(s)
    \/ WriteLogprob(s)
    \/ StoreBackoff(s)
    \/ Rescale(s)
    \/ Publish(s)
    \/ Finish(s)

\* estimate() joins all the threads.
Joined == \A s \in Shard : pc[s] = "done"

Next ==
    \/ \E s \in Shard : Thread(s)
    \/ Joined /\ UNCHANGED vars

Spec == Init /\ [][Next]_vars

FairSpec == Spec /\ \A s \in Shard : WF_vars(Thread(s))

-----------------------------------------------------------------------------

TypeOK ==
    /\ offsets \in [Shard -> Nat]
    /\ \A s \in Shard : offsets[s] <= Size(s)
    /\ DOMAIN logprobs = Shard /\ DOMAIN backoffs = Shard
    /\ \A s \in Shard : /\ logprobs[s] \in [Pos(s) -> Nat]
                        /\ backoffs[s] \in [Pos(s) -> Nat]
    /\ pc \in [Shard -> {"enter", "lower", "backoff", "write", "store",
                         "rescale", "publish", "done"}]
    /\ ctx \in [Shard -> Nat]
    /\ pos \in [Shard -> Nat]
    /\ suffix \in [Shard -> Seq(Word)]
    /\ DOMAIN logbackoff = Shard
    /\ DOMAIN lowers = Shard

Value(cell) ==
    IF cell.table = "logprob" THEN logprobs[cell.shard][cell.node]
                              ELSE backoffs[cell.shard][cell.node]

\* A value another thread has used never changes afterwards: no thread computes
\* from a probability that is still being normalised, or from a weight that is
\* written after it was read.  This is what the frontier in offsets is for.
SeenNeverWritten ==
    [][\A cell \in seen : Value(cell)' = Value(cell)]_vars

\* The suffixes of the n-gram that are in the index, longest first, end with
\* the first one that was counted; the recursion of logprob_backoff stops there.
Stop(g) ==
    LET suf(n) == SubSeq(g, n + 1, Len(g))
    IN  suf(Least({n \in 1 .. Len(g) - 1 :
            \/ n = Len(g) - 1
            \/ /\ Has(shard_index(suf(n)), suf(n))
               /\ Counted(shard_index(suf(n)), Find(shard_index(suf(n)), suf(n)))}))

\* The back-off weights passed on the way to that suffix.
Passed(g) ==
    {SubSeq(g, n + 1, Len(g) - 1) : n \in 1 .. Len(g) - Len(Stop(g)) - 1}

\* Whatever the threads interleave, the lower-order probability of a child is
\* the one the sequential definition of Kneser-Ney back-off gives: the same
\* cells are added up, in particular none is taken as "never estimated" because
\* its thread had not come so far yet.
LowersSequential ==
    \A s \in Shard : \A lower \in lowers[s] :
        LET g == Ngram(s, lower.child)
        IN  /\ lower.logprob = Logprob(Stop(g))
            /\ lower.backoffs = {Backoff(c) : c \in
                  {c \in Passed(g) : Has(shard_index(c), c)}}

\* When the threads are joined every counted n-gram has a probability, no
\* other has one, and the passes over a context left its children alike.
EstimateComplete ==
    Joined =>
        \A s \in Shard : \A p \in Pos(s) : Len(Ngram(s, p)) > 1 =>
            /\ (logprobs[s][p] > 0) = Counted(s, p)
            /\ \A q \in Pos(s) :
                  /\ Len(Ngram(s, p)) > 2
                  /\ Parent(s, q) = Parent(s, p)
                  /\ Counted(s, p) /\ Counted(s, q)
                  => logprobs[s][p] = logprobs[s][q]

\* Every thread comes to its end: no group of threads spins on each other's
\* frontiers, whatever contexts have nothing to estimate.
Termination == <>Joined

-----------------------------------------------------------------------------

Estimation == INSTANCE EstimateOrder WITH
    settled <- UNION {{<<s, p>> : p \in 0 .. offsets[s] - 1} : s \in Shard}

\* The frontiers implement the order that the estimation promises.
ImplementsEstimateOrder == Estimation!Spec
=============================================================================
