-------------------------- MODULE NGramCountsDump --------------------------
(* Printing the counts (NGramCounts::dump with its mapper in                *)
(* expgram/NGramCounts.cpp), here after they were modified: what is printed *)
(* are the counts of the corpus.  A thread for each shard walks the shard   *)
(* and pushes its contexts with the words that were counted behind them to  *)
(* a queue of its own.  The program prints the unigrams, merges the queues  *)
(* and prints context by context.  It waits for the one queue that it took  *)
(* from last.                                                               *)
(*                                                                          *)
(* A queue has one producer, so that a push is one step, as in              *)
(* NGramCountsIndex.                                                        *)
EXTENDS NGramCountsModify

VARIABLES
    phase,      \* what the program does: "modify" or "dump"
    dumped,     \* dumped[s]: how many messages the thread of s has pushed
    contexts,   \* contexts[s]: its queue
    awaited,    \* the shards whose next message the program waits for, in order
    pqueue,     \* the contexts that wait to be printed, with their shards
    lines       \* what is printed

dumpVars == <<dumped, contexts, awaited, pqueue, lines>>

allVars == <<modifyVars, phase, dumpVars>>

-----------------------------------------------------------------------------
(* The threads of the shards.                                               *)

\* A word and its count are kept if it was counted.
Line(s, p) == [ngram |-> Ngram(s, p), count |-> counts[s][p]]

Printed(line) == line.count > 0

Positions(first, size) == [i \in 1 .. size |-> first + i - 1]

LinesAt(s, positions) ==
    SelectSeq([i \in DOMAIN positions |-> Line(s, positions[i])], Printed)

\* The message for a node: its n-gram and the lines of its children.
Followed(s, p) ==
    [context |-> Ngram(s, p),
     words |-> LinesAt(s, Positions(ChildrenFirst(s, p), Cardinality(Children(s, p))))]

\* The nodes that have children, order by order.
Contexts(s) ==
    LET Parental(p) == Children(s, p) # {}
        parents == SelectSeq(Positions(0, position_size(s)), Parental)
    IN  [i \in DOMAIN parents |-> Followed(s, parents[i])]

End == [context |-> << >>, words |-> << >>]

Unended == [s \in Shard |-> Contexts(s)]            \* faulty Dump

Dump == [s \in Shard |-> Append(Contexts(s), End)]

PushContext(s) ==
    /\ phase = "dump"
    /\ dumped[s] < Len(Dump[s])
    /\ Len(contexts[s]) < Capacity
    /\ dumped' = [dumped EXCEPT ![s] = @ + 1]
    /\ contexts' = [contexts EXCEPT ![s] = Append(@, Dump[s][dumped[s] + 1])]
    /\ UNCHANGED <<modifyVars, phase, awaited, pqueue, lines>>

-----------------------------------------------------------------------------
(* The program.                                                             *)

\* The next message of the queue that is awaited; an empty context ends it.
PopContext ==
    /\ awaited # << >>
    /\ LET s == Head(awaited)
           message == Head(contexts[s])
       IN  /\ contexts[s] # << >>
           /\ contexts' = [contexts EXCEPT ![s] = Tail(@)]
           /\ pqueue' = IF message.context = << >> THEN pqueue
                           ELSE pqueue \union {[shard |-> s, message |-> message]}
    /\ awaited' = Tail(awaited)
    /\ UNCHANGED <<modifyVars, phase, dumped, lines>>

OfAnyLength(g, h) ==                                \* faulty Sooner
    Before(g, h) \/ IsStrictPrefix(g, h)

\* The shorter context first, and contexts of one length by identifiers.
Sooner(g, h) == Len(g) < Len(h) \/ (Len(g) = Len(h) /\ Before(g, h))

\* Of equal contexts from different shards either one may be the first.
PrintContext ==
    /\ awaited = << >>
    /\ \E top \in pqueue :
          /\ \A other \in pqueue : ~ Sooner(other.message.context, top.message.context)
          /\ pqueue' = pqueue \ {top}
          /\ lines' = lines \o top.message.words
          /\ awaited' = <<top.shard>>
    /\ UNCHANGED <<modifyVars, phase, dumped, contexts>>

DumpInit ==
    /\ ModifyInit
    /\ phase = "modify"
    /\ dumped = [s \in Shard |-> 0]
    /\ contexts = [s \in Shard |-> << >>]
    /\ awaited = << >>
    /\ pqueue = {}
    /\ lines = << >>

Modifying(step) == phase = "modify" /\ step /\ UNCHANGED <<phase, dumpVars>>

\* Threads are started and the unigrams printed; then the first message of
\* each queue is awaited, one queue after the other.
Open ==
    /\ phase = "modify"
    /\ Joined
    /\ phase' = "dump"
    /\ lines' = LinesAt(0, Positions(0, Offset(0, 1)))
    /\ awaited' = Positions(0, Cardinality(Shard))
    /\ UNCHANGED <<modifyVars, dumped, contexts, pqueue>>

\* The heap is empty; the program does not look at the threads again.
Dumped == phase = "dump" /\ awaited = << >> /\ pqueue = {}

DumpingNext ==
    \/ Open
    \/ \E s \in Shard : PushContext(s)
    \/ PopContext
    \/ PrintContext
    \/ Dumped /\ UNCHANGED allVars

-----------------------------------------------------------------------------

\* What must be printed: every n-gram that was counted, a unigram by shard 0.
Counted ==
    UNION {{Line(s, p) : p \in {p \in Pos(s) :
        counts[s][p] > 0 /\ (s = 0 \/ p >= Offset(s, 1))}} : s \in Shard}

\* Lines of one context from two shards are not merged: only bigrams have such.
InOrder(g, h) ==
    \/ Len(g) = 2 /\ Len(h) = 2 /\ g[1] = h[1]
    \/ Sooner(g, h)

\* However the threads interleave, the lines come out sorted by length and by
\* identifiers (with the second words of bigrams sorted in each shard only),
\* although the program compares no more than one context of each shard; and
\* at the end each n-gram that was counted has been printed once.
DumpRight ==
    /\ \A i, j \in DOMAIN lines : i < j => InOrder(lines[i].ngram, lines[j].ngram)
    /\ Dumped => Range(lines) = Counted /\ IsInjective(lines)
=============================================================================
