----------------------------- MODULE MCLookups -----------------------------
(* What the threads of a process share when they look n-grams up: the cache *)
(* of children, the caches of words and identifiers with the table of words, *)
(* and the lock of that table.  A behaviour is about one of them only; the  *)
(* lock has three threads and four tickets.                                 *)
EXTENDS NGramIndexCache, Vocab, RWTicket

VARIABLE
    kind        \* what the threads do: "children", "words" or "locks"

lookupVars == <<vars, vocabVars, lockVars, kind>>

\* Questions whose hashes fall on one entry of the cache: two nodes that have a
\* child with identifier 1, one of them another child as well, and a third node
\* that has no child with its identifier.
Asks(pos, high, low) == [pos |-> pos, high |-> high, low |-> low]

ThreeContexts == {Asks(7, 0, 1), Asks(7, 0, 2), Asks(8, 0, 1), Asks(9, 0, 4)}

ThreeContextsChild ==
    [q \in ThreeContexts |-> IF q = Asks(9, 0, 4) THEN NoChild ELSE 10 * q.pos + q.low]

\* "a" and "b" were inserted twice and are in one bin; "x" is unknown.
LookupVocabulary == <<"a", "b", "a", "b", "<unk>">>

LookupSpellings == {"a", "x"}

LookupBin == [k \in {"a", "b", "x", "<unk>"} |-> IF k \in {"a", "b"} THEN 0 ELSE 1]

\* In the table of the process, bins are added for the third and fourth word,
\* and a piece of memory for the fourth.
LookupHash == [k \in {"", "a", "b", "x", "<unk>"} |-> IF k \in {"a", "x"} THEN 2 ELSE 3]

LookupInit ==
    /\ kind \in {"children", "words", "locks"}
    /\ Init
    /\ kind # "children" => asked = CHOOSE f \in [Thread -> Questions] : TRUE
    /\ VocabInit
    /\ LockInit

Children == kind = "children" /\ Next /\ UNCHANGED <<vocabVars, lockVars, kind>>

Words == kind = "words" /\ VocabNext /\ UNCHANGED <<vars, lockVars, kind>>

OfLock(t, action) == kind = "locks" /\ action /\ UNCHANGED <<vars, vocabVars, kind>>

Locks == \E t \in Locker : OfLock(t, AskLock(t) \/ Proceed(t))

\* A thread goes on with what it asked of the lock; it need not ask.
LookupSpec ==
    /\ LookupInit
    /\ [][Children \/ Words \/ Locks]_lookupVars
    /\ \A t \in Locker : WF_lookupVars(OfLock(t, Proceed(t)))
=============================================================================
