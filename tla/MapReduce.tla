----------------------------- MODULE MapReduce -----------------------------
(* The thread shape that NGramCounts::modify and NGram::bounds share        *)
(* (expgram/NGramCounts.cpp, expgram/NGram.cpp).  Every shard has a mapper  *)
(* and a reducer.  A reducer owns one bounded queue that all the mappers    *)
(* push to.  A mapper that has nothing left pushes an empty context to one  *)
(* queue after the other, and a reducer stops when it has popped as many of *)
(* them as there are mappers.                                               *)
(*                                                                          *)
(* What a mapper pushes is a function of the index, which does not change   *)
(* meanwhile, so it is a constant, and a queue holds references into it.    *)
(* The queue is utils/lockfree_list_queue.hpp taken as BoundedFifo takes    *)
(* it: a push looks at the size first, links its node later, when others    *)
(* may have linked theirs, and only then counts it.  A pop is one step: it  *)
(* discounts its node late, too, which can only delay a push.               *)
EXTENDS Integers, Sequences, FiniteSets

CONSTANTS
    Mapper,     \* the mapper threads
    Reducers,   \* the number of reducer threads, 0, 1, ...
    To,         \* To[m] is the sequence of the reducers m's messages are for
    Capacity    \* the max_size of a queue

Reducer == 0 .. Reducers - 1

ASSUME MapReduceAssumption ==
    /\ IsFiniteSet(Mapper)
    /\ Reducers \in Nat
    /\ To \in [Mapper -> Seq(Reducer)]
    /\ Capacity \in Nat \ {0}

VARIABLES
    sent,       \* sent[m]: how many messages m has pushed, empty ones included
    admitted,   \* the mappers whose push has found room
    uncounted,  \* the mappers whose push has linked a node and not counted it
    queue,      \* queue[r]: the queue of reducer r
    num_empty,  \* num_empty[r]: the empty contexts that r has popped
    stopped,    \* the reducers that have left their loop
    popped      \* history: popped[r] is what r has popped

vars == <<sent, admitted, uncounted, queue, num_empty, stopped, popped>>

-----------------------------------------------------------------------------

\* Message i of mapper m; after its To[m] come the empty contexts, in the order
\* of the reducers.
Item(m, i) == [from |-> m, index |-> i]

Total(m) == Len(To[m]) + Reducers

IsEmpty(item) == item.index > Len(To[item.from])

Target(m, i) == IF i <= Len(To[m]) THEN To[m][i] ELSE i - Len(To[m]) - 1

Init ==
    /\ sent = [m \in Mapper |-> 0]
    /\ admitted = {}
    /\ uncounted = {}
    /\ queue = [r \in Reducer |-> << >>]
    /\ num_empty = [r \in Reducer |-> 0]
    /\ stopped = {}
    /\ popped = [r \in Reducer |-> {}]

Uncounted(r) == {m \in uncounted : Target(m, sent[m]) = r}

Room(r) == Len(queue[r]) - Cardinality(Uncounted(r)) < Capacity

\* The head of __push: the queue is not full.
Admit(m) ==
    /\ m \notin admitted \union uncounted
    /\ sent[m] < Total(m)
    /\ Room(Target(m, sent[m] + 1))
    /\ admitted' = admitted \union {m}
    /\ UNCHANGED <<sent, uncounted, queue, num_empty, stopped, popped>>

\* The node is linked.
Push(m) ==
    LET i == sent[m] + 1
        r == Target(m, i)
    IN  /\ m \in admitted
        /\ sent' = [sent EXCEPT ![m] = i]
        /\ admitted' = admitted \ {m}
        /\ uncounted' = uncounted \union {m}
        /\ queue' = [queue EXCEPT ![r] = Append(@, Item(m, i))]
        /\ UNCHANGED <<num_empty, stopped, popped>>

\* The tail of __push.
Count(m) ==
    /\ m \in uncounted
    /\ uncounted' = uncounted \ {m}
    /\ UNCHANGED <<sent, admitted, queue, num_empty, stopped, popped>>

StopsOneEarly(r) == num_empty[r] + 1 >= Cardinality(Mapper)     \* faulty AllEnded

StopsOneLate(r) == num_empty[r] > Cardinality(Mapper)           \* faulty AllEnded

AllEnded(r) == num_empty[r] >= Cardinality(Mapper)

Pop(r) ==
    /\ r \notin stopped
    /\ ~ AllEnded(r)
    /\ queue[r] # << >>
    /\ LET item == Head(queue[r])
       IN  /\ num_empty' = IF IsEmpty(item) THEN [num_empty EXCEPT ![r] = @ + 1]
                                            ELSE num_empty
           /\ popped' = [popped EXCEPT ![r] = @ \union {item}]
    /\ queue' = [queue EXCEPT ![r] = Tail(@)]
    /\ UNCHANGED <<sent, admitted, uncounted, stopped>>

Stop(r) ==
    /\ r \notin stopped
    /\ AllEnded(r)
    /\ stopped' = stopped \union {r}
    /\ UNCHANGED <<sent, admitted, uncounted, queue, num_empty, popped>>

\* The joins: all the mappers, then all the reducers.
Joined ==
    /\ \A m \in Mapper : sent[m] = Total(m)
    /\ uncounted = {}
    /\ stopped = Reducer

Map(m) == Admit(m) \/ Push(m) \/ Count(m)

Reduce(r) == Pop(r) \/ Stop(r)

Next ==
    \/ \E m \in Mapper : Map(m)
    \/ \E r \in Reducer : Reduce(r)
    \/ Joined /\ UNCHANGED vars

Spec == Init /\ [][Next]_vars

-----------------------------------------------------------------------------

\* Types, and how far a queue exceeds its size: by a node for every mapper
\* but one that found the last place free at the same time.
TypeOK ==
    /\ sent \in [Mapper -> Nat]
    /\ \A m \in Mapper : sent[m] <= Total(m)
    /\ admitted \subseteq Mapper
    /\ uncounted \subseteq Mapper
    /\ queue \in [Reducer -> Seq([from : Mapper, index : Nat])]
    /\ \A r \in Reducer : Len(queue[r]) < Capacity + Cardinality(Mapper)
    /\ num_empty \in [Reducer -> 0 .. Cardinality(Mapper)]
    /\ stopped \subseteq Reducer
    /\ popped \in [Reducer -> SUBSET [from : Mapper, index : Nat]]

\* A reducer that has left its loop has had every message that was meant for
\* it, although it only counted the empty contexts; nothing is left in its
\* queue, nothing more will be pushed, and so no mapper waits there for room.
StoppedHasAll ==
    \A r \in stopped :
        /\ queue[r] = << >>
        /\ \A m \in Mapper : \A i \in 1 .. Total(m) :
              Target(m, i) = r => sent[m] >= i /\ Item(m, i) \in popped[r]
=============================================================================
