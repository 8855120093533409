---------------------------- MODULE BoundedFifo ----------------------------
(* What the pipelines of expgram rely on in utils/lockfree_list_queue.hpp:  *)
(* a queue that hands every value to one thread, oldest first, and that     *)
(* exceeds its size by less than the number of threads that push.  A push   *)
(* looks at the size, then links its node, then counts it.                  *)
EXTENDS Integers, Sequences, FiniteSets

CONSTANTS
    Thread,     \* the threads that push and pop
    Value,
    Capacity    \* max_size

VARIABLES
    queue,      \* the values, oldest first
    admitted,   \* the threads whose push has found room
    uncounted,  \* the threads whose push has linked its node, but not counted it
    taken       \* taken[t]: the values that t has popped, in order

Init ==
    /\ queue = << >>
    /\ admitted = {}
    /\ uncounted = {}
    /\ taken = [t \in Thread |-> << >>]

Admit(t) ==
    /\ t \notin admitted \union uncounted
    /\ Len(queue) - Cardinality(uncounted) < Capacity
    /\ admitted' = admitted \union {t}
    /\ UNCHANGED <<queue, uncounted, taken>>

Link(t) ==
    /\ t \in admitted
    /\ \E v \in Value : queue' = Append(queue, v)
    /\ admitted' = admitted \ {t}
    /\ uncounted' = uncounted \union {t}
    /\ UNCHANGED taken

Count(t) ==
    /\ t \in uncounted
    /\ uncounted' = uncounted \ {t}
    /\ UNCHANGED <<queue, admitted, taken>>

Pop(t) ==
    /\ queue # << >>
    /\ queue' = Tail(queue)
    /\ taken' = [taken EXCEPT ![t] = Append(@, Head(queue))]
    /\ UNCHANGED <<admitted, uncounted>>

Next == \E t \in Thread : Admit(t) \/ Link(t) \/ Count(t) \/ Pop(t)

vars == <<queue, admitted, uncounted, taken>>

Spec == Init /\ [][Next]_vars
=============================================================================
