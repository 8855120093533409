------------------------- MODULE LockfreeListQueue -------------------------
(* The lock-free queue of utils/lockfree_list_queue.hpp: a linked list with *)
(* a load-linked/store-conditional on its head and on its tail, made of     *)
(* compare-and-swaps.                                                       *)
(*                                                                          *)
(* Each of head and tail has two pointers and an entry of a version and a   *)
(* count.  The version tells which pointer is current.  ll_op counts itself *)
(* in the entry; sc_op puts the next node in the other pointer, moves the   *)
(* version on, and transfers the count of the old version to the exit of    *)
(* the old node, from which every ll_op discounts itself.  A node is freed  *)
(* when head and tail have both passed it, none of their readers is left,   *)
(* its predecessor is no longer looked at through it, and its value has     *)
(* been taken.                                                              *)
(*                                                                          *)
(* A loop that repeats a compare-and-swap until it succeeds is one step.    *)
(* Where a step finds a node freeable it is freed at once, which is sooner  *)
(* than in the code.                                                        *)
EXTENDS Integers, Sequences, FiniteSets

CONSTANTS
    Producer, Consumer, \* the threads that push and those that pop
    Work,               \* what the threads may be asked to do: how many values
                        \* each producer pushes, and which consumers pop
    MaxSize,            \* max_size
    Node,               \* the memory: bounds the nodes in use at a time
    Node0, Node1,       \* node_init0 and node_init1
    Null,
    CountWidth          \* the counts of entries and exits are modulo this

ASSUME QueueAssumption ==
    /\ {Node0, Node1} \subseteq Node /\ Node0 # Node1
    /\ Null \notin Node
    /\ Producer \intersect Consumer = {}
    /\ IsFiniteSet(Producer) /\ IsFiniteSet(Consumer)
    /\ Work \subseteq [pushes : [Producer -> Nat], pops : SUBSET Consumer]
    /\ MaxSize \in Nat \ {0}
    /\ CountWidth \in Nat
    /\ CountWidth > Cardinality(Producer \union Consumer)

Thread == Producer \union Consumer

VARIABLES
    llsc,       \* head and tail: ptr[0], ptr[1] and the entry
    next, pred, exit, value,    \* the fields of the nodes
    free,       \* the memory that holds no node
    size,       \* __size
    pc,
    local,      \* local_data of a thread
    mine,       \* the node that a push links
    target,     \* the node that sc_op sets
    won,        \* the push has linked its node, or sc_op of the pop succeeded
    moved,      \* the count that transfer_op adds
    before,     \* node_pred of release_op
    work,       \* what the threads do this time
    linked,     \* how many values a producer has linked
    out         \* the values that a consumer has popped

memory == <<next, pred, exit, value, free>>
threads == <<local, mine, target, won, moved, before>>
queueVars == <<llsc, next, pred, exit, value, free, size, pc, local, mine, target,
          won, moved, before, work, linked, out>>

-----------------------------------------------------------------------------

NewExit == [count |-> 0, transfers_left |-> 2, nl_p |-> FALSE, to_be_freed |-> FALSE]

Clean(e) == e.count = 0 /\ e.transfers_left = 0

Unlinked(e) == Clean(e) /\ e.to_be_freed            \* faulty Freeable

Freeable(e) == Clean(e) /\ e.nl_p /\ e.to_be_freed

\* A producer works on the tail, a consumer on the head.
Side(t) == IF t \in Producer THEN "tail" ELSE "head"

Current(x) == llsc[x].ptr[llsc[x].version % 2]

NonCurrent(version) == (version + 1) % 2

QueueInit ==
    /\ llsc = [x \in {"head", "tail"} |->
          [ptr |-> [i \in 0 .. 1 |-> IF i = 0 THEN Node0 ELSE Node1],
           version |-> 0, count |-> 0]]
    /\ next = [n \in Node |-> Null]
    /\ pred = [n \in Node |-> IF n = Node0 THEN Node1 ELSE Null]
    /\ exit = [n \in Node |-> IF n = Node1 THEN [NewExit EXCEPT !.transfers_left = 0]
                                           ELSE NewExit]
    /\ value = [n \in Node |-> Null]
    /\ free = Node \ {Node0, Node1}
    /\ size = 0
    /\ pc = [t \in Thread |-> "idle"]
    /\ local = [t \in Thread |-> [node |-> Null, version |-> 0]]
    /\ mine = [t \in Thread |-> Null]
    /\ target = [t \in Thread |-> Null]
    /\ won = [t \in Thread |-> FALSE]
    /\ moved = [t \in Thread |-> 0]
    /\ before = [t \in Thread |-> Null]
    /\ work \in Work
    /\ linked = [t \in Producer |-> 0]
    /\ out = [t \in Consumer |-> << >>]

Goto(t, label) == pc' = [pc EXCEPT ![t] = label]

\* Memory given back keeps nothing: node n now has exit word e.
Store(n, e) ==
    IF Freeable(e)
      THEN /\ free' = free \union {n}
           /\ next' = [next EXCEPT ![n] = Null]
           /\ pred' = [pred EXCEPT ![n] = Null]
           /\ exit' = [exit EXCEPT ![n] = NewExit]
           /\ value' = [value EXCEPT ![n] = Null]
      ELSE /\ exit' = [exit EXCEPT ![n] = e]
           /\ UNCHANGED <<next, pred, value, free>>

\* ll_op: the entry is counted up only if it is as it was read.
LL(t) ==
    LET x == Side(t)
    IN  /\ local' = [local EXCEPT ![t] =
               [node |-> Current(x), version |-> llsc[x].version]]
        /\ llsc' = [llsc EXCEPT ![x].count = (@ + 1) % CountWidth]

-----------------------------------------------------------------------------
(* sc_op.                                                                   *)

AnyPred(t) == TRUE                                  \* faulty Expected

\* The other pointer is still that to the predecessor of the node.
Expected(t) ==
    llsc[Side(t)].ptr[NonCurrent(local[t].version)] = pred[local[t].node]

\* Put the next node in the other pointer.  A pop succeeds if this did.
Swing(t) ==
    LET other == NonCurrent(local[t].version)
    IN  /\ pc[t] = "swing"
        /\ llsc' = IF Expected(t) THEN [llsc EXCEPT ![Side(t)].ptr[other] = target[t]]
                                  ELSE llsc
        /\ won' = IF t \in Consumer THEN [won EXCEPT ![t] = Expected(t)] ELSE won
        /\ Goto(t, "advance")
        /\ UNCHANGED <<memory, size, local, mine, target, moved, before, linked, out>>

\* Move the version on, if nobody has.
Advance(t) ==
    LET x == Side(t)
    IN  /\ pc[t] = "advance"
        /\ llsc[x].version = local[t].version
        /\ llsc' = [llsc EXCEPT ![x].version = @ + 1, ![x].count = 0]
        /\ moved' = [moved EXCEPT ![t] = llsc[x].count]
        /\ Goto(t, "transfer")
        /\ UNCHANGED <<memory, size, local, mine, target, won, before, linked, out>>

Advanced(t) ==
    /\ pc[t] = "advance"
    /\ llsc[Side(t)].version # local[t].version
    /\ Goto(t, "release")
    /\ UNCHANGED <<llsc, memory, size, threads, linked, out>>

Transfer(t) ==
    LET n == local[t].node
    IN  /\ pc[t] = "transfer"
        /\ exit' = [exit EXCEPT ![n].count = (@ + moved[t]) % CountWidth,
                                ![n].transfers_left = @ - 1]
        /\ moved' = [moved EXCEPT ![t] = 0]
        /\ Goto(t, "release")
        /\ UNCHANGED <<llsc, next, pred, value, free, size, local, mine, target,
                       won, before, linked, out>>

\* Where a thread goes on when it has released its node.
AfterRelease(t) ==
    CASE t \in Producer /\ won[t] -> "count"
      [] t \in Producer /\ ~ won[t] -> "again"
      [] t \in Consumer /\ won[t] -> "take"
      [] t \in Consumer /\ ~ won[t] /\ target[t] # Null -> "again"
      [] OTHER -> "idle"

Release(t) ==
    LET n == local[t].node
        e == [exit[n] EXCEPT !.count = (@ - 1) % CountWidth]
    IN  /\ pc[t] = "release"
        /\ Store(n, e)
        /\ \/ /\ Clean(e)
              /\ before' = [before EXCEPT ![t] = pred[n]]
              /\ Goto(t, "set_nl")
           \/ /\ ~ Clean(e)
              /\ Goto(t, AfterRelease(t))
              /\ UNCHANGED before
        /\ local' = [local EXCEPT ![t] = [node |-> Null, version |-> 0]]
        /\ UNCHANGED <<llsc, size, mine, target, won, moved, linked, out>>

NotMarked(t) == exit[before[t]]                      \* faulty NlPred

NlPred(t) == [exit[before[t]] EXCEPT !.nl_p = TRUE]

SetNlPred(t) ==
    /\ pc[t] = "set_nl"
    /\ Store(before[t], NlPred(t))
    /\ before' = [before EXCEPT ![t] = Null]
    /\ Goto(t, AfterRelease(t))
    /\ UNCHANGED <<llsc, size, local, mine, target, won, moved, linked, out>>

-----------------------------------------------------------------------------
(* __push.                                                                  *)

\* A size below zero is a large unsigned number.
Room == size >= 0 /\ size < MaxSize

StartPush(t) ==
    /\ pc[t] = "idle"
    /\ linked[t] < work.pushes[t]
    /\ Room
    /\ Goto(t, "allocate")
    /\ UNCHANGED <<llsc, memory, size, threads, linked, out>>

\* The new node, and ll_op.
Allocate(t) ==
    /\ pc[t] = "allocate"
    /\ \E n \in free :
          /\ mine' = [mine EXCEPT ![t] = n]
          /\ value' = [value EXCEPT ![n] = <<t, linked[t] + 1>>]
          /\ free' = free \ {n}
    /\ LL(t)
    /\ Goto(t, "link")
    /\ UNCHANGED <<next, pred, exit, size, target, won, moved, before, linked, out>>

TailAgain(t) ==
    /\ t \in Producer
    /\ pc[t] = "again"
    /\ LL(t)
    /\ target' = [target EXCEPT ![t] = Null]
    /\ Goto(t, "link")
    /\ UNCHANGED <<memory, size, mine, won, moved, before, linked, out>>

\* Append the node; if another one is there, help the tail on to it.
Link(t) ==
    LET last == local[t].node
    IN  /\ pc[t] = "link"
        /\ pred' = [pred EXCEPT ![mine[t]] = last]
        /\ \/ /\ next[last] = Null
              /\ next' = [next EXCEPT ![last] = mine[t]]
              /\ target' = [target EXCEPT ![t] = mine[t]]
              /\ won' = [won EXCEPT ![t] = TRUE]
              /\ linked' = [linked EXCEPT ![t] = @ + 1]
           \/ /\ next[last] # Null
              /\ target' = [target EXCEPT ![t] = next[last]]
              /\ UNCHANGED <<next, won, linked>>
        /\ Goto(t, "swing")
        /\ UNCHANGED <<llsc, exit, value, free, size, local, mine, moved, before, out>>

Return(t) ==
    /\ Goto(t, "idle")
    /\ mine' = [mine EXCEPT ![t] = Null]
    /\ target' = [target EXCEPT ![t] = Null]
    /\ won' = [won EXCEPT ![t] = FALSE]

Count(t) ==
    /\ pc[t] = "count"
    /\ size' = size + 1
    /\ Return(t)
    /\ UNCHANGED <<llsc, memory, local, moved, before, linked, out>>

-----------------------------------------------------------------------------
(* __pop.                                                                   *)

StartPop(t) ==
    /\ t \in work.pops
    /\ pc[t] \in {"idle", "again"}
    /\ LL(t)
    /\ target' = [target EXCEPT ![t] = Null]
    /\ Goto(t, "peek")
    /\ UNCHANGED <<memory, size, mine, won, moved, before, linked, out>>

\* The head is the tail's node, and the tail may lag behind.  (faulty Following)
BeforeTail(t) ==
    IF local[t].node = Current("tail") THEN Null ELSE next[local[t].node]

Following(t) == next[local[t].node]

\* Without a next node the pop releases what it has read and returns false.
Peek(t) ==
    LET first == Following(t)
    IN  /\ pc[t] = "peek"
        /\ target' = [target EXCEPT ![t] = first]
        /\ Goto(t, IF first = Null THEN "release" ELSE "swing")
        /\ UNCHANGED <<llsc, memory, size, local, mine, won, moved, before, linked, out>>

\* Assign the value, and mark its node.
Take(t) ==
    LET n == target[t]
    IN  /\ pc[t] = "take"
        /\ out' = [out EXCEPT ![t] = Append(@, value[n])]
        /\ Store(n, [exit[n] EXCEPT !.to_be_freed = TRUE])
        /\ Goto(t, "discount")
        /\ won' = [won EXCEPT ![t] = FALSE]
        /\ target' = [target EXCEPT ![t] = Null]
        /\ UNCHANGED <<llsc, size, local, mine, moved, before, linked>>

Discount(t) ==
    /\ pc[t] = "discount"
    /\ size' = size - 1
    /\ Return(t)
    /\ UNCHANGED <<llsc, memory, local, moved, before, linked, out>>

-----------------------------------------------------------------------------

StoreConditional(t) ==
    Swing(t) \/ Advance(t) \/ Advanced(t) \/ Transfer(t) \/ Release(t) \/ SetNlPred(t)

Push(t) == StartPush(t) \/ Allocate(t) \/ TailAgain(t) \/ Link(t) \/ Count(t)

Pop(t) == StartPop(t) \/ Peek(t) \/ Take(t) \/ Discount(t)

QueueNext ==
    /\ \/ \E t \in Producer : Push(t) \/ StoreConditional(t)
       \/ \E t \in Consumer : Pop(t) \/ StoreConditional(t)
    /\ UNCHANGED work

QueueSpec == QueueInit /\ [][QueueNext]_queueVars

-----------------------------------------------------------------------------

\* The nodes that the next step of a thread reads or writes.
Touched(t) ==
    CASE pc[t] \in {"swing", "transfer", "release", "peek"} -> {local[t].node}
      [] pc[t] = "link" -> {local[t].node, mine[t]}
      [] pc[t] = "set_nl" -> {before[t]}
      [] pc[t] = "take" -> {target[t]}
      [] OTHER -> {}

\* No thread reads or writes a node that has been freed, nor frees it again,
\* however long ago it loaded the pointer, and although memory is used again.
NeverTouchesFreed == \A t \in Thread : Touched(t) \intersect free = {}

\* The nodes behind n.
Behind[n \in Node] ==
    IF next[n] = Null THEN << >> ELSE <<next[n]>> \o Behind[next[n]]

\* The pop that put its node in the other pointer has taken its value.
First ==
    LET other == llsc["head"].ptr[NonCurrent(llsc["head"].version)]
    IN  IF other = pred[Current("head")] THEN Current("head") ELSE other

Contents == [i \in DOMAIN Behind[First] |-> value[Behind[First][i]]]

\* When all the threads are outside of the queue, what is allocated is what
\* the queue holds and what its destructor frees: no node is lost.
NothingLost ==
    (\A t \in Thread : pc[t] = "idle") =>
        Node \ free = {Node0, Node1} \union {llsc["head"].ptr[i] : i \in 0 .. 1}
                      \union {Behind[Current("head")][i] :
                                 i \in DOMAIN Behind[Current("head")]}

\* A node is freed when it may be, neither sooner nor never.
MemoryKept == NeverTouchesFreed /\ NothingLost

\* A pop returns false only if the queue was empty at some time during it.
FalseOnlyIfEmpty ==
    [][\A t \in Consumer :
          pc[t] = "peek" /\ pc'[t] = "release" => Contents = << >>]_queueVars

Fifo == INSTANCE BoundedFifo WITH
    Value <- UNION {{p} \X (1 .. w.pushes[p]) : p \in Producer, w \in Work},
    queue <- Contents,
    Capacity <- MaxSize,
    admitted <- {t \in Producer : pc[t] # "idle" /\ ~ won[t]},
    uncounted <- {t \in Producer : won[t]},
    taken <- [t \in Thread |->
        CASE t \in Producer -> << >>
          [] t \in Consumer /\ won[t] -> Append(out[t], value[target[t]])
          [] OTHER -> out[t]]

\* Whatever the threads do, it is a queue: every value goes to one consumer, in
\* the order in which they were linked, the size is kept as promised, and a pop
\* that gets nothing has found nothing.
ImplementsFifo == Fifo!Spec /\ FalseOnlyIfEmpty
=============================================================================
