---------------------- MODULE LockfreeListQueue_proofs ----------------------
(* The lock-free queue, for any number of threads, any memory and any work: *)
(* no thread reads or writes a node that was freed; it implements a bounded *)
(* queue; a pop returns false only if it was empty; and no node is lost.    *)
EXTENDS LockfreeListQueue, FiniteSetTheorems, WellFoundedInduction, TLAPS

Sides == {"head", "tail"}

\* Where a thread holds the node that its ll_op has read.
Reading == {"link", "peek", "swing", "advance", "transfer", "release"}

\* The nodes that are allocated and not linked yet.
Private == {mine[t] : t \in {t \in Producer : ~ won[t] /\ mine[t] # Null}}

InList == Node \ (free \union Private)

Readers(n) == {t \in Thread : local[t].node = n}

\* A side that has not passed node n, or whose count of it is not transferred.
Transferring(x, n) == \E t \in Thread : Side(t) = x /\ pc[t] = "transfer" /\ local[t].node = n

Open(i, x, n) == llsc[x].version <= i[n] \/ Transferring(x, n)

Other(x) == llsc[x].ptr[NonCurrent(llsc[x].version)]

Ends == [ptr : [0 .. 1 -> Node], version : Nat, count : 0 .. CountWidth - 1]

Exits == [count : 0 .. CountWidth - 1, transfers_left : Int, nl_p : BOOLEAN, to_be_freed : BOOLEAN]

QueueTypeOK ==
    /\ llsc \in [Sides -> Ends]
    /\ next \in [Node -> Node \union {Null}]
    /\ pred \in [Node -> Node \union {Null}]
    /\ exit \in [Node -> Exits]
    /\ free \subseteq Node
    /\ local \in [Thread -> [node : Node \union {Null}, version : Nat]]
    /\ mine \in [Thread -> Node \union {Null}]
    /\ target \in [Thread -> Node \union {Null}]
    /\ won \in [Thread -> BOOLEAN]
    /\ moved \in [Thread -> 0 .. CountWidth - 1]
    /\ before \in [Thread -> Node \union {Null}]
    /\ DOMAIN pc = Thread

\* What a thread holds at its place.
PlacesOK ==
    /\ \A t \in Producer :
          /\ pc[t] \in {"idle", "allocate", "link", "swing", "advance", "transfer", "release",
                        "set_nl", "count", "again"}
          /\ pc[t] \in {"idle", "allocate"} <=> mine[t] = Null
          /\ pc[t] \in {"idle", "allocate", "link", "again"} => ~ won[t]
          /\ pc[t] = "count" => won[t]
    /\ \A t \in Consumer :
          /\ pc[t] \in {"idle", "peek", "swing", "advance", "transfer", "release",
                        "set_nl", "take", "discount", "again"}
          /\ won[t] => pc[t] \in {"advance", "transfer", "release", "set_nl", "take"}
          /\ pc[t] = "take" => won[t]
    /\ \A t \in Thread :
          /\ local[t].node # Null <=> pc[t] \in Reading
          /\ before[t] # Null <=> pc[t] = "set_nl"

\* Nodes outside of the list have nothing in them; two pushes do not share one.
PrivateOK ==
    /\ \A t \in Producer : ~ won[t] /\ mine[t] # Null =>
          mine[t] \notin free /\ next[mine[t]] = Null /\ exit[mine[t]] = NewExit
    /\ \A t, u \in Producer :
          ~ won[t] /\ ~ won[u] /\ mine[t] # Null /\ mine[u] = mine[t] => t = u
    /\ \A n \in free : next[n] = Null /\ exit[n] = NewExit

\* The nodes are numbered in the order of the list, and what is in front of a
\* side is linked.
IndexedOK(i) ==
    /\ i \in [Node -> Int]
    /\ \A m, n \in InList : i[m] = i[n] => m = n
    /\ \A n \in InList : next[n] = Null /\ i[n] >= 0 => \A m \in InList : i[m] <= i[n]
    /\ \A n \in InList, x \in Sides :
          next[n] # Null /\ llsc[x].version <= i[n] + 1 =>
              next[n] \in InList /\ i[next[n]] = i[n] + 1

\* The version of a side is the number of its node.  Its other pointer is to
\* the node before or, if sc_op was begun, to the next one.
PointersOK(i) ==
    \A x \in Sides :
        /\ Current(x) \in InList
        /\ i[Current(x)] = llsc[x].version
        /\ Other(x) = pred[Current(x)] \/ (Other(x) \in InList /\ i[Other(x)] = llsc[x].version + 1)

\* What a thread has read, and what it will set if nobody has been faster.
HeldOK(i) ==
    /\ \A t \in Thread : pc[t] \in Reading =>
          /\ local[t].node \in InList
          /\ i[local[t].node] = local[t].version
          /\ local[t].version <= llsc[Side(t)].version
    /\ \A t \in Thread : pc[t] = "transfer" => local[t].version < llsc[Side(t)].version
    /\ \A t, u \in Thread :
          /\ pc[t] = "transfer"
          /\ pc[u] = "transfer"
          /\ local[t].node = local[u].node
          /\ Side(t) = Side(u)
          => t = u
    /\ \A t \in Thread :
          pc[t] = "swing" /\ llsc[Side(t)].version = local[t].version =>
              target[t] \in InList /\ i[target[t]] = local[t].version + 1
    /\ \A t \in Thread :
          pc[t] = "advance" /\ llsc[Side(t)].version = local[t].version =>
              Other(Side(t)) \in InList /\ i[Other(Side(t))] = local[t].version + 1

\* The count of each side that is due to be transferred to a node.
DueOK(i, due) ==
    /\ due \in [Sides -> [Node -> 0 .. CountWidth - 1]]
    /\ \A n \in InList, x \in Sides :
          /\ llsc[x].version = i[n] => due[x][n] = llsc[x].count
          /\ llsc[x].version < i[n] => due[x][n] = 0
          /\ ~ Open(i, x, n) => due[x][n] = 0
    /\ \A t \in Thread : pc[t] = "transfer" => due[Side(t)][local[t].node] = moved[t]

TransfersOK(i) ==
    \A n \in InList :
        exit[n].transfers_left = (IF Open(i, "head", n) THEN 1 ELSE 0)
                               + (IF Open(i, "tail", n) THEN 1 ELSE 0)

\* The same but for whole turns of a count.
SameCount(a, b) == \E turns \in Int : a + turns * CountWidth = b

\* Counted up by every ll_op and down by every release, whatever was
\* transferred already: the number of readers.
ReadersOK(due) ==
    \A n \in InList :
        SameCount(Cardinality(Readers(n)), exit[n].count + due["head"][n] + due["tail"][n])

\* A node's predecessor stays as long as somebody may look at it.
PredecessorsOK(i) ==
    /\ \A n \in InList : ~ Clean(exit[n]) =>
          /\ pred[n] \in InList
          /\ i[pred[n]] = i[n] - 1
          /\ ~ exit[pred[n]].nl_p
          /\ \A t \in Thread : before[t] # pred[n]
    /\ \A t \in Thread : before[t] # Null => before[t] \in InList /\ ~ exit[before[t]].nl_p
    /\ \A t, u \in Thread : before[t] # Null /\ before[t] = before[u] => t = u
    /\ \A n \in InList, x \in Sides :
          exit[n].nl_p \/ (\E t \in Thread : before[t] = n) => i[n] + 1 < llsc[x].version

Claimed(n) == exit[n].to_be_freed \/ \E t \in Consumer : won[t] /\ target[t] = n

\* One consumer has the value of a node, and no node is claimed before the
\* head's other pointer is to it.
ClaimsOK(i) ==
    /\ \A t \in Consumer : won[t] =>
          target[t] \in InList /\ ~ exit[target[t]].to_be_freed
    /\ \A t, u \in Consumer : won[t] /\ won[u] /\ target[t] = target[u] => t = u
    /\ \A n \in InList : Claimed(n) =>
          \/ i[n] <= llsc["head"].version
          \/ i[n] = llsc["head"].version + 1 /\ Other("head") = n

QueueInv(i, due) ==
    /\ QueueTypeOK
    /\ PlacesOK
    /\ PrivateOK
    /\ IndexedOK(i)
    /\ PointersOK(i)
    /\ HeldOK(i)
    /\ DueOK(i, due)
    /\ TransfersOK(i)
    /\ ReadersOK(due)
    /\ PredecessorsOK(i)
    /\ ClaimsOK(i)

-----------------------------------------------------------------------------

\* The two pointers of a side take turns.
LEMMA Parity ==
    ASSUME NEW v \in Nat
    PROVE  /\ v % 2 \in 0 .. 1 /\ NonCurrent(v) \in 0 .. 1
           /\ NonCurrent(v) # v % 2
           /\ (v + 1) % 2 = NonCurrent(v)
           /\ NonCurrent(v + 1) = v % 2
BY DEF NonCurrent

\* A producer works on the tail only and a consumer on the head only.
LEMMA ThreadSides ==
    /\ \A t \in Producer : t \in Thread /\ Side(t) = "tail" /\ t \notin Consumer
    /\ \A t \in Consumer : t \in Thread /\ Side(t) = "head" /\ t \notin Producer
    /\ \A t \in Thread : Side(t) \in Sides /\ (t \in Producer \/ t \in Consumer)
BY QueueAssumption DEF Thread, Side, Sides

\* The threads are fewer than a count has values.
LEMMA FewThreads ==
    ASSUME NEW S \in SUBSET Thread
    PROVE  /\ IsFiniteSet(S) /\ Cardinality(S) \in Nat
           /\ Cardinality(S) < CountWidth
           /\ CountWidth \in Nat
           /\ Cardinality(S) = 0 <=> S = {}
<1>1. IsFiniteSet(Thread) /\ CountWidth \in Nat /\ CountWidth > Cardinality(Thread)
  BY QueueAssumption, FS_Union DEF Thread
<1>2. IsFiniteSet(S) /\ Cardinality(S) <= Cardinality(Thread)
  BY <1>1, FS_Subset
<1>3. Cardinality(S) \in Nat /\ Cardinality(Thread) \in Nat
  BY <1>1, <1>2, FS_CardinalityType
<1>4. QED
  BY <1>1, <1>2, <1>3, FS_EmptySet

\* ll_op counts the entry up: by one, or round to zero.
LEMMA NextCount ==
    ASSUME NEW a \in 0 .. CountWidth - 1
    PROVE  /\ (a + 1) % CountWidth \in 0 .. CountWidth - 1
           /\ (a + 1) % CountWidth = a + 1 \/ (a + 1) % CountWidth = a + 1 - CountWidth
<1>1. CountWidth \in Nat /\ CountWidth > 0
  BY FewThreads
<1>2. CASE a + 1 < CountWidth
  BY <1>1, <1>2
<1>3. CASE a + 1 = CountWidth
  BY <1>1, <1>3
<1>4. QED
  BY <1>1, <1>2, <1>3

\* Release counts the exit down: by one, or round to the greatest count.
LEMMA LastCount ==
    ASSUME NEW a \in 0 .. CountWidth - 1
    PROVE  /\ (a - 1) % CountWidth \in 0 .. CountWidth - 1
           /\ (a - 1) % CountWidth = a - 1 \/ (a - 1) % CountWidth = a - 1 + CountWidth
<1>1. CountWidth \in Nat /\ CountWidth > 0
  BY FewThreads
<1>2. CASE a = 0
  BY <1>1, <1>2
<1>3. CASE a > 0
  BY <1>1, <1>3
<1>4. QED
  BY <1>1, <1>2, <1>3

\* transfer_op adds a whole count to the exit: at most one turn.
LEMMA SumCount ==
    ASSUME NEW a \in 0 .. CountWidth - 1, NEW b \in 0 .. CountWidth - 1
    PROVE  /\ (a + b) % CountWidth \in 0 .. CountWidth - 1
           /\ (a + b) % CountWidth = a + b \/ (a + b) % CountWidth = a + b - CountWidth
<1>1. CountWidth \in Nat /\ CountWidth > 0
  BY FewThreads
<1>2. CASE a + b < CountWidth
  BY <1>1, <1>2
<1>3. CASE a + b >= CountWidth
  BY <1>1, <1>3
<1>4. QED
  BY <1>1, <1>2, <1>3

\* Both sides of an equality of counts may change alike, and may wrap.
LEMMA SameStep ==
    ASSUME NEW a \in Int, NEW b \in Int, NEW c \in Int, NEW d \in Int, SameCount(a, b),
           \/ d - c = b - a
           \/ d - c = b - a + CountWidth
           \/ d - c = b - a - CountWidth
    PROVE  SameCount(c, d)
<1>1. CountWidth \in Nat
  BY FewThreads
<1>2. PICK turns \in Int : a + turns * CountWidth = b
  BY DEF SameCount
<1>3. /\ turns * CountWidth \in Int
      /\ (turns + 1) * CountWidth = turns * CountWidth + CountWidth
      /\ (turns - 1) * CountWidth = turns * CountWidth - CountWidth
  BY <1>1, <1>2
<1>4. CASE d - c = b - a
  BY <1>2, <1>3, <1>4 DEF SameCount
<1>5. CASE d - c = b - a + CountWidth
  <2>1. c + (turns + 1) * CountWidth = d
    BY <1>1, <1>2, <1>3, <1>5
  <2>2. QED
    BY <1>2, <2>1 DEF SameCount
<1>6. CASE d - c = b - a - CountWidth
  <2>1. c + (turns - 1) * CountWidth = d
    BY <1>1, <1>2, <1>3, <1>6
  <2>2. QED
    BY <1>2, <2>1 DEF SameCount
<1>7. QED
  BY <1>4, <1>5, <1>6

\* Two numbers that are within the width and the same but for turns are equal.
LEMMA SameSmall ==
    ASSUME NEW a \in 0 .. CountWidth - 1, NEW b \in 0 .. CountWidth - 1, SameCount(a, b)
    PROVE  a = b
<1>1. CountWidth \in Nat
  BY FewThreads
<1>2. PICK turns \in Int : a + turns * CountWidth = b
  BY DEF SameCount
<1>3. CASE turns >= 1
  <2>1. turns * CountWidth >= CountWidth /\ turns * CountWidth \in Int
    BY <1>1, <1>2, <1>3
  <2>2. QED
    BY <1>1, <1>2, <2>1
<1>4. CASE turns <= -1
  <2>1. turns * CountWidth <= - CountWidth /\ turns * CountWidth \in Int
    BY <1>1, <1>2, <1>4
  <2>2. QED
    BY <1>1, <1>2, <2>1
<1>5. CASE turns = 0
  BY <1>1, <1>2, <1>5
<1>6. QED
  BY <1>2, <1>3, <1>4, <1>5

\* A node that a thread holds is not clean, and one that no side can still
\* count for is clean when nobody holds it.
LEMMA CleanUnread ==
    ASSUME NEW i, NEW due, QueueInv(i, due), NEW n \in InList
    PROVE  /\ Clean(exit[n]) => Readers(n) = {}
           /\ Readers(n) = {} /\ exit[n].transfers_left = 0 => Clean(exit[n])
           /\ \A x \in Sides : Open(i, x, n) => exit[n].transfers_left > 0
           /\ exit[n].transfers_left = 0 <=> \A x \in Sides : ~ Open(i, x, n)
<1>1. n \in Node
  BY DEF InList
<1>2. exit[n].transfers_left = (IF Open(i, "head", n) THEN 1 ELSE 0)
                             + (IF Open(i, "tail", n) THEN 1 ELSE 0)
  BY DEF QueueInv, TransfersOK
<1>3. exit[n].transfers_left = 0 <=> \A x \in Sides : ~ Open(i, x, n)
  BY <1>2 DEF Sides
<1>4. \A x \in Sides : Open(i, x, n) => exit[n].transfers_left > 0
  BY <1>2 DEF Sides
<1>5. /\ due["head"][n] \in 0 .. CountWidth - 1 /\ due["tail"][n] \in 0 .. CountWidth - 1
      /\ exit[n].count \in 0 .. CountWidth - 1
  BY <1>1 DEF QueueInv, DueOK, QueueTypeOK, Sides, Exits
<1>6. exit[n].transfers_left = 0 => due["head"][n] = 0 /\ due["tail"][n] = 0
  BY <1>3 DEF QueueInv, DueOK, Sides
<1>7. SameCount(Cardinality(Readers(n)), exit[n].count + due["head"][n] + due["tail"][n])
  BY DEF QueueInv, ReadersOK
<1>8. /\ Cardinality(Readers(n)) \in Nat /\ CountWidth \in Nat
      /\ Cardinality(Readers(n)) < CountWidth
      /\ Cardinality(Readers(n)) = 0 <=> Readers(n) = {}
  BY FewThreads DEF Readers
<1>9. exit[n].transfers_left = 0 => Cardinality(Readers(n)) = exit[n].count
  BY <1>5, <1>6, <1>7, <1>8, SameSmall
<1>10. QED
  BY <1>3, <1>4, <1>8, <1>9 DEF Clean

-----------------------------------------------------------------------------

\* What a step of t leaves alone of the others.
OthersSame(t) ==
    \A u \in Thread : u # t =>
        /\ pc'[u] = pc[u] /\ local'[u] = local[u] /\ mine'[u] = mine[u]
        /\ target'[u] = target[u] /\ won'[u] = won[u] /\ moved'[u] = moved[u]
        /\ before'[u] = before[u]

\* The list depends on nothing else.
LEMMA ListStays ==
    ASSUME NEW i, NEW due, QueueInv(i, due),
           llsc' = llsc, next' = next, pred' = pred, InList' = InList
    PROVE  IndexedOK(i)' /\ PointersOK(i)'
BY DEF QueueInv, IndexedOK, PointersOK, Current, Other

\* A step of t between two places that hold no count to transfer.
LEMMA CountsStay ==
    ASSUME NEW i, NEW due, QueueInv(i, due), NEW t \in Thread,
           \A x \in Sides : llsc'[x].version = llsc[x].version /\ llsc'[x].count = llsc[x].count,
           exit' = exit, local' = local, moved' = moved, InList' = InList,
           pc[t] # "transfer", pc'[t] # "transfer", OthersSame(t)
    PROVE  DueOK(i, due)' /\ TransfersOK(i)' /\ ReadersOK(due)'
<1>1. \A u \in Thread : pc'[u] = "transfer" <=> pc[u] = "transfer"
  BY DEF OthersSame
<1>2. \A x, n : Transferring(x, n)' <=> Transferring(x, n)
  BY <1>1 DEF Transferring, Side
<1>3. \A x \in Sides : \A n : Open(i, x, n)' <=> Open(i, x, n)
  BY <1>2 DEF Open
<1>4. DueOK(i, due)'
  BY <1>1, <1>3 DEF QueueInv, DueOK, Side
<1>5. TransfersOK(i)'
  BY <1>3 DEF QueueInv, TransfersOK, Sides
<1>6. ReadersOK(due)'
  BY DEF QueueInv, ReadersOK, Readers, SameCount
<1>7. QED
  BY <1>4, <1>5, <1>6

\* A push or pop that begins or ends, or goes on without its count.
PlaceMove(t) ==
    \/ t \in Producer /\ (StartPush(t) \/ Count(t))
    \/ t \in Consumer /\ (Peek(t) \/ Discount(t))
    \/ t \in Thread /\ Advanced(t)

\* Such a step touches neither the list nor what is counted.
LEMMA PlaceFrame ==
    ASSUME NEW i, NEW due, QueueInv(i, due), NEW t \in Thread, PlaceMove(t)
    PROVE  /\ llsc' = llsc /\ next' = next /\ pred' = pred /\ exit' = exit /\ free' = free
           /\ local' = local /\ moved' = moved /\ before' = before
           /\ OthersSame(t) /\ DOMAIN pc' = Thread
           /\ pc[t] # "transfer" /\ pc'[t] # "transfer"
           /\ Private' = Private /\ InList' = InList
<1> USE DEF QueueInv
<1>1. /\ llsc' = llsc /\ next' = next /\ pred' = pred /\ exit' = exit /\ free' = free
      /\ local' = local /\ moved' = moved /\ before' = before
  BY DEF PlaceMove, StartPush, Advanced, Peek, Count, Discount, memory, threads
<1>2. /\ OthersSame(t) /\ DOMAIN pc' = Thread
      /\ pc[t] # "transfer" /\ pc'[t] # "transfer"
  BY DEF PlaceMove, StartPush, Advanced, Peek, Count, Discount, Goto, Return, threads, OthersSame,
         QueueTypeOK
<1>3. \A u \in Producer : ~ won'[u] /\ mine'[u] # Null <=> ~ won[u] /\ mine[u] # Null
  BY <1>2, ThreadSides DEF PlaceMove, StartPush, Advanced, Peek, Count, Discount, Return, threads,
     OthersSame, QueueTypeOK, PlacesOK
<1>4. \A u \in Producer : ~ won'[u] /\ mine'[u] # Null => mine'[u] = mine[u]
  BY <1>2, ThreadSides DEF PlaceMove, StartPush, Advanced, Peek, Count, Discount, Return, threads,
     OthersSame, QueueTypeOK, PlacesOK
<1>5. Private' = Private
  BY <1>3, <1>4 DEF Private
<1>6. QED
  BY <1>1, <1>2, <1>5 DEF InList

\* StartPush, Count, Peek, Discount and Advanced keep the invariant.
LEMMA PlaceStep ==
    ASSUME NEW i, NEW due, QueueInv(i, due), NEW t \in Thread, PlaceMove(t)
    PROVE  QueueInv(i, due)'
<1>1. /\ llsc' = llsc /\ next' = next /\ pred' = pred /\ exit' = exit /\ free' = free
      /\ local' = local /\ moved' = moved /\ before' = before
      /\ OthersSame(t) /\ DOMAIN pc' = Thread
      /\ pc[t] # "transfer" /\ pc'[t] # "transfer"
      /\ Private' = Private /\ InList' = InList
  BY PlaceFrame
<1>2. QueueTypeOK'
  <2>1. pc[t] = "peek" => next[local[t].node] \in Node \union {Null}
    BY DEF QueueInv, QueueTypeOK, PlacesOK, Reading
  <2>2. target' \in [Thread -> Node \union {Null}]
    BY <2>1 DEF QueueInv, QueueTypeOK, PlaceMove, StartPush, Advanced, Peek, Count, Discount, Return,
       Following, threads
  <2>3. mine' \in [Thread -> Node \union {Null}] /\ won' \in [Thread -> BOOLEAN]
    BY DEF QueueInv, QueueTypeOK, PlaceMove, StartPush, Advanced, Peek, Count, Discount, Return,
       threads
  <2>4. QED
    BY <1>1, <2>2, <2>3 DEF QueueInv, QueueTypeOK
<1>3. PlacesOK'
  <2>1. \A u \in Thread : u # t =>
           pc'[u] = pc[u] /\ mine'[u] = mine[u] /\ won'[u] = won[u]
    BY <1>1 DEF OthersSame
  <2>2. CASE t \in Producer /\ StartPush(t)
    BY <1>1, <2>1, <2>2, ThreadSides DEF QueueInv, QueueTypeOK, PlacesOK, StartPush, Goto, threads,
       Reading
  <2>3. CASE t \in Producer /\ Count(t)
    BY <1>1, <2>1, <2>3, ThreadSides DEF QueueInv, QueueTypeOK, PlacesOK, Count, Return, Goto, Reading
  <2>4. CASE t \in Consumer /\ Peek(t)
    BY <1>1, <2>1, <2>4, ThreadSides DEF QueueInv, QueueTypeOK, PlacesOK, Peek, Goto, Reading
  <2>5. CASE t \in Consumer /\ Discount(t)
    BY <1>1, <2>1, <2>5, ThreadSides DEF QueueInv, QueueTypeOK, PlacesOK, Discount, Return, Goto,
       Reading
  <2>6. CASE Advanced(t)
    BY <1>1, <2>1, <2>6, ThreadSides DEF QueueInv, QueueTypeOK, PlacesOK, Advanced, Goto, threads,
       Reading
  <2>7. QED
    BY <2>2, <2>3, <2>4, <2>5, <2>6 DEF PlaceMove
<1>4. PrivateOK'
  <2>1. \A u \in Producer : ~ won'[u] /\ mine'[u] # Null =>
           ~ won[u] /\ mine[u] # Null /\ mine'[u] = mine[u]
    BY <1>1, ThreadSides DEF QueueInv, PlaceMove, StartPush, Advanced, Peek, Count, Discount, Return,
       threads, OthersSame, QueueTypeOK, PlacesOK
  <2>2. QED
    BY <1>1, <2>1 DEF QueueInv, PrivateOK
<1>5. IndexedOK(i)' /\ PointersOK(i)'
  BY <1>1, ListStays
<1>6. DueOK(i, due)' /\ TransfersOK(i)' /\ ReadersOK(due)'
  BY <1>1, CountsStay
<1>7. HeldOK(i)'
  <2>1. pc'[t] = "swing" /\ llsc[Side(t)].version = local[t].version =>
           target'[t] \in InList /\ i[target'[t]] = local[t].version + 1
    <3>1. SUFFICES ASSUME pc'[t] = "swing", llsc[Side(t)].version = local[t].version
                   PROVE  target'[t] \in InList /\ i[target'[t]] = local[t].version + 1
      OBVIOUS
    <3>2. /\ pc[t] = "peek" /\ next[local[t].node] # Null
          /\ target'[t] = next[local[t].node]
      BY <1>1, <3>1 DEF QueueInv, PlaceMove, StartPush, Advanced, Peek, Count, Discount, Return,
         Goto, Following, QueueTypeOK
    <3>3. /\ local[t].node \in InList /\ i[local[t].node] = local[t].version
          /\ Side(t) \in Sides /\ local[t].version \in Nat
      BY <3>2, ThreadSides DEF QueueInv, HeldOK, QueueTypeOK, Reading
    <3>4. QED
      BY <3>1, <3>2, <3>3 DEF QueueInv, IndexedOK
  <2>2. pc'[t] # "advance" /\ (pc'[t] \in Reading => pc[t] \in Reading)
    BY <1>1 DEF QueueInv, PlaceMove, StartPush, Advanced, Peek, Count, Discount, Return,
       Goto, Following, QueueTypeOK, Reading
  <2>3. QED
    BY <1>1, <2>1, <2>2 DEF QueueInv, HeldOK, OthersSame, Other, Side
<1>8. PredecessorsOK(i)'
  BY <1>1 DEF QueueInv, PredecessorsOK
<1>9. ClaimsOK(i)'
  <2>1. \A u \in Consumer : won'[u] => won[u] /\ target'[u] = target[u]
    BY <1>1, ThreadSides DEF QueueInv, PlaceMove, StartPush, Advanced, Peek, Count, Discount, Return,
       threads, OthersSame, QueueTypeOK, PlacesOK
  <2>2. QED
    BY <1>1, <2>1 DEF QueueInv, ClaimsOK, Claimed, Other
<1>10. QED
  BY <1>2, <1>3, <1>4, <1>5, <1>6, <1>7, <1>8, <1>9 DEF QueueInv

-----------------------------------------------------------------------------
(* ll_op.                                                                   *)

\* The count of the side's node is now due one more.
Bumped(due, x) == [due EXCEPT ![x][Current(x)] = (@ + 1) % CountWidth]

\* ll_op by a thread that holds no node.
LEMMA ReadFrame ==
    ASSUME NEW i, NEW due, QueueInv(i, due), NEW t \in Thread, LL(t), pc[t] \notin Reading
    PROVE  /\ Side(t) \in Sides /\ Current(Side(t)) \in InList /\ Current(Side(t)) \in Node
           /\ i[Current(Side(t))] = llsc[Side(t)].version
           /\ local[t].node = Null
           /\ local' = [local EXCEPT ![t] = [node |-> Current(Side(t)),
                                             version |-> llsc[Side(t)].version]]
           /\ local'[t].node = Current(Side(t)) /\ local'[t].version = llsc[Side(t)].version
           /\ llsc' \in [Sides -> Ends]
           /\ \A x \in Sides : /\ llsc'[x].version = llsc[x].version
                               /\ llsc'[x].ptr = llsc[x].ptr
                               /\ x # Side(t) => llsc'[x].count = llsc[x].count
                               /\ Current(x)' = Current(x) /\ Other(x)' = Other(x)
           /\ llsc'[Side(t)].count = (llsc[Side(t)].count + 1) % CountWidth
<1>1. Side(t) \in Sides
  BY ThreadSides
<1>2. Current(Side(t)) \in InList /\ i[Current(Side(t))] = llsc[Side(t)].version
  BY <1>1 DEF QueueInv, PointersOK
<1>3. llsc[Side(t)].count \in 0 .. CountWidth - 1
  BY <1>1 DEF QueueInv, QueueTypeOK, Ends
<1>4. (llsc[Side(t)].count + 1) % CountWidth \in 0 .. CountWidth - 1
  BY <1>3, NextCount
<1>5. llsc' \in [Sides -> Ends]
  <2>1. PICK k \in 0 .. CountWidth - 1 : k = (llsc[Side(t)].count + 1) % CountWidth
    BY <1>4
  <2>2. llsc' = [llsc EXCEPT ![Side(t)].count = k]
    BY <2>1 DEF LL
  <2>3. llsc' = [llsc EXCEPT ![Side(t)] = [llsc[Side(t)] EXCEPT !.count = k]]
    BY <2>2
  <2>4. [llsc[Side(t)] EXCEPT !.count = k] \in Ends
    BY <1>1, <2>1 DEF QueueInv, QueueTypeOK, Ends
  <2>5. QED
    BY <1>1, <2>3, <2>4 DEF QueueInv, QueueTypeOK
<1>6. \A x \in Sides : /\ llsc'[x].version = llsc[x].version
                       /\ llsc'[x].ptr = llsc[x].ptr
                       /\ x # Side(t) => llsc'[x].count = llsc[x].count
  BY <1>1 DEF LL, QueueInv, QueueTypeOK
<1>7. \A x \in Sides : Current(x)' = Current(x) /\ Other(x)' = Other(x)
  BY <1>6 DEF Current, Other
<1>8. llsc'[Side(t)].count = (llsc[Side(t)].count + 1) % CountWidth
  BY <1>1 DEF LL, QueueInv, QueueTypeOK
<1>9. local[t].node = Null
  BY DEF QueueInv, PlacesOK
<1>10. local' = [local EXCEPT ![t] = [node |-> Current(Side(t)),
                                      version |-> llsc[Side(t)].version]]
  BY DEF LL
<1>11. local'[t].node = Current(Side(t)) /\ local'[t].version = llsc[Side(t)].version
  BY <1>10 DEF QueueInv, QueueTypeOK
<1>12. Current(Side(t)) \in Node
  BY <1>2 DEF InList
<1>13. QED
  BY <1>1, <1>2, <1>5, <1>6, <1>7, <1>8, <1>9, <1>10, <1>11, <1>12

\* ll_op makes one reader more, and one more is due.
LEMMA ReadCounts ==
    ASSUME NEW i, NEW due, QueueInv(i, due), NEW t \in Thread, LL(t),
           pc[t] \notin Reading, pc'[t] \in {"link", "peek"},
           \A u \in Thread : u # t => pc'[u] = pc[u],
           exit' = exit, moved' = moved, InList' = InList,
           NEW d, d = Bumped(due, Side(t))
    PROVE  DueOK(i, d)' /\ TransfersOK(i)' /\ ReadersOK(d)'
<1> DEFINE x == Side(t)
           c == Current(x)
<1>1. /\ x \in Sides /\ c \in InList /\ c \in Node /\ i[c] = llsc[x].version
      /\ local[t].node = Null /\ Null \notin Node
      /\ local' = [local EXCEPT ![t] = [node |-> c, version |-> llsc[x].version]]
      /\ local'[t].node = c
      /\ \A y \in Sides : /\ llsc'[y].version = llsc[y].version
                          /\ y # x => llsc'[y].count = llsc[y].count
      /\ llsc'[x].count = (llsc[x].count + 1) % CountWidth
  BY ReadFrame, QueueAssumption
<1>2. \A u \in Thread : /\ pc'[u] = "transfer" <=> pc[u] = "transfer"
                        /\ pc[u] = "transfer" => u # t /\ local'[u] = local[u]
  BY <1>1 DEF Reading, QueueInv, QueueTypeOK
<1>3. \A y, n : Transferring(y, n)' <=> Transferring(y, n)
  BY <1>2 DEF Transferring, Side
<1>4. \A y \in Sides : \A n : Open(i, y, n)' <=> Open(i, y, n)
  BY <1>1, <1>3 DEF Open
<1>5. due \in [Sides -> [Node -> 0 .. CountWidth - 1]]
  BY DEF QueueInv, DueOK
<1>6. /\ d \in [Sides -> [Node -> 0 .. CountWidth - 1]]
      /\ d[x][c] = (due[x][c] + 1) % CountWidth
      /\ \A y \in Sides, n \in Node : y # x \/ n # c => d[y][n] = due[y][n]
  BY <1>1, <1>5, NextCount DEF Bumped
<1>7. due[x][c] = llsc[x].count
  BY <1>1 DEF QueueInv, DueOK
<1>8. \A n \in InList : n # c => i[n] # i[c]
  BY <1>1 DEF QueueInv, IndexedOK
<1>9. DueOK(i, d)'
  <2>1. ASSUME NEW n \in InList, NEW y \in Sides
        PROVE  /\ llsc'[y].version = i[n] => d[y][n] = llsc'[y].count
               /\ llsc'[y].version < i[n] => d[y][n] = 0
               /\ ~ Open(i, y, n)' => d[y][n] = 0
    <3>1. n \in Node /\ llsc[y].version \in Nat /\ i[n] \in Int
      BY DEF InList, QueueInv, QueueTypeOK, IndexedOK, Ends
    <3>2. CASE y = x /\ n = c
      <4>1. llsc[y].version = i[n] /\ Open(i, y, n)
        BY <1>1, <3>1, <3>2 DEF Open
      <4>2. QED
        BY <1>1, <1>4, <1>6, <1>7, <3>1, <3>2, <4>1
    <3>3. CASE y # x \/ n # c
      <4>1. d[y][n] = due[y][n] /\ (llsc[y].version = i[n] => llsc'[y].count = llsc[y].count)
        BY <1>1, <1>6, <1>8, <3>1, <3>3
      <4>2. QED
        BY <1>1, <1>4, <4>1 DEF QueueInv, DueOK
    <3>4. QED
      BY <3>2, <3>3
  <2>2. ASSUME NEW u \in Thread, pc'[u] = "transfer"
        PROVE  d[Side(u)'][local'[u].node] = moved'[u]
    <3>1. pc[u] = "transfer" /\ local'[u] = local[u] /\ Side(u) \in Sides /\ Side(u)' = Side(u)
      BY <1>2, <2>2, ThreadSides DEF Side
    <3>2. /\ local[u].node \in InList /\ local[u].node \in Node
          /\ i[local[u].node] < llsc[Side(u)].version
      BY <3>1 DEF QueueInv, HeldOK, Reading, InList
    <3>3. Side(u) # x \/ local[u].node # c
      BY <1>1, <3>1, <3>2 DEF QueueInv, QueueTypeOK, Ends
    <3>4. due[Side(u)][local[u].node] = moved[u]
      BY <3>1 DEF QueueInv, DueOK
    <3>5. QED
      BY <1>6, <3>1, <3>2, <3>3, <3>4
  <2>3. QED
    BY <1>6, <2>1, <2>2 DEF DueOK
<1>10. TransfersOK(i)'
  BY <1>4 DEF QueueInv, TransfersOK, Sides
<1>11. ReadersOK(d)'
  <2>1. ASSUME NEW n \in InList
        PROVE  SameCount(Cardinality(Readers(n)'), exit[n].count + d["head"][n] + d["tail"][n])
    <3>1. n \in Node /\ exit[n].count \in 0 .. CountWidth - 1
      BY DEF InList, QueueInv, QueueTypeOK, Exits
    <3>2. SameCount(Cardinality(Readers(n)), exit[n].count + due["head"][n] + due["tail"][n])
      BY DEF QueueInv, ReadersOK
    <3>3. CASE n # c
      <4>1. Readers(n)' = Readers(n)
        BY <1>1, <3>1, <3>3 DEF Readers, QueueInv, QueueTypeOK
      <4>2. d["head"][n] = due["head"][n] /\ d["tail"][n] = due["tail"][n]
        BY <1>6, <3>1, <3>3 DEF Sides
      <4>3. QED
        BY <3>2, <4>1, <4>2
    <3>4. CASE n = c
      <4>1. Readers(n)' = Readers(n) \union {t} /\ t \notin Readers(n)
        BY <1>1, <3>1, <3>4 DEF Readers, QueueInv, QueueTypeOK
      <4>2. IsFiniteSet(Readers(n)) /\ Cardinality(Readers(n)) \in Nat /\ CountWidth \in Nat
        BY FewThreads DEF Readers
      <4>3. Cardinality(Readers(n)') = Cardinality(Readers(n)) + 1
        BY <4>1, <4>2, FS_AddElement
      <4>4. /\ due["head"][n] \in 0 .. CountWidth - 1 /\ due["tail"][n] \in 0 .. CountWidth - 1
            /\ d["head"][n] \in 0 .. CountWidth - 1 /\ d["tail"][n] \in 0 .. CountWidth - 1
        BY <1>5, <1>6, <3>1 DEF Sides
      <4>5. \/ d["head"][n] + d["tail"][n] = due["head"][n] + due["tail"][n] + 1
            \/ d["head"][n] + d["tail"][n] = due["head"][n] + due["tail"][n] + 1 - CountWidth
        <5>1. x = "head" \/ x = "tail"
          BY <1>1 DEF Sides
        <5>2. due[x][c] \in 0 .. CountWidth - 1
          BY <4>4, <3>4, <5>1
        <5>3. d[x][c] = due[x][c] + 1 \/ d[x][c] = due[x][c] + 1 - CountWidth
          BY <5>2, <1>6, NextCount
        <5>4. QED
          BY <5>1, <5>3, <4>4, <4>2, <3>1, <3>4, <1>6 DEF Sides
      <4> DEFINE r == Cardinality(Readers(n))
                 a == exit[n].count + due["head"][n] + due["tail"][n]
                 b == exit[n].count + d["head"][n] + d["tail"][n]
      <4>6. r \in Int /\ a \in Int /\ b \in Int /\ (b = a + 1 \/ b = a + 1 - CountWidth)
        BY <3>1, <4>2, <4>4, <4>5
      <4>7. SameCount(r, a)
        BY <3>2
      <4> HIDE DEF r, a, b
      <4>8. SameCount(r + 1, b)
        BY <4>2, <4>6, <4>7, SameStep
      <4>9. QED
        BY <4>3, <4>8 DEF r, b
    <3>5. QED
      BY <3>3, <3>4
  <2>2. QED
    BY <2>1 DEF ReadersOK, SameCount
<1>12. QED
  BY <1>9, <1>10, <1>11

\* The steps that count a reader in.
ReadMove(t) ==
    \/ t \in Producer /\ (Allocate(t) \/ TailAgain(t))
    \/ t \in Consumer /\ StartPop(t)

\* Each of these is an ll_op by a thread that holds nothing.
LEMMA ReadMoveFrame ==
    ASSUME NEW i, NEW due, QueueInv(i, due), NEW t \in Thread, ReadMove(t)
    PROVE  /\ LL(t) /\ pc[t] \notin Reading /\ pc'[t] \in {"link", "peek"} /\ pc'[t] \in Reading
           /\ OthersSame(t) /\ DOMAIN pc' = Thread
           /\ next' = next /\ pred' = pred /\ exit' = exit
           /\ moved' = moved /\ before' = before /\ won' = won /\ ~ won[t]
           /\ InList' = InList
<1> USE DEF QueueInv
<1>1. /\ LL(t) /\ pc[t] \notin Reading /\ pc'[t] \in {"link", "peek"} /\ pc'[t] \in Reading
      /\ DOMAIN pc' = Thread
      /\ next' = next /\ pred' = pred /\ exit' = exit
      /\ moved' = moved /\ before' = before /\ won' = won
  BY DEF ReadMove, Allocate, TailAgain, StartPop, Goto, memory, Reading, QueueTypeOK
<1>2. OthersSame(t)
  BY DEF ReadMove, Allocate, TailAgain, StartPop, Goto, LL, OthersSame, QueueTypeOK
<1>3. ~ won[t]
  BY ThreadSides DEF ReadMove, Allocate, TailAgain, StartPop, PlacesOK
<1>4. InList' = InList
  <2>1. CASE t \in Producer /\ Allocate(t)
    <3>1. PICK n \in free : mine' = [mine EXCEPT ![t] = n] /\ free' = free \ {n}
      BY <2>1 DEF Allocate
    <3>2. mine[t] = Null /\ n # Null /\ n \in Node /\ Null \notin Node
      BY <2>1, <3>1, QueueAssumption DEF Allocate, PlacesOK, QueueTypeOK
    <3>3. Private' = Private \union {n}
      BY <1>1, <1>3, <2>1, <3>1, <3>2, ThreadSides DEF Private, QueueTypeOK
    <3>4. QED
      BY <3>1, <3>3 DEF InList
  <2>2. CASE ~ (t \in Producer /\ Allocate(t))
    <3>1. mine' = mine /\ free' = free
      BY <2>2 DEF ReadMove, TailAgain, StartPop, memory
    <3>2. QED
      BY <1>1, <3>1 DEF InList, Private
  <2>3. QED
    BY <2>1, <2>2
<1>5. QED
  BY <1>1, <1>2, <1>3, <1>4

\* Allocate, TailAgain and StartPop keep the invariant.
LEMMA ReadStep ==
    ASSUME NEW i, NEW due, QueueInv(i, due), NEW t \in Thread, ReadMove(t)
    PROVE  \E d : QueueInv(i, d)'
<1>1. /\ LL(t) /\ pc[t] \notin Reading /\ pc'[t] \in {"link", "peek"} /\ pc'[t] \in Reading
      /\ OthersSame(t) /\ DOMAIN pc' = Thread
      /\ next' = next /\ pred' = pred /\ exit' = exit
      /\ moved' = moved /\ before' = before /\ won' = won /\ ~ won[t]
      /\ InList' = InList
  BY ReadMoveFrame
<1>2. /\ Side(t) \in Sides /\ Current(Side(t)) \in InList /\ Current(Side(t)) \in Node
      /\ i[Current(Side(t))] = llsc[Side(t)].version
      /\ local[t].node = Null
      /\ local' = [local EXCEPT ![t] = [node |-> Current(Side(t)), version |-> llsc[Side(t)].version]]
      /\ local'[t].node = Current(Side(t)) /\ local'[t].version = llsc[Side(t)].version
      /\ llsc' \in [Sides -> Ends]
      /\ \A x \in Sides : /\ llsc'[x].version = llsc[x].version
                          /\ Current(x)' = Current(x) /\ Other(x)' = Other(x)
  BY <1>1, ReadFrame
<1>3. QueueTypeOK'
  <2>1. target' \in [Thread -> Node \union {Null}]
    BY DEF ReadMove, Allocate, TailAgain, StartPop, QueueInv, QueueTypeOK
  <2>2. mine' \in [Thread -> Node \union {Null}] /\ free' \subseteq Node
    BY DEF ReadMove, Allocate, TailAgain, StartPop, memory, QueueInv, QueueTypeOK
  <2>3. local' \in [Thread -> [node : Node \union {Null}, version : Nat]]
    <3>1. llsc[Side(t)].version \in Nat
      BY <1>2 DEF QueueInv, QueueTypeOK, Ends
    <3>2. QED
      BY <1>2, <3>1 DEF QueueInv, QueueTypeOK
  <2>4. QED
    BY <1>1, <1>2, <2>1, <2>2, <2>3 DEF QueueInv, QueueTypeOK
<1>4. PlacesOK'
  <2>1. \A u \in Thread : u # t =>
           pc'[u] = pc[u] /\ local'[u] = local[u] /\ mine'[u] = mine[u] /\ won'[u] = won[u]
    BY <1>1 DEF OthersSame
  <2>2. local'[t].node # Null
    BY <1>2, QueueAssumption
  <2>3. pc[t] # "set_nl" /\ pc'[t] # "set_nl"
    BY <1>1 DEF ReadMove, Allocate, TailAgain, StartPop
  <2>4. \A u \in Thread : (local'[u].node # Null <=> pc'[u] \in Reading)
                          /\ (before'[u] # Null <=> pc'[u] = "set_nl")
    BY <1>1, <2>1, <2>2, <2>3 DEF QueueInv, PlacesOK
  <2>5. t \in Producer => pc'[t] = "link" /\ mine'[t] # Null
    BY QueueAssumption, ThreadSides DEF ReadMove, Allocate, TailAgain, Goto, QueueInv, QueueTypeOK, PlacesOK
  <2>6. t \in Consumer => pc'[t] = "peek"
    BY ThreadSides DEF ReadMove, StartPop, Goto, QueueInv, QueueTypeOK
  <2>7. QED
    BY <1>1, <2>1, <2>4, <2>5, <2>6, ThreadSides DEF QueueInv, PlacesOK
<1>5. PrivateOK'
  <2>1. CASE t \in Producer /\ Allocate(t)
    <3>1. PICK n \in free : mine' = [mine EXCEPT ![t] = n] /\ free' = free \ {n}
      BY <2>1 DEF Allocate
    <3>2. mine'[t] = n /\ \A u \in Producer : u # t => mine'[u] = mine[u]
      BY <3>1, <2>1, ThreadSides DEF QueueInv, QueueTypeOK
    <3>3. \A u \in Producer : ~ won[u] /\ mine[u] # Null => mine[u] # n
      BY <3>1 DEF QueueInv, PrivateOK
    <3>4. QED
      BY <1>1, <3>1, <3>2, <3>3 DEF QueueInv, PrivateOK
  <2>2. CASE ~ (t \in Producer /\ Allocate(t))
    <3>1. mine' = mine /\ free' = free
      BY <2>2 DEF ReadMove, TailAgain, StartPop, memory
    <3>2. QED
      BY <1>1, <3>1 DEF QueueInv, PrivateOK
  <2>3. QED
    BY <2>1, <2>2
<1>6. IndexedOK(i)'
  BY <1>1, <1>2 DEF QueueInv, IndexedOK
<1>7. PointersOK(i)'
  BY <1>1, <1>2 DEF QueueInv, PointersOK
<1>8. HeldOK(i)'
  <2>1. \A u \in Thread : Side(u)' = Side(u) /\ Side(u) \in Sides
    BY ThreadSides DEF Side
  <2>2. \A u \in Thread : u # t =>
           pc'[u] = pc[u] /\ local'[u] = local[u] /\ target'[u] = target[u]
    BY <1>1 DEF OthersSame
  <2>3. llsc[Side(t)].version \in Nat
    BY <1>2 DEF QueueInv, QueueTypeOK, Ends
  <2>4. pc'[t] \notin {"transfer", "swing", "advance"}
    BY <1>1
  <2>5. QED
    BY <1>1, <1>2, <2>1, <2>2, <2>3, <2>4 DEF QueueInv, HeldOK
<1>9. PredecessorsOK(i)'
  BY <1>1, <1>2 DEF QueueInv, PredecessorsOK
<1>10. ClaimsOK(i)'
  <2>1. \A u \in Consumer : won[u] => target'[u] = target[u]
    BY <1>1, ThreadSides DEF OthersSame
  <2>2. \A n : Claimed(n)' <=> Claimed(n)
    BY <1>1, <2>1 DEF Claimed
  <2>3. QED
    BY <1>1, <1>2, <2>1, <2>2 DEF QueueInv, ClaimsOK, Sides
<1>11. PICK d : d = Bumped(due, Side(t))
  OBVIOUS
<1>12. \A u \in Thread : u # t => pc'[u] = pc[u]
  BY <1>1 DEF OthersSame
<1>13. DueOK(i, d)' /\ TransfersOK(i)' /\ ReadersOK(d)'
  BY <1>1, <1>11, <1>12, ReadCounts
<1>14. QueueInv(i, d)'
  BY <1>3, <1>4, <1>5, <1>6, <1>7, <1>8, <1>9, <1>10, <1>13 DEF QueueInv
<1>15. QED
  BY <1>14

-----------------------------------------------------------------------------
(* sc_op: the pointer and the version.                                      *)

\* What a thread holds has a predecessor, and a side's pointers are to no
\* node before that of its own node's predecessor.
LEMMA HeldPredecessor ==
    ASSUME NEW i, NEW due, QueueInv(i, due), NEW t \in Thread, pc[t] \in Reading
    PROVE  /\ local[t].node \in InList /\ local[t].node \in Node
           /\ i[local[t].node] = local[t].version /\ local[t].version \in Nat
           /\ t \in Readers(local[t].node)
           /\ ~ Clean(exit[local[t].node])
           /\ pred[local[t].node] \in InList /\ pred[local[t].node] \in Node
           /\ i[pred[local[t].node]] = local[t].version - 1
<1>1. /\ local[t].node \in InList /\ local[t].node \in Node
      /\ i[local[t].node] = local[t].version /\ local[t].version \in Nat
      /\ t \in Readers(local[t].node)
  BY DEF QueueInv, HeldOK, QueueTypeOK, InList, Readers
<1>2. ~ Clean(exit[local[t].node])
  BY <1>1, CleanUnread
<1>3. QED
  BY <1>1, <1>2 DEF QueueInv, PredecessorsOK, InList

\* The numbers of the nodes that the two pointers of a side are to.
LEMMA PointerNumbers ==
    ASSUME NEW i, NEW due, QueueInv(i, due), NEW x \in Sides
    PROVE  /\ Current(x) \in InList /\ Other(x) \in InList
           /\ llsc[x].version \in Nat
           /\ i[Current(x)] = llsc[x].version
           /\ ~ Clean(exit[Current(x)])
           /\ pred[Current(x)] \in InList /\ i[pred[Current(x)]] = llsc[x].version - 1
           /\ \/ i[Other(x)] = llsc[x].version - 1 /\ Other(x) = pred[Current(x)]
              \/ i[Other(x)] = llsc[x].version + 1
           /\ \A v \in Nat : \/ v % 2 = llsc[x].version % 2
                             \/ NonCurrent(v) = llsc[x].version % 2
<1>1. /\ Current(x) \in InList /\ llsc[x].version \in Nat /\ i[Current(x)] = llsc[x].version
  BY DEF QueueInv, PointersOK, QueueTypeOK, Ends
<1>2. Open(i, x, Current(x))
  BY <1>1 DEF Open
<1>3. ~ Clean(exit[Current(x)])
  <2>1. exit[Current(x)].transfers_left > 0
    BY <1>1, <1>2, CleanUnread
  <2>2. QED
    BY <2>1 DEF Clean
<1>4. pred[Current(x)] \in InList /\ i[pred[Current(x)]] = llsc[x].version - 1
  BY <1>1, <1>3 DEF QueueInv, PredecessorsOK
<1>5. \/ i[Other(x)] = llsc[x].version - 1 /\ Other(x) = pred[Current(x)]
      \/ i[Other(x)] = llsc[x].version + 1
  BY <1>4 DEF QueueInv, PointersOK
<1>6. Other(x) \in InList
  BY <1>4 DEF QueueInv, PointersOK
<1>7. \A v \in Nat : v % 2 = llsc[x].version % 2 \/ NonCurrent(v) = llsc[x].version % 2
  BY <1>1 DEF NonCurrent
<1>8. QED
  BY <1>1, <1>3, <1>4, <1>5, <1>6, <1>7

\* The other pointer is only set by those that have read the current node.
LEMMA ExpectedCurrent ==
    ASSUME NEW i, NEW due, QueueInv(i, due), NEW t \in Thread, pc[t] \in Reading
    PROVE  LET x == Side(t) IN
           /\ Expected(t) => llsc[x].version = local[t].version /\ Other(x) = pred[Current(x)]
           /\ llsc[x].version = local[t].version =>
                 Current(x) = local[t].node /\ (Expected(t) <=> Other(x) = pred[Current(x)])
<1> DEFINE x == Side(t)
           v == local[t].version
<1>1. x \in Sides
  BY ThreadSides
<1>2. /\ local[t].node \in InList /\ local[t].node \in Node /\ i[local[t].node] = v /\ v \in Nat
      /\ pred[local[t].node] \in InList /\ i[pred[local[t].node]] = v - 1
  BY HeldPredecessor
<1>3. v <= llsc[x].version
  BY DEF QueueInv, HeldOK
<1>4. /\ Current(x) \in InList /\ llsc[x].version \in Nat /\ i[Current(x)] = llsc[x].version
      /\ \/ i[Other(x)] = llsc[x].version - 1
         \/ i[Other(x)] = llsc[x].version + 1
  BY <1>1, PointerNumbers
<1>5. llsc[x].version = v => Current(x) = local[t].node
  BY <1>2, <1>4 DEF QueueInv, IndexedOK
<1>6. llsc[x].version = v => llsc[x].ptr[NonCurrent(v)] = Other(x)
  BY DEF Other
<1>7. Expected(t) => llsc[x].version = v
  <2>1. SUFFICES ASSUME Expected(t), llsc[x].version # v PROVE FALSE
    OBVIOUS
  <2>2. i[llsc[x].ptr[NonCurrent(v)]] = v - 1
    BY <1>2, <2>1 DEF Expected
  <2>3. CASE NonCurrent(v) = llsc[x].version % 2
    <3>1. i[llsc[x].ptr[NonCurrent(v)]] = llsc[x].version
      BY <1>4, <2>3 DEF Current
    <3>2. QED
      BY <1>2, <1>3, <1>4, <2>2, <3>1
  <2>4. CASE v % 2 = llsc[x].version % 2
    <3>1. NonCurrent(v) = NonCurrent(llsc[x].version)
      BY <1>2, <1>4, <2>4 DEF NonCurrent
    <3>2. i[Other(x)] = v - 1
      BY <2>2, <3>1 DEF Other
    <3>3. QED
      BY <1>2, <1>3, <1>4, <2>1, <3>2
  <2>5. QED
    BY <1>1, <1>2, <2>3, <2>4, PointerNumbers
<1>8. QED
  BY <1>5, <1>6, <1>7 DEF Expected

\* What setting the other pointer of side x does to the pointers.
LEMMA SwingPointers ==
    ASSUME NEW i, NEW due, QueueInv(i, due), NEW t \in Thread, Swing(t)
    PROVE  /\ llsc' \in [Sides -> Ends]
           /\ \A x \in Sides : /\ llsc'[x].version = llsc[x].version
                               /\ llsc'[x].count = llsc[x].count
                               /\ Current(x)' = Current(x)
                               /\ x # Side(t) \/ ~ Expected(t) => Other(x)' = Other(x)
           /\ Expected(t) => Other(Side(t))' = target[t] /\ target[t] \in InList
                             /\ i[target[t]] = local[t].version + 1
<1> DEFINE x == Side(t)
           other == NonCurrent(local[t].version)
<1>1. x \in Sides /\ pc[t] \in Reading /\ pc[t] = "swing"
  BY ThreadSides DEF Swing, Reading
<1>2. CASE Expected(t)
  <2>1. llsc[x].version = local[t].version
    BY <1>1, <1>2, ExpectedCurrent
  <2>2. target[t] \in InList /\ target[t] \in Node /\ i[target[t]] = local[t].version + 1
    BY <1>1, <2>1 DEF QueueInv, HeldOK, InList
  <2>3. llsc[x] \in Ends /\ llsc \in [Sides -> Ends] /\ llsc[x].version \in Nat
    BY <1>1 DEF QueueInv, QueueTypeOK, Ends
  <2>4. other \in 0 .. 1 /\ other # llsc[x].version % 2 /\ other = NonCurrent(llsc[x].version)
    BY <2>1, <2>3, Parity
  <2>5. llsc' = [llsc EXCEPT ![x] = [llsc[x] EXCEPT !.ptr = [llsc[x].ptr EXCEPT ![other] = target[t]]]]
    BY <1>2, <2>3 DEF Swing
  <2>6. [llsc[x] EXCEPT !.ptr = [llsc[x].ptr EXCEPT ![other] = target[t]]] \in Ends
    BY <2>2, <2>3, <2>4 DEF Ends
  <2>7. llsc' \in [Sides -> Ends]
    BY <1>1, <2>3, <2>5, <2>6
  <2>8. \A y \in Sides : y # x => llsc'[y] = llsc[y]
    BY <1>1, <2>3, <2>5
  <2>9. llsc'[x] = [llsc[x] EXCEPT !.ptr = [llsc[x].ptr EXCEPT ![other] = target[t]]]
    BY <1>1, <2>3, <2>5
  <2>10. llsc'[x].version = llsc[x].version /\ llsc'[x].count = llsc[x].count
    BY <2>3, <2>9 DEF Ends
  <2>11. llsc'[x].ptr = [llsc[x].ptr EXCEPT ![other] = target[t]] /\ llsc[x].ptr \in [0 .. 1 -> Node]
    BY <2>3, <2>9 DEF Ends
  <2>12. llsc'[x].ptr[other] = target[t]
         /\ llsc'[x].ptr[llsc[x].version % 2] = llsc[x].ptr[llsc[x].version % 2]
    BY <2>3, <2>4, <2>11, Parity
  <2>13. Current(x)' = Current(x) /\ Other(x)' = target[t]
    BY <2>4, <2>10, <2>12 DEF Current, Other
  <2>14. \A y \in Sides : y # x => Current(y)' = Current(y) /\ Other(y)' = Other(y)
    BY <2>8 DEF Current, Other
  <2>15. QED
    BY <1>2, <2>2, <2>7, <2>8, <2>10, <2>13, <2>14
<1>3. CASE ~ Expected(t)
  <2>1. llsc' = llsc
    BY <1>3 DEF Swing
  <2>2. QED
    BY <1>3, <2>1 DEF Current, Other, QueueInv, QueueTypeOK
<1>4. QED
  BY <1>2, <1>3

\* The first compare-and-swap of sc_op: if the other pointer is still to the
\* predecessor of what was read, the version cannot have gone on, so that the
\* node that is set follows the current one.
LEMMA SwingStep ==
    ASSUME NEW i, NEW due, QueueInv(i, due), NEW t \in Thread, Swing(t)
    PROVE  QueueInv(i, due)'
<1> DEFINE x == Side(t)
<1>1. /\ llsc' \in [Sides -> Ends]
      /\ \A y \in Sides : /\ llsc'[y].version = llsc[y].version
                          /\ llsc'[y].count = llsc[y].count
                          /\ Current(y)' = Current(y)
                          /\ y # x \/ ~ Expected(t) => Other(y)' = Other(y)
      /\ Expected(t) => Other(x)' = target[t] /\ target[t] \in InList
                        /\ i[target[t]] = local[t].version + 1
  BY SwingPointers
<1>2. /\ next' = next /\ pred' = pred /\ exit' = exit /\ free' = free
      /\ local' = local /\ mine' = mine /\ target' = target /\ moved' = moved /\ before' = before
      /\ pc[t] = "swing" /\ pc' = [pc EXCEPT ![t] = "advance"] /\ pc'[t] = "advance"
      /\ DOMAIN pc' = Thread /\ x \in Sides /\ pc[t] \in Reading
  BY ThreadSides DEF Swing, Goto, memory, QueueInv, QueueTypeOK, Reading
<1>3. /\ \A u \in Thread : u # t => won'[u] = won[u]
      /\ \A u \in Producer : won'[u] = won[u]
      /\ t \in Consumer => won'[t] = Expected(t) /\ ~ won[t]
      /\ won' \in [Thread -> BOOLEAN]
  <2>1. Expected(t) \in BOOLEAN
    BY DEF Expected
  <2>2. t \in Consumer => ~ won[t]
    BY <1>2 DEF QueueInv, PlacesOK
  <2>3. CASE t \in Consumer
    <3>1. won' = [won EXCEPT ![t] = Expected(t)]
      BY <2>3 DEF Swing
    <3>2. QED
      BY <2>1, <2>2, <2>3, <3>1, ThreadSides DEF QueueInv, QueueTypeOK
  <2>4. CASE t \notin Consumer
    BY <2>4 DEF Swing, QueueInv, QueueTypeOK
  <2>5. QED
    BY <2>3, <2>4
<1>4. OthersSame(t)
  BY <1>2, <1>3 DEF OthersSame, QueueInv, QueueTypeOK
<1>5. Private' = Private /\ InList' = InList
  BY <1>2, <1>3 DEF Private, InList
<1>6. QueueTypeOK'
  BY <1>1, <1>2, <1>3 DEF QueueInv, QueueTypeOK
<1>7. PlacesOK'
  BY <1>2, <1>3, ThreadSides DEF QueueInv, QueueTypeOK, PlacesOK, Reading
<1>8. PrivateOK'
  BY <1>2, <1>3 DEF QueueInv, PrivateOK
<1>9. IndexedOK(i)'
  BY <1>1, <1>2, <1>5 DEF QueueInv, IndexedOK
<1>10. local[t].version = llsc[x].version => Other(x)' \in InList /\ i[Other(x)'] = local[t].version + 1
  <2>1. CASE Expected(t)
    BY <1>1, <2>1
  <2>2. CASE ~ Expected(t)
    <3>1. Other(x)' = Other(x)
      BY <1>1, <1>2, <2>2
    <3>2. local[t].version = llsc[x].version => Other(x) # pred[Current(x)]
      BY <1>2, <2>2, ExpectedCurrent
    <3>3. Other(x) \in InList /\ (Other(x) = pred[Current(x)] \/ i[Other(x)] = llsc[x].version + 1)
      BY <1>2, PointerNumbers
    <3>4. QED
      BY <3>1, <3>2, <3>3
  <2>3. QED
    BY <2>1, <2>2
<1>11. PointersOK(i)'
  <2>1. ASSUME NEW y \in Sides
        PROVE  /\ Current(y)' \in InList
               /\ i[Current(y)'] = llsc'[y].version
               /\ \/ Other(y)' = pred[Current(y)']
                  \/ Other(y)' \in InList /\ i[Other(y)'] = llsc'[y].version + 1
    <3>1. CASE y = x /\ Expected(t)
      <4>1. llsc[x].version = local[t].version
        BY <1>2, <3>1, ExpectedCurrent
      <4>2. QED
        BY <1>1, <3>1, <4>1 DEF QueueInv, PointersOK
    <3>2. CASE y # x \/ ~ Expected(t)
      BY <1>1, <3>2 DEF QueueInv, PointersOK
    <3>3. QED
      BY <3>1, <3>2
  <2>2. QED
    BY <1>2, <1>5, <2>1 DEF PointersOK
<1>12. HeldOK(i)'
  <2>1. \A u \in Thread : Side(u)' = Side(u) /\ Side(u) \in Sides
    BY ThreadSides DEF Side
  <2>2. \A u \in Thread : u # t => pc'[u] = pc[u]
    BY <1>4 DEF OthersSame
  <2>3. pc'[t] \notin {"transfer", "swing"}
    BY <1>2
  <2>4. ASSUME NEW u \in Thread, pc'[u] = "advance", llsc'[Side(u)].version = local[u].version
        PROVE  Other(Side(u))' \in InList /\ i[Other(Side(u))'] = local[u].version + 1
    <3>1. llsc[Side(u)].version = local[u].version
      BY <1>1, <2>1, <2>4
    <3>2. CASE u = t
      BY <1>10, <3>1, <3>2
    <3>3. CASE u # t
      <4>1. Other(Side(u)) \in InList /\ i[Other(Side(u))] = local[u].version + 1
        BY <2>2, <2>4, <3>1, <3>3 DEF QueueInv, HeldOK
      <4>2. CASE Side(u) = x /\ Expected(t)
        <5>1. llsc[x].version = local[t].version
          BY <1>2, <4>2, ExpectedCurrent
        <5>2. QED
          BY <1>1, <3>1, <4>2, <5>1
      <4>3. CASE Side(u) # x \/ ~ Expected(t)
        BY <1>1, <2>1, <4>1, <4>3
      <4>4. QED
        BY <4>2, <4>3
    <3>4. QED
      BY <3>2, <3>3
  <2>5. QED
    BY <1>1, <1>2, <1>5, <2>1, <2>2, <2>3, <2>4 DEF QueueInv, HeldOK
<1>13. DueOK(i, due)' /\ TransfersOK(i)' /\ ReadersOK(due)'
  BY <1>1, <1>2, <1>4, <1>5, CountsStay
<1>14. PredecessorsOK(i)'
  BY <1>1, <1>2, <1>5 DEF QueueInv, PredecessorsOK
<1>15. ClaimsOK(i)'
  <2>1. CASE t \in Consumer /\ Expected(t)
    <3>1. /\ x = "head" /\ llsc["head"].version = local[t].version
          /\ Other("head") = pred[Current("head")] /\ "head" \in Sides
      BY <1>2, <2>1, ExpectedCurrent, ThreadSides DEF Sides
    <3>2. i[Other("head")] = llsc["head"].version - 1 /\ llsc["head"].version \in Nat
      BY <3>1, PointerNumbers
    <3>3. i[target[t]] = llsc["head"].version + 1 /\ target[t] \in InList
      BY <1>1, <2>1, <3>1
    <3>4. \A n \in InList : Claimed(n) => i[n] <= llsc["head"].version
      BY <3>2 DEF QueueInv, ClaimsOK
    <3>5. ~ Claimed(target[t])
      BY <3>2, <3>3, <3>4
    <3>6. \A n : Claimed(n)' => Claimed(n) \/ n = target[t]
      BY <1>2, <1>3, ThreadSides DEF Claimed
    <3>7. \A u \in Consumer : won'[u] =>
             target[u] \in InList /\ ~ exit[target[u]].to_be_freed
      BY <1>3, <3>3, <3>5, ThreadSides DEF QueueInv, ClaimsOK, Claimed
    <3>8. \A u, w \in Consumer : won'[u] /\ won'[w] /\ target[u] = target[w] => u = w
      BY <1>3, <3>5, ThreadSides DEF QueueInv, ClaimsOK, Claimed
    <3>9. Other("head")' = target[t]
      BY <1>1, <2>1, <3>1
    <3>10. \A n \in InList : Claimed(n)' =>
               \/ i[n] <= llsc'["head"].version
               \/ i[n] = llsc'["head"].version + 1 /\ Other("head")' = n
      BY <1>1, <3>1, <3>3, <3>4, <3>6, <3>9
    <3>11. \A u \in Consumer : won'[u] =>
              target'[u] \in InList' /\ ~ exit'[target'[u]].to_be_freed
      BY <1>2, <1>5, <3>7
    <3>12. \A u, w \in Consumer : won'[u] /\ won'[w] /\ target'[u] = target'[w] => u = w
      BY <1>2, <3>8
    <3>13. QED
      BY <1>5, <3>10, <3>11, <3>12 DEF ClaimsOK
  <2>2. CASE ~ (t \in Consumer /\ Expected(t))
    <3>1. \A u \in Consumer : won'[u] <=> won[u]
      BY <1>3, <2>2, ThreadSides
    <3>2. "head" \in Sides /\ Other("head")' = Other("head")
      BY <1>1, <2>2, ThreadSides DEF Sides
    <3>3. QED
      BY <1>1, <1>2, <1>5, <3>1, <3>2 DEF QueueInv, ClaimsOK, Claimed
  <2>3. QED
    BY <2>1, <2>2
<1>16. QED
  BY <1>6, <1>7, <1>8, <1>9, <1>11, <1>12, <1>13, <1>14, <1>15 DEF QueueInv

\* What moving the version of a side on does.
LEMMA AdvancePointers ==
    ASSUME NEW i, NEW due, QueueInv(i, due), NEW t \in Thread, Advance(t)
    PROVE  LET x == Side(t) IN
           /\ llsc' \in [Sides -> Ends]
           /\ \A y \in Sides : y # x => /\ llsc'[y] = llsc[y]
                                        /\ Current(y)' = Current(y)
                                        /\ Other(y)' = Other(y)
           /\ llsc'[x].version = llsc[x].version + 1 /\ llsc'[x].count = 0
           /\ Current(x)' = Other(x) /\ Other(x)' = Current(x)
           /\ Other(x) \in InList /\ i[Other(x)] = llsc[x].version + 1
           /\ pred[Other(x)] = Current(x)
           /\ Current(x) = local[t].node /\ llsc[x].version = local[t].version
           /\ llsc[x].version \in Nat /\ llsc[x].count \in 0 .. CountWidth - 1
<1> DEFINE x == Side(t)
<1>1. /\ x \in Sides /\ pc[t] \in Reading /\ pc[t] = "advance" /\ llsc[x].version = local[t].version
      /\ llsc[x] \in Ends /\ llsc \in [Sides -> Ends]
      /\ llsc[x].version \in Nat /\ llsc[x].count \in 0 .. CountWidth - 1
      /\ CountWidth \in Nat
  BY ThreadSides, QueueAssumption DEF Advance, Reading, QueueInv, QueueTypeOK, Ends
<1>2. llsc' = [llsc EXCEPT ![x] = [llsc[x] EXCEPT !.version = llsc[x].version + 1, !.count = 0]]
  BY DEF Advance
<1>3. [llsc[x] EXCEPT !.version = llsc[x].version + 1, !.count = 0] \in Ends
  <2>1. CountWidth \in Nat /\ CountWidth > 0
    BY FewThreads
  <2>2. llsc[x].version + 1 \in Nat /\ 0 \in 0 .. CountWidth - 1
    BY <1>1, <2>1
  <2>3. QED
    BY <1>1, <2>2 DEF Ends
<1>4. llsc' \in [Sides -> Ends]
  BY <1>1, <1>2, <1>3
<1>5. \A y \in Sides : y # x => llsc'[y] = llsc[y]
  BY <1>1, <1>2
<1>6. llsc'[x] = [llsc[x] EXCEPT !.version = llsc[x].version + 1, !.count = 0]
  BY <1>1, <1>2
<1>7. llsc'[x].version = llsc[x].version + 1 /\ llsc'[x].count = 0 /\ llsc'[x].ptr = llsc[x].ptr
  BY <1>1, <1>6 DEF Ends
<1>8. Current(x)' = Other(x) /\ Other(x)' = Current(x)
  BY <1>1, <1>7, Parity DEF Current, Other
<1>9. Other(x) \in InList /\ i[Other(x)] = llsc[x].version + 1
  BY <1>1 DEF QueueInv, HeldOK
<1>10. pred[Other(x)] = Current(x)
  <2>1. Open(i, x, Other(x))
    BY <1>1, <1>9 DEF Open
  <2>2. ~ Clean(exit[Other(x)])
    <3>1. exit[Other(x)].transfers_left > 0
      BY <1>1, <1>9, <2>1, CleanUnread
    <3>2. QED
      BY <3>1 DEF Clean
  <2>3. pred[Other(x)] \in InList /\ i[pred[Other(x)]] = llsc[x].version
    BY <1>1, <1>9, <2>2 DEF QueueInv, PredecessorsOK
  <2>4. Current(x) \in InList /\ i[Current(x)] = llsc[x].version
    BY <1>1, PointerNumbers
  <2>5. QED
    BY <2>3, <2>4 DEF QueueInv, IndexedOK
<1>11. Current(x) = local[t].node
  BY <1>1, ExpectedCurrent
<1>12. \A y \in Sides : y # x => Current(y)' = Current(y) /\ Other(y)' = Other(y)
  BY <1>5 DEF Current, Other
<1>13. QED
  BY <1>1, <1>4, <1>5, <1>7, <1>8, <1>9, <1>10, <1>11, <1>12

\* The second compare-and-swap of sc_op: what becomes current is the next node,
\* and the count of the entry is now due to be transferred by this thread.
LEMMA AdvanceStep ==
    ASSUME NEW i, NEW due, QueueInv(i, due), NEW t \in Thread, Advance(t)
    PROVE  QueueInv(i, due)'
<1> DEFINE x == Side(t)
           c == Current(x)
           v == llsc[x].version
<1>1. /\ llsc' \in [Sides -> Ends]
      /\ \A y \in Sides : y # x => /\ llsc'[y] = llsc[y]
                                   /\ Current(y)' = Current(y)
                                   /\ Other(y)' = Other(y)
      /\ llsc'[x].version = v + 1 /\ llsc'[x].count = 0
      /\ Current(x)' = Other(x) /\ Other(x)' = c
      /\ Other(x) \in InList /\ i[Other(x)] = v + 1
      /\ pred[Other(x)] = c
      /\ c = local[t].node /\ v = local[t].version
      /\ v \in Nat /\ llsc[x].count \in 0 .. CountWidth - 1
  BY AdvancePointers
<1>2. /\ next' = next /\ pred' = pred /\ exit' = exit /\ free' = free /\ won' = won
      /\ local' = local /\ mine' = mine /\ target' = target /\ before' = before
      /\ moved' = [moved EXCEPT ![t] = llsc[x].count] /\ moved'[t] = llsc[x].count
      /\ \A u \in Thread : u # t => moved'[u] = moved[u]
      /\ moved' \in [Thread -> 0 .. CountWidth - 1]
      /\ pc[t] = "advance" /\ pc'[t] = "transfer" /\ \A u \in Thread : u # t => pc'[u] = pc[u]
      /\ DOMAIN pc' = Thread /\ x \in Sides /\ pc[t] \in Reading /\ pc'[t] \in Reading
  BY <1>1, ThreadSides DEF Advance, Goto, memory, QueueInv, QueueTypeOK, Reading
<1>3. c \in InList /\ c \in Node /\ i[c] = v
  BY <1>2, PointerNumbers DEF InList
<1>4. \A n \in InList : n # c => i[n] # v
  BY <1>3 DEF QueueInv, IndexedOK
<1>5. InList' = InList
  BY <1>2 DEF InList, Private
<1>6. \A y \in Sides : llsc[y].version \in Nat /\ llsc'[y].version \in Nat
                       /\ llsc[y].version <= llsc'[y].version
  <2>1. \A y \in Sides : llsc[y].version \in Nat /\ llsc'[y].version \in Nat
    BY <1>1 DEF QueueInv, QueueTypeOK, Ends
  <2>2. \A y \in Sides : llsc'[y].version = llsc[y].version \/ llsc'[y].version = llsc[y].version + 1
    BY <1>1
  <2>3. QED
    BY <2>1, <2>2
<1>7. \A u \in Thread : Side(u)' = Side(u) /\ Side(u) \in Sides
  BY ThreadSides DEF Side
<1>8. \A u \in Thread : pc[u] = "transfer" => u # t /\ local[u].version < llsc[Side(u)].version
                                              /\ i[local[u].node] = local[u].version
                                              /\ (Side(u) = x => local[u].node # c)
  BY <1>1, <1>2, <1>3, <1>6, <1>7 DEF QueueInv, HeldOK, Reading
<1> HIDE DEF x, c, v
<1>9. QueueTypeOK'
  BY <1>1, <1>2 DEF QueueInv, QueueTypeOK
<1>10. PlacesOK'
  BY <1>2, ThreadSides DEF QueueInv, PlacesOK
<1>11. PrivateOK'
  BY <1>2 DEF QueueInv, PrivateOK
<1>12. IndexedOK(i)'
  <2>1. i \in [Node -> Int] /\ \A n \in InList : i[n] \in Int
    BY DEF QueueInv, IndexedOK, InList
  <2>2. \A n \in InList, y \in Sides :
           llsc'[y].version <= i[n] + 1 => llsc[y].version <= i[n] + 1
    BY <1>6, <2>1
  <2>3. QED
    BY <1>2, <1>5, <2>1, <2>2 DEF QueueInv, IndexedOK
<1>13. PointersOK(i)'
  BY <1>1, <1>2, <1>5 DEF QueueInv, PointersOK
<1>14. HeldOK(i)'
  <2>1. \A u \in Thread : pc'[u] \in Reading =>
           /\ local[u].node \in InList
           /\ i[local[u].node] = local[u].version
           /\ local[u].version <= llsc'[Side(u)].version
    BY <1>2, <1>6, <1>7 DEF QueueInv, HeldOK, QueueTypeOK
  <2>2. \A u \in Thread : pc'[u] = "transfer" => local[u].version < llsc'[Side(u)].version
    <3>1. x = Side(t)
      BY DEF x
    <3>2. QED
      BY <1>1, <1>2, <1>6, <1>7, <1>8, <3>1 DEF QueueInv, QueueTypeOK
  <2>3. \A u, w \in Thread :
           /\ pc'[u] = "transfer" /\ pc'[w] = "transfer"
           /\ local[u].node = local[w].node /\ Side(u) = Side(w)
           => u = w
    BY <1>1, <1>2, <1>8 DEF QueueInv, HeldOK, x
  <2>4. \A u \in Thread : pc'[u] \in {"swing", "advance"} =>
           u # t /\ pc[u] = pc'[u] /\ (llsc'[Side(u)].version = local[u].version => Side(u) # x)
    <3>1. ASSUME NEW u \in Thread, pc'[u] \in {"swing", "advance"}
          PROVE  /\ u # t /\ pc[u] = pc'[u]
                 /\ local[u].version <= llsc[Side(u)].version /\ local[u].version \in Nat
      BY <1>2, <3>1 DEF QueueInv, HeldOK, Reading, QueueTypeOK
    <3>2. QED
      BY <1>1, <1>7, <3>1 DEF v
  <2>5. QED
    BY <1>1, <1>2, <1>5, <1>7, <2>1, <2>2, <2>3, <2>4 DEF QueueInv, HeldOK
<1>15. \A y, n : Transferring(y, n)' <=> Transferring(y, n) \/ (y = x /\ n = c)
  BY <1>1, <1>2, <1>7 DEF Transferring, x
<1>16. \A y \in Sides : \A n \in InList : Open(i, y, n)' <=> Open(i, y, n)
  <2>1. ASSUME NEW y \in Sides, NEW n \in InList
        PROVE  Open(i, y, n)' <=> Open(i, y, n)
    <3>1. i[n] \in Int
      BY DEF QueueInv, IndexedOK, InList
    <3>2. CASE y = x /\ n = c
      BY <1>1, <1>3, <1>15, <3>2 DEF Open, v
    <3>3. CASE y = x /\ n # c
      <4>1. llsc'[y].version <= i[n] <=> llsc[y].version <= i[n]
        BY <1>1, <1>4, <3>1, <3>3 DEF v
      <4>2. QED
        BY <1>15, <3>3, <4>1 DEF Open
    <3>4. CASE y # x
      BY <1>1, <1>15, <3>4 DEF Open
    <3>5. QED
      BY <3>2, <3>3, <3>4
  <2>2. QED
    BY <2>1
<1>17. DueOK(i, due)'
  <2>1. ASSUME NEW n \in InList, NEW y \in Sides
        PROVE  /\ llsc'[y].version = i[n] => due[y][n] = llsc'[y].count
               /\ llsc'[y].version < i[n] => due[y][n] = 0
               /\ ~ Open(i, y, n)' => due[y][n] = 0
    <3>1. i[n] \in Int
      BY DEF QueueInv, IndexedOK, InList
    <3>2. /\ llsc[y].version = i[n] => due[y][n] = llsc[y].count
          /\ llsc[y].version < i[n] => due[y][n] = 0
          /\ ~ Open(i, y, n) => due[y][n] = 0
      BY DEF QueueInv, DueOK
    <3>3. CASE y = x
      BY <1>1, <1>16, <3>1, <3>2, <3>3 DEF v
    <3>4. CASE y # x
      BY <1>1, <1>16, <3>2, <3>4
    <3>5. QED
      BY <3>3, <3>4
  <2>2. ASSUME NEW u \in Thread, pc'[u] = "transfer"
        PROVE  due[Side(u)][local[u].node] = moved'[u]
    <3>1. CASE u = t
      <4>1. due[x][c] = llsc[x].count
        BY <1>2, <1>3 DEF QueueInv, DueOK, v
      <4>2. QED
        BY <1>1, <1>2, <3>1, <4>1 DEF x
    <3>2. CASE u # t
      BY <1>2, <2>2, <3>2 DEF QueueInv, DueOK
    <3>3. QED
      BY <3>1, <3>2
  <2>3. due \in [Sides -> [Node -> 0 .. CountWidth - 1]]
    BY DEF QueueInv, DueOK
  <2>4. QED
    BY <1>2, <1>5, <1>7, <2>1, <2>2, <2>3 DEF DueOK
<1>18. TransfersOK(i)'
  BY <1>2, <1>5, <1>16 DEF QueueInv, TransfersOK, Sides
<1>19. ReadersOK(due)'
  BY <1>2, <1>5 DEF QueueInv, ReadersOK, Readers, SameCount
<1>20. PredecessorsOK(i)'
  <2>1. \A n \in InList, y \in Sides :
           i[n] + 1 < llsc[y].version => i[n] + 1 < llsc'[y].version
    BY <1>6 DEF QueueInv, IndexedOK, InList
  <2>2. QED
    BY <1>2, <1>5, <2>1 DEF QueueInv, PredecessorsOK
<1>21. ClaimsOK(i)'
  <2>1. \A n : Claimed(n)' <=> Claimed(n)
    BY <1>2 DEF Claimed
  <2>2. \A n \in InList : Claimed(n) =>
           \/ i[n] <= llsc'["head"].version
           \/ i[n] = llsc'["head"].version + 1 /\ Other("head")' = n
    <3>1. CASE x = "head"
      <4>1. \A n \in InList : Claimed(n) => i[n] <= v + 1
        BY <1>1, <3>1 DEF QueueInv, ClaimsOK, v, IndexedOK, InList
      <4>2. QED
        BY <1>1, <3>1, <4>1
    <3>2. CASE x # "head"
      BY <1>1, <3>2 DEF QueueInv, ClaimsOK, Sides
    <3>3. QED
      BY <3>1, <3>2
  <2>3. QED
    BY <1>2, <1>5, <2>1, <2>2 DEF QueueInv, ClaimsOK
<1>22. QED
  BY <1>9, <1>10, <1>11, <1>12, <1>13, <1>14, <1>17, <1>18, <1>19, <1>20, <1>21 DEF QueueInv

-----------------------------------------------------------------------------
(* transfer_op.                                                             *)

\* transfer_op writes the exit of the node that was left, once for each side.
LEMMA TransferFrame ==
    ASSUME NEW i, NEW due, QueueInv(i, due), NEW t \in Thread, Transfer(t)
    PROVE  LET n == local[t].node IN
           /\ n \in InList /\ n \in Node /\ Side(t) \in Sides
           /\ moved[t] \in 0 .. CountWidth - 1 /\ moved[t] = due[Side(t)][n]
           /\ i[n] < llsc[Side(t)].version
           /\ exit' \in [Node -> Exits] /\ \A m \in Node : m # n => exit'[m] = exit[m]
           /\ exit'[n].count = (exit[n].count + moved[t]) % CountWidth
           /\ exit'[n].transfers_left = exit[n].transfers_left - 1
           /\ exit'[n].nl_p = exit[n].nl_p /\ exit'[n].to_be_freed = exit[n].to_be_freed
           /\ ~ Clean(exit[n])
           /\ \A u \in Thread : u # t /\ pc[u] = "transfer" => local[u].node # n \/ Side(u) # Side(t)
<1> DEFINE n == local[t].node
<1>1. pc[t] = "transfer" /\ pc[t] \in Reading /\ Side(t) \in Sides
  BY ThreadSides DEF Transfer, Reading
<1>2. n \in InList /\ n \in Node /\ ~ Clean(exit[n]) /\ i[n] = local[t].version
  BY <1>1, HeldPredecessor
<1>3. moved[t] \in 0 .. CountWidth - 1 /\ moved[t] = due[Side(t)][n]
      /\ exit[n] \in Exits /\ exit \in [Node -> Exits]
  BY <1>1, <1>2 DEF QueueInv, QueueTypeOK, DueOK
<1>4. i[n] < llsc[Side(t)].version
  BY <1>1, <1>2 DEF QueueInv, HeldOK
<1>5. exit[n].count \in 0 .. CountWidth - 1 /\ exit[n].transfers_left \in Int
  BY <1>3 DEF Exits
<1>6. PICK k \in 0 .. CountWidth - 1 : k = (exit[n].count + moved[t]) % CountWidth
  BY <1>3, <1>5, SumCount
<1>7. exit' = [exit EXCEPT ![n] = [exit[n] EXCEPT !.count = k,
                                   !.transfers_left = exit[n].transfers_left - 1]]
  BY <1>6 DEF Transfer
<1>8. [exit[n] EXCEPT !.count = k, !.transfers_left = exit[n].transfers_left - 1] \in Exits
  <2>1. exit[n].transfers_left - 1 \in Int
    BY <1>5
  <2>2. QED
    BY <1>3, <1>6, <2>1 DEF Exits
<1>9. exit' \in [Node -> Exits] /\ \A m \in Node : m # n => exit'[m] = exit[m]
  BY <1>2, <1>3, <1>7, <1>8
<1>10. exit'[n] = [exit[n] EXCEPT !.count = k, !.transfers_left = exit[n].transfers_left - 1]
  BY <1>2, <1>3, <1>7
<1>11. /\ exit'[n].count = k
       /\ exit'[n].transfers_left = exit[n].transfers_left - 1
       /\ exit'[n].nl_p = exit[n].nl_p /\ exit'[n].to_be_freed = exit[n].to_be_freed
  BY <1>3, <1>10 DEF Exits
<1>12. \A u \in Thread : u # t /\ pc[u] = "transfer" => local[u].node # n \/ Side(u) # Side(t)
  BY <1>1 DEF QueueInv, HeldOK
<1>13. QED
  BY <1>1, <1>2, <1>3, <1>4, <1>6, <1>9, <1>11, <1>12

\* What was due is now in the exit of the node.
LEMMA TransferCounts ==
    ASSUME NEW i, NEW due, QueueInv(i, due), NEW t \in Thread, Transfer(t),
           NEW d, d = [due EXCEPT ![Side(t)][local[t].node] = 0]
    PROVE  DueOK(i, d)' /\ TransfersOK(i)' /\ ReadersOK(d)'
<1> DEFINE x == Side(t)
           n == local[t].node
<1>1. /\ n \in InList /\ n \in Node /\ x \in Sides
      /\ moved[t] \in 0 .. CountWidth - 1 /\ moved[t] = due[x][n]
      /\ i[n] < llsc[x].version
      /\ exit' \in [Node -> Exits] /\ \A m \in Node : m # n => exit'[m] = exit[m]
      /\ exit'[n].count = (exit[n].count + moved[t]) % CountWidth
      /\ exit'[n].transfers_left = exit[n].transfers_left - 1
      /\ \A u \in Thread : u # t /\ pc[u] = "transfer" => local[u].node # n \/ Side(u) # x
  BY TransferFrame
<1>2. /\ llsc' = llsc /\ free' = free /\ mine' = mine /\ won' = won /\ local' = local
      /\ pc[t] = "transfer" /\ pc'[t] = "release"
      /\ \A u \in Thread : u # t => pc'[u] = pc[u] /\ moved'[u] = moved[u]
  BY DEF Transfer, Goto, QueueInv, QueueTypeOK
<1>3. InList' = InList
  BY <1>2 DEF InList, Private
<1>4. \A u \in Thread : Side(u)' = Side(u) /\ Side(u) \in Sides
  BY ThreadSides DEF Side
<1>5. CountWidth \in Nat /\ CountWidth > 0
  BY FewThreads
<1>6. /\ d \in [Sides -> [Node -> 0 .. CountWidth - 1]]
      /\ d[x][n] = 0
      /\ \A y \in Sides, m \in Node : y # x \/ m # n => d[y][m] = due[y][m]
  BY <1>1, <1>5 DEF QueueInv, DueOK
<1>7. exit \in [Node -> Exits] /\ exit[n].count \in 0 .. CountWidth - 1
      /\ exit[n].transfers_left \in Int /\ exit'[n].count \in 0 .. CountWidth - 1
  BY <1>1 DEF QueueInv, QueueTypeOK, Exits
<1>8. Transferring(x, n)
  BY <1>2 DEF Transferring
<1> HIDE DEF x, n
<1>9. \A y, m : Transferring(y, m)' <=> Transferring(y, m) /\ ~ (y = x /\ m = n)
  BY <1>1, <1>2, <1>4 DEF Transferring, x, n
<1>10. /\ Open(i, x, n)
       /\ \A y \in Sides : \A m \in InList :
             Open(i, y, m)' <=> Open(i, y, m) /\ ~ (y = x /\ m = n)
  <2>1. llsc[x].version \in Nat /\ i[n] \in Int
    BY <1>1 DEF QueueInv, QueueTypeOK, Ends, IndexedOK
  <2>2. ~ (llsc[x].version <= i[n])
    BY <1>1, <2>1
  <2>3. ASSUME NEW y \in Sides, NEW m \in InList
        PROVE  Open(i, y, m)' <=> Open(i, y, m) /\ ~ (y = x /\ m = n)
    BY <1>2, <1>9, <2>2 DEF Open
  <2>4. QED
    BY <1>8, <2>3 DEF Open
<1>11. DueOK(i, d)'
  <2>1. ASSUME NEW m \in InList, NEW y \in Sides
        PROVE  /\ llsc[y].version = i[m] => d[y][m] = llsc[y].count
               /\ llsc[y].version < i[m] => d[y][m] = 0
               /\ ~ Open(i, y, m)' => d[y][m] = 0
    <3>1. CASE y = x /\ m = n
      <4>1. llsc[x].version \in Nat /\ i[n] \in Int
        BY <1>1 DEF QueueInv, QueueTypeOK, Ends, IndexedOK
      <4>2. QED
        BY <1>1, <1>6, <3>1, <4>1
    <3>2. CASE y # x \/ m # n
      <4>1. d[y][m] = due[y][m] /\ (Open(i, y, m)' <=> Open(i, y, m))
        BY <1>6, <1>10, <3>2 DEF InList
      <4>2. QED
        BY <4>1 DEF QueueInv, DueOK
    <3>3. QED
      BY <3>1, <3>2
  <2>2. ASSUME NEW u \in Thread, pc'[u] = "transfer"
        PROVE  d[Side(u)][local[u].node] = moved'[u]
    <3>1. u # t /\ pc[u] = "transfer" /\ moved'[u] = moved[u]
      BY <1>2, <2>2
    <3>2. local[u].node \in Node /\ due[Side(u)][local[u].node] = moved[u]
      BY <3>1 DEF QueueInv, DueOK, HeldOK, Reading, InList
    <3>3. QED
      BY <1>1, <1>4, <1>6, <3>1, <3>2
  <2>3. QED
    BY <1>2, <1>3, <1>4, <1>6, <2>1, <2>2 DEF DueOK
<1>12. TransfersOK(i)'
  <2>1. ASSUME NEW m \in InList
        PROVE  exit'[m].transfers_left = (IF Open(i, "head", m)' THEN 1 ELSE 0)
                                       + (IF Open(i, "tail", m)' THEN 1 ELSE 0)
    <3>1. exit[m].transfers_left = (IF Open(i, "head", m) THEN 1 ELSE 0)
                                 + (IF Open(i, "tail", m) THEN 1 ELSE 0)
      BY DEF QueueInv, TransfersOK
    <3>2. "head" \in Sides /\ "tail" \in Sides /\ m \in Node
      BY DEF Sides, InList
    <3>3. CASE m # n
      <4>1. /\ Open(i, "head", m)' <=> Open(i, "head", m)
            /\ Open(i, "tail", m)' <=> Open(i, "tail", m)
        BY <1>10, <3>2, <3>3
      <4>2. QED
        BY <1>1, <3>1, <3>2, <3>3, <4>1
    <3>4. CASE m = n /\ x = "head"
      <4>1. /\ ~ Open(i, "head", m)' /\ (m = n => Open(i, "head", m))
            /\ Open(i, "tail", m)' <=> Open(i, "tail", m)
        BY <1>10, <3>2, <3>4
      <4>2. QED
        BY <1>1, <3>1, <3>4, <4>1
    <3>5. CASE m = n /\ x = "tail"
      <4>1. /\ ~ Open(i, "tail", m)' /\ (m = n => Open(i, "tail", m))
            /\ Open(i, "head", m)' <=> Open(i, "head", m)
        BY <1>10, <3>2, <3>5
      <4>2. QED
        BY <1>1, <3>1, <3>5, <4>1
    <3>6. QED
      BY <1>1, <3>3, <3>4, <3>5 DEF Sides
  <2>2. QED
    BY <1>3, <2>1 DEF TransfersOK
<1>13. ReadersOK(d)'
  <2>1. ASSUME NEW m \in InList
        PROVE  SameCount(Cardinality(Readers(m)), exit'[m].count + d["head"][m] + d["tail"][m])
    <3>1. SameCount(Cardinality(Readers(m)), exit[m].count + due["head"][m] + due["tail"][m])
      BY DEF QueueInv, ReadersOK
    <3>2. m \in Node /\ "head" \in Sides /\ "tail" \in Sides
      BY DEF InList, Sides
    <3>3. CASE m # n
      BY <1>1, <1>6, <3>1, <3>2, <3>3
    <3>4. CASE m = n
      <4> DEFINE a == exit[m].count + due["head"][m] + due["tail"][m]
                 b == exit'[m].count + d["head"][m] + d["tail"][m]
                 r == Cardinality(Readers(m))
      <4>1. exit'[m].count = exit[m].count + moved[t] \/ exit'[m].count = exit[m].count + moved[t] - CountWidth
        BY <1>1, <1>7, <3>4, SumCount
      <4>2. /\ due["head"][m] \in 0 .. CountWidth - 1 /\ due["tail"][m] \in 0 .. CountWidth - 1
            /\ d["head"][m] \in 0 .. CountWidth - 1 /\ d["tail"][m] \in 0 .. CountWidth - 1
        BY <1>6, <3>2 DEF QueueInv, DueOK
      <4>3. /\ moved[t] \in 0 .. CountWidth - 1
            /\ \/ d["head"][m] = 0 /\ due["head"][m] = moved[t] /\ d["tail"][m] = due["tail"][m]
               \/ d["tail"][m] = 0 /\ due["tail"][m] = moved[t] /\ d["head"][m] = due["head"][m]
        BY <1>1, <1>6, <3>2, <3>4 DEF Sides
      <4>4. a \in Int /\ b \in Int /\ (b = a \/ b = a - CountWidth)
        BY <1>5, <1>7, <3>4, <4>1, <4>2, <4>3
      <4>5. r \in Int /\ SameCount(r, a)
        BY <3>1, FewThreads DEF Readers
      <4> HIDE DEF a, b, r
      <4>6. SameCount(r, b)
        BY <1>5, <4>4, <4>5, SameStep
      <4>7. QED
        BY <4>6 DEF r, b
    <3>5. QED
      BY <3>3, <3>4
  <2>2. \A m : Readers(m)' = Readers(m)
    BY <1>2 DEF Readers
  <2>3. QED
    BY <1>3, <2>1, <2>2 DEF ReadersOK, SameCount
<1>14. QED
  BY <1>11, <1>12, <1>13

\* transfer_op keeps the invariant.  The node has a reader, the thread itself,
\* so that it is not freed.
LEMMA TransferStep ==
    ASSUME NEW i, NEW due, QueueInv(i, due), NEW t \in Thread, Transfer(t)
    PROVE  \E d : QueueInv(i, d)'
<1> DEFINE n == local[t].node
<1>1. /\ n \in InList /\ n \in Node
      /\ exit' \in [Node -> Exits] /\ \A m \in Node : m # n => exit'[m] = exit[m]
      /\ exit'[n].nl_p = exit[n].nl_p /\ exit'[n].to_be_freed = exit[n].to_be_freed
      /\ ~ Clean(exit[n])
  BY TransferFrame
<1>2. /\ llsc' = llsc /\ next' = next /\ pred' = pred /\ free' = free /\ mine' = mine
      /\ won' = won /\ local' = local /\ target' = target /\ before' = before
      /\ pc[t] = "transfer" /\ pc'[t] = "release" /\ DOMAIN pc' = Thread
      /\ \A u \in Thread : u # t => pc'[u] = pc[u]
      /\ moved' \in [Thread -> 0 .. CountWidth - 1]
  <2>1. CountWidth \in Nat /\ CountWidth > 0
    BY FewThreads
  <2>2. QED
    BY <2>1 DEF Transfer, Goto, QueueInv, QueueTypeOK
<1>3. InList' = InList
  BY <1>2 DEF InList, Private
<1>4. /\ \A m \in Node : exit'[m].nl_p = exit[m].nl_p /\ exit'[m].to_be_freed = exit[m].to_be_freed
      /\ \A m \in InList : ~ Clean(exit'[m]) => ~ Clean(exit[m])
      /\ \A m \in InList : m \in Node
  BY <1>1 DEF InList
<1> HIDE DEF n
<1>5. QueueTypeOK'
  BY <1>1, <1>2 DEF QueueInv, QueueTypeOK
<1>6. PlacesOK'
  BY <1>2, ThreadSides DEF QueueInv, PlacesOK, Reading
<1>7. PrivateOK'
  <2>1. \A m \in free : m # n /\ m \in Node
    BY <1>1 DEF InList, QueueInv, QueueTypeOK
  <2>2. \A u \in Producer : ~ won[u] /\ mine[u] # Null => mine[u] # n /\ mine[u] \in Node
    BY <1>1, ThreadSides DEF InList, Private, QueueInv, QueueTypeOK
  <2>3. QED
    BY <1>1, <1>2, <2>1, <2>2 DEF QueueInv, PrivateOK
<1>8. IndexedOK(i)' /\ PointersOK(i)'
  BY <1>2, <1>3, ListStays
<1>9. HeldOK(i)'
  BY <1>2, <1>3 DEF QueueInv, HeldOK, Reading, Side, Other
<1>10. PredecessorsOK(i)'
  <2>1. \A m \in InList : ~ Clean(exit'[m]) =>
          /\ pred[m] \in InList
          /\ i[pred[m]] = i[m] - 1
          /\ ~ exit'[pred[m]].nl_p
          /\ \A u \in Thread : before[u] # pred[m]
    BY <1>4 DEF QueueInv, PredecessorsOK
  <2>2. \A u \in Thread : before[u] # Null => before[u] \in InList /\ ~ exit'[before[u]].nl_p
    BY <1>4 DEF QueueInv, PredecessorsOK
  <2>3. \A m \in InList, x \in Sides :
          exit'[m].nl_p \/ (\E u \in Thread : before[u] = m) => i[m] + 1 < llsc[x].version
    BY <1>4 DEF QueueInv, PredecessorsOK
  <2>4. QED
    BY <1>2, <1>3, <2>1, <2>2, <2>3 DEF QueueInv, PredecessorsOK
<1>11. ClaimsOK(i)'
  BY <1>2, <1>3, <1>4 DEF QueueInv, ClaimsOK, Claimed, Other
<1>12. PICK d : d = [due EXCEPT ![Side(t)][local[t].node] = 0]
  OBVIOUS
<1>13. DueOK(i, d)' /\ TransfersOK(i)' /\ ReadersOK(d)'
  BY <1>12, TransferCounts
<1>14. QueueInv(i, d)'
  BY <1>5, <1>6, <1>7, <1>8, <1>9, <1>10, <1>11, <1>13 DEF QueueInv
<1>15. QED
  BY <1>14

-----------------------------------------------------------------------------
(* Storing an exit word, which may free its node.                           *)

\* A write of an exit word frees that node at most.
LEMMA StoreFrame ==
    ASSUME NEW i, NEW due, QueueInv(i, due), NEW n \in InList, NEW e \in Exits, Store(n, e),
           mine' = mine, \A u \in Producer : won'[u] = won[u]
    PROVE  /\ Private' = Private
           /\ next' \in [Node -> Node \union {Null}] /\ pred' \in [Node -> Node \union {Null}]
           /\ exit' \in [Node -> Exits] /\ free' \subseteq Node
           /\ InList' \subseteq InList /\ \A m \in InList : m # n => m \in InList'
           /\ n \in InList' <=> ~ Freeable(e)
           /\ \A m \in InList' : /\ next'[m] = next[m] /\ pred'[m] = pred[m]
                                 /\ m # n => exit'[m] = exit[m]
                                 /\ m = n => exit'[m] = e
           /\ PrivateOK'
<1>1. Private' = Private
  BY DEF Private
<1>2. n \in Node /\ n \notin free /\ n \notin Private
  BY DEF InList
<1>3. /\ next \in [Node -> Node \union {Null}] /\ pred \in [Node -> Node \union {Null}]
      /\ exit \in [Node -> Exits] /\ free \subseteq Node
  BY DEF QueueInv, QueueTypeOK
<1>4. /\ next' \in [Node -> Node \union {Null}] /\ pred' \in [Node -> Node \union {Null}]
      /\ free' \subseteq Node
      /\ \A m \in Node : m # n => next'[m] = next[m] /\ pred'[m] = pred[m]
  BY <1>2, <1>3 DEF Store
<1>5. NewExit \in Exits
  <2>1. CountWidth \in Nat /\ CountWidth > 0
    BY FewThreads
  <2>2. 0 \in 0 .. CountWidth - 1
    BY <2>1
  <2>3. QED
    BY <2>2 DEF NewExit, Exits
<1>6. exit' \in [Node -> Exits] /\ \A m \in Node : m # n => exit'[m] = exit[m]
  BY <1>2, <1>3, <1>5 DEF Store
<1>7. CASE Freeable(e)
  <2>1. InList' = InList \ {n}
    BY <1>1, <1>7 DEF InList, Store
  <2>2. free' = free \union {n} /\ next'[n] = Null /\ exit'[n] = NewExit
    BY <1>2, <1>3, <1>7 DEF Store
  <2>3. \A u \in Producer : ~ won[u] /\ mine[u] # Null => mine[u] # n /\ mine[u] \in Node
    BY <1>2, ThreadSides DEF Private, QueueInv, QueueTypeOK
  <2>4. PrivateOK'
    BY <1>2, <1>3, <1>4, <1>6, <2>2, <2>3 DEF QueueInv, PrivateOK
  <2>5. QED
    BY <1>1, <1>4, <1>6, <1>7, <2>1, <2>4 DEF InList
<1>8. CASE ~ Freeable(e)
  <2>1. InList' = InList /\ next' = next /\ pred' = pred /\ free' = free
    BY <1>1, <1>8 DEF InList, Store
  <2>2. exit'[n] = e
    BY <1>2, <1>3, <1>8 DEF Store
  <2>3. \A u \in Producer : ~ won[u] /\ mine[u] # Null => mine[u] # n /\ mine[u] \in Node
    BY <1>2, ThreadSides DEF Private, QueueInv, QueueTypeOK
  <2>4. \A m \in free : m # n /\ m \in Node
    BY <1>2, <1>3
  <2>5. PrivateOK'
    BY <1>6, <2>1, <2>3, <2>4 DEF QueueInv, PrivateOK
  <2>6. QED
    BY <1>1, <1>4, <1>6, <1>8, <2>1, <2>2, <2>5 DEF InList
<1>9. QED
  BY <1>7, <1>8

\* Both sides have passed a node that is freed.
LEMMA StorePassed ==
    ASSUME NEW i, NEW due, QueueInv(i, due), NEW n \in InList, NEW e \in Exits,
           e.transfers_left = exit[n].transfers_left, Clean(e)
    PROVE  \A x \in Sides : i[n] < llsc[x].version /\ ~ Transferring(x, n)
<1>1. \A x \in Sides : ~ Open(i, x, n)
  BY CleanUnread DEF Clean
<1>2. \A x \in Sides : llsc[x].version \in Nat /\ i[n] \in Int
  BY DEF QueueInv, QueueTypeOK, Ends, IndexedOK, InList
<1>3. QED
  BY <1>1, <1>2 DEF Open

\* A freed node is not one that head or tail point to, or come to next.
LEMMA StoreList ==
    ASSUME NEW i, NEW due, QueueInv(i, due), NEW n \in InList, NEW e \in Exits, Store(n, e),
           mine' = mine, \A u \in Producer : won'[u] = won[u],
           llsc' = llsc, e.transfers_left = exit[n].transfers_left
    PROVE  IndexedOK(i)' /\ PointersOK(i)'
<1>1. /\ InList' \subseteq InList /\ \A m \in InList : m # n => m \in InList'
      /\ n \in InList' <=> ~ Freeable(e)
      /\ \A m \in InList' : next'[m] = next[m] /\ pred'[m] = pred[m]
  BY StoreFrame
<1>2. n \notin InList' => \A x \in Sides : i[n] < llsc[x].version
  BY <1>1, StorePassed DEF Freeable
<1>3. /\ \A x \in Sides : llsc[x].version \in Nat
      /\ \A m \in InList : i[m] \in Int
  BY DEF QueueInv, QueueTypeOK, Ends, IndexedOK, InList
<1>4. IndexedOK(i)'
  <2>1. ASSUME NEW m \in InList', NEW x \in Sides, next[m] # Null, llsc[x].version <= i[m] + 1
        PROVE  next[m] \in InList' /\ i[next[m]] = i[m] + 1
    <3>1. next[m] \in InList /\ i[next[m]] = i[m] + 1
      BY <1>1, <2>1 DEF QueueInv, IndexedOK
    <3>2. next[m] = n => n \in InList'
      BY <1>2, <1>3, <2>1, <3>1
    <3>3. QED
      BY <1>1, <3>1, <3>2
  <2>2. /\ i \in [Node -> Int]
        /\ \A m, k \in InList' : i[m] = i[k] => m = k
        /\ \A k \in InList' : next[k] = Null /\ i[k] >= 0 => \A m \in InList' : i[m] <= i[k]
    BY <1>1 DEF QueueInv, IndexedOK
  <2>3. QED
    BY <1>1, <2>1, <2>2 DEF IndexedOK
<1>5. PointersOK(i)'
  <2>1. ASSUME NEW x \in Sides
        PROVE  /\ Current(x) \in InList'
               /\ \/ Other(x) = pred'[Current(x)]
                  \/ Other(x) \in InList' /\ i[Other(x)] = llsc[x].version + 1
    <3>1. /\ Current(x) \in InList /\ i[Current(x)] = llsc[x].version
          /\ \/ Other(x) = pred[Current(x)]
             \/ Other(x) \in InList /\ i[Other(x)] = llsc[x].version + 1
      BY DEF QueueInv, PointersOK
    <3>2. Current(x) \in InList'
      BY <1>1, <1>2, <1>3, <3>1
    <3>3. i[Other(x)] = llsc[x].version + 1 /\ Other(x) \in InList => Other(x) \in InList'
      BY <1>1, <1>2, <1>3
    <3>4. QED
      BY <1>1, <3>1, <3>2, <3>3
  <2>2. \A x : Current(x)' = Current(x) /\ Other(x)' = Other(x)
    BY DEF Current, Other
  <2>3. QED
    BY <2>1, <2>2 DEF QueueInv, PointersOK
<1>6. QED
  BY <1>4, <1>5

\* What threads hold stays linked.
LEMMA StoreHeld ==
    ASSUME NEW i, NEW due, QueueInv(i, due), NEW n \in InList, NEW e \in Exits, Store(n, e),
           mine' = mine, \A u \in Producer : won'[u] = won[u],
           llsc' = llsc, e.transfers_left = exit[n].transfers_left,
           \A u \in Thread : pc'[u] \in Reading =>
               pc'[u] = pc[u] /\ local'[u] = local[u] /\ target'[u] = target[u],
           Freeable(e) => \A u \in Thread : pc'[u] \in Reading => local[u].node # n
    PROVE  HeldOK(i)'
<1>1. /\ InList' \subseteq InList /\ \A m \in InList : m # n => m \in InList'
      /\ n \in InList' <=> ~ Freeable(e)
  BY StoreFrame
<1>2. n \notin InList' => \A x \in Sides : i[n] < llsc[x].version
  BY <1>1, StorePassed DEF Freeable
<1>3. /\ \A x \in Sides : llsc[x].version \in Nat
      /\ \A m \in InList : i[m] \in Int
      /\ \A x \in Sides : \A m \in InList : i[m] = llsc[x].version + 1 => m \in InList'
  <2>1. /\ \A x \in Sides : llsc[x].version \in Nat
        /\ \A m \in InList : i[m] \in Int
    BY DEF QueueInv, QueueTypeOK, Ends, IndexedOK, InList
  <2>2. QED
    BY <1>1, <1>2, <2>1
<1>4. \A u \in Thread : Side(u)' = Side(u) /\ Side(u) \in Sides
  BY ThreadSides DEF Side
<1>5. \A u \in Thread : pc'[u] \in Reading =>
          /\ local'[u].node \in InList'
          /\ i[local'[u].node] = local'[u].version
          /\ local'[u].version <= llsc[Side(u)].version
  BY <1>1 DEF QueueInv, HeldOK
<1>6. \A u \in Thread : pc'[u] = "transfer" =>
          pc[u] = "transfer" /\ local'[u] = local[u] /\ local'[u].version < llsc[Side(u)].version
  BY DEF QueueInv, HeldOK, Reading
<1>7. \A u \in Thread : pc'[u] = "swing" /\ llsc[Side(u)].version = local'[u].version =>
          target'[u] \in InList' /\ i[target'[u]] = local'[u].version + 1
  BY <1>3, <1>4 DEF QueueInv, HeldOK, Reading
<1>8. \A u \in Thread : pc'[u] = "advance" /\ llsc[Side(u)].version = local'[u].version =>
          Other(Side(u)) \in InList' /\ i[Other(Side(u))] = local'[u].version + 1
  BY <1>3, <1>4 DEF QueueInv, HeldOK, Reading
<1>9. \A x : Other(x)' = Other(x)
  BY DEF Other
<1>10. \A u, w \in Thread :
           /\ pc'[u] = "transfer" /\ pc'[w] = "transfer"
           /\ local'[u].node = local'[w].node /\ Side(u) = Side(w)
           => u = w
  BY <1>6 DEF QueueInv, HeldOK
<1>11. QED
  BY <1>4, <1>5, <1>6, <1>7, <1>8, <1>9, <1>10 DEF HeldOK

\* Nothing that is due is lost when a node is freed.
LEMMA StoreDue ==
    ASSUME NEW i, NEW due, QueueInv(i, due), NEW n \in InList, NEW e \in Exits, Store(n, e),
           mine' = mine, \A u \in Producer : won'[u] = won[u],
           llsc' = llsc, moved' = moved, e.transfers_left = exit[n].transfers_left,
           \A u \in Thread : pc[u] = "transfer" <=> pc'[u] = "transfer",
           \A u \in Thread : pc[u] = "transfer" => local'[u] = local[u]
    PROVE  DueOK(i, due)' /\ TransfersOK(i)'
<1>1. /\ InList' \subseteq InList
      /\ \A m \in InList' : /\ m # n => exit'[m] = exit[m]
                            /\ m = n => exit'[m] = e
  BY StoreFrame
<1>2. \A u \in Thread : Side(u)' = Side(u)
  BY DEF Side
<1>3. \A x, m : Transferring(x, m)' <=> Transferring(x, m)
  BY <1>2 DEF Transferring
<1>4. \A x, m : Open(i, x, m)' <=> Open(i, x, m)
  BY <1>3 DEF Open
<1>5. DueOK(i, due)'
  BY <1>1, <1>2, <1>4 DEF QueueInv, DueOK
<1>6. TransfersOK(i)'
  <2>1. \A m \in InList' : exit'[m].transfers_left = exit[m].transfers_left
    BY <1>1
  <2>2. QED
    BY <1>1, <1>4, <2>1 DEF QueueInv, TransfersOK
<1>7. QED
  BY <1>5, <1>6

-----------------------------------------------------------------------------
(* release_op.                                                              *)

\* Where a thread goes on after it has released its node.
LEMMA AfterReleasePlaces ==
    ASSUME NEW t \in Thread
    PROVE  /\ t \in Producer => AfterRelease(t) = (IF won[t] THEN "count" ELSE "again")
           /\ t \in Consumer => \/ won[t] /\ AfterRelease(t) = "take"
                                \/ ~ won[t] /\ AfterRelease(t) \in {"again", "idle"}
           /\ AfterRelease(t) \notin Reading /\ AfterRelease(t) # "set_nl"
<1>1. CASE t \in Producer
  <2>1. t \notin Consumer
    BY <1>1, ThreadSides
  <2>2. AfterRelease(t) = (IF won[t] THEN "count" ELSE "again")
    BY <1>1, <2>1 DEF AfterRelease
  <2>3. QED
    BY <2>1, <2>2 DEF Reading
<1>2. CASE t \in Consumer
  <2>1. t \notin Producer
    BY <1>2, ThreadSides
  <2>2. CASE won[t]
    BY <1>2, <2>1, <2>2 DEF AfterRelease, Reading
  <2>3. CASE ~ won[t] /\ target[t] # Null
    BY <1>2, <2>1, <2>3 DEF AfterRelease, Reading
  <2>4. CASE ~ won[t] /\ target[t] = Null
    <3>1. AfterRelease(t) = "idle"
      BY <1>2, <2>1, <2>4 DEF AfterRelease
    <3>2. QED
      BY <2>1, <2>4, <3>1 DEF Reading
  <2>5. QED
    BY <2>2, <2>3, <2>4
<1>3. QED
  BY <1>1, <1>2, ThreadSides

\* The exit word that a release leaves.
Released(t) == [exit[local[t].node] EXCEPT !.count = (@ - 1) % CountWidth]

\* What a release changes.
LEMMA ReleaseFrame ==
    ASSUME NEW i, NEW due, QueueInv(i, due), NEW t \in Thread, Release(t)
    PROVE  LET n == local[t].node
               e == Released(t)
           IN
           /\ n \in InList /\ n \in Node /\ ~ Clean(exit[n]) /\ pc[t] = "release"
           /\ pred[n] \in InList /\ i[pred[n]] = i[n] - 1 /\ i[n] \in Int
           /\ e \in Exits /\ Store(n, e)
           /\ \/ e.count = exit[n].count - 1
              \/ e.count = exit[n].count - 1 + CountWidth
           /\ exit[n].count \in 0 .. CountWidth - 1 /\ e.count \in 0 .. CountWidth - 1
           /\ e.transfers_left = exit[n].transfers_left
           /\ e.nl_p = exit[n].nl_p /\ e.to_be_freed = exit[n].to_be_freed
           /\ llsc' = llsc /\ mine' = mine /\ target' = target /\ won' = won /\ moved' = moved
           /\ local' = [local EXCEPT ![t] = [node |-> Null, version |-> 0]]
           /\ local'[t].node = Null
           /\ \A u \in Thread : u # t => /\ local'[u] = local[u] /\ pc'[u] = pc[u]
                                         /\ before'[u] = before[u]
           /\ pc'[t] \notin Reading /\ DOMAIN pc' = Thread
           /\ Clean(e) => before'[t] = pred[n] /\ pc'[t] = "set_nl"
           /\ ~ Clean(e) => before'[t] = Null /\ pc'[t] = AfterRelease(t)
           /\ before' \in [Thread -> Node \union {Null}]
<1> DEFINE n == local[t].node
           e == Released(t)
<1>1. pc[t] = "release" /\ pc[t] \in Reading
  BY DEF Release, Reading
<1>2. /\ n \in InList /\ n \in Node /\ ~ Clean(exit[n])
      /\ pred[n] \in InList /\ pred[n] \in Node /\ i[pred[n]] = i[n] - 1 /\ i[n] \in Int
  BY <1>1, HeldPredecessor
<1>3. exit[n] \in Exits /\ exit[n].count \in 0 .. CountWidth - 1
  BY <1>2 DEF QueueInv, QueueTypeOK, Exits
<1>4. PICK k \in 0 .. CountWidth - 1 :
         k = (exit[n].count - 1) % CountWidth
         /\ (k = exit[n].count - 1 \/ k = exit[n].count - 1 + CountWidth)
  BY <1>3, LastCount
<1>5. e = [exit[n] EXCEPT !.count = k]
  BY <1>4 DEF Released
<1>6. /\ e \in Exits /\ e.count = k
      /\ e.transfers_left = exit[n].transfers_left
      /\ e.nl_p = exit[n].nl_p /\ e.to_be_freed = exit[n].to_be_freed
  BY <1>3, <1>4, <1>5 DEF Exits
<1>7. /\ Store(n, e)
      /\ llsc' = llsc /\ mine' = mine /\ target' = target /\ won' = won /\ moved' = moved
      /\ local' = [local EXCEPT ![t] = [node |-> Null, version |-> 0]]
      /\ \/ /\ Clean(e)
            /\ before' = [before EXCEPT ![t] = pred[n]]
            /\ pc' = [pc EXCEPT ![t] = "set_nl"]
         \/ /\ ~ Clean(e)
            /\ pc' = [pc EXCEPT ![t] = AfterRelease(t)]
            /\ before' = before
  BY DEF Release, Released, Goto
<1>8. local'[t].node = Null /\ \A u \in Thread : u # t => local'[u] = local[u]
  BY <1>7 DEF QueueInv, QueueTypeOK
<1>9. before[t] = Null /\ before \in [Thread -> Node \union {Null}] /\ DOMAIN pc = Thread
  BY <1>1 DEF QueueInv, QueueTypeOK, PlacesOK
<1> HIDE DEF e, n
<1>10. CASE Clean(e)
  <2>1. before' = [before EXCEPT ![t] = pred[n]] /\ pc' = [pc EXCEPT ![t] = "set_nl"]
    BY <1>7, <1>10
  <2>2. /\ before'[t] = pred[n] /\ pc'[t] = "set_nl" /\ pc'[t] \notin Reading
        /\ \A u \in Thread : u # t => pc'[u] = pc[u] /\ before'[u] = before[u]
        /\ before' \in [Thread -> Node \union {Null}] /\ DOMAIN pc' = Thread
    BY <1>2, <1>9, <2>1 DEF Reading
  <2>3. QED
    BY <1>1, <1>2, <1>3, <1>4, <1>6, <1>7, <1>8, <1>10, <2>2 DEF e, n
<1>11. CASE ~ Clean(e)
  <2>1. before' = before /\ pc' = [pc EXCEPT ![t] = AfterRelease(t)]
    BY <1>7, <1>11
  <2>2. /\ before'[t] = Null /\ pc'[t] = AfterRelease(t) /\ pc'[t] \notin Reading
        /\ \A u \in Thread : u # t => pc'[u] = pc[u] /\ before'[u] = before[u]
        /\ before' \in [Thread -> Node \union {Null}] /\ DOMAIN pc' = Thread
    BY <1>9, <2>1, AfterReleasePlaces
  <2>3. QED
    BY <1>1, <1>2, <1>3, <1>4, <1>6, <1>7, <1>8, <1>11, <2>2 DEF e, n
<1>12. QED
  BY <1>10, <1>11

\* The node of a clean exit word has no other readers.
LEMMA ReleaseReaders ==
    ASSUME NEW i, NEW due, QueueInv(i, due), NEW t \in Thread, Release(t),
           NEW n \in InList, n = local[t].node
    PROVE  /\ ReadersOK(due)'
           /\ Clean(Released(t)) => \A u \in Thread : local'[u].node # n
<1> DEFINE e == Released(t)
<1>1. /\ n \in Node
      /\ e \in Exits /\ Store(n, e)
      /\ \/ e.count = exit[n].count - 1
         \/ e.count = exit[n].count - 1 + CountWidth
      /\ exit[n].count \in 0 .. CountWidth - 1 /\ e.count \in 0 .. CountWidth - 1
      /\ e.transfers_left = exit[n].transfers_left
      /\ mine' = mine /\ won' = won
      /\ local'[t].node = Null
      /\ \A u \in Thread : u # t => local'[u] = local[u]
  BY ReleaseFrame
<1>2. Null # n /\ Null \notin InList
  BY <1>1, QueueAssumption DEF InList
<1>3. \A m \in InList : m # n => Readers(m)' = Readers(m)
  BY <1>1, <1>2 DEF Readers
<1>4. Readers(n)' = Readers(n) \ {t} /\ t \in Readers(n)
  BY <1>1, <1>2 DEF Readers
<1>5. /\ InList' \subseteq InList
      /\ \A m \in InList' : /\ m # n => exit'[m] = exit[m]
                            /\ m = n => exit'[m] = e
  BY <1>1, StoreFrame
<1> DEFINE r == Cardinality(Readers(n))
           a == exit[n].count + due["head"][n] + due["tail"][n]
           b == e.count + due["head"][n] + due["tail"][n]
<1>6. /\ IsFiniteSet(Readers(n)) /\ r \in Nat /\ CountWidth \in Nat
      /\ Readers(n) \ {t} \in SUBSET Thread
  BY FewThreads DEF Readers
<1>7. Cardinality(Readers(n) \ {t}) = r - 1
  BY <1>4, <1>6, FS_RemoveElement
<1>8. due["head"][n] \in 0 .. CountWidth - 1 /\ due["tail"][n] \in 0 .. CountWidth - 1
  BY <1>1 DEF QueueInv, DueOK, Sides
<1>9. SameCount(r, a)
  BY DEF QueueInv, ReadersOK
<1>10. /\ a \in Int /\ b \in Int /\ r \in Int
       /\ b = a - 1 \/ b = a - 1 + CountWidth
  BY <1>1, <1>6, <1>8
<1>11. SameCount(r - 1, b)
  <2> HIDE DEF r, a, b
  <2>1. QED
    BY <1>6, <1>9, <1>10, SameStep
<1>12. ReadersOK(due)'
  <2>1. ASSUME NEW m \in InList'
        PROVE  SameCount(Cardinality(Readers(m)'), exit'[m].count + due["head"][m] + due["tail"][m])
    <3>1. m \in InList
      BY <1>5
    <3>2. CASE m = n
      <4>1. exit'[m].count = e.count
        BY <1>5, <2>1, <3>2
      <4>2. Readers(m)' = Readers(n) \ {t}
        BY <1>4, <3>2 DEF Readers
      <4>3. QED
        BY <1>7, <1>11, <3>2, <4>1, <4>2
    <3>3. CASE m # n
      <4>1. exit'[m] = exit[m] /\ Readers(m)' = Readers(m)
        BY <1>3, <1>5, <2>1, <3>1, <3>3
      <4>2. QED
        BY <3>1, <4>1 DEF QueueInv, ReadersOK
    <3>4. QED
      BY <3>2, <3>3
  <2>2. QED
    BY <2>1 DEF ReadersOK, SameCount
<1>13. ASSUME Clean(e)
       PROVE  \A u \in Thread : local'[u].node # n
  <2>1. e.count = 0 /\ exit[n].transfers_left = 0
    BY <1>1, <1>13 DEF Clean
  <2>2. \A x \in Sides : ~ Open(i, x, n)
    BY <2>1, CleanUnread
  <2>3. due["head"][n] = 0 /\ due["tail"][n] = 0
    BY <2>2 DEF QueueInv, DueOK, Sides
  <2>4. b = 0
    BY <2>1, <2>3
  <2>5. r - 1 \in 0 .. CountWidth - 1 /\ 0 \in 0 .. CountWidth - 1
    <3>1. /\ Cardinality(Readers(n) \ {t}) \in Nat
          /\ Cardinality(Readers(n) \ {t}) < CountWidth
      BY <1>6, FewThreads
    <3>2. QED
      BY <1>6, <1>7, <3>1
  <2>6. r - 1 = 0
    <3> HIDE DEF r, b
    <3>1. QED
      BY <1>11, <2>4, <2>5, SameSmall
  <2>7. Readers(n) \ {t} = {}
    BY <1>6, <1>7, <2>6, FewThreads
  <2>8. QED
    BY <1>1, <1>2, <2>7 DEF Readers
<1>14. QED
  BY <1>12, <1>13

\* The last reader of a node is to tell its predecessor; no other thread is.
LEMMA ReleasePredecessors ==
    ASSUME NEW i, NEW due, QueueInv(i, due), NEW t \in Thread, Release(t)
    PROVE  PredecessorsOK(i)'
<1>1. PICK n \in InList : n = local[t].node
  BY ReleaseFrame
<1>2. PICK e \in Exits : e = Released(t)
  BY ReleaseFrame
<1>3. PICK p \in InList : p = pred[n]
  BY <1>1, ReleaseFrame
<1>4. /\ ~ Clean(exit[n]) /\ i[p] = i[n] - 1 /\ i[n] \in Int
      /\ Store(n, e) /\ e.transfers_left = exit[n].transfers_left
      /\ e.nl_p = exit[n].nl_p /\ e.to_be_freed = exit[n].to_be_freed
      /\ llsc' = llsc /\ mine' = mine /\ won' = won
      /\ \A u \in Thread : u # t => before'[u] = before[u]
      /\ Clean(e) => before'[t] = p
      /\ ~ Clean(e) => before'[t] = Null
  BY <1>1, <1>2, <1>3, ReleaseFrame
<1>5. /\ InList' \subseteq InList /\ \A m \in InList : m # n => m \in InList'
      /\ n \in InList' <=> ~ Freeable(e)
      /\ \A m \in InList' : /\ pred'[m] = pred[m]
                            /\ m # n => exit'[m] = exit[m]
                            /\ m = n => exit'[m] = e
  BY <1>4, StoreFrame
<1>6. /\ p \in InList' /\ p # n
      /\ ~ exit[p].nl_p
      /\ \A u \in Thread : before[u] # p
  BY <1>3, <1>4, <1>5 DEF QueueInv, PredecessorsOK
<1>7. n \notin InList' => exit[n].nl_p /\ Clean(e)
  BY <1>4, <1>5 DEF Freeable
<1>8. \A m \in InList' : exit'[m].nl_p <=> exit[m].nl_p
  BY <1>4, <1>5
<1>9. ASSUME NEW m \in InList', ~ Clean(exit'[m])
      PROVE  /\ pred[m] \in InList' /\ i[pred[m]] = i[m] - 1
             /\ ~ exit'[pred[m]].nl_p
             /\ \A u \in Thread : before'[u] # pred[m]
  <2>1. m \in InList /\ ~ Clean(exit[m])
    BY <1>4, <1>5, <1>9
  <2>2. /\ pred[m] \in InList /\ i[pred[m]] = i[m] - 1 /\ ~ exit[pred[m]].nl_p
        /\ \A u \in Thread : before[u] # pred[m]
    BY <2>1 DEF QueueInv, PredecessorsOK
  <2>3. pred[m] \in InList'
    BY <1>5, <1>7, <2>2
  <2>4. Clean(e) => pred[m] # p
    <3>1. SUFFICES ASSUME Clean(e), pred[m] = p PROVE FALSE
      OBVIOUS
    <3>2. i[m] = i[n] /\ m # n
      <4>1. m # n
        BY <1>5, <1>9, <3>1
      <4>2. i[m] \in Int
        BY <2>1 DEF QueueInv, IndexedOK, InList
      <4>3. QED
        BY <1>4, <2>2, <3>1, <4>1, <4>2
    <3>3. QED
      BY <2>1, <3>2 DEF QueueInv, IndexedOK
  <2>5. pred[m] # Null
    BY <2>2, QueueAssumption DEF InList
  <2>6. \A u \in Thread : before'[u] # pred[m]
    BY <1>4, <2>2, <2>4, <2>5
  <2>7. QED
    BY <1>8, <2>2, <2>3, <2>6
<1>10. \A u \in Thread : before'[u] # Null => before'[u] \in InList' /\ ~ exit'[before'[u]].nl_p
  <2>1. ASSUME NEW u \in Thread, before'[u] # Null
        PROVE  before'[u] \in InList' /\ ~ exit'[before'[u]].nl_p
    <3>1. CASE u = t
      BY <1>4, <1>6, <1>8, <2>1, <3>1
    <3>2. CASE u # t
      <4>1. before'[u] = before[u] /\ before[u] \in InList /\ ~ exit[before[u]].nl_p
        BY <1>4, <2>1, <3>2 DEF QueueInv, PredecessorsOK
      <4>2. before[u] \in InList'
        BY <1>5, <1>7, <4>1
      <4>3. QED
        BY <1>8, <4>1, <4>2
    <3>3. QED
      BY <3>1, <3>2
  <2>2. QED
    BY <2>1
<1>11. \A u, w \in Thread : before'[u] # Null /\ before'[u] = before'[w] => u = w
  BY <1>4, <1>6 DEF QueueInv, PredecessorsOK
<1>12. \A m \in InList', x \in Sides :
           exit'[m].nl_p \/ (\E u \in Thread : before'[u] = m) => i[m] + 1 < llsc[x].version
  <2>1. ASSUME NEW m \in InList', NEW x \in Sides,
               exit'[m].nl_p \/ (\E u \in Thread : before'[u] = m)
        PROVE  i[m] + 1 < llsc[x].version
    <3>1. m \in InList /\ m # Null
      BY <1>5, QueueAssumption DEF InList
    <3>2. CASE exit[m].nl_p \/ (\E u \in Thread : before[u] = m)
      BY <3>1, <3>2 DEF QueueInv, PredecessorsOK
    <3>3. CASE ~ exit[m].nl_p /\ ~ (\E u \in Thread : before[u] = m)
      <4>1. before'[t] = m
        BY <1>4, <1>8, <2>1, <3>3
      <4>2. Clean(e) /\ m = p
        BY <1>4, <3>1, <4>1
      <4>3. i[n] < llsc[x].version
        BY <1>4, <4>2, StorePassed
      <4>4. i[m] + 1 = i[n]
        BY <1>4, <4>2
      <4>5. QED
        BY <4>3, <4>4
    <3>4. QED
      BY <3>2, <3>3
  <2>2. QED
    BY <2>1
<1>13. QED
  BY <1>4, <1>5, <1>9, <1>10, <1>11, <1>12 DEF PredecessorsOK

\* release_op keeps the invariant: a node without readers, which both sides have
\* passed, is one that nobody comes back to.
LEMMA ReleaseStep ==
    ASSUME NEW i, NEW due, QueueInv(i, due), NEW t \in Thread, Release(t)
    PROVE  QueueInv(i, due)'
<1>1. PICK n \in InList : n = local[t].node
  BY ReleaseFrame
<1>2. PICK e \in Exits : e = Released(t)
  BY ReleaseFrame
<1>3. /\ Store(n, e) /\ pc[t] = "release" /\ pred[n] \in InList
      /\ e.transfers_left = exit[n].transfers_left
      /\ e.nl_p = exit[n].nl_p /\ e.to_be_freed = exit[n].to_be_freed
      /\ llsc' = llsc /\ mine' = mine /\ target' = target /\ won' = won /\ moved' = moved
      /\ local' = [local EXCEPT ![t] = [node |-> Null, version |-> 0]]
      /\ local'[t].node = Null
      /\ \A u \in Thread : u # t => /\ local'[u] = local[u] /\ pc'[u] = pc[u]
                                    /\ before'[u] = before[u]
      /\ pc'[t] \notin Reading /\ DOMAIN pc' = Thread
      /\ Clean(e) => before'[t] = pred[n] /\ pc'[t] = "set_nl"
      /\ ~ Clean(e) => before'[t] = Null /\ pc'[t] = AfterRelease(t)
      /\ before' \in [Thread -> Node \union {Null}]
  BY <1>1, <1>2, ReleaseFrame
<1>4. /\ next' \in [Node -> Node \union {Null}] /\ pred' \in [Node -> Node \union {Null}]
      /\ exit' \in [Node -> Exits] /\ free' \subseteq Node
      /\ InList' \subseteq InList /\ \A m \in InList : m # n => m \in InList'
      /\ n \in InList' <=> ~ Freeable(e)
      /\ \A m \in InList' : /\ m # n => exit'[m] = exit[m]
                            /\ m = n => exit'[m] = e
      /\ PrivateOK'
  BY <1>3, StoreFrame
<1>5. QueueTypeOK'
  <2>1. local' \in [Thread -> [node : Node \union {Null}, version : Nat]]
    BY <1>3 DEF QueueInv, QueueTypeOK
  <2>2. QED
    BY <1>3, <1>4, <2>1 DEF QueueInv, QueueTypeOK
<1>6. PlacesOK'
  <2>1. pred[n] # Null /\ Null \notin InList
    BY <1>3, QueueAssumption DEF InList
  <2>2. pc'[t] = "set_nl" \/ pc'[t] = AfterRelease(t)
    BY <1>3
  <2>3. /\ t \in Producer => pc'[t] \in {"set_nl", "count", "again"}
        /\ t \in Producer => (pc'[t] = "count" => won[t]) /\ (pc'[t] = "again" => ~ won[t])
        /\ t \in Consumer => pc'[t] \in {"set_nl", "take", "again", "idle"}
        /\ t \in Consumer => (pc'[t] = "take" => won[t]) /\ (won[t] => pc'[t] \in {"set_nl", "take"})
    BY <2>2, AfterReleasePlaces
  <2>4. before'[t] # Null <=> pc'[t] = "set_nl"
    BY <1>3, <2>1, AfterReleasePlaces
  <2>5. \A u \in Thread : (local'[u].node # Null <=> pc'[u] \in Reading)
                          /\ (before'[u] # Null <=> pc'[u] = "set_nl")
    BY <1>3, <2>4 DEF QueueInv, PlacesOK
  <2>6. \A u \in Producer :
            /\ pc'[u] \in {"idle", "allocate", "link", "swing", "advance", "transfer", "release",
                           "set_nl", "count", "again"}
            /\ pc'[u] \in {"idle", "allocate"} <=> mine[u] = Null
            /\ pc'[u] \in {"idle", "allocate", "link", "again"} => ~ won[u]
            /\ pc'[u] = "count" => won[u]
    BY <1>3, <2>3, ThreadSides DEF QueueInv, PlacesOK
  <2>7. \A u \in Consumer :
            /\ pc'[u] \in {"idle", "peek", "swing", "advance", "transfer", "release",
                           "set_nl", "take", "discount", "again"}
            /\ won[u] => pc'[u] \in {"advance", "transfer", "release", "set_nl", "take"}
            /\ pc'[u] = "take" => won[u]
    BY <1>3, <2>3, ThreadSides DEF QueueInv, PlacesOK
  <2>8. QED
    BY <1>3, <2>5, <2>6, <2>7 DEF PlacesOK
<1>7. IndexedOK(i)' /\ PointersOK(i)'
  BY <1>3, StoreList
<1>8. ReadersOK(due)' /\ (Clean(e) => \A u \in Thread : local'[u].node # n)
  BY <1>1, <1>2, ReleaseReaders
<1>9. \A u \in Thread : pc'[u] \in Reading =>
          u # t /\ pc'[u] = pc[u] /\ local'[u] = local[u] /\ target'[u] = target[u]
  BY <1>3
<1>10. HeldOK(i)'
  <2>1. Freeable(e) => \A u \in Thread : pc'[u] \in Reading => local[u].node # n
    BY <1>8, <1>9 DEF Freeable
  <2>2. QED
    BY <1>3, <1>9, <2>1, StoreHeld
<1>11. DueOK(i, due)' /\ TransfersOK(i)'
  <2>1. \A u \in Thread : pc[u] = "transfer" <=> pc'[u] = "transfer"
    BY <1>3 DEF Reading
  <2>2. \A u \in Thread : pc[u] = "transfer" => local'[u] = local[u]
    BY <1>3
  <2>3. QED
    BY <1>3, <2>1, <2>2, StoreDue
<1>12. PredecessorsOK(i)'
  BY ReleasePredecessors
<1>13. ClaimsOK(i)'
  <2>1. \A m \in InList' : exit'[m].to_be_freed <=> exit[m].to_be_freed
    BY <1>3, <1>4
  <2>2. \A u \in Consumer : won[u] => target[u] \in InList' /\ ~ exit'[target[u]].to_be_freed
    BY <1>3, <1>4, <2>1 DEF QueueInv, ClaimsOK, Freeable
  <2>3. \A x : Other(x)' = Other(x)
    BY <1>3 DEF Other
  <2>4. \A m \in InList' : Claimed(m)' <=> Claimed(m)
    BY <1>3, <2>1 DEF Claimed
  <2>5. QED
    BY <1>3, <1>4, <2>2, <2>3, <2>4 DEF QueueInv, ClaimsOK
<1>14. QED
  BY <1>4, <1>5, <1>6, <1>7, <1>8, <1>10, <1>11, <1>12, <1>13 DEF QueueInv

\* set_nl_pred keeps the invariant.
LEMMA SetNlPredStep ==
    ASSUME NEW i, NEW due, QueueInv(i, due), NEW t \in Thread, SetNlPred(t)
    PROVE  QueueInv(i, due)'
<1>1. PICK n \in InList : n = before[t]
  BY DEF SetNlPred, QueueInv, PlacesOK, PredecessorsOK
<1>2. PICK e \in Exits : e = NlPred(t)
  <2>1. exit[n] \in Exits
    BY <1>1 DEF InList, QueueInv, QueueTypeOK
  <2>2. [exit[n] EXCEPT !.nl_p = TRUE] \in Exits
    BY <2>1 DEF Exits
  <2>3. QED
    BY <1>1, <2>2 DEF NlPred
<1>3. /\ e.transfers_left = exit[n].transfers_left /\ e.count = exit[n].count
      /\ e.nl_p /\ e.to_be_freed = exit[n].to_be_freed
  <2>1. exit[n] \in Exits
    BY <1>1 DEF InList, QueueInv, QueueTypeOK
  <2>2. e = [exit[n] EXCEPT !.nl_p = TRUE]
    BY <1>1, <1>2 DEF NlPred
  <2>3. QED
    BY <2>1, <2>2 DEF Exits
<1>4. /\ Store(n, e) /\ pc[t] = "set_nl"
      /\ llsc' = llsc /\ mine' = mine /\ target' = target /\ won' = won /\ moved' = moved
      /\ local' = local
      /\ before' = [before EXCEPT ![t] = Null] /\ pc' = [pc EXCEPT ![t] = AfterRelease(t)]
  BY <1>1, <1>2 DEF SetNlPred, Goto
<1>5. /\ before'[t] = Null /\ before' \in [Thread -> Node \union {Null}]
      /\ pc'[t] = AfterRelease(t) /\ DOMAIN pc' = Thread
      /\ \A u \in Thread : u # t => pc'[u] = pc[u] /\ before'[u] = before[u]
  BY <1>4 DEF QueueInv, QueueTypeOK
<1>6. pc'[t] \notin Reading /\ pc[t] \notin Reading /\ pc'[t] # "set_nl"
  BY <1>4, <1>5, AfterReleasePlaces DEF Reading
<1>7. /\ next' \in [Node -> Node \union {Null}] /\ pred' \in [Node -> Node \union {Null}]
      /\ exit' \in [Node -> Exits] /\ free' \subseteq Node
      /\ InList' \subseteq InList /\ \A m \in InList : m # n => m \in InList'
      /\ n \in InList' <=> ~ Freeable(e)
      /\ \A m \in InList' : /\ pred'[m] = pred[m]
                            /\ m # n => exit'[m] = exit[m]
                            /\ m = n => exit'[m] = e
      /\ PrivateOK'
  BY <1>4, StoreFrame
<1>8. QueueTypeOK'
  BY <1>4, <1>5, <1>7 DEF QueueInv, QueueTypeOK
<1>9. PlacesOK'
  <2>1. /\ t \in Producer => pc'[t] \in {"count", "again"}
        /\ t \in Producer => (pc'[t] = "count" => won[t]) /\ (pc'[t] = "again" => ~ won[t])
        /\ t \in Consumer => pc'[t] \in {"take", "again", "idle"}
        /\ t \in Consumer => (pc'[t] = "take" => won[t]) /\ (won[t] => pc'[t] = "take")
    BY <1>5, AfterReleasePlaces
  <2>2. \A u \in Thread : (local'[u].node # Null <=> pc'[u] \in Reading)
                          /\ (before'[u] # Null <=> pc'[u] = "set_nl")
    BY <1>4, <1>5, <1>6 DEF QueueInv, PlacesOK
  <2>3. \A u \in Producer :
            /\ pc'[u] \in {"idle", "allocate", "link", "swing", "advance", "transfer", "release",
                           "set_nl", "count", "again"}
            /\ pc'[u] \in {"idle", "allocate"} <=> mine[u] = Null
            /\ pc'[u] \in {"idle", "allocate", "link", "again"} => ~ won[u]
            /\ pc'[u] = "count" => won[u]
    BY <1>4, <1>5, <2>1, ThreadSides DEF QueueInv, PlacesOK
  <2>4. \A u \in Consumer :
            /\ pc'[u] \in {"idle", "peek", "swing", "advance", "transfer", "release",
                           "set_nl", "take", "discount", "again"}
            /\ won[u] => pc'[u] \in {"advance", "transfer", "release", "set_nl", "take"}
            /\ pc'[u] = "take" => won[u]
    BY <1>4, <1>5, <2>1, ThreadSides DEF QueueInv, PlacesOK
  <2>5. QED
    BY <1>4, <2>2, <2>3, <2>4 DEF PlacesOK
<1>10. IndexedOK(i)' /\ PointersOK(i)'
  BY <1>3, <1>4, StoreList
<1>11. Clean(e) <=> Clean(exit[n])
  BY <1>3 DEF Clean
<1>12. HeldOK(i)'
  <2>1. \A u \in Thread : pc'[u] \in Reading =>
            pc'[u] = pc[u] /\ local'[u] = local[u] /\ target'[u] = target[u]
    BY <1>4, <1>5, <1>6
  <2>2. Freeable(e) => \A u \in Thread : pc'[u] \in Reading => local[u].node # n
    BY <1>11, CleanUnread DEF Freeable, Readers
  <2>3. QED
    BY <1>3, <1>4, <2>1, <2>2, StoreHeld
<1>13. DueOK(i, due)' /\ TransfersOK(i)'
  <2>1. \A u \in Thread : pc[u] = "transfer" <=> pc'[u] = "transfer"
    BY <1>5, <1>6 DEF Reading
  <2>2. \A u \in Thread : pc[u] = "transfer" => local'[u] = local[u]
    BY <1>4
  <2>3. QED
    BY <1>3, <1>4, <2>1, <2>2, StoreDue
<1>14. ReadersOK(due)'
  <2>1. \A m \in InList' : exit'[m].count = exit[m].count
    BY <1>3, <1>7
  <2>2. \A m : Readers(m)' = Readers(m)
    BY <1>4 DEF Readers
  <2>3. QED
    BY <1>7, <2>1, <2>2 DEF QueueInv, ReadersOK, SameCount
<1>15. PredecessorsOK(i)'
  <2>1. \A u \in Thread : u # t /\ before[u] # Null => before[u] # n
    BY <1>1, <1>4, QueueAssumption DEF QueueInv, PredecessorsOK, InList
  <2>2. \A m \in InList' : m # n => (exit'[m].nl_p <=> exit[m].nl_p)
    BY <1>7
  <2>3. ASSUME NEW m \in InList', ~ Clean(exit'[m])
        PROVE  /\ pred[m] \in InList' /\ i[pred[m]] = i[m] - 1
               /\ ~ exit'[pred[m]].nl_p
               /\ \A u \in Thread : before'[u] # pred[m]
    <3>1. m \in InList /\ ~ Clean(exit[m])
      BY <1>7, <1>11, <2>3
    <3>2. /\ pred[m] \in InList /\ i[pred[m]] = i[m] - 1 /\ ~ exit[pred[m]].nl_p
          /\ \A u \in Thread : before[u] # pred[m]
      BY <3>1 DEF QueueInv, PredecessorsOK
    <3>3. pred[m] # n /\ pred[m] # Null
      BY <1>1, <3>2, QueueAssumption DEF InList
    <3>4. pred[m] \in InList'
      BY <1>7, <3>2, <3>3
    <3>5. \A u \in Thread : before'[u] # pred[m]
      BY <1>5, <3>2, <3>3
    <3>6. QED
      BY <2>2, <3>2, <3>3, <3>4, <3>5
  <2>4. \A u \in Thread : before'[u] # Null => before'[u] \in InList' /\ ~ exit'[before'[u]].nl_p
    <3>1. ASSUME NEW u \in Thread, before'[u] # Null
          PROVE  before'[u] \in InList' /\ ~ exit'[before'[u]].nl_p
      <4>1. u # t /\ before'[u] = before[u]
        BY <1>5, <3>1
      <4>2. before[u] \in InList /\ ~ exit[before[u]].nl_p /\ before[u] # n
        BY <2>1, <3>1, <4>1 DEF QueueInv, PredecessorsOK
      <4>3. QED
        BY <1>7, <2>2, <4>1, <4>2
    <3>2. QED
      BY <3>1
  <2>5. \A u, w \in Thread : before'[u] # Null /\ before'[u] = before'[w] => u = w
    BY <1>5 DEF QueueInv, PredecessorsOK
  <2>6. ASSUME NEW m \in InList', NEW x \in Sides,
               exit'[m].nl_p \/ (\E u \in Thread : before'[u] = m)
        PROVE  i[m] + 1 < llsc[x].version
    <3>1. m \in InList /\ m # Null
      BY <1>7, QueueAssumption DEF InList
    <3>2. exit[m].nl_p \/ (\E u \in Thread : before[u] = m)
      BY <1>1, <1>5, <2>2, <2>6, <3>1
    <3>3. QED
      BY <3>1, <3>2 DEF QueueInv, PredecessorsOK
  <2>7. QED
    BY <1>4, <1>7, <2>3, <2>4, <2>5, <2>6 DEF PredecessorsOK
<1>16. ClaimsOK(i)'
  <2>1. \A m \in InList' : exit'[m].to_be_freed <=> exit[m].to_be_freed
    BY <1>3, <1>7
  <2>2. \A u \in Consumer : won[u] => target[u] \in InList' /\ ~ exit'[target[u]].to_be_freed
    BY <1>3, <1>7, <2>1 DEF QueueInv, ClaimsOK, Freeable
  <2>3. \A x : Other(x)' = Other(x)
    BY <1>4 DEF Other
  <2>4. \A m \in InList' : Claimed(m)' <=> Claimed(m)
    BY <1>4, <2>1 DEF Claimed
  <2>5. QED
    BY <1>4, <1>7, <2>2, <2>3, <2>4 DEF QueueInv, ClaimsOK
<1>17. QED
  BY <1>7, <1>8, <1>9, <1>10, <1>12, <1>13, <1>14, <1>15, <1>16 DEF QueueInv

\* The consumer that has the value marks its node.
LEMMA TakeStep ==
    ASSUME NEW i, NEW due, QueueInv(i, due), NEW t \in Consumer, Take(t)
    PROVE  QueueInv(i, due)'
<1>1. t \in Thread /\ t \notin Producer /\ Side(t) = "head"
  BY ThreadSides
<1>2. PICK n \in InList : n = target[t] /\ won[t] /\ ~ exit[n].to_be_freed /\ pc[t] = "take"
  BY DEF Take, QueueInv, PlacesOK, ClaimsOK
<1>3. exit[n] \in Exits
  BY <1>2 DEF InList, QueueInv, QueueTypeOK
<1>4. PICK e \in Exits : e = [exit[n] EXCEPT !.to_be_freed = TRUE]
  BY <1>3 DEF Exits
<1>5. /\ e.transfers_left = exit[n].transfers_left /\ e.count = exit[n].count
      /\ e.nl_p = exit[n].nl_p /\ e.to_be_freed
  BY <1>3, <1>4 DEF Exits
<1>6. /\ Store(n, e)
      /\ llsc' = llsc /\ mine' = mine /\ moved' = moved /\ local' = local /\ before' = before
      /\ target' = [target EXCEPT ![t] = Null] /\ won' = [won EXCEPT ![t] = FALSE]
      /\ pc' = [pc EXCEPT ![t] = "discount"]
  BY <1>2, <1>4 DEF Take, Goto
<1>7. /\ ~ won'[t] /\ won' \in [Thread -> BOOLEAN] /\ target' \in [Thread -> Node \union {Null}]
      /\ pc'[t] = "discount" /\ DOMAIN pc' = Thread
      /\ \A u \in Thread : u # t => pc'[u] = pc[u] /\ won'[u] = won[u] /\ target'[u] = target[u]
      /\ \A u \in Producer : won'[u] = won[u]
  BY <1>1, <1>6, ThreadSides DEF QueueInv, QueueTypeOK
<1>8. /\ next' \in [Node -> Node \union {Null}] /\ pred' \in [Node -> Node \union {Null}]
      /\ exit' \in [Node -> Exits] /\ free' \subseteq Node
      /\ InList' \subseteq InList /\ \A m \in InList : m # n => m \in InList'
      /\ n \in InList' <=> ~ Freeable(e)
      /\ \A m \in InList' : /\ pred'[m] = pred[m]
                            /\ m # n => exit'[m] = exit[m]
                            /\ m = n => exit'[m] = e
      /\ PrivateOK'
  <2>1. Store(n, e) /\ mine' = mine /\ \A u \in Producer : won'[u] = won[u]
    BY <1>6, <1>7
  <2>2. QED
    BY <2>1, StoreFrame
<1>9. QueueTypeOK'
  BY <1>6, <1>7, <1>8 DEF QueueInv, QueueTypeOK
<1>10. PlacesOK'
  <2>1. \A u \in Producer : u # t
    BY <1>1
  <2>2. QED
    BY <1>1, <1>2, <1>6, <1>7, <2>1, ThreadSides DEF QueueInv, PlacesOK, Reading
<1>11. IndexedOK(i)' /\ PointersOK(i)'
  BY <1>5, <1>6, <1>7, StoreList
<1>12. Clean(e) <=> Clean(exit[n])
  BY <1>5 DEF Clean
<1>13. HeldOK(i)'
  <2>1. \A u \in Thread : pc'[u] \in Reading =>
            pc'[u] = pc[u] /\ local'[u] = local[u] /\ target'[u] = target[u]
    BY <1>6, <1>7 DEF Reading
  <2>2. Freeable(e) => \A u \in Thread : pc'[u] \in Reading => local[u].node # n
    BY <1>12, CleanUnread DEF Freeable, Readers
  <2>3. QED
    BY <1>1, <1>5, <1>6, <1>7, <2>1, <2>2, StoreHeld
<1>14. DueOK(i, due)' /\ TransfersOK(i)'
  <2>1. \A u \in Thread : pc[u] = "transfer" <=> pc'[u] = "transfer"
    BY <1>2, <1>7
  <2>2. \A u \in Thread : pc[u] = "transfer" => local'[u] = local[u]
    BY <1>6
  <2>3. QED
    BY <1>1, <1>5, <1>6, <1>7, <2>1, <2>2, StoreDue
<1>15. ReadersOK(due)'
  <2>1. \A m \in InList' : exit'[m].count = exit[m].count
    BY <1>5, <1>8
  <2>2. \A m : Readers(m)' = Readers(m)
    BY <1>6 DEF Readers
  <2>3. QED
    BY <1>8, <2>1, <2>2 DEF QueueInv, ReadersOK, SameCount
<1>16. PredecessorsOK(i)'
  <2>1. \A m \in InList' : /\ exit'[m].nl_p <=> exit[m].nl_p
                           /\ Clean(exit'[m]) <=> Clean(exit[m])
    BY <1>5, <1>8, <1>12
  <2>2. n \notin InList' => exit[n].nl_p
    BY <1>5, <1>8 DEF Freeable
  <2>3. ASSUME NEW m \in InList', ~ Clean(exit'[m])
        PROVE  /\ pred[m] \in InList' /\ i[pred[m]] = i[m] - 1
               /\ ~ exit'[pred[m]].nl_p
               /\ \A u \in Thread : before[u] # pred[m]
    <3>1. /\ pred[m] \in InList /\ i[pred[m]] = i[m] - 1 /\ ~ exit[pred[m]].nl_p
          /\ \A u \in Thread : before[u] # pred[m]
      BY <1>8, <2>1, <2>3 DEF QueueInv, PredecessorsOK
    <3>2. pred[m] \in InList'
      BY <1>8, <2>2, <3>1
    <3>3. QED
      BY <2>1, <3>1, <3>2
  <2>4. \A u \in Thread : before[u] # Null => before[u] \in InList' /\ ~ exit'[before[u]].nl_p
    <3>1. ASSUME NEW u \in Thread, before[u] # Null
          PROVE  before[u] \in InList' /\ ~ exit'[before[u]].nl_p
      <4>1. before[u] \in InList /\ ~ exit[before[u]].nl_p
        BY <3>1 DEF QueueInv, PredecessorsOK
      <4>2. before[u] \in InList'
        BY <1>8, <2>2, <4>1
      <4>3. QED
        BY <2>1, <4>1, <4>2
    <3>2. QED
      BY <3>1
  <2>5. \A m \in InList', x \in Sides :
            exit'[m].nl_p \/ (\E u \in Thread : before[u] = m) => i[m] + 1 < llsc[x].version
    BY <1>8, <2>1 DEF QueueInv, PredecessorsOK
  <2>6. QED
    BY <1>6, <1>8, <2>3, <2>4, <2>5 DEF QueueInv, PredecessorsOK
<1>17. ClaimsOK(i)'
  <2>1. \A u \in Consumer : won'[u] => u # t /\ won[u] /\ target'[u] = target[u]
    BY <1>1, <1>7, ThreadSides
  <2>2. \A u \in Consumer : won'[u] => target'[u] \in InList' /\ ~ exit'[target'[u]].to_be_freed
    <3>1. ASSUME NEW u \in Consumer, won'[u]
          PROVE  target'[u] \in InList' /\ ~ exit'[target'[u]].to_be_freed
      <4>1. /\ target'[u] = target[u] /\ target[u] \in InList /\ ~ exit[target[u]].to_be_freed
            /\ target[u] # n
        BY <1>2, <2>1, <3>1 DEF QueueInv, ClaimsOK
      <4>2. QED
        BY <1>8, <4>1
    <3>2. QED
      BY <3>1
  <2>3. \A u, w \in Consumer : won'[u] /\ won'[w] /\ target'[u] = target'[w] => u = w
    BY <2>1 DEF QueueInv, ClaimsOK
  <2>4. \A m \in InList' : Claimed(m)' => Claimed(m)
    BY <1>2, <1>8, <2>1 DEF Claimed
  <2>5. \A x : Other(x)' = Other(x)
    BY <1>6 DEF Other
  <2>6. \A m \in InList' : Claimed(m)' =>
            \/ i[m] <= llsc'["head"].version
            \/ i[m] = llsc'["head"].version + 1 /\ Other("head")' = m
    BY <1>6, <1>8, <2>4, <2>5 DEF QueueInv, ClaimsOK
  <2>7. QED
    BY <2>2, <2>3, <2>6 DEF ClaimsOK
<1>18. QED
  BY <1>8, <1>9, <1>10, <1>11, <1>13, <1>14, <1>15, <1>16, <1>17 DEF QueueInv

-----------------------------------------------------------------------------
(* Linking.                                                                 *)

\* What a push that links, or helps, finds and leaves alone.
LEMMA LinkFrame ==
    ASSUME NEW i, NEW due, QueueInv(i, due), NEW t \in Producer, Link(t)
    PROVE  /\ t \in Thread /\ Side(t) = "tail" /\ pc[t] = "link" /\ pc[t] \in Reading
           /\ ~ won[t] /\ mine[t] # Null /\ mine[t] \in Node
           /\ mine[t] \in Private /\ mine[t] \notin InList /\ mine[t] \notin free
           /\ next[mine[t]] = Null /\ exit[mine[t]] = NewExit
           /\ local[t].node \in InList /\ local[t].node \in Node
           /\ i[local[t].node] = local[t].version /\ local[t].version \in Nat
           /\ local[t].version <= llsc["tail"].version
           /\ llsc' = llsc /\ exit' = exit /\ free' = free /\ local' = local /\ mine' = mine
           /\ moved' = moved /\ before' = before
           /\ pred' = [pred EXCEPT ![mine[t]] = local[t].node]
           /\ \A m \in InList : pred'[m] = pred[m]
           /\ pc'[t] = "swing" /\ DOMAIN pc' = Thread
           /\ \A u \in Thread : u # t => pc'[u] = pc[u]
<1>1. t \in Thread /\ Side(t) = "tail"
  BY ThreadSides
<1>2. pc[t] = "link" /\ pc[t] \in Reading
  BY DEF Link, Reading
<1>3. ~ won[t] /\ mine[t] # Null /\ mine[t] \in Node
  BY <1>1, <1>2 DEF QueueInv, PlacesOK, QueueTypeOK
<1>4. /\ mine[t] \in Private /\ mine[t] \notin InList /\ mine[t] \notin free
      /\ next[mine[t]] = Null /\ exit[mine[t]] = NewExit
  BY <1>3 DEF Private, InList, QueueInv, PrivateOK
<1>5. /\ local[t].node \in InList /\ local[t].node \in Node
      /\ i[local[t].node] = local[t].version /\ local[t].version \in Nat
      /\ local[t].version <= llsc["tail"].version
  BY <1>1, <1>2, HeldPredecessor DEF QueueInv, HeldOK
<1>6. /\ llsc' = llsc /\ exit' = exit /\ free' = free /\ local' = local /\ mine' = mine
      /\ moved' = moved /\ before' = before
      /\ pred' = [pred EXCEPT ![mine[t]] = local[t].node]
      /\ pc' = [pc EXCEPT ![t] = "swing"]
  BY DEF Link, Goto
<1>7. \A m \in InList : pred'[m] = pred[m]
  BY <1>4, <1>6 DEF InList, QueueInv, QueueTypeOK
<1>8. /\ pc'[t] = "swing" /\ DOMAIN pc' = Thread
      /\ \A u \in Thread : u # t => pc'[u] = pc[u]
  BY <1>1, <1>6 DEF QueueInv, QueueTypeOK
<1>9. QED
  BY <1>1, <1>2, <1>3, <1>4, <1>5, <1>6, <1>7, <1>8

\* Another node was there: the push will help the tail on to it.
LEMMA LinkHelps ==
    ASSUME NEW i, NEW due, QueueInv(i, due), NEW t \in Producer, Link(t),
           next[local[t].node] # Null
    PROVE  QueueInv(i, due)'
<1>1. /\ t \in Thread /\ Side(t) = "tail" /\ pc[t] = "link" /\ pc[t] \in Reading
      /\ ~ won[t] /\ mine[t] # Null /\ mine[t] \in Node
      /\ mine[t] \in Private /\ mine[t] \notin InList /\ mine[t] \notin free
      /\ local[t].node \in InList /\ local[t].node \in Node
      /\ i[local[t].node] = local[t].version /\ local[t].version \in Nat
      /\ llsc' = llsc /\ exit' = exit /\ free' = free /\ local' = local /\ mine' = mine
      /\ moved' = moved /\ before' = before
      /\ pred' = [pred EXCEPT ![mine[t]] = local[t].node]
      /\ \A m \in InList : pred'[m] = pred[m]
      /\ pc'[t] = "swing" /\ DOMAIN pc' = Thread
      /\ \A u \in Thread : u # t => pc'[u] = pc[u]
  BY LinkFrame
<1>2. next' = next /\ won' = won /\ target' = [target EXCEPT ![t] = next[local[t].node]]
  BY DEF Link
<1>3. InList' = InList
  BY <1>1, <1>2 DEF InList, Private
<1>4. /\ target'[t] = next[local[t].node] /\ target' \in [Thread -> Node \union {Null}]
      /\ \A u \in Thread : u # t => target'[u] = target[u]
  BY <1>1, <1>2 DEF QueueInv, QueueTypeOK
<1>5. OthersSame(t)
  BY <1>1, <1>2, <1>4 DEF OthersSame
<1>6. QueueTypeOK'
  <2>1. pred' \in [Node -> Node \union {Null}]
    BY <1>1 DEF QueueInv, QueueTypeOK
  <2>2. QED
    BY <1>1, <1>2, <1>4, <2>1 DEF QueueInv, QueueTypeOK
<1>7. PlacesOK'
  <2>1. t \notin Consumer
    BY ThreadSides
  <2>2. QED
    BY <1>1, <1>2, <2>1, ThreadSides DEF QueueInv, PlacesOK, Reading
<1>8. PrivateOK'
  BY <1>1, <1>2 DEF QueueInv, PrivateOK
<1>9. IndexedOK(i)'
  BY <1>1, <1>2, <1>3 DEF QueueInv, IndexedOK
<1>10. PointersOK(i)'
  <2>1. \A x : Current(x)' = Current(x) /\ Other(x)' = Other(x)
    BY <1>1 DEF Current, Other
  <2>2. QED
    BY <1>1, <1>3, <2>1 DEF QueueInv, PointersOK
<1>11. HeldOK(i)'
  <2>1. llsc["tail"].version = local[t].version =>
            target'[t] \in InList /\ i[target'[t]] = local[t].version + 1
    BY <1>1, <1>4 DEF QueueInv, IndexedOK, Sides
  <2>2. \A u \in Thread : Side(u)' = Side(u)
    BY DEF Side
  <2>3. \A x : Other(x)' = Other(x)
    BY <1>1 DEF Other
  <2>4. QED
    BY <1>1, <1>3, <1>4, <2>1, <2>2, <2>3 DEF QueueInv, HeldOK
<1>12. DueOK(i, due)' /\ TransfersOK(i)' /\ ReadersOK(due)'
  BY <1>1, <1>3, <1>5, CountsStay
<1>13. PredecessorsOK(i)'
  BY <1>1, <1>3 DEF QueueInv, PredecessorsOK
<1>14. ClaimsOK(i)'
  <2>1. \A u \in Consumer : target'[u] = target[u]
    BY <1>4, ThreadSides
  <2>2. QED
    BY <1>1, <1>2, <1>3, <2>1 DEF QueueInv, ClaimsOK, Claimed, Other
<1>15. QED
  BY <1>6, <1>7, <1>8, <1>9, <1>10, <1>11, <1>12, <1>13, <1>14 DEF QueueInv

\* The node is appended: it gets the next number.
Appended(i, t) == [i EXCEPT ![mine[t]] = i[local[t].node] + 1]

\* A push that links finds the last node of the list, which the tail is at.
LEMMA AppendFrame ==
    ASSUME NEW i, NEW due, QueueInv(i, due), NEW t \in Producer, Link(t),
           next[local[t].node] = Null,
           NEW n, n = mine[t], NEW last, last = local[t].node,
           NEW j, j = Appended(i, t)
    PROVE  /\ next' = [next EXCEPT ![last] = n] /\ pred' = [pred EXCEPT ![n] = last]
           /\ target'[t] = n /\ won'[t] /\ won' \in [Thread -> BOOLEAN]
           /\ target' \in [Thread -> Node \union {Null}]
           /\ \A u \in Thread : u # t => target'[u] = target[u] /\ won'[u] = won[u]
           /\ n \in Node /\ n \notin InList /\ n # last
           /\ InList' = InList \union {n}
           /\ j \in [Node -> Int] /\ j[n] = i[last] + 1 /\ \A m \in InList : j[m] = i[m]
           /\ i[last] = local[t].version /\ i[last] \in Nat
           /\ \A m \in InList : i[m] <= i[last] /\ (m # last => i[m] < i[last])
           /\ \A x \in Sides : llsc[x].version <= i[last]
           /\ llsc["tail"].version = i[last]
<1>1. /\ t \in Thread /\ Side(t) = "tail" /\ ~ won[t] /\ n # Null /\ n \in Node
      /\ n \in Private /\ n \notin InList /\ n \notin free
      /\ last \in InList /\ last \in Node
      /\ i[last] = local[t].version /\ local[t].version \in Nat
      /\ local[t].version <= llsc["tail"].version
      /\ free' = free /\ mine' = mine
      /\ pred' = [pred EXCEPT ![n] = last]
  BY LinkFrame
<1>2. /\ next' = [next EXCEPT ![last] = n]
      /\ target' = [target EXCEPT ![t] = n] /\ won' = [won EXCEPT ![t] = TRUE]
  BY DEF Link
<1>3. /\ target'[t] = n /\ won'[t] /\ won' \in [Thread -> BOOLEAN]
      /\ target' \in [Thread -> Node \union {Null}]
      /\ \A u \in Thread : u # t => target'[u] = target[u] /\ won'[u] = won[u]
  BY <1>1, <1>2 DEF QueueInv, QueueTypeOK
<1>4. InList' = InList \union {n}
  <2>1. \A u \in Producer : u # t /\ ~ won[u] /\ mine[u] # Null => mine[u] # n
    BY <1>1 DEF QueueInv, PrivateOK
  <2>2. Private' = Private \ {n}
    BY <1>1, <1>3, <2>1, ThreadSides DEF Private
  <2>3. QED
    BY <1>1, <2>2 DEF InList
<1>5. i \in [Node -> Int]
  BY DEF QueueInv, IndexedOK
<1>6. j \in [Node -> Int] /\ j[n] = i[last] + 1 /\ \A m \in InList : j[m] = i[m]
  BY <1>1, <1>5 DEF Appended, InList
<1>7. \A m \in InList : i[m] <= i[last]
  BY <1>1 DEF QueueInv, IndexedOK
<1>8. \A m \in InList : m # last => i[m] < i[last]
  <2>1. \A m \in InList : m # last => i[m] # i[last]
    BY <1>1 DEF QueueInv, IndexedOK
  <2>2. \A m \in InList : i[m] \in Int /\ i[last] \in Int
    BY <1>1, <1>5 DEF InList
  <2>3. QED
    BY <1>7, <2>1, <2>2
<1>9. \A x \in Sides : llsc[x].version <= i[last]
  BY <1>7, PointerNumbers
<1>10. llsc["tail"].version = i[last]
  <2>1. "tail" \in Sides /\ llsc["tail"].version \in Nat
    BY DEF QueueInv, QueueTypeOK, Ends, Sides
  <2>2. llsc["tail"].version <= i[last]
    BY <1>9, <2>1
  <2>3. local[t].version = i[last] /\ i[last] \in Nat
    BY <1>1
  <2>4. i[last] <= llsc["tail"].version
    BY <1>1, <2>3
  <2>5. QED
    BY <2>1, <2>2, <2>3, <2>4
<1>11. QED
  BY <1>1, <1>2, <1>3, <1>4, <1>6, <1>7, <1>8, <1>9, <1>10

\* Nothing is due to a node that is appended, and it has no reader.
LEMMA AppendCounts ==
    ASSUME NEW i, NEW due, QueueInv(i, due), NEW t \in Producer, Link(t),
           next[local[t].node] = Null,
           NEW j, j = Appended(i, t),
           NEW d, d = [x \in Sides |-> [due[x] EXCEPT ![mine[t]] = 0]]
    PROVE  DueOK(j, d)' /\ TransfersOK(j)' /\ ReadersOK(d)'
<1>1. PICK n : n = mine[t]
  OBVIOUS
<1>2. PICK last : last = local[t].node
  OBVIOUS
<1>3. /\ n \in Node /\ n \notin InList /\ n # last /\ InList' = InList \union {n}
      /\ j \in [Node -> Int] /\ j[n] = i[last] + 1 /\ \A m \in InList : j[m] = i[m]
      /\ i[last] \in Nat
      /\ \A x \in Sides : llsc[x].version <= i[last]
  BY <1>1, <1>2, AppendFrame
<1>4. /\ t \in Thread /\ pc[t] = "link" /\ pc'[t] = "swing" /\ exit[n] = NewExit
      /\ llsc' = llsc /\ exit' = exit /\ local' = local /\ moved' = moved
      /\ \A u \in Thread : u # t => pc'[u] = pc[u]
  BY <1>1, LinkFrame
<1>5. \A u \in Thread : /\ pc'[u] = "transfer" <=> pc[u] = "transfer"
                        /\ Side(u)' = Side(u) /\ Side(u) \in Sides
  BY <1>4, ThreadSides DEF Side
<1>6. \A x, m : Transferring(x, m)' <=> Transferring(x, m)
  BY <1>4, <1>5 DEF Transferring
<1>7. \A x \in Sides : \A m \in InList : Open(j, x, m)' <=> Open(i, x, m)
  BY <1>3, <1>4, <1>6 DEF Open
<1>8. \A x \in Sides : llsc[x].version \in Nat
  BY DEF QueueInv, QueueTypeOK, Ends
<1>9. \A x \in Sides : llsc[x].version < j[n]
  BY <1>3, <1>8
<1>10. \A x \in Sides : Open(j, x, n)'
  BY <1>3, <1>4, <1>8, <1>9 DEF Open
<1>11. CountWidth \in Nat /\ CountWidth > 0
  BY FewThreads
<1>12. /\ d \in [Sides -> [Node -> 0 .. CountWidth - 1]]
       /\ \A x \in Sides : d[x][n] = 0 /\ \A m \in InList : d[x][m] = due[x][m]
  <2>1. due \in [Sides -> [Node -> 0 .. CountWidth - 1]] /\ 0 \in 0 .. CountWidth - 1
    BY <1>11 DEF QueueInv, DueOK
  <2>2. d = [x \in Sides |-> [due[x] EXCEPT ![n] = 0]]
    BY <1>1
  <2>3. \A m \in InList : m \in Node /\ m # n
    BY <1>3 DEF InList
  <2>4. \A x \in Sides : d[x] = [due[x] EXCEPT ![n] = 0] /\ due[x] \in [Node -> 0 .. CountWidth - 1]
    BY <2>1, <2>2
  <2>5. \A x \in Sides : /\ d[x] \in [Node -> 0 .. CountWidth - 1] /\ d[x][n] = 0
                         /\ \A m \in InList : d[x][m] = due[x][m]
    BY <1>3, <2>1, <2>3, <2>4
  <2>6. QED
    BY <2>2, <2>5
<1>13. DueOK(j, d)'
  <2>1. ASSUME NEW m \in InList', NEW x \in Sides
        PROVE  /\ llsc[x].version = j[m] => d[x][m] = llsc[x].count
               /\ llsc[x].version < j[m] => d[x][m] = 0
               /\ ~ Open(j, x, m)' => d[x][m] = 0
    <3>1. CASE m = n
      BY <1>8, <1>9, <1>12, <3>1
    <3>2. CASE m \in InList
      <4>1. /\ llsc[x].version = i[m] => due[x][m] = llsc[x].count
            /\ llsc[x].version < i[m] => due[x][m] = 0
            /\ ~ Open(i, x, m) => due[x][m] = 0
        BY <3>2 DEF QueueInv, DueOK
      <4>2. QED
        BY <1>3, <1>7, <1>12, <3>2, <4>1
    <3>3. QED
      BY <1>3, <3>1, <3>2
  <2>2. ASSUME NEW u \in Thread, pc[u] = "transfer"
        PROVE  d[Side(u)][local[u].node] = moved[u]
    <3>1. due[Side(u)][local[u].node] = moved[u] /\ local[u].node \in InList
      BY <2>2 DEF QueueInv, DueOK, HeldOK, Reading
    <3>2. QED
      BY <1>5, <1>12, <3>1
  <2>3. \A u \in Thread : pc'[u] = "transfer" => d[Side(u)'][local'[u].node] = moved'[u]
    BY <1>4, <1>5, <2>2
  <2>4. \A m \in InList', x \in Sides :
           /\ llsc'[x].version = j[m] => d[x][m] = llsc'[x].count
           /\ llsc'[x].version < j[m] => d[x][m] = 0
           /\ ~ Open(j, x, m)' => d[x][m] = 0
    BY <1>4, <2>1
  <2>5. QED
    BY <1>12, <2>3, <2>4 DEF DueOK
<1>14. TransfersOK(j)'
  <2>1. ASSUME NEW m \in InList'
        PROVE  exit[m].transfers_left = (IF Open(j, "head", m)' THEN 1 ELSE 0)
                                      + (IF Open(j, "tail", m)' THEN 1 ELSE 0)
    <3>1. "head" \in Sides /\ "tail" \in Sides
      BY DEF Sides
    <3>2. CASE m = n
      <4>1. Open(j, "head", m)' /\ Open(j, "tail", m)'
        BY <1>10, <3>1, <3>2
      <4>2. exit[m].transfers_left = 2
        BY <1>4, <3>2 DEF NewExit
      <4>3. QED
        BY <4>1, <4>2
    <3>3. CASE m \in InList
      <4>1. /\ Open(j, "head", m)' <=> Open(i, "head", m)
            /\ Open(j, "tail", m)' <=> Open(i, "tail", m)
        BY <1>7, <3>1, <3>3
      <4>2. QED
        BY <3>3, <4>1 DEF QueueInv, TransfersOK
    <3>4. QED
      BY <1>3, <3>2, <3>3
  <2>2. QED
    BY <1>4, <2>1 DEF TransfersOK
<1>15. ReadersOK(d)'
  <2>1. ASSUME NEW m \in InList'
        PROVE  SameCount(Cardinality(Readers(m)), exit[m].count + d["head"][m] + d["tail"][m])
    <3>1. "head" \in Sides /\ "tail" \in Sides
      BY DEF Sides
    <3>2. CASE m = n
      <4>1. Readers(m) = {}
        <5>1. \A u \in Thread : local[u].node # Null => local[u].node \in InList
          BY DEF QueueInv, PlacesOK, HeldOK
        <5>2. n # Null
          BY <1>3, QueueAssumption
        <5>3. QED
          BY <1>3, <3>2, <5>1, <5>2 DEF Readers
      <4>2. Cardinality(Readers(m)) = 0
        BY <4>1, FS_EmptySet
      <4>3. exit[m].count = 0 /\ d["head"][m] = 0 /\ d["tail"][m] = 0
        BY <1>4, <1>12, <3>1, <3>2 DEF NewExit
      <4>4. 0 + 0 * CountWidth = 0 + 0 + 0
        BY <1>11
      <4>5. QED
        BY <4>2, <4>3, <4>4 DEF SameCount
    <3>3. CASE m \in InList
      <4>1. d["head"][m] = due["head"][m] /\ d["tail"][m] = due["tail"][m]
        BY <1>12, <3>1, <3>3
      <4>2. QED
        BY <3>3, <4>1 DEF QueueInv, ReadersOK
    <3>4. QED
      BY <1>3, <3>2, <3>3
  <2>2. \A m : Readers(m)' = Readers(m)
    BY <1>4 DEF Readers
  <2>3. QED
    BY <1>4, <2>1, <2>2 DEF ReadersOK, SameCount
<1>16. QED
  BY <1>13, <1>14, <1>15

\* A push that links keeps the invariant.
LEMMA AppendStep ==
    ASSUME NEW i, NEW due, QueueInv(i, due), NEW t \in Producer, Link(t),
           next[local[t].node] = Null,
           NEW j, j = Appended(i, t)
    PROVE  \E d : QueueInv(j, d)'
<1>1. PICK n : n = mine[t]
  OBVIOUS
<1>2. PICK last : last = local[t].node
  OBVIOUS
<1>3. PICK d : d = [x \in Sides |-> [due[x] EXCEPT ![mine[t]] = 0]]
  OBVIOUS
<1>4. /\ next' = [next EXCEPT ![last] = n] /\ pred' = [pred EXCEPT ![n] = last]
      /\ target'[t] = n /\ won'[t] /\ won' \in [Thread -> BOOLEAN]
      /\ target' \in [Thread -> Node \union {Null}]
      /\ \A u \in Thread : u # t => target'[u] = target[u] /\ won'[u] = won[u]
      /\ n \in Node /\ n \notin InList /\ n # last /\ InList' = InList \union {n}
      /\ j \in [Node -> Int] /\ j[n] = i[last] + 1 /\ \A m \in InList : j[m] = i[m]
      /\ i[last] = local[t].version /\ i[last] \in Nat
      /\ \A m \in InList : i[m] <= i[last] /\ (m # last => i[m] < i[last])
      /\ \A x \in Sides : llsc[x].version <= i[last]
      /\ llsc["tail"].version = i[last]
  BY <1>1, <1>2, AppendFrame
<1>5. /\ t \in Thread /\ Side(t) = "tail" /\ pc[t] = "link" /\ pc[t] \in Reading
      /\ ~ won[t] /\ n # Null /\ n \notin free
      /\ next[n] = Null /\ exit[n] = NewExit
      /\ last \in InList /\ last \in Node
      /\ llsc' = llsc /\ exit' = exit /\ free' = free /\ local' = local /\ mine' = mine
      /\ moved' = moved /\ before' = before
      /\ \A m \in InList : pred'[m] = pred[m]
      /\ pc'[t] = "swing" /\ DOMAIN pc' = Thread
      /\ \A u \in Thread : u # t => pc'[u] = pc[u]
  BY <1>1, <1>2, LinkFrame
<1>6. /\ next \in [Node -> Node \union {Null}] /\ pred \in [Node -> Node \union {Null}]
      /\ \A m \in InList : m \in Node /\ i[m] \in Int
      /\ \A x \in Sides : llsc[x].version \in Nat
  BY DEF QueueInv, QueueTypeOK, Ends, IndexedOK, InList
<1>7. /\ next'[last] = n /\ \A m \in Node : m # last => next'[m] = next[m]
      /\ pred'[n] = last
  BY <1>4, <1>5, <1>6
<1>8. QueueTypeOK'
  <2>1. /\ next' \in [Node -> Node \union {Null}] /\ pred' \in [Node -> Node \union {Null}]
    BY <1>4, <1>5, <1>6
  <2>2. QED
    BY <1>4, <1>5, <2>1 DEF QueueInv, QueueTypeOK
<1>9. PlacesOK'
  <2>1. t \notin Consumer
    BY ThreadSides
  <2>2. mine[t] # Null
    BY <1>1, <1>5
  <2>3. QED
    BY <1>4, <1>5, <2>1, <2>2, ThreadSides DEF QueueInv, PlacesOK, Reading
<1>10. PrivateOK'
  <2>1. \A u \in Producer : ~ won'[u] /\ mine[u] # Null =>
            u # t /\ ~ won[u] /\ mine[u] \in Node /\ mine[u] # last
    BY <1>4, <1>5, ThreadSides DEF QueueInv, QueueTypeOK, InList, Private
  <2>2. \A m \in free : m \in Node /\ m # last
    BY <1>5 DEF QueueInv, QueueTypeOK, InList
  <2>3. QED
    BY <1>5, <1>7, <2>1, <2>2 DEF QueueInv, PrivateOK
<1>11. IndexedOK(j)'
  <2>1. \A m, k \in InList' : j[m] = j[k] => m = k
    <3>1. \A m \in InList : j[m] < j[n]
      BY <1>4, <1>6
    <3>2. QED
      BY <1>4, <1>6, <3>1 DEF QueueInv, IndexedOK
  <2>2. ASSUME NEW k \in InList', next'[k] = Null, j[k] >= 0, NEW m \in InList'
        PROVE  j[m] <= j[k]
    <3>1. CASE k = n
      BY <1>4, <1>6, <3>1
    <3>2. CASE k \in InList
      <4>1. k # last /\ next[k] = Null
        BY <1>5, <1>6, <1>7, <2>2, <3>2
      <4>2. i[k] < i[last] /\ i[last] <= i[k]
        BY <1>4, <1>5, <2>2, <3>2, <4>1 DEF QueueInv, IndexedOK
      <4>3. QED
        BY <1>4, <1>6, <3>2, <4>2
    <3>3. QED
      BY <1>4, <3>1, <3>2
  <2>3. ASSUME NEW k \in InList', NEW x \in Sides, next'[k] # Null, llsc[x].version <= j[k] + 1
        PROVE  next'[k] \in InList' /\ j[next'[k]] = j[k] + 1
    <3>1. k # n
      BY <1>4, <1>5, <1>7, <2>3
    <3>2. k \in InList
      BY <1>4, <3>1
    <3>3. CASE k = last
      BY <1>4, <1>5, <1>7, <3>3
    <3>4. CASE k # last
      <4>1. next[k] \in InList /\ i[next[k]] = i[k] + 1 /\ next'[k] = next[k]
        BY <1>4, <1>6, <1>7, <2>3, <3>2, <3>4 DEF QueueInv, IndexedOK
      <4>2. QED
        BY <1>4, <3>2, <4>1
    <3>5. QED
      BY <3>3, <3>4
  <2>4. QED
    BY <1>4, <1>5, <2>1, <2>2, <2>3 DEF IndexedOK
<1>12. PointersOK(j)'
  <2>1. \A x : Current(x)' = Current(x) /\ Other(x)' = Other(x)
    BY <1>5 DEF Current, Other
  <2>2. QED
    BY <1>4, <1>5, <2>1 DEF QueueInv, PointersOK
<1>13. HeldOK(j)'
  <2>1. \A u \in Thread : Side(u)' = Side(u)
    BY DEF Side
  <2>2. \A x : Other(x)' = Other(x)
    BY <1>5 DEF Other
  <2>3. target'[t] \in InList' /\ j[target'[t]] = local[t].version + 1
    BY <1>4
  <2>4. \A u \in Thread : pc'[u] \in Reading => pc[u] \in Reading
    BY <1>5
  <2>5. \A u \in Thread : pc'[u] \in Reading =>
           /\ local[u].node \in InList'
           /\ j[local[u].node] = local[u].version
           /\ local[u].version <= llsc[Side(u)].version
    BY <1>4, <2>4 DEF QueueInv, HeldOK
  <2>6. \A u \in Thread : pc'[u] = "swing" /\ llsc[Side(u)].version = local[u].version =>
            target'[u] \in InList' /\ j[target'[u]] = local[u].version + 1
    BY <1>4, <1>5, <2>3 DEF QueueInv, HeldOK
  <2>7. \A u \in Thread : pc'[u] = "advance" /\ llsc[Side(u)].version = local[u].version =>
            Other(Side(u)) \in InList' /\ j[Other(Side(u))] = local[u].version + 1
    BY <1>4, <1>5 DEF QueueInv, HeldOK
  <2>8. QED
    BY <1>5, <2>1, <2>2, <2>5, <2>6, <2>7 DEF QueueInv, HeldOK
<1>14. DueOK(j, d)' /\ TransfersOK(j)' /\ ReadersOK(d)'
  BY <1>2, <1>3, AppendCounts
<1>15. PredecessorsOK(j)'
  <2>1. \A u \in Thread : before[u] # n
    BY <1>4, <1>5 DEF QueueInv, PredecessorsOK
  <2>2. ~ exit[n].nl_p
    BY <1>5 DEF NewExit
  <2>3. ASSUME NEW m \in InList', ~ Clean(exit[m])
        PROVE  /\ pred'[m] \in InList' /\ j[pred'[m]] = j[m] - 1
               /\ ~ exit[pred'[m]].nl_p
               /\ \A u \in Thread : before[u] # pred'[m]
    <3>1. CASE m = n
      <4>1. pred'[m] = last /\ j[last] = i[last] /\ j[m] = i[last] + 1
        BY <1>4, <1>5, <1>7, <3>1
      <4>2. ~ exit[last].nl_p /\ ~ \E u \in Thread : before[u] = last
        <5>1. "tail" \in Sides /\ ~ (i[last] + 1 < llsc["tail"].version)
          BY <1>4 DEF Sides
        <5>2. QED
          BY <1>5, <5>1 DEF QueueInv, PredecessorsOK
      <4>3. QED
        BY <1>4, <1>5, <4>1, <4>2
    <3>2. CASE m \in InList
      <4>1. /\ pred[m] \in InList /\ i[pred[m]] = i[m] - 1 /\ ~ exit[pred[m]].nl_p
            /\ \A u \in Thread : before[u] # pred[m]
        BY <2>3, <3>2 DEF QueueInv, PredecessorsOK
      <4>2. QED
        BY <1>4, <1>5, <3>2, <4>1
    <3>3. QED
      BY <1>4, <3>1, <3>2
  <2>4. \A m \in InList', x \in Sides :
            exit[m].nl_p \/ (\E u \in Thread : before[u] = m) => j[m] + 1 < llsc[x].version
    BY <1>4, <2>1, <2>2 DEF QueueInv, PredecessorsOK
  <2>5. QED
    BY <1>4, <1>5, <2>3, <2>4 DEF QueueInv, PredecessorsOK
<1>16. ClaimsOK(j)'
  <2>1. \A u \in Consumer : target'[u] = target[u] /\ (won'[u] <=> won[u])
    BY <1>4, ThreadSides
  <2>2. ~ Claimed(n)
    BY <1>4, <1>5 DEF Claimed, NewExit, QueueInv, ClaimsOK
  <2>3. \A m : Claimed(m)' <=> Claimed(m)
    BY <1>5, <2>1 DEF Claimed
  <2>4. \A x : Other(x)' = Other(x)
    BY <1>5 DEF Other
  <2>5. \A m \in InList' : Claimed(m)' =>
            \/ j[m] <= llsc["head"].version
            \/ j[m] = llsc["head"].version + 1 /\ Other("head") = m
    BY <1>4, <2>2, <2>3 DEF QueueInv, ClaimsOK
  <2>6. QED
    BY <1>4, <1>5, <2>1, <2>4, <2>5 DEF QueueInv, ClaimsOK
<1>17. QueueInv(j, d)'
  BY <1>8, <1>9, <1>10, <1>11, <1>12, <1>13, <1>14, <1>15, <1>16 DEF QueueInv
<1>18. QED
  BY <1>17

-----------------------------------------------------------------------------
(* All together.                                                            *)

\* The nodes can be numbered and the counts divided.
IInv == \E i, due : QueueInv(i, due)

\* At first node_init0 has the number 0 and node_init1, before it, -1.
LEMMA QueueInitial ==
    ASSUME QueueInit
    PROVE  \E i, due : i[Node0] = 0 /\ i[Node1] = -1 /\ QueueInv(i, due)
<1>1. PICK i : i = [n \in Node |-> IF n = Node1 THEN -1 ELSE 0]
  OBVIOUS
<1>2. PICK due : due = [x \in Sides |-> [n \in Node |-> 0]]
  OBVIOUS
<1>3. Node0 \in Node /\ Node1 \in Node /\ Node0 # Node1 /\ Null \notin Node
  BY QueueAssumption
<1>4. CountWidth \in Nat /\ 0 \in 0 .. CountWidth - 1
  <2>1. CountWidth \in Nat /\ CountWidth > 0
    BY FewThreads
  <2>2. QED
    BY <2>1
<1>5. InList = {Node0, Node1}
  <2>1. Private = {}
    BY ThreadSides DEF QueueInit, Private
  <2>2. QED
    BY <1>3, <2>1 DEF QueueInit, InList
<1>6. \A x \in Sides : llsc[x].version = 0 /\ llsc[x].count = 0
                       /\ Current(x) = Node0 /\ Other(x) = Node1
  <2>1. \A x \in Sides : llsc[x] = [ptr |-> [k \in 0 .. 1 |-> IF k = 0 THEN Node0 ELSE Node1],
                                    version |-> 0, count |-> 0]
    BY DEF QueueInit, Sides
  <2>2. NonCurrent(0) = 1 /\ 0 % 2 = 0
    BY DEF NonCurrent
  <2>3. ASSUME NEW x \in Sides
        PROVE  /\ llsc[x].version = 0 /\ llsc[x].count = 0
               /\ Current(x) = Node0 /\ Other(x) = Node1
    <3>1. llsc[x].version = 0 /\ llsc[x].count = 0
          /\ llsc[x].ptr = [k \in 0 .. 1 |-> IF k = 0 THEN Node0 ELSE Node1]
      <4>1. PICK p : p = [k \in 0 .. 1 |-> IF k = 0 THEN Node0 ELSE Node1]
        OBVIOUS
      <4>2. llsc[x] = [ptr |-> p, version |-> 0, count |-> 0]
        BY <2>1, <4>1
      <4>3. QED
        BY <4>1, <4>2
    <3>2. llsc[x].ptr[0] = Node0 /\ llsc[x].ptr[1] = Node1
      BY <3>1
    <3>3. Current(x) = llsc[x].ptr[llsc[x].version % 2]
          /\ Other(x) = llsc[x].ptr[NonCurrent(llsc[x].version)]
      BY DEF Current, Other
    <3>4. QED
      BY <2>2, <3>1, <3>2, <3>3
  <2>4. QED
    BY <2>3
<1>7. /\ \A t \in Thread : /\ pc[t] = "idle" /\ local[t].node = Null /\ before[t] = Null
                           /\ ~ won[t] /\ mine[t] = Null
      /\ \A n \in Node : next[n] = Null
      /\ exit[Node0] = NewExit /\ pred[Node0] = Node1
      /\ exit[Node1].count = 0 /\ exit[Node1].transfers_left = 0
      /\ ~ exit[Node1].nl_p /\ ~ exit[Node1].to_be_freed
      /\ \A n \in free : n \in Node /\ exit[n] = NewExit
  BY <1>3 DEF QueueInit, NewExit
<1>8. i[Node0] = 0 /\ i[Node1] = -1 /\ i \in [Node -> Int]
  BY <1>1, <1>3
<1>9. QueueTypeOK
  <2>1. NewExit \in Exits /\ [NewExit EXCEPT !.transfers_left = 0] \in Exits
    <3>1. NewExit \in Exits
      BY <1>4 DEF NewExit, Exits
    <3>2. \A e \in Exits : [e EXCEPT !.transfers_left = 0] \in Exits
      BY DEF Exits
    <3>3. QED
      BY <3>1, <3>2
  <2>2. exit \in [Node -> Exits]
    BY <2>1 DEF QueueInit
  <2>3. [ptr |-> [k \in 0 .. 1 |-> IF k = 0 THEN Node0 ELSE Node1], version |-> 0, count |-> 0] \in Ends
    BY <1>3, <1>4 DEF Ends
  <2>4. llsc \in [Sides -> Ends]
    BY <2>3 DEF QueueInit, Sides
  <2>5. /\ next \in [Node -> Node \union {Null}] /\ pred \in [Node -> Node \union {Null}]
        /\ free \subseteq Node
    BY <1>3 DEF QueueInit
  <2>6. /\ local \in [Thread -> [node : Node \union {Null}, version : Nat]]
        /\ mine \in [Thread -> Node \union {Null}]
        /\ target \in [Thread -> Node \union {Null}]
        /\ won \in [Thread -> BOOLEAN]
        /\ moved \in [Thread -> 0 .. CountWidth - 1]
        /\ before \in [Thread -> Node \union {Null}]
        /\ DOMAIN pc = Thread
    BY <1>4 DEF QueueInit
  <2>7. QED
    BY <2>2, <2>4, <2>5, <2>6 DEF QueueTypeOK
<1>10. PlacesOK
  BY <1>7, ThreadSides DEF PlacesOK, Reading
<1>11. PrivateOK
  BY <1>7, ThreadSides DEF PrivateOK
<1>12. IndexedOK(i)
  BY <1>3, <1>5, <1>7, <1>8 DEF IndexedOK
<1>13. PointersOK(i)
  BY <1>5, <1>6, <1>7, <1>8 DEF PointersOK
<1>14. HeldOK(i)
  BY <1>7 DEF HeldOK, Reading
<1>15. \A x \in Sides : Open(i, x, Node0) /\ ~ Open(i, x, Node1)
  BY <1>6, <1>7, <1>8 DEF Open, Transferring
<1>16. DueOK(i, due)
  <2>1. due \in [Sides -> [Node -> 0 .. CountWidth - 1]]
    BY <1>2, <1>4
  <2>2. \A x \in Sides, n \in Node : due[x][n] = 0
    BY <1>2
  <2>3. \A n \in InList : n \in Node
    BY <1>3, <1>5
  <2>4. QED
    BY <1>6, <1>7, <2>1, <2>2, <2>3 DEF DueOK
<1>17. TransfersOK(i)
  <2>1. "head" \in Sides /\ "tail" \in Sides
    BY DEF Sides
  <2>2. exit[Node0].transfers_left = 2
    BY <1>7 DEF NewExit
  <2>3. QED
    BY <1>5, <1>7, <1>15, <2>1, <2>2 DEF TransfersOK
<1>18. ReadersOK(due)
  <2>1. ASSUME NEW n \in InList
        PROVE  SameCount(Cardinality(Readers(n)), exit[n].count + due["head"][n] + due["tail"][n])
    <3>1. Readers(n) = {} /\ n \in Node
      BY <1>3, <1>5, <1>7 DEF Readers
    <3>2. Cardinality(Readers(n)) = 0
      BY <3>1, FS_EmptySet
    <3>3. exit[n].count = 0 /\ due["head"][n] = 0 /\ due["tail"][n] = 0
      BY <1>2, <1>5, <1>7, <3>1 DEF NewExit, Sides
    <3>4. 0 + 0 * CountWidth = 0 + 0 + 0
      BY <1>4
    <3>5. QED
      BY <3>2, <3>3, <3>4 DEF SameCount
  <2>2. QED
    BY <2>1 DEF ReadersOK
<1>19. PredecessorsOK(i)
  <2>1. Clean(exit[Node1])
    BY <1>7 DEF Clean
  <2>2. QED
    BY <1>3, <1>5, <1>7, <1>8, <2>1 DEF PredecessorsOK, NewExit
<1>20. ClaimsOK(i)
  BY <1>5, <1>7, ThreadSides DEF ClaimsOK, Claimed, NewExit
<1>21. QED
  BY <1>9, <1>10, <1>11, <1>12, <1>13, <1>14, <1>16, <1>17, <1>18, <1>19, <1>20, <1>8 DEF QueueInv

\* The invariant depends on the variables only.
LEMMA QueueStutters ==
    ASSUME NEW i, NEW due, QueueInv(i, due), UNCHANGED queueVars
    PROVE  QueueInv(i, due)'
<1>1. /\ llsc' = llsc /\ next' = next /\ pred' = pred /\ exit' = exit /\ free' = free /\ pc' = pc
      /\ local' = local /\ mine' = mine /\ target' = target /\ won' = won /\ moved' = moved
      /\ before' = before
  BY DEF queueVars
<1>2. /\ InList' = InList
      /\ \A x : Other(x)' = Other(x)
      /\ \A x : Current(x)' = Current(x)
      /\ \A t : Side(t)' = Side(t)
      /\ \A x, n : Transferring(x, n)' <=> Transferring(x, n)
      /\ \A n : Readers(n)' = Readers(n)
      /\ \A n : Claimed(n)' <=> Claimed(n)
  BY <1>1 DEF InList, Private, Other, Current, Side, Transferring, Readers, Claimed
<1>3. \A x, n : Open(i, x, n)' <=> Open(i, x, n)
  BY <1>1, <1>2 DEF Open
<1>4. QueueTypeOK' /\ PlacesOK' /\ PrivateOK'
  BY <1>1 DEF QueueInv, QueueTypeOK, PlacesOK, PrivateOK
<1>5. IndexedOK(i)' /\ PointersOK(i)'
  BY <1>1, <1>2, ListStays
<1>6. HeldOK(i)'
  BY <1>1, <1>2 DEF QueueInv, HeldOK
<1>7. DueOK(i, due)'
  BY <1>1, <1>2, <1>3 DEF QueueInv, DueOK
<1>8. TransfersOK(i)' /\ ReadersOK(due)'
  BY <1>1, <1>2, <1>3 DEF QueueInv, TransfersOK, ReadersOK, SameCount
<1>9. PredecessorsOK(i)' /\ ClaimsOK(i)'
  BY <1>1, <1>2 DEF QueueInv, PredecessorsOK, ClaimsOK
<1>10. QED
  BY <1>4, <1>5, <1>6, <1>7, <1>8, <1>9 DEF QueueInv

\* Every step keeps the invariant.
LEMMA QueueStep ==
    ASSUME IInv, [QueueNext]_queueVars
    PROVE  IInv'
<1>1. PICK i, due : QueueInv(i, due)
  BY DEF IInv
<1>2. ASSUME NEW t \in Thread, StoreConditional(t)
      PROVE  IInv'
  <2>1. CASE Swing(t)
    BY <1>1, <2>1, SwingStep DEF IInv
  <2>2. CASE Advance(t)
    BY <1>1, <2>2, AdvanceStep DEF IInv
  <2>3. CASE Advanced(t)
    BY <1>1, <2>3, PlaceStep DEF IInv, PlaceMove
  <2>4. CASE Transfer(t)
    BY <1>1, <2>4, TransferStep DEF IInv
  <2>5. CASE Release(t)
    BY <1>1, <2>5, ReleaseStep DEF IInv
  <2>6. CASE SetNlPred(t)
    BY <1>1, <2>6, SetNlPredStep DEF IInv
  <2>7. QED
    BY <1>2, <2>1, <2>2, <2>3, <2>4, <2>5, <2>6 DEF StoreConditional
<1>3. ASSUME NEW t \in Producer, Push(t)
      PROVE  IInv'
  <2>1. t \in Thread
    BY ThreadSides
  <2>2. CASE StartPush(t) \/ Count(t)
    BY <1>1, <2>1, <2>2, PlaceStep DEF IInv, PlaceMove
  <2>3. CASE Allocate(t) \/ TailAgain(t)
    BY <1>1, <2>1, <2>3, ReadStep DEF IInv, ReadMove
  <2>4. CASE Link(t)
    <3>1. PICK j : j = Appended(i, t)
      OBVIOUS
    <3>2. QED
      BY <1>1, <2>4, <3>1, LinkHelps, AppendStep DEF IInv
  <2>5. QED
    BY <1>3, <2>2, <2>3, <2>4 DEF Push
<1>4. ASSUME NEW t \in Consumer, Pop(t)
      PROVE  IInv'
  <2>1. t \in Thread
    BY ThreadSides
  <2>2. CASE Peek(t) \/ Discount(t)
    BY <1>1, <2>1, <2>2, PlaceStep DEF IInv, PlaceMove
  <2>3. CASE StartPop(t)
    BY <1>1, <2>1, <2>3, ReadStep DEF IInv, ReadMove
  <2>4. CASE Take(t)
    BY <1>1, <2>4, TakeStep DEF IInv
  <2>5. QED
    BY <1>4, <2>2, <2>3, <2>4 DEF Pop
<1>5. CASE UNCHANGED queueVars
  BY <1>1, <1>5, QueueStutters DEF IInv
<1>6. QED
  BY <1>2, <1>3, <1>4, <1>5, ThreadSides DEF QueueNext

\* What a thread's next step reads or writes is linked, or is its own new node.
LEMMA InvNeverTouchesFreed ==
    ASSUME IInv
    PROVE  NeverTouchesFreed
<1>1. PICK i, due : QueueInv(i, due)
  BY DEF IInv
<1>2. ASSUME NEW t \in Thread
      PROVE  Touched(t) \intersect free = {}
  <2>1. InList \intersect free = {}
    BY DEF InList
  <2>2. CASE pc[t] \in {"swing", "transfer", "release", "peek"}
    <3>1. local[t].node \in InList
      BY <1>1, <2>2 DEF QueueInv, HeldOK, Reading
    <3>2. Touched(t) = {local[t].node}
      BY <2>2 DEF Touched
    <3>3. QED
      BY <2>1, <3>1, <3>2
  <2>3. CASE pc[t] = "link"
    <3>1. local[t].node \in InList
      BY <1>1, <2>3 DEF QueueInv, HeldOK, Reading
    <3>2. t \in Producer /\ ~ won[t] /\ mine[t] # Null
      BY <1>1, <2>3, ThreadSides DEF QueueInv, PlacesOK
    <3>3. mine[t] \notin free
      BY <1>1, <3>2 DEF QueueInv, PrivateOK
    <3>4. Touched(t) = {local[t].node, mine[t]}
      BY <2>3 DEF Touched
    <3>5. QED
      BY <2>1, <3>1, <3>3, <3>4
  <2>4. CASE pc[t] = "set_nl"
    <3>1. before[t] \in InList
      BY <1>1, <2>4 DEF QueueInv, PlacesOK, PredecessorsOK
    <3>2. Touched(t) = {before[t]}
      BY <2>4 DEF Touched
    <3>3. QED
      BY <2>1, <3>1, <3>2
  <2>5. CASE pc[t] = "take"
    <3>1. t \in Consumer
      BY <1>1, <2>5, ThreadSides DEF QueueInv, PlacesOK
    <3>2. target[t] \in InList
      BY <1>1, <2>5, <3>1 DEF QueueInv, PlacesOK, ClaimsOK
    <3>3. Touched(t) = {target[t]}
      BY <2>5 DEF Touched
    <3>4. QED
      BY <2>1, <3>2, <3>3
  <2>6. CASE pc[t] \notin {"swing", "transfer", "release", "peek", "link", "set_nl", "take"}
    <3>1. Touched(t) = {}
      BY <2>6 DEF Touched
    <3>2. QED
      BY <3>1
  <2>7. QED
    BY <2>2, <2>3, <2>4, <2>5, <2>6
<1>3. QED
  BY <1>2 DEF NeverTouchesFreed

\* No thread reads or writes a node that has been freed, whatever the number of
\* threads, what they do, the memory, and how often the counts go round.
THEOREM NeverTouchesFreedHolds == QueueSpec => []NeverTouchesFreed
<1>1. QueueInit => IInv
  BY QueueInitial DEF IInv
<1>2. IInv /\ [QueueNext]_queueVars => IInv'
  BY QueueStep
<1>3. IInv => NeverTouchesFreed
  BY InvNeverTouchesFreed
<1>4. QED
  BY <1>1, <1>2, <1>3, PTL DEF QueueSpec

-----------------------------------------------------------------------------
(* What is behind a node.                                                   *)

\* The k-th node from n on, along the nodes s behind it.
At(n, s, k) == IF k = 0 THEN n ELSE s[k]

\* The nodes s follow n, and there are no more.
Chain(nx, n, s) ==
    /\ s \in Seq(Node)
    /\ \A k \in 0 .. Len(s) : nx[At(n, s, k)] = (IF k = Len(s) THEN Null ELSE s[k + 1])

\* From every node, linked, new or freed, the list comes to an end.
Chained(nx) == \A n \in Node : \E s : Chain(nx, n, s)

\* A non-empty set of numbers has a least one.
LEMMA LeastNumber ==
    ASSUME NEW S \in SUBSET Nat, S # {}
    PROVE  \E x \in S : \A y \in S : x <= y
<1> DEFINE R == OpToRel(<, Nat)
<1>1. IsWellFoundedOn(R, Nat)
  BY NatLessThanWellFounded
<1>2. \E x \in S : \A y \in S : ~ (<<y, x>> \in R)
  <2> HIDE DEF R
  <2>1. QED
    BY <1>1, WFMin
<1>3. PICK x \in S : \A y \in S : ~ (<<y, x>> \in R)
  BY <1>2
<1>4. ASSUME NEW y \in S PROVE x <= y
  <2>1. x \in Nat /\ y \in Nat
    OBVIOUS
  <2>2. ~ (y < x)
    BY <1>3, <2>1 DEF OpToRel
  <2>3. QED
    BY <2>1, <2>2
<1>5. QED
  BY <1>4

\* The nodes behind the next one are all but the first.
LEMMA ChainRest ==
    ASSUME NEW nx, NEW n \in Node, NEW s, Chain(nx, n, s)
    PROVE  /\ nx[n] = Null <=> s = << >>
           /\ s # << >> => /\ nx[n] \in Node /\ Chain(nx, nx[n], Tail(s))
                           /\ s = <<nx[n]>> \o Tail(s) /\ Len(Tail(s)) < Len(s)
<1>1. s \in Seq(Node) /\ Len(s) \in Nat /\ Null \notin Node
  BY QueueAssumption DEF Chain
<1>2. \A k \in 0 .. Len(s) : nx[At(n, s, k)] = (IF k = Len(s) THEN Null ELSE s[k + 1])
  BY DEF Chain
<1>3. nx[n] = IF Len(s) = 0 THEN Null ELSE s[1]
  BY <1>1, <1>2 DEF At
<1>4. nx[n] = Null <=> s = << >>
  BY <1>1, <1>3
<1>5. ASSUME s # << >>
      PROVE  /\ nx[n] \in Node /\ Chain(nx, nx[n], Tail(s))
             /\ s = <<nx[n]>> \o Tail(s) /\ Len(Tail(s)) < Len(s)
  <2>1. nx[n] = s[1] /\ s[1] \in Node /\ Len(s) > 0
    BY <1>1, <1>3, <1>5
  <2>2. PICK u : u = Tail(s)
    OBVIOUS
  <2>3. /\ u \in Seq(Node) /\ Len(u) = Len(s) - 1 /\ Len(u) \in Nat
        /\ \A k \in 1 .. Len(s) - 1 : u[k] = s[k + 1]
    BY <1>1, <1>5, <2>2
  <2>4. s = <<nx[n]>> \o u
    BY <1>1, <1>5, <2>1, <2>2, <2>3
  <2>5. ASSUME NEW k \in 0 .. Len(u)
        PROVE  nx[At(s[1], u, k)] = (IF k = Len(u) THEN Null ELSE u[k + 1])
    <3>1. At(s[1], u, k) = s[k + 1] /\ k + 1 \in 0 .. Len(s) /\ At(n, s, k + 1) = s[k + 1]
      BY <1>1, <2>1, <2>3 DEF At
    <3>2. nx[At(n, s, k + 1)] = (IF k + 1 = Len(s) THEN Null ELSE s[k + 1 + 1])
      BY <1>2, <3>1
    <3>3. k # Len(u) => u[k + 1] = s[k + 1 + 1]
      BY <1>1, <2>3
    <3>4. k + 1 = Len(s) <=> k = Len(u)
      BY <1>1, <2>3
    <3>5. QED
      BY <3>1, <3>2, <3>3, <3>4
  <2>6. Chain(nx, nx[n], u)
    BY <2>1, <2>3, <2>5 DEF Chain
  <2>7. QED
    BY <1>1, <2>1, <2>2, <2>3, <2>4, <2>6
<1>6. QED
  BY <1>4, <1>5

\* And a node before the nodes behind it is behind its predecessor.
LEMMA ChainMore ==
    ASSUME NEW nx, NEW n \in Node, nx[n] \in Node, NEW s, Chain(nx, nx[n], s)
    PROVE  Chain(nx, n, <<nx[n]>> \o s)
<1>1. s \in Seq(Node) /\ Len(s) \in Nat /\ Null \notin Node
  BY QueueAssumption DEF Chain
<1>2. PICK m \in Node : m = nx[n]
  OBVIOUS
<1>3. PICK t \in Seq(Node) : t = <<m>> \o s
  <2>1. <<m>> \in Seq(Node)
    OBVIOUS
  <2>2. <<m>> \o s \in Seq(Node)
    BY <1>1, <2>1
  <2>3. QED
    BY <2>2
<1>4. Len(t) = Len(s) + 1 /\ t[1] = m /\ \A k \in 1 .. Len(s) : t[k + 1] = s[k]
  BY <1>1, <1>3
<1>5. ASSUME NEW k \in 0 .. Len(t)
      PROVE  nx[At(n, t, k)] = (IF k = Len(t) THEN Null ELSE t[k + 1])
  <2>1. CASE k = 0
    BY <1>1, <1>2, <1>4, <2>1 DEF At
  <2>2. CASE k # 0
    <3>1. k - 1 \in 0 .. Len(s) /\ At(n, t, k) = At(m, s, k - 1)
      BY <1>1, <1>4, <2>2 DEF At
    <3>2. nx[At(m, s, k - 1)] = (IF k - 1 = Len(s) THEN Null ELSE s[k - 1 + 1])
      BY <1>2, <3>1 DEF Chain
    <3>3. k # Len(t) => t[k + 1] = s[k]
      BY <1>1, <1>4, <2>2
    <3>4. QED
      BY <1>1, <1>4, <2>2, <3>1, <3>2, <3>3
  <2>3. QED
    BY <2>1, <2>2
<1>6. QED
  BY <1>2, <1>3, <1>5 DEF Chain

\* There is one list behind a node.
LEMMA ChainUnique ==
    ASSUME NEW nx, NEW n \in Node, NEW s, NEW t, Chain(nx, n, s), Chain(nx, n, t)
    PROVE  s = t
<1>1. s \in Seq(Node) /\ t \in Seq(Node) /\ Len(s) \in Nat /\ Len(t) \in Nat /\ Null \notin Node
  BY QueueAssumption DEF Chain
<1> DEFINE Bad == {k \in Nat : k <= Len(s) /\ k <= Len(t) /\ At(n, s, k) # At(n, t, k)}
<1>2. Bad = {}
  <2>1. SUFFICES ASSUME Bad # {} PROVE FALSE
    OBVIOUS
  <2>2. PICK k \in Bad : \A j \in Bad : k <= j
    <3>1. Bad \in SUBSET Nat
      OBVIOUS
    <3> HIDE DEF Bad
    <3>2. QED
      BY <2>1, <3>1, LeastNumber
  <2>3. k \in Nat /\ k # 0
    BY <2>2 DEF At
  <2>4. k - 1 \in Nat /\ k - 1 < Len(s) /\ k - 1 < Len(t) /\ ~ (k <= k - 1)
    BY <1>1, <2>2, <2>3
  <2>5. At(n, s, k - 1) = At(n, t, k - 1)
    BY <1>1, <2>2, <2>4
  <2>6. nx[At(n, s, k - 1)] = s[k - 1 + 1] /\ nx[At(n, t, k - 1)] = t[k - 1 + 1]
    BY <1>1, <2>4 DEF Chain
  <2>7. s[k] = t[k]
    BY <2>3, <2>5, <2>6
  <2>8. QED
    BY <2>2, <2>3, <2>7 DEF At
<1>3. \A k \in Nat : k <= Len(s) /\ k <= Len(t) => At(n, s, k) = At(n, t, k)
  BY <1>2
<1>4. Len(s) = Len(t)
  <2>1. CASE Len(s) < Len(t)
    <3>1. nx[At(n, s, Len(s))] = Null /\ nx[At(n, t, Len(s))] = t[Len(s) + 1]
      BY <1>1, <2>1 DEF Chain
    <3>2. t[Len(s) + 1] \in Node
      BY <1>1, <2>1
    <3>3. QED
      BY <1>1, <1>3, <2>1, <3>1, <3>2
  <2>2. CASE Len(t) < Len(s)
    <3>1. nx[At(n, t, Len(t))] = Null /\ nx[At(n, s, Len(t))] = s[Len(t) + 1]
      BY <1>1, <2>2 DEF Chain
    <3>2. s[Len(t) + 1] \in Node
      BY <1>1, <2>2
    <3>3. QED
      BY <1>1, <1>3, <2>2, <3>1, <3>2
  <2>3. QED
    BY <1>1, <2>1, <2>2
<1>5. \A k \in 1 .. Len(s) : s[k] = t[k]
  BY <1>1, <1>3, <1>4 DEF At
<1>6. QED
  BY <1>1, <1>4, <1>5

\* Behind is the list behind each node.
LEMMA BehindIs ==
    ASSUME NEW nx \in [Node -> Node \union {Null}], Chained(nx),
           NEW b, b = CHOOSE f : f = [n \in Node |->
                             IF nx[n] = Null THEN << >> ELSE <<nx[n]>> \o f[nx[n]]]
    PROVE  \A n \in Node : \A s : Chain(nx, n, s) => b[n] = s
<1> DEFINE Step(f) == [n \in Node |-> IF nx[n] = Null THEN << >> ELSE <<nx[n]>> \o f[nx[n]]]
           chains == [n \in Node |-> CHOOSE s : Chain(nx, n, s)]
<1>1. \A n \in Node : Chain(nx, n, chains[n])
  BY DEF Chained
<1>2. ASSUME NEW n \in Node
      PROVE  chains[n] = IF nx[n] = Null THEN << >> ELSE <<nx[n]>> \o chains[nx[n]]
  <2> HIDE DEF chains
  <2>1. CASE nx[n] = Null
    BY <1>1, <2>1, ChainRest
  <2>2. CASE nx[n] # Null
    <3>1. nx[n] \in Node
      BY <2>2
    <3>2. Chain(nx, n, <<nx[n]>> \o chains[nx[n]])
      BY <1>1, <3>1, ChainMore
    <3>3. QED
      BY <1>1, <2>2, <3>2, ChainUnique
  <2>3. QED
    BY <2>1, <2>2
<1>3. chains = Step(chains)
  <2>1. DOMAIN chains = Node
    OBVIOUS
  <2>2. chains = [n \in Node |-> chains[n]]
    OBVIOUS
  <2>3. QED
    <3> HIDE DEF chains
    <3>1. QED
      BY <1>2, <2>2
<1>4. b = CHOOSE f : f = Step(f)
  OBVIOUS
<1>5. b = Step(b)
  <2> HIDE DEF Step, chains
  <2>1. \E f : f = Step(f)
    BY <1>3
  <2>2. QED
    BY <1>4, <2>1
<1>6. \A n \in Node : b[n] = IF nx[n] = Null THEN << >> ELSE <<nx[n]>> \o b[nx[n]]
  BY <1>5
<1> DEFINE Wrong == {k \in Nat : \E n \in Node : \E s : Chain(nx, n, s) /\ Len(s) = k /\ b[n] # s}
<1>7. Wrong = {}
  <2>1. SUFFICES ASSUME Wrong # {} PROVE FALSE
    OBVIOUS
  <2>2. PICK k \in Wrong : \A j \in Wrong : k <= j
    <3>1. Wrong \in SUBSET Nat
      OBVIOUS
    <3> HIDE DEF Wrong
    <3>2. QED
      BY <2>1, <3>1, LeastNumber
  <2>3. PICK n \in Node : \E s : Chain(nx, n, s) /\ Len(s) = k /\ b[n] # s
    BY <2>2
  <2>4. PICK s : Chain(nx, n, s) /\ Len(s) = k /\ b[n] # s
    BY <2>3
  <2>5. s # << >>
    BY <1>6, <2>4, ChainRest
  <2>6. /\ nx[n] \in Node /\ Chain(nx, nx[n], Tail(s)) /\ s = <<nx[n]>> \o Tail(s)
        /\ Len(Tail(s)) < k /\ nx[n] # Null
    BY <2>4, <2>5, ChainRest
  <2>7. Len(Tail(s)) \in Nat /\ k \in Nat /\ ~ (k <= Len(Tail(s)))
    <3>1. Tail(s) \in Seq(Node)
      BY <2>6 DEF Chain
    <3>2. QED
      BY <2>2, <2>6, <3>1
  <2>8. b[nx[n]] = Tail(s)
    <3>1. Len(Tail(s)) \notin Wrong
      BY <2>2, <2>7
    <3>2. QED
      BY <2>6, <2>7, <3>1
  <2>9. QED
    BY <1>6, <2>4, <2>6, <2>8
<1>8. ASSUME NEW n \in Node, NEW s, Chain(nx, n, s)
      PROVE  b[n] = s
  <2>1. Len(s) \in Nat
    BY <1>8 DEF Chain
  <2>2. QED
    BY <1>7, <1>8, <2>1
<1>9. QED
  BY <1>8

\* A node that is freed ends every list it is in.
LEMMA ChainCut ==
    ASSUME NEW nx \in [Node -> Node \union {Null}], Chained(nx), NEW m \in Node,
           NEW cut, cut = [nx EXCEPT ![m] = Null]
    PROVE  Chained(cut)
<1>1. ASSUME NEW n \in Node
      PROVE  \E s : Chain(cut, n, s)
  <2>1. PICK s : Chain(nx, n, s)
    BY DEF Chained
  <2>2. /\ s \in Seq(Node) /\ Len(s) \in Nat
        /\ \A k \in 0 .. Len(s) : nx[At(n, s, k)] = (IF k = Len(s) THEN Null ELSE s[k + 1])
    BY <2>1 DEF Chain
  <2>3. \A k \in 0 .. Len(s) : At(n, s, k) \in Node
    BY <2>2 DEF At
  <2> DEFINE Met == {k \in Nat : k <= Len(s) /\ At(n, s, k) = m}
  <2>4. CASE Met = {}
    <3>1. \A k \in 0 .. Len(s) : cut[At(n, s, k)] = nx[At(n, s, k)]
      BY <2>2, <2>3, <2>4
    <3>2. Chain(cut, n, s)
      BY <2>2, <3>1 DEF Chain
    <3>3. QED
      BY <3>2
  <2>5. CASE Met # {}
    <3>1. PICK k \in Met : \A j \in Met : k <= j
      <4>1. Met \in SUBSET Nat
        OBVIOUS
      <4> HIDE DEF Met
      <4>2. QED
        BY <2>5, <4>1, LeastNumber
    <3>2. k \in Nat /\ k <= Len(s) /\ At(n, s, k) = m
      BY <3>1
    <3>3. \A j \in 0 .. k : j < k => At(n, s, j) # m /\ j <= Len(s)
      BY <2>2, <3>1, <3>2
    <3>4. PICK t : t = [j \in 1 .. k |-> s[j]]
      OBVIOUS
    <3>5. t \in Seq(Node) /\ Len(t) = k /\ \A j \in 0 .. k : At(n, t, j) = At(n, s, j)
      BY <2>2, <3>2, <3>4 DEF At
    <3>6. ASSUME NEW j \in 0 .. Len(t)
          PROVE  cut[At(n, t, j)] = (IF j = Len(t) THEN Null ELSE t[j + 1])
      <4>1. CASE j = k
        BY <3>2, <3>5, <4>1
      <4>2. CASE j # k
        <5>1. /\ j \in 0 .. Len(s) /\ j < k /\ j # Len(s) /\ At(n, s, j) # m
              /\ At(n, s, j) \in Node
          BY <2>2, <2>3, <3>2, <3>3, <3>5, <4>2
        <5>2. cut[At(n, t, j)] = s[j + 1]
          BY <2>2, <3>5, <5>1
        <5>3. t[j + 1] = s[j + 1]
          BY <3>2, <3>4, <5>1
        <5>4. QED
          BY <3>5, <4>2, <5>2, <5>3
      <4>3. QED
        BY <4>1, <4>2
    <3>7. Chain(cut, n, t)
      BY <3>5, <3>6 DEF Chain
    <3>8. QED
      BY <3>7
  <2>6. QED
    BY <2>4, <2>5
<1>2. QED
  BY <1>1 DEF Chained

\* A node that is appended is the last of every list that ended before it.
LEMMA ChainGrow ==
    ASSUME NEW nx \in [Node -> Node \union {Null}], NEW l \in Node, NEW m \in Node,
           l # m, nx[l] = Null, nx[m] = Null, NEW grown, grown = [nx EXCEPT ![l] = m],
           NEW n \in Node, NEW s, Chain(nx, n, s)
    PROVE  Chain(grown, n, IF At(n, s, Len(s)) = l THEN Append(s, m) ELSE s)
<1>1. /\ s \in Seq(Node) /\ Len(s) \in Nat
      /\ \A k \in 0 .. Len(s) : nx[At(n, s, k)] = (IF k = Len(s) THEN Null ELSE s[k + 1])
  BY DEF Chain
<1>2. \A k \in 0 .. Len(s) : At(n, s, k) \in Node
  BY <1>1 DEF At
<1>3. ASSUME NEW k \in 0 .. Len(s), k # Len(s)
      PROVE  grown[At(n, s, k)] = s[k + 1]
  <2>1. k + 1 \in 1 .. Len(s)
    BY <1>1, <1>3
  <2>2. s[k + 1] \in Node /\ nx[At(n, s, k)] = s[k + 1]
    BY <1>1, <1>3, <2>1
  <2>3. At(n, s, k) # l
    BY <2>2, QueueAssumption
  <2>4. QED
    BY <1>2, <2>2, <2>3
<1>4. nx[At(n, s, Len(s))] = Null
  BY <1>1
<1>5. CASE At(n, s, Len(s)) # l
  <2>1. \A k \in 0 .. Len(s) : grown[At(n, s, k)] = (IF k = Len(s) THEN Null ELSE s[k + 1])
    BY <1>1, <1>2, <1>3, <1>4, <1>5
  <2>2. QED
    BY <1>1, <1>5, <2>1 DEF Chain
<1>6. CASE At(n, s, Len(s)) = l
  <2>1. PICK t : t = Append(s, m)
    OBVIOUS
  <2>2. t \in Seq(Node) /\ Len(t) = Len(s) + 1 /\ t[Len(s) + 1] = m
    BY <1>1, <2>1
  <2>3. \A k \in 1 .. Len(s) : t[k] = s[k]
    BY <1>1, <2>1
  <2>4. \A k \in 0 .. Len(s) : At(n, t, k) = At(n, s, k)
    BY <1>1, <2>3 DEF At
  <2>5. ASSUME NEW k \in 0 .. Len(t)
        PROVE  grown[At(n, t, k)] = (IF k = Len(t) THEN Null ELSE t[k + 1])
    <3>1. CASE k = Len(t)
      <4>1. At(n, t, k) = m
        BY <1>1, <2>2, <3>1 DEF At
      <4>2. QED
        BY <3>1, <4>1
    <3>2. CASE k = Len(s)
      <4>1. At(n, t, k) = l
        BY <1>1, <1>6, <2>4, <3>2
      <4>2. QED
        BY <1>1, <2>2, <3>2, <4>1
    <3>3. CASE k < Len(s)
      <4>1. k \in 0 .. Len(s) /\ k # Len(s) /\ k + 1 \in 1 .. Len(s) /\ k # Len(t)
        BY <1>1, <2>2, <3>3
      <4>2. QED
        BY <1>3, <2>3, <2>4, <4>1
    <3>4. QED
      BY <1>1, <2>2, <3>1, <3>2, <3>3
  <2>6. QED
    BY <1>6, <2>1, <2>2, <2>5 DEF Chain
<1>7. QED
  BY <1>5, <1>6

-----------------------------------------------------------------------------
(* What the queue holds.                                                    *)

\* The numbers of the nodes of the head, of the one before it and of First.
LEMMA FirstNode ==
    ASSUME NEW i, NEW due, QueueInv(i, due)
    PROVE  LET c == Current("head")
               v == llsc["head"].version
           IN
           /\ v \in Nat /\ i[c] = v /\ c \in InList
           /\ pred[c] \in InList /\ i[pred[c]] = v - 1
           /\ First \in InList /\ First \in Node /\ i[First] >= v /\ i[First] \in Int
           /\ Other("head") = pred[c] => First = c
           /\ Other("head") # pred[c] => First = Other("head") /\ i[First] = v + 1
           /\ i[Other("head")] = v + 1 => Other("head") # pred[c]
<1> DEFINE c == Current("head")
           v == llsc["head"].version
<1>1. "head" \in Sides
  BY DEF Sides
<1>2. v \in Nat
  BY <1>1 DEF QueueInv, QueueTypeOK, Ends
<1>3. /\ c \in InList /\ i[c] = v
      /\ Other("head") = pred[c] \/ (Other("head") \in InList /\ i[Other("head")] = v + 1)
  BY <1>1 DEF QueueInv, PointersOK
<1>4. Open(i, "head", c)
  BY <1>2, <1>3 DEF Open
<1>5. ~ Clean(exit[c])
  <2>1. exit[c].transfers_left > 0
    BY <1>1, <1>3, <1>4, CleanUnread
  <2>2. QED
    BY <2>1 DEF Clean
<1>6. pred[c] \in InList /\ i[pred[c]] = v - 1
  BY <1>3, <1>5 DEF QueueInv, PredecessorsOK
<1>7. First = IF Other("head") = pred[c] THEN c ELSE Other("head")
  BY DEF First, Other
<1>8. First \in Node
  BY <1>3, <1>7 DEF InList
<1>9. QED
  BY <1>2, <1>3, <1>6, <1>7, <1>8

\* From a node that the head has not passed, the nodes follow one another by
\* their numbers, up to the greatest.
LEMMA AheadLinked ==
    ASSUME NEW i, NEW due, QueueInv(i, due), NEW n \in InList, llsc["head"].version <= i[n],
           NEW s, Chain(next, n, s)
    PROVE  /\ \A k \in 0 .. Len(s) : At(n, s, k) \in InList /\ i[At(n, s, k)] = i[n] + k
           /\ \A m \in InList : i[m] <= i[n] + Len(s)
<1>1. /\ s \in Seq(Node) /\ Len(s) \in Nat /\ n \in Node /\ Null \notin Node
      /\ \A k \in 0 .. Len(s) : next[At(n, s, k)] = (IF k = Len(s) THEN Null ELSE s[k + 1])
  BY QueueAssumption DEF Chain, InList
<1>2. "head" \in Sides /\ llsc["head"].version \in Nat /\ i[n] \in Int
  BY <1>1 DEF QueueInv, QueueTypeOK, Ends, Sides, IndexedOK
<1> DEFINE Bad == {k \in Nat : k <= Len(s) /\ ~ (At(n, s, k) \in InList /\ i[At(n, s, k)] = i[n] + k)}
<1>3. Bad = {}
  <2>1. SUFFICES ASSUME Bad # {} PROVE FALSE
    OBVIOUS
  <2>2. PICK k \in Bad : \A j \in Bad : k <= j
    <3>1. Bad \in SUBSET Nat
      OBVIOUS
    <3> HIDE DEF Bad
    <3>2. QED
      BY <2>1, <3>1, LeastNumber
  <2>3. k \in Nat /\ k # 0 /\ k <= Len(s) /\ ~ (At(n, s, k) \in InList /\ i[At(n, s, k)] = i[n] + k)
    BY <1>2, <2>2 DEF At
  <2>4. k - 1 \in 0 .. Len(s) /\ k - 1 # Len(s) /\ k - 1 \in Nat /\ ~ (k <= k - 1)
    BY <1>1, <2>3
  <2>5. PICK p : p = At(n, s, k - 1)
    OBVIOUS
  <2>6. p \in InList /\ i[p] = i[n] + (k - 1)
    BY <1>1, <2>2, <2>4, <2>5
  <2>7. s[k] \in Node
    BY <1>1, <2>3
  <2>8. next[p] = s[k]
    <3>1. next[At(n, s, k - 1)] = s[k - 1 + 1]
      BY <1>1, <2>4
    <3>2. QED
      BY <2>3, <2>5, <3>1
  <2>9. next[p] # Null /\ llsc["head"].version <= i[p] + 1
    BY <1>1, <1>2, <2>3, <2>6, <2>7, <2>8
  <2>10. next[p] \in InList /\ i[next[p]] = i[p] + 1
    BY <1>2, <2>6, <2>9 DEF QueueInv, IndexedOK
  <2>11. QED
    BY <1>2, <2>3, <2>6, <2>8, <2>10 DEF At
<1>4. \A k \in 0 .. Len(s) : At(n, s, k) \in InList /\ i[At(n, s, k)] = i[n] + k
  BY <1>1, <1>3
<1>5. PICK e : e = At(n, s, Len(s))
  OBVIOUS
<1>6. e \in InList /\ i[e] = i[n] + Len(s) /\ next[e] = Null
  BY <1>1, <1>4, <1>5
<1>7. i[e] >= 0
  BY <1>1, <1>2, <1>6
<1>8. \A m \in InList : i[m] <= i[e]
  BY <1>6, <1>7 DEF QueueInv, IndexedOK
<1>9. QED
  BY <1>4, <1>6, <1>8

\* The queue holds the values of the nodes behind First.
LEMMA ContentsAre ==
    ASSUME NEW i, NEW due, QueueInv(i, due), Chained(next)
    PROVE  \E s : /\ Chain(next, First, s)
                  /\ Contents = [k \in 1 .. Len(s) |-> value[s[k]]]
                  /\ Contents \in Seq({value[m] : m \in Node}) /\ Len(Contents) = Len(s)
<1>1. First \in Node /\ next \in [Node -> Node \union {Null}]
  BY FirstNode DEF QueueInv, QueueTypeOK
<1>2. PICK s : Chain(next, First, s)
  BY <1>1 DEF Chained
<1>3. Behind[First] = s
  BY <1>1, <1>2, BehindIs DEF Behind
<1>4. s \in Seq(Node) /\ Len(s) \in Nat /\ DOMAIN s = 1 .. Len(s)
  BY <1>2 DEF Chain
<1>5. Contents = [k \in 1 .. Len(s) |-> value[s[k]]]
  BY <1>3, <1>4 DEF Contents
<1>6. \A k \in 1 .. Len(s) : value[s[k]] \in {value[m] : m \in Node}
  BY <1>4
<1>7. PICK V : V = {value[m] : m \in Node}
  OBVIOUS
<1>8. [k \in 1 .. Len(s) |-> value[s[k]]] \in Seq(V)
  BY <1>4, <1>6, <1>7
<1>9. Len([k \in 1 .. Len(s) |-> value[s[k]]]) = Len(s)
  BY <1>4
<1>10. QED
  BY <1>2, <1>5, <1>7, <1>8, <1>9

\* A node that no side has yet to pass is not one of those behind First: the
\* others decide the contents.
LEMMA ContentsStay ==
    ASSUME NEW i, NEW due, QueueInv(i, due), Chained(next),
           next' \in [Node -> Node \union {Null}], Chained(next'), First' = First,
           \A m \in InList : llsc["head"].version <= i[m] =>
               next'[m] = next[m] /\ value'[m] = value[m]
    PROVE  Contents' = Contents
<1>1. First \in InList /\ First \in Node /\ i[First] >= llsc["head"].version
      /\ i[First] \in Int /\ llsc["head"].version \in Nat
  BY FirstNode
<1>2. PICK s : Chain(next, First, s) /\ Contents = [k \in 1 .. Len(s) |-> value[s[k]]]
  BY ContentsAre
<1>3. s \in Seq(Node) /\ Len(s) \in Nat /\ DOMAIN s = 1 .. Len(s)
  BY <1>2 DEF Chain
<1>4. \A k \in 0 .. Len(s) : At(First, s, k) \in InList /\ i[At(First, s, k)] = i[First] + k
  BY <1>1, <1>2, AheadLinked
<1>5. \A k \in 0 .. Len(s) : /\ next'[At(First, s, k)] = next[At(First, s, k)]
                             /\ value'[At(First, s, k)] = value[At(First, s, k)]
  BY <1>1, <1>4
<1>6. Chain(next', First, s)
  BY <1>2, <1>5 DEF Chain
<1>7. Behind'[First'] = s
  BY <1>1, <1>6, BehindIs DEF Behind
<1>8. Contents' = [k \in 1 .. Len(s) |-> value'[s[k]]]
  BY <1>3, <1>7 DEF Contents
<1>9. \A k \in 1 .. Len(s) : value'[s[k]] = value[s[k]]
  BY <1>3, <1>5 DEF At
<1>10. QED
  BY <1>2, <1>8, <1>9

-----------------------------------------------------------------------------
(* The queue as BoundedFifo sees it.                                        *)

Admitted == {t \in Producer : pc[t] # "idle" /\ ~ won[t]}

Uncounted == {t \in Producer : won[t]}

Taken ==
    [t \in Thread |->
        CASE t \in Producer -> << >>
          [] t \in Consumer /\ won[t] -> Append(out[t], value[target[t]])
          [] OTHER -> out[t]]

Abstract == <<Contents, Admitted, Uncounted, Taken>>

\* The consumers whose pop has a value, and has not discounted it.
Popped == {t \in Consumer : won[t] \/ pc[t] = "discount"}

DataOK ==
    /\ DOMAIN value = Node
    /\ DOMAIN out = Consumer
    /\ linked \in [Producer -> Nat]
    /\ work \in Work

\* A producer that is let in has a value left to push, and puts it in its node.
ValuesOK ==
    \A t \in Producer : ~ won[t] =>
        /\ pc[t] # "idle" => linked[t] < work.pushes[t]
        /\ mine[t] # Null => value[mine[t]] = <<t, linked[t] + 1>>

\* The size is late by the pushes that have not counted, and the pops.
SizeOK == size = Len(Contents) - Cardinality(Uncounted) + Cardinality(Popped)

FifoInv(i, due) ==
    /\ QueueInv(i, due)
    /\ Chained(next)
    /\ DataOK
    /\ ValuesOK
    /\ SizeOK

\* What a step has to do besides keeping QueueInv.
Refines ==
    /\ Chained(next')
    /\ DataOK'
    /\ ValuesOK'
    /\ SizeOK'
    /\ Fifo!Next \/ UNCHANGED Abstract

\* What a step that no caller notices leaves alone.
Unnoticed ==
    /\ \A u \in Producer : (pc'[u] = "idle" <=> pc[u] = "idle") /\ (won'[u] <=> won[u])
    /\ \A u \in Consumer :
          /\ won'[u] <=> won[u]
          /\ pc'[u] = "discount" <=> pc[u] = "discount"
          /\ out'[u] = out[u]
          /\ won[u] => value'[target'[u]] = value[target[u]]
    /\ size' = size

\* Such a step is a stutter if it leaves the contents alone.
LEMMA UnnoticedStep ==
    ASSUME NEW i, NEW due, FifoInv(i, due), Unnoticed,
           next' \in [Node -> Node \union {Null}], Chained(next'), First' = First,
           \A m \in InList : llsc["head"].version <= i[m] =>
               next'[m] = next[m] /\ value'[m] = value[m],
           DOMAIN value' = Node, DOMAIN out' = Consumer, linked' = linked, work' = work,
           \A u \in Producer : ~ won[u] /\ mine'[u] # Null =>
               value'[mine'[u]] = <<u, linked[u] + 1>>
    PROVE  Refines
<1>1. Contents' = Contents
  BY ContentsStay DEF FifoInv
<1>2. Admitted' = Admitted /\ Uncounted' = Uncounted /\ Popped' = Popped
  BY DEF Admitted, Uncounted, Popped, Unnoticed
<1>3. Taken' = Taken
  <2>1. \A u \in Thread : u \notin Producer => u \in Consumer
    BY ThreadSides
  <2>2. ASSUME NEW u \in Thread
        PROVE  (CASE u \in Producer -> << >>
                  [] u \in Consumer /\ won'[u] -> Append(out'[u], value'[target'[u]])
                  [] OTHER -> out'[u])
               = (CASE u \in Producer -> << >>
                    [] u \in Consumer /\ won[u] -> Append(out[u], value[target[u]])
                    [] OTHER -> out[u])
    <3>1. CASE u \in Producer
      <4>1. u \notin Consumer
        BY <3>1, ThreadSides
      <4>2. QED
        BY <3>1, <4>1
    <3>2. CASE u \notin Producer
      <4>1. /\ u \in Consumer /\ out'[u] = out[u] /\ (won'[u] <=> won[u])
            /\ won[u] => value'[target'[u]] = value[target[u]]
        BY <2>1, <3>2 DEF Unnoticed
      <4>2. CASE won[u]
        BY <3>2, <4>1, <4>2
      <4>3. CASE ~ won[u]
        BY <3>2, <4>1, <4>3
      <4>4. QED
        BY <4>2, <4>3
    <3>3. QED
      BY <3>1, <3>2
  <2>3. QED
    BY <2>2 DEF Taken
<1>4. DataOK' /\ ValuesOK' /\ SizeOK'
  BY <1>1, <1>2 DEF FifoInv, DataOK, ValuesOK, SizeOK, Unnoticed
<1>5. QED
  BY <1>1, <1>2, <1>3, <1>4 DEF Refines, Abstract

\* What is in First depends on the head and on its node's predecessor.
LEMMA FirstStays ==
    ASSUME llsc'["head"] = llsc["head"], pred'[Current("head")] = pred[Current("head")]
    PROVE  First' = First /\ Current("head")' = Current("head")
BY DEF First, Current

\* Advanced, Peek and Transfer change nothing that matters.
LEMMA PlaceUnnoticed ==
    ASSUME NEW i, NEW due, FifoInv(i, due), NEW t \in Thread,
           (t \in Consumer /\ Peek(t)) \/ Advanced(t) \/ Transfer(t), work' = work
    PROVE  Refines
<1>1. /\ llsc' = llsc /\ next' = next /\ pred' = pred /\ value' = value /\ mine' = mine
      /\ won' = won /\ out' = out /\ linked' = linked /\ size' = size
  BY DEF Peek, Advanced, Transfer, memory, threads
<1>2. \A u \in Thread : /\ pc'[u] = "idle" <=> pc[u] = "idle"
                        /\ pc'[u] = "discount" <=> pc[u] = "discount"
  BY DEF Peek, Advanced, Transfer, Goto, FifoInv, QueueInv, QueueTypeOK
<1>3. \A u \in Consumer : won[u] => target'[u] = target[u]
  <2>1. CASE t \in Consumer /\ Peek(t)
    <3>1. ~ won[t]
      BY <2>1 DEF Peek, FifoInv, QueueInv, PlacesOK
    <3>2. \A u \in Thread : u # t => target'[u] = target[u]
      BY <2>1 DEF Peek, FifoInv, QueueInv, QueueTypeOK
    <3>3. QED
      BY <3>1, <3>2, ThreadSides
  <2>2. CASE Advanced(t) \/ Transfer(t)
    BY <2>2 DEF Advanced, Transfer, threads
  <2>3. QED
    BY <2>1, <2>2
<1>4. Unnoticed
  BY <1>1, <1>2, <1>3, ThreadSides DEF Unnoticed
<1>5. First' = First
  BY <1>1 DEF First, Current
<1>6. /\ next' \in [Node -> Node \union {Null}] /\ Chained(next')
      /\ DOMAIN value' = Node /\ DOMAIN out' = Consumer
  BY <1>1 DEF FifoInv, QueueInv, QueueTypeOK, DataOK
<1>7. \A u \in Producer : ~ won[u] /\ mine'[u] # Null => value'[mine'[u]] = <<u, linked[u] + 1>>
  BY <1>1 DEF FifoInv, ValuesOK
<1>8. QED
  BY <1>1, <1>4, <1>5, <1>6, <1>7, UnnoticedStep

\* Neither does ll_op, nor the new node that nobody has yet.
LEMMA ReadUnnoticed ==
    ASSUME NEW i, NEW due, FifoInv(i, due), NEW t \in Thread, ReadMove(t), work' = work
    PROVE  Refines
<1>1. /\ QueueInv(i, due) /\ DataOK /\ ValuesOK /\ Chained(next)
      /\ next \in [Node -> Node \union {Null}]
  BY DEF FifoInv, QueueInv, QueueTypeOK
<1>2. /\ LL(t) /\ pc[t] \notin Reading /\ pc'[t] \in {"link", "peek"}
      /\ OthersSame(t) /\ next' = next /\ pred' = pred /\ won' = won /\ ~ won[t]
  BY <1>1, ReadMoveFrame
<1>3. "head" \in Sides /\ \A x \in Sides : Current(x)' = Current(x) /\ Other(x)' = Other(x)
  BY <1>1, <1>2, ReadFrame DEF Sides
<1>4. First' = First
  BY <1>2, <1>3 DEF First, Other
<1>5. size' = size /\ out' = out /\ linked' = linked
  BY DEF ReadMove, Allocate, TailAgain, StartPop, memory
<1>6. pc[t] # "discount" /\ pc'[t] # "discount"
      /\ (t \in Producer => pc[t] # "idle" /\ pc'[t] # "idle")
  BY <1>2, ThreadSides DEF ReadMove, Allocate, TailAgain, StartPop
<1>7. CASE value' = value /\ mine' = mine
  <2>1. Unnoticed
    BY <1>2, <1>5, <1>6, <1>7, ThreadSides DEF Unnoticed, OthersSame
  <2>2. QED
    BY <1>1, <1>2, <1>4, <1>5, <1>7, <2>1, UnnoticedStep DEF DataOK, ValuesOK
<1>8. CASE t \in Producer /\ Allocate(t)
  <2>1. PICK n \in free : /\ mine' = [mine EXCEPT ![t] = n]
                          /\ value' = [value EXCEPT ![n] = <<t, linked[t] + 1>>]
    BY <1>8 DEF Allocate
  <2>2. n \in Node /\ n \notin InList /\ (\A u \in Producer : ~ won[u] /\ mine[u] # Null => mine[u] # n)
    BY <1>1 DEF InList, QueueInv, QueueTypeOK, PrivateOK
  <2>3. /\ DOMAIN value' = Node /\ value'[n] = <<t, linked[t] + 1>>
        /\ \A m \in Node : m # n => value'[m] = value[m]
    BY <1>1, <2>1, <2>2 DEF DataOK
  <2>4. mine'[t] = n /\ \A u \in Producer : u # t => mine'[u] = mine[u]
    BY <1>1, <1>8, <2>1, ThreadSides DEF QueueInv, QueueTypeOK
  <2>5. \A m \in InList : value'[m] = value[m]
    BY <2>2, <2>3 DEF InList
  <2>6. \A u \in Consumer : won[u] => target'[u] = target[u] /\ target[u] \in InList
    BY <1>1, <1>2, ThreadSides DEF OthersSame, QueueInv, ClaimsOK
  <2>7. Unnoticed
    BY <1>2, <1>5, <1>6, <2>5, <2>6, ThreadSides DEF Unnoticed, OthersSame
  <2>8. \A u \in Producer : ~ won[u] /\ mine'[u] # Null => value'[mine'[u]] = <<u, linked[u] + 1>>
    <3>1. \A u \in Producer : mine[u] \in Node \union {Null}
      BY <1>1, ThreadSides DEF QueueInv, QueueTypeOK
    <3>2. QED
      BY <1>1, <2>2, <2>3, <2>4, <3>1 DEF ValuesOK
  <2>9. QED
    BY <1>1, <1>2, <1>4, <1>5, <2>3, <2>5, <2>7, <2>8, UnnoticedStep DEF DataOK
<1>9. QED
  BY <1>7, <1>8 DEF ReadMove, TailAgain, StartPop, memory

\* A node that is freed is one that the head has passed.
LEMMA StoreUnnoticed ==
    ASSUME NEW i, NEW due, FifoInv(i, due), NEW n \in InList, NEW e, Store(n, e),
           llsc' = llsc, Freeable(e) => i[n] + 1 < llsc["head"].version
    PROVE  /\ next' \in [Node -> Node \union {Null}] /\ Chained(next')
           /\ First' = First /\ DOMAIN value' = Node
           /\ \A m \in InList : llsc["head"].version <= i[m] =>
                  next'[m] = next[m] /\ value'[m] = value[m]
           /\ \A m \in Node : m # n \/ ~ Freeable(e) => value'[m] = value[m]
<1>1. /\ n \in Node /\ next \in [Node -> Node \union {Null}] /\ pred \in [Node -> Node \union {Null}]
      /\ DOMAIN value = Node /\ Chained(next) /\ i[n] \in Int
  BY DEF FifoInv, QueueInv, QueueTypeOK, DataOK, InList, IndexedOK
<1>2. CASE ~ Freeable(e)
  <2>1. next' = next /\ pred' = pred /\ value' = value
    BY <1>2 DEF Store
  <2>2. QED
    BY <1>1, <1>2, <2>1, FirstStays
<1>3. CASE Freeable(e)
  <2>1. /\ next' = [next EXCEPT ![n] = Null] /\ pred' = [pred EXCEPT ![n] = Null]
        /\ value' = [value EXCEPT ![n] = Null]
    BY <1>3 DEF Store
  <2>2. Chained(next') /\ next' \in [Node -> Node \union {Null}]
    BY <1>1, <2>1, ChainCut
  <2>3. \A m \in Node : m # n => next'[m] = next[m] /\ pred'[m] = pred[m] /\ value'[m] = value[m]
    BY <1>1, <2>1
  <2>4. /\ llsc["head"].version \in Nat /\ i[Current("head")] = llsc["head"].version
        /\ Current("head") \in InList
    BY FirstNode DEF FifoInv
  <2>5. \A m \in InList : m \in Node /\ (llsc["head"].version <= i[m] => m # n)
    BY <1>1, <1>3, <2>4 DEF InList
  <2>6. pred'[Current("head")] = pred[Current("head")]
    BY <2>3, <2>4, <2>5
  <2>7. First' = First
    BY <2>6, FirstStays
  <2>8. DOMAIN value' = Node
    BY <1>1, <2>1
  <2>9. QED
    BY <1>3, <2>2, <2>3, <2>5, <2>7, <2>8
<1>4. QED
  BY <1>2, <1>3

\* Release and SetNlPred may free a node whose value was taken.
LEMMA ReleaseUnnoticed ==
    ASSUME NEW i, NEW due, FifoInv(i, due), NEW t \in Thread, Release(t) \/ SetNlPred(t),
           work' = work
    PROVE  Refines
<1>1. QueueInv(i, due) /\ DataOK /\ ValuesOK
  BY DEF FifoInv
<1>2. \E n \in InList : \E e : /\ Store(n, e)
                               /\ Freeable(e) => i[n] + 1 < llsc["head"].version
                               /\ Freeable(e) => exit[n].to_be_freed
  <2>0. "head" \in Sides
    BY DEF Sides
  <2>1. CASE Release(t)
    <3>1. PICK n \in InList : n = local[t].node /\ Store(n, Released(t))
                              /\ Released(t).nl_p = exit[n].nl_p
                              /\ Released(t).to_be_freed = exit[n].to_be_freed
      BY <1>1, <2>1, ReleaseFrame
    <3>2. Freeable(Released(t)) => exit[n].nl_p /\ exit[n].to_be_freed
      BY <3>1 DEF Freeable
    <3>3. exit[n].nl_p => i[n] + 1 < llsc["head"].version
      BY <1>1, <2>0 DEF QueueInv, PredecessorsOK
    <3>4. QED
      BY <3>1, <3>2, <3>3
  <2>2. CASE SetNlPred(t)
    <3>1. PICK n \in InList : n = before[t]
      BY <1>1, <2>2 DEF SetNlPred, QueueInv, PlacesOK, PredecessorsOK
    <3>2. exit[n] \in Exits
      BY <1>1 DEF InList, QueueInv, QueueTypeOK
    <3>3. NlPred(t) = [exit[n] EXCEPT !.nl_p = TRUE]
      BY <3>1 DEF NlPred
    <3>4. NlPred(t).to_be_freed = exit[n].to_be_freed
      BY <3>2, <3>3 DEF Exits
    <3>5. i[n] + 1 < llsc["head"].version
      BY <1>1, <2>0, <3>1 DEF QueueInv, PredecessorsOK
    <3>6. Store(n, NlPred(t)) /\ (Freeable(NlPred(t)) => exit[n].to_be_freed)
      BY <2>2, <3>1, <3>4 DEF SetNlPred, Freeable
    <3>7. QED
      BY <3>5, <3>6
  <2>3. QED
    BY <2>1, <2>2
<1>3. PICK n \in InList : \E e : /\ Store(n, e)
                                 /\ Freeable(e) => i[n] + 1 < llsc["head"].version
                                 /\ Freeable(e) => exit[n].to_be_freed
  BY <1>2
<1>4. PICK e : /\ Store(n, e)
               /\ Freeable(e) => i[n] + 1 < llsc["head"].version
               /\ Freeable(e) => exit[n].to_be_freed
  BY <1>3
<1>5. /\ llsc' = llsc /\ size' = size /\ mine' = mine /\ target' = target /\ won' = won
      /\ linked' = linked /\ out' = out
  BY DEF Release, SetNlPred
<1>6. /\ next' \in [Node -> Node \union {Null}] /\ Chained(next')
      /\ First' = First /\ DOMAIN value' = Node
      /\ \A m \in InList : llsc["head"].version <= i[m] =>
             next'[m] = next[m] /\ value'[m] = value[m]
      /\ \A m \in Node : m # n \/ ~ Freeable(e) => value'[m] = value[m]
  BY <1>4, <1>5, StoreUnnoticed
<1>7. \A u \in Thread : u # t => pc'[u] = pc[u]
  BY <1>1 DEF Release, SetNlPred, Goto, QueueInv, QueueTypeOK
<1>8. pc[t] \in {"release", "set_nl"} /\ pc'[t] \in {AfterRelease(t), "set_nl"}
  BY <1>1 DEF Release, SetNlPred, Goto, QueueInv, QueueTypeOK
<1>9. /\ t \in Producer => pc'[t] \in {"count", "again", "set_nl"}
      /\ t \in Consumer => pc'[t] \in {"take", "again", "idle", "set_nl"}
  BY <1>8, AfterReleasePlaces
<1>10. \A u \in Consumer : won[u] => value'[target[u]] = value[target[u]]
  <2>1. ASSUME NEW u \in Consumer, won[u]
        PROVE  value'[target[u]] = value[target[u]]
    <3>1. target[u] \in Node /\ ~ exit[target[u]].to_be_freed
      BY <1>1, <2>1 DEF QueueInv, ClaimsOK, InList
    <3>2. target[u] # n \/ ~ Freeable(e)
      BY <1>4, <3>1
    <3>3. QED
      BY <1>6, <3>1, <3>2
  <2>2. QED
    BY <2>1
<1>11. Unnoticed
  BY <1>5, <1>7, <1>8, <1>9, <1>10, ThreadSides DEF Unnoticed
<1>12. \A u \in Producer : ~ won[u] /\ mine'[u] # Null => value'[mine'[u]] = <<u, linked[u] + 1>>
  <2>1. ASSUME NEW u \in Producer, ~ won[u], mine[u] # Null
        PROVE  value'[mine[u]] = <<u, linked[u] + 1>>
    <3>1. mine[u] \in Node /\ mine[u] \in Private
      BY <1>1, <2>1, ThreadSides DEF QueueInv, QueueTypeOK, Private
    <3>2. mine[u] # n
      BY <3>1 DEF InList
    <3>3. QED
      BY <1>1, <1>6, <2>1, <3>1, <3>2 DEF ValuesOK
  <2>2. QED
    BY <1>5, <2>1
<1>13. DOMAIN out' = Consumer
  BY <1>1, <1>5 DEF DataOK
<1>14. QED
  BY <1>5, <1>6, <1>11, <1>12, <1>13, UnnoticedStep

\* The pop has had its value since its sc_op: that it assigns it only now is not noticed.
LEMMA TakeUnnoticed ==
    ASSUME NEW i, NEW due, FifoInv(i, due), NEW t \in Consumer, Take(t), work' = work
    PROVE  Refines
<1>1. QueueInv(i, due) /\ DataOK /\ ValuesOK /\ SizeOK /\ t \in Thread
  BY ThreadSides DEF FifoInv
<1>2. PICK n \in InList : n = target[t] /\ won[t] /\ exit[n] \in Exits
  BY <1>1 DEF Take, QueueInv, PlacesOK, ClaimsOK, InList, QueueTypeOK
<1>3. PICK e : e = [exit[n] EXCEPT !.to_be_freed = TRUE]
  OBVIOUS
<1>4. Store(n, e) /\ e.nl_p = exit[n].nl_p
  BY <1>2, <1>3 DEF Take, Exits
<1>5. Freeable(e) => i[n] + 1 < llsc["head"].version
  <2>1. "head" \in Sides
    BY DEF Sides
  <2>2. exit[n].nl_p => i[n] + 1 < llsc["head"].version
    BY <1>1, <2>1 DEF QueueInv, PredecessorsOK
  <2>3. QED
    BY <1>4, <2>2 DEF Freeable
<1>6. /\ llsc' = llsc /\ size' = size /\ mine' = mine /\ linked' = linked
      /\ target' = [target EXCEPT ![t] = Null] /\ won' = [won EXCEPT ![t] = FALSE]
      /\ pc' = [pc EXCEPT ![t] = "discount"] /\ out' = [out EXCEPT ![t] = Append(@, value[n])]
      /\ pc[t] = "take"
  BY <1>2 DEF Take, Goto
<1>7. /\ next' \in [Node -> Node \union {Null}] /\ Chained(next')
      /\ First' = First /\ DOMAIN value' = Node
      /\ \A m \in InList : llsc["head"].version <= i[m] =>
             next'[m] = next[m] /\ value'[m] = value[m]
      /\ \A m \in Node : m # n \/ ~ Freeable(e) => value'[m] = value[m]
  BY <1>4, <1>5, <1>6, StoreUnnoticed
<1>8. Contents' = Contents
  BY <1>1, <1>7, ContentsStay DEF FifoInv
<1>9. /\ pc'[t] = "discount" /\ ~ won'[t] /\ out'[t] = Append(out[t], value[target[t]])
      /\ \A u \in Thread : u # t => pc'[u] = pc[u] /\ (won'[u] <=> won[u]) /\ target'[u] = target[u]
      /\ \A u \in Consumer : u # t => out'[u] = out[u]
      /\ DOMAIN out' = Consumer
  BY <1>1, <1>2, <1>6 DEF QueueInv, QueueTypeOK, DataOK
<1>10. Admitted' = Admitted /\ Uncounted' = Uncounted
  BY <1>9, ThreadSides DEF Admitted, Uncounted
<1>11. Popped' = Popped
  <2>1. t \in Popped /\ t \in Popped'
    BY <1>2, <1>9 DEF Popped
  <2>2. \A u \in Consumer : u # t => (u \in Popped' <=> u \in Popped)
    BY <1>9, ThreadSides DEF Popped
  <2>3. QED
    BY <2>1, <2>2 DEF Popped
<1>12. Taken' = Taken
  <2>1. ASSUME NEW u \in Thread
        PROVE  (CASE u \in Producer -> << >>
                  [] u \in Consumer /\ won'[u] -> Append(out'[u], value'[target'[u]])
                  [] OTHER -> out'[u])
               = (CASE u \in Producer -> << >>
                    [] u \in Consumer /\ won[u] -> Append(out[u], value[target[u]])
                    [] OTHER -> out[u])
    <3>1. CASE u \in Producer
      <4>1. u \notin Consumer
        BY <3>1, ThreadSides
      <4>2. QED
        BY <3>1, <4>1
    <3>2. CASE u = t
      <4>1. u \notin Producer /\ u \in Consumer
        BY <3>2, ThreadSides
      <4>2. QED
        BY <1>2, <1>9, <3>2, <4>1
    <3>3. CASE u \in Consumer /\ u # t /\ won[u]
      <4>1. target[u] # n /\ target[u] \in Node
        BY <1>1, <1>2, <3>3 DEF QueueInv, ClaimsOK, InList
      <4>2. u \notin Producer /\ won'[u] /\ value'[target'[u]] = value[target[u]] /\ out'[u] = out[u]
        BY <1>7, <1>9, <3>3, <4>1, ThreadSides
      <4>3. QED
        BY <3>3, <4>2
    <3>4. CASE u \in Consumer /\ u # t /\ ~ won[u]
      <4>1. u \notin Producer /\ ~ won'[u] /\ out'[u] = out[u]
        BY <1>9, <3>4, ThreadSides
      <4>2. QED
        BY <3>4, <4>1
    <3>5. QED
      BY <3>1, <3>2, <3>3, <3>4, ThreadSides
  <2>2. QED
    BY <2>1 DEF Taken
<1>13. ValuesOK'
  <2>1. ASSUME NEW u \in Producer, ~ won[u], mine[u] # Null
        PROVE  value'[mine[u]] = <<u, linked[u] + 1>>
    <3>1. mine[u] \in Node /\ mine[u] \in Private
      BY <1>1, <2>1, ThreadSides DEF QueueInv, QueueTypeOK, Private
    <3>2. mine[u] # n
      BY <3>1 DEF InList
    <3>3. QED
      BY <1>1, <1>7, <2>1, <3>1, <3>2 DEF ValuesOK
  <2>2. \A u \in Producer : u # t /\ pc'[u] = pc[u] /\ (won'[u] <=> won[u])
    BY <1>9, ThreadSides
  <2>3. QED
    BY <1>1, <1>6, <2>1, <2>2 DEF ValuesOK
<1>14. DataOK' /\ SizeOK'
  BY <1>1, <1>6, <1>7, <1>8, <1>9, <1>10, <1>11 DEF DataOK, SizeOK
<1>15. QED
  BY <1>7, <1>8, <1>10, <1>12, <1>13, <1>14 DEF Refines, Abstract

\* A stutter that leaves list and values alone.
LEMMA ListUnnoticed ==
    ASSUME NEW i, NEW due, FifoInv(i, due), Unnoticed, First' = First,
           next' = next, value' = value, mine' = mine, out' = out, linked' = linked, work' = work
    PROVE  Refines
<1>1. /\ next' \in [Node -> Node \union {Null}] /\ Chained(next')
      /\ DOMAIN value' = Node /\ DOMAIN out' = Consumer
  BY DEF FifoInv, QueueInv, QueueTypeOK, DataOK
<1>2. \A u \in Producer : ~ won[u] /\ mine'[u] # Null => value'[mine'[u]] = <<u, linked[u] + 1>>
  BY DEF FifoInv, ValuesOK
<1>3. QED
  BY <1>1, <1>2, UnnoticedStep

\* Moving the version on leaves First where it is: the node before it is now
\* in the other pointer.
LEMMA AdvanceUnnoticed ==
    ASSUME NEW i, NEW due, FifoInv(i, due), NEW t \in Thread, Advance(t), work' = work
    PROVE  Refines
<1>1. /\ next' = next /\ pred' = pred /\ value' = value /\ mine' = mine /\ target' = target
      /\ won' = won /\ out' = out /\ linked' = linked /\ size' = size
  BY DEF Advance, memory
<1>2. \A u \in Thread : /\ pc'[u] = "idle" <=> pc[u] = "idle"
                        /\ pc'[u] = "discount" <=> pc[u] = "discount"
  BY DEF Advance, Goto, FifoInv, QueueInv, QueueTypeOK
<1>3. Unnoticed
  BY <1>1, <1>2, ThreadSides DEF Unnoticed
<1>4. "head" \in Sides /\ QueueInv(i, due)
  BY DEF Sides, FifoInv
<1>5. CASE Side(t) # "head"
  <2>1. llsc'["head"] = llsc["head"]
    BY <1>4, <1>5, AdvancePointers
  <2>2. First' = First
    BY <1>1, <2>1, FirstStays
  <2>3. QED
    BY <1>1, <1>3, <2>2, ListUnnoticed
<1>6. CASE Side(t) = "head"
  <2>1. /\ Current("head")' = Other("head") /\ Other("head")' = Current("head")
        /\ i[Other("head")] = llsc["head"].version + 1 /\ pred[Other("head")] = Current("head")
    BY <1>4, <1>6, AdvancePointers
  <2>2. First = Other("head")
    BY <1>4, <2>1, FirstNode
  <2>3. First' = Other("head")
    BY <1>1, <2>1 DEF First, Other
  <2>4. QED
    BY <1>1, <1>3, <2>2, <2>3, ListUnnoticed
<1>7. QED
  BY <1>5, <1>6

\* sc_op of a push, and that of a pop that somebody else has done, are not noticed.
LEMMA SwingUnnoticed ==
    ASSUME NEW i, NEW due, FifoInv(i, due), NEW t \in Thread, Swing(t),
           t \in Producer \/ ~ Expected(t), work' = work
    PROVE  Refines
<1>1. /\ next' = next /\ pred' = pred /\ value' = value /\ mine' = mine /\ target' = target
      /\ out' = out /\ linked' = linked /\ size' = size /\ pc[t] = "swing"
  BY DEF Swing, memory
<1>2. "head" \in Sides /\ QueueInv(i, due)
  BY DEF Sides, FifoInv
<1>3. \A u \in Thread : /\ pc'[u] = "idle" <=> pc[u] = "idle"
                        /\ pc'[u] = "discount" <=> pc[u] = "discount"
  BY <1>2 DEF Swing, Goto, QueueInv, QueueTypeOK
<1>4. \A u \in Thread : won'[u] <=> won[u]
  <2>1. CASE t \in Producer
    <3>1. t \notin Consumer
      BY <2>1, ThreadSides
    <3>2. QED
      BY <3>1 DEF Swing
  <2>2. CASE t \notin Producer
    <3>1. t \in Consumer /\ ~ Expected(t) /\ ~ won[t]
      BY <1>1, <1>2, <2>2, ThreadSides DEF QueueInv, PlacesOK
    <3>2. won' = [won EXCEPT ![t] = Expected(t)]
      BY <3>1 DEF Swing
    <3>3. \A u \in Thread : won'[u] = IF u = t THEN Expected(t) ELSE won[u]
      BY <1>2, <3>2 DEF QueueInv, QueueTypeOK
    <3>4. QED
      BY <3>1, <3>3
  <2>3. QED
    BY <2>1, <2>2
<1>5. Unnoticed
  BY <1>1, <1>3, <1>4, ThreadSides DEF Unnoticed
<1>6. Side(t) # "head" \/ ~ Expected(t)
  BY ThreadSides
<1>7. Current("head")' = Current("head") /\ Other("head")' = Other("head")
  BY <1>2, <1>6, SwingPointers
<1>8. First' = First
  BY <1>1, <1>7 DEF First, Other
<1>9. QED
  BY <1>1, <1>5, <1>8, ListUnnoticed

\* The sc_op of a pop that puts its node in the other pointer of the head takes
\* the oldest value, whatever becomes of the versions.
LEMMA SwingPops ==
    ASSUME NEW i, NEW due, FifoInv(i, due), NEW t \in Consumer, Swing(t), Expected(t),
           work' = work
    PROVE  Refines
<1> DEFINE n == target[t]
<1>1. /\ next' = next /\ pred' = pred /\ value' = value /\ mine' = mine /\ target' = target
      /\ out' = out /\ linked' = linked /\ size' = size /\ pc[t] = "swing"
  BY DEF Swing, memory
<1>2. /\ "head" \in Sides /\ QueueInv(i, due) /\ DataOK /\ ValuesOK /\ SizeOK /\ Chained(next)
      /\ t \in Thread /\ t \notin Producer /\ Side(t) = "head"
      /\ next \in [Node -> Node \union {Null}]
  BY ThreadSides DEF Sides, FifoInv, QueueInv, QueueTypeOK
<1>3. ~ won[t]
  BY <1>1, <1>2 DEF QueueInv, PlacesOK
<1>4. /\ won'[t] /\ \A u \in Thread : u # t => (won'[u] <=> won[u])
      /\ \A u \in Thread : /\ pc'[u] = "idle" <=> pc[u] = "idle"
                           /\ pc'[u] = "discount" <=> pc[u] = "discount"
      /\ pc[t] # "discount"
  BY <1>1, <1>2 DEF Swing, Goto, QueueInv, QueueTypeOK
<1>5. PICK c : c = Current("head")
  OBVIOUS
<1>6. PICK v : v = llsc["head"].version
  OBVIOUS
<1>7. v = local[t].version /\ Other("head") = pred[c]
  <2>1. pc[t] \in Reading
    BY <1>1 DEF Reading
  <2>2. QED
    BY <1>2, <1>5, <1>6, <2>1, ExpectedCurrent
<1>8. /\ Other("head")' = n /\ n \in InList /\ i[n] = v + 1
      /\ Current("head")' = c
  BY <1>2, <1>5, <1>7, SwingPointers
<1>9. First = c /\ c \in InList /\ c \in Node /\ i[c] = v /\ v \in Nat /\ i[pred[c]] = v - 1
  BY <1>2, <1>5, <1>6, <1>7, FirstNode DEF InList
<1>10. First' = n
  <2>1. pred[c] # n
    BY <1>8, <1>9
  <2>2. QED
    BY <1>1, <1>8, <2>1 DEF First, Other
<1>11. PICK s : /\ Chain(next, c, s) /\ Contents = [k \in 1 .. Len(s) |-> value[s[k]]]
                /\ Contents \in Seq({value[m] : m \in Node}) /\ Len(Contents) = Len(s)
  BY <1>2, <1>9, ContentsAre
<1>12. s \in Seq(Node) /\ Len(s) \in Nat
  BY <1>11 DEF Chain
<1>13. /\ \A k \in 0 .. Len(s) : At(c, s, k) \in InList /\ i[At(c, s, k)] = v + k
       /\ \A m \in InList : i[m] <= v + Len(s)
  BY <1>2, <1>6, <1>9, <1>11, AheadLinked
<1>14. Len(s) > 0
  BY <1>8, <1>9, <1>12, <1>13
<1>15. s[1] = n
  <2>1. At(c, s, 1) = s[1] /\ 1 \in 0 .. Len(s)
    BY <1>12, <1>14 DEF At
  <2>2. s[1] \in InList /\ i[s[1]] = v + 1
    BY <1>13, <2>1
  <2>3. QED
    BY <1>2, <1>8, <2>2 DEF QueueInv, IndexedOK
<1>16. Chain(next, next[c], Tail(s)) /\ next[c] \in Node /\ s = <<next[c]>> \o Tail(s)
  <2>1. s # << >>
    BY <1>14
  <2>2. QED
    BY <1>9, <1>11, <2>1, ChainRest
<1>17. next[c] = n
  <2>1. 0 \in 0 .. Len(s) /\ At(c, s, 0) = c /\ Len(s) # 0 /\ 0 + 1 = 1
    BY <1>12, <1>14 DEF At
  <2>2. next[At(c, s, 0)] = s[0 + 1]
    BY <1>11, <2>1 DEF Chain
  <2>3. QED
    BY <1>15, <2>1, <2>2
<1>18. PICK u : u = Tail(s)
  OBVIOUS
<1>19. /\ u \in Seq(Node) /\ Len(u) = Len(s) - 1 /\ Len(u) \in Nat /\ DOMAIN u = 1 .. Len(u)
       /\ \A k \in 1 .. Len(u) : u[k] = s[k + 1]
  BY <1>12, <1>14, <1>18
<1>20. Behind'[First'] = u
  <2>1. Chain(next', n, u) /\ n \in Node
    BY <1>1, <1>16, <1>17, <1>18
  <2>2. \A m \in Node : \A w : Chain(next', m, w) => Behind'[m] = w
    BY <1>1, <1>2, BehindIs DEF Behind
  <2>3. QED
    BY <1>10, <2>1, <2>2
<1>21. Contents' = [k \in 1 .. Len(u) |-> value[u[k]]]
  BY <1>1, <1>19, <1>20 DEF Contents
<1>22. Contents # << >> /\ Head(Contents) = value[n] /\ Contents' = Tail(Contents)
  <2>1. PICK V : V = {value[m] : m \in Node}
    OBVIOUS
  <2>2. PICK q \in Seq(V) : q = Contents
    BY <1>11, <2>1
  <2>3. Len(q) = Len(s) /\ \A k \in 1 .. Len(s) : q[k] = value[s[k]]
    BY <1>11, <1>12, <2>2
  <2>4. q # << >> /\ Head(q) = value[n]
    BY <1>12, <1>14, <1>15, <2>2, <2>3
  <2>5. PICK r : r = Tail(q)
    OBVIOUS
  <2>6. r \in Seq(V) /\ Len(r) = Len(u) /\ \A k \in 1 .. Len(u) : r[k] = q[k + 1]
    BY <1>12, <1>14, <1>19, <2>2, <2>3, <2>4, <2>5
  <2>7. \A k \in 1 .. Len(u) : r[k] = value[u[k]]
    <3>1. \A k \in 1 .. Len(u) : k + 1 \in 1 .. Len(s)
      BY <1>12, <1>19
    <3>2. QED
      BY <1>19, <2>3, <2>6, <3>1
  <2>8. r = [k \in 1 .. Len(u) |-> value[u[k]]]
    BY <1>19, <2>6, <2>7
  <2>9. QED
    BY <1>21, <2>2, <2>4, <2>5, <2>8
<1>23. Admitted' = Admitted /\ Uncounted' = Uncounted
  BY <1>2, <1>4, ThreadSides DEF Admitted, Uncounted
<1>24. Taken' = [Taken EXCEPT ![t] = Append(@, Head(Contents))]
  <2>1. Taken[t] = out[t] /\ t \in DOMAIN Taken
    BY <1>2, <1>3 DEF Taken
  <2>2. Taken'[t] = Append(out[t], value[n])
    BY <1>1, <1>2, <1>4 DEF Taken
  <2>3. ASSUME NEW w \in Thread, w # t
        PROVE  Taken'[w] = Taken[w]
    <3>1. CASE w \in Producer
      <4>1. w \notin Consumer
        BY <3>1, ThreadSides
      <4>2. QED
        BY <3>1, <4>1 DEF Taken
    <3>2. CASE w \in Consumer /\ won[w]
      BY <1>1, <1>4, <2>3, <3>2, ThreadSides DEF Taken
    <3>3. CASE w \in Consumer /\ ~ won[w]
      BY <1>1, <1>4, <2>3, <3>3, ThreadSides DEF Taken
    <3>4. QED
      BY <3>1, <3>2, <3>3, ThreadSides
  <2>4. Taken' = [w \in Thread |-> Taken'[w]] /\ Taken = [w \in Thread |-> Taken[w]]
    BY DEF Taken
  <2>5. PICK a : a = Append(out[t], value[n])
    OBVIOUS
  <2>6. [Taken EXCEPT ![t] = a] = [w \in Thread |-> IF w = t THEN a ELSE Taken[w]]
    BY <2>4
  <2>7. \A w \in Thread : Taken'[w] = IF w = t THEN a ELSE Taken[w]
    BY <2>2, <2>3, <2>5
  <2>8. Taken' = [Taken EXCEPT ![t] = a]
    BY <2>4, <2>6, <2>7
  <2>9. QED
    BY <1>22, <2>1, <2>5, <2>8
<1>25. SizeOK'
  <2>1. Popped' = Popped \union {t} /\ t \notin Popped
    BY <1>2, <1>3, <1>4, ThreadSides DEF Popped
  <2>2. IsFiniteSet(Popped) /\ Cardinality(Popped) \in Nat
    BY FewThreads, ThreadSides DEF Popped
  <2>3. Cardinality(Popped') = Cardinality(Popped) + 1
    BY <2>1, <2>2, FS_AddElement
  <2>4. Cardinality(Uncounted) \in Nat
    BY FewThreads, ThreadSides DEF Uncounted
  <2>5. Len(Contents') = Len(u)
    BY <1>19, <1>21
  <2>6. QED
    BY <1>1, <1>2, <1>11, <1>12, <1>19, <1>23, <2>2, <2>3, <2>4, <2>5 DEF SizeOK
<1>26. Fifo!Pop(t)
  BY <1>22, <1>23, <1>24 DEF Fifo!Pop, Admitted, Uncounted, Taken
<1>27. DataOK' /\ ValuesOK'
  BY <1>1, <1>2, <1>4, ThreadSides DEF DataOK, ValuesOK
<1>28. QED
  BY <1>1, <1>2, <1>25, <1>26, <1>27 DEF Refines, Fifo!Next

\* BoundedFifo counts in the same way.
LEMMA SameCardinality == \A S : Fifo!Cardinality(S) = Cardinality(S)
BY Zenon DEF Fifo!Cardinality, Cardinality

\* The values that some producer may be asked to push.
Values == UNION {{p} \X (1 .. w.pushes[p]) : p \in Producer, w \in Work}

\* The contents are a sequence, and the counts are numbers.
LEMMA SizeParts ==
    ASSUME NEW i, NEW due, FifoInv(i, due)
    PROVE  /\ Len(Contents) \in Nat
           /\ IsFiniteSet(Uncounted) /\ Cardinality(Uncounted) \in Nat
           /\ IsFiniteSet(Popped) /\ Cardinality(Popped) \in Nat
           /\ size = Len(Contents) - Cardinality(Uncounted) + Cardinality(Popped)
<1>1. PICK s : Chain(next, First, s) /\ Len(Contents) = Len(s)
  BY ContentsAre DEF FifoInv
<1>2. Len(Contents) \in Nat
  BY <1>1 DEF Chain
<1>3. Uncounted \in SUBSET Thread /\ Popped \in SUBSET Thread
  BY ThreadSides DEF Uncounted, Popped
<1>4. QED
  BY <1>2, <1>3, FewThreads DEF FifoInv, SizeOK

\* A push that sees room: the size is not less than what is counted.
LEMMA StartPushAdmits ==
    ASSUME NEW i, NEW due, FifoInv(i, due), NEW t \in Producer, StartPush(t), work' = work
    PROVE  Refines
<1>1. /\ llsc' = llsc /\ next' = next /\ pred' = pred /\ value' = value /\ mine' = mine
      /\ target' = target /\ won' = won /\ out' = out /\ linked' = linked /\ size' = size
      /\ pc[t] = "idle" /\ linked[t] < work.pushes[t] /\ size < MaxSize
  BY DEF StartPush, memory, threads, Room
<1>2. /\ QueueInv(i, due) /\ DataOK /\ ValuesOK /\ SizeOK /\ Chained(next)
      /\ t \in Thread /\ t \notin Consumer
  BY ThreadSides DEF FifoInv
<1>3. pc'[t] = "allocate" /\ \A u \in Thread : u # t => pc'[u] = pc[u]
  BY <1>2 DEF StartPush, Goto, QueueInv, QueueTypeOK
<1>4. ~ won[t] /\ mine[t] = Null
  BY <1>1, <1>2 DEF QueueInv, PlacesOK
<1>5. First' = First
  BY <1>1 DEF First, Current
<1>6. Contents' = Contents
  <2>1. next' \in [Node -> Node \union {Null}] /\ Chained(next')
    BY <1>1, <1>2 DEF QueueInv, QueueTypeOK
  <2>2. QED
    BY <1>1, <1>2, <1>5, <2>1, ContentsStay
<1>7. Uncounted' = Uncounted /\ Taken' = Taken
  BY <1>1 DEF Uncounted, Taken
<1>8. Popped' = Popped
  BY <1>1, <1>2, <1>3, ThreadSides DEF Popped
<1>9. Admitted' = Admitted \union {t} /\ t \notin Admitted \union Uncounted
  BY <1>1, <1>3, <1>4, ThreadSides DEF Admitted, Uncounted
<1>10. Len(Contents) - Cardinality(Uncounted) < MaxSize
  BY <1>1, SizeParts, QueueAssumption
<1>11. Len(Contents) - Fifo!Cardinality(Uncounted) < MaxSize
  BY <1>10, SameCardinality
<1>12. Fifo!Admit(t)
  BY <1>6, <1>7, <1>9, <1>11 DEF Fifo!Admit, Admitted, Uncounted, Taken
<1>13. DataOK' /\ SizeOK'
  BY <1>1, <1>2, <1>6, <1>7, <1>8 DEF DataOK, SizeOK
<1>14. ValuesOK'
  BY <1>1, <1>2, <1>3, <1>4, ThreadSides DEF ValuesOK
<1>15. QED
  BY <1>1, <1>2, <1>12, <1>13, <1>14 DEF Refines, Fifo!Next

\* A push that is counted has returned.
LEMMA CountCounts ==
    ASSUME NEW i, NEW due, FifoInv(i, due), NEW t \in Producer, Count(t), work' = work
    PROVE  Refines
<1>1. /\ llsc' = llsc /\ next' = next /\ pred' = pred /\ value' = value
      /\ out' = out /\ linked' = linked /\ size' = size + 1 /\ pc[t] = "count"
      /\ mine' = [mine EXCEPT ![t] = Null] /\ target' = [target EXCEPT ![t] = Null]
      /\ won' = [won EXCEPT ![t] = FALSE] /\ pc' = [pc EXCEPT ![t] = "idle"]
  BY DEF Count, Return, Goto, memory
<1>2. /\ QueueInv(i, due) /\ DataOK /\ ValuesOK /\ SizeOK /\ Chained(next)
      /\ t \in Thread /\ t \notin Consumer
  BY ThreadSides DEF FifoInv
<1>3. /\ pc'[t] = "idle" /\ ~ won'[t] /\ mine'[t] = Null
      /\ \A u \in Thread : u # t => /\ pc'[u] = pc[u] /\ (won'[u] <=> won[u])
                                    /\ target'[u] = target[u] /\ mine'[u] = mine[u]
  BY <1>1, <1>2 DEF QueueInv, QueueTypeOK
<1>4. won[t]
  BY <1>1, <1>2 DEF QueueInv, PlacesOK
<1>5. Contents' = Contents
  <2>1. First' = First
    BY <1>1 DEF First, Current
  <2>2. next' \in [Node -> Node \union {Null}] /\ Chained(next')
    BY <1>1, <1>2 DEF QueueInv, QueueTypeOK
  <2>3. QED
    BY <1>1, <1>2, <2>1, <2>2, ContentsStay
<1>6. Admitted' = Admitted
  BY <1>3, <1>4, ThreadSides DEF Admitted
<1>7. Uncounted' = Uncounted \ {t} /\ t \in Uncounted
  BY <1>3, <1>4, ThreadSides DEF Uncounted
<1>8. Popped' = Popped
  BY <1>2, <1>3, ThreadSides DEF Popped
<1>9. Taken' = Taken
  <2>1. ASSUME NEW w \in Thread
        PROVE  Taken'[w] = Taken[w]
    <3>1. CASE w \in Producer
      <4>1. w \notin Consumer
        BY <3>1, ThreadSides
      <4>2. QED
        BY <3>1, <4>1 DEF Taken
    <3>2. CASE w \in Consumer
      <4>1. w # t /\ w \notin Producer
        BY <1>2, <3>2, ThreadSides
      <4>2. CASE won[w]
        BY <1>1, <1>3, <3>2, <4>1, <4>2 DEF Taken
      <4>3. CASE ~ won[w]
        BY <1>1, <1>3, <3>2, <4>1, <4>3 DEF Taken
      <4>4. QED
        BY <4>2, <4>3
    <3>3. QED
      BY <3>1, <3>2, ThreadSides
  <2>2. Taken' = [w \in Thread |-> Taken'[w]] /\ Taken = [w \in Thread |-> Taken[w]]
    BY DEF Taken
  <2>3. QED
    BY <2>1, <2>2
<1>10. SizeOK'
  <2>1. Cardinality(Uncounted') = Cardinality(Uncounted) - 1
    BY <1>7, SizeParts, FS_RemoveElement
  <2>2. QED
    BY <1>1, <1>5, <1>8, <2>1, SizeParts DEF SizeOK
<1>11. Fifo!Count(t)
  BY <1>5, <1>6, <1>7, <1>9 DEF Fifo!Count, Admitted, Uncounted, Taken
<1>12. DataOK'
  BY <1>1, <1>2 DEF DataOK
<1>13. ValuesOK'
  <2>1. ASSUME NEW u \in Producer, ~ won'[u]
        PROVE  /\ pc'[u] # "idle" => linked[u] < work.pushes[u]
               /\ mine'[u] # Null => value[mine'[u]] = <<u, linked[u] + 1>>
    <3>1. CASE u = t
      BY <1>3, <3>1
    <3>2. CASE u # t
      <4>1. pc'[u] = pc[u] /\ ~ won[u] /\ mine'[u] = mine[u]
        BY <1>3, <2>1, <3>2, ThreadSides
      <4>2. QED
        BY <1>2, <4>1 DEF ValuesOK
    <3>3. QED
      BY <3>1, <3>2
  <2>2. QED
    BY <1>1, <2>1 DEF ValuesOK
<1>14. QED
  BY <1>1, <1>2, <1>10, <1>11, <1>12, <1>13 DEF Refines, Fifo!Next

\* That a pop is discounted changes the size only.
LEMMA DiscountUnnoticed ==
    ASSUME NEW i, NEW due, FifoInv(i, due), NEW t \in Consumer, Discount(t), work' = work
    PROVE  Refines
<1>1. /\ llsc' = llsc /\ next' = next /\ pred' = pred /\ value' = value
      /\ out' = out /\ linked' = linked /\ size' = size - 1 /\ pc[t] = "discount"
      /\ mine' = [mine EXCEPT ![t] = Null] /\ target' = [target EXCEPT ![t] = Null]
      /\ won' = [won EXCEPT ![t] = FALSE] /\ pc' = [pc EXCEPT ![t] = "idle"]
  BY DEF Discount, Return, Goto, memory
<1>2. /\ QueueInv(i, due) /\ DataOK /\ ValuesOK /\ SizeOK /\ Chained(next)
      /\ t \in Thread /\ t \notin Producer
  BY ThreadSides DEF FifoInv
<1>3. /\ pc'[t] = "idle" /\ ~ won'[t]
      /\ \A u \in Thread : u # t => /\ pc'[u] = pc[u] /\ (won'[u] <=> won[u])
                                    /\ target'[u] = target[u] /\ mine'[u] = mine[u]
  BY <1>1, <1>2 DEF QueueInv, QueueTypeOK
<1>4. ~ won[t]
  BY <1>1, <1>2 DEF QueueInv, PlacesOK
<1>5. Contents' = Contents
  <2>1. First' = First
    BY <1>1 DEF First, Current
  <2>2. next' \in [Node -> Node \union {Null}] /\ Chained(next')
    BY <1>1, <1>2 DEF QueueInv, QueueTypeOK
  <2>3. QED
    BY <1>1, <1>2, <2>1, <2>2, ContentsStay
<1>6. Admitted' = Admitted /\ Uncounted' = Uncounted
  BY <1>2, <1>3, ThreadSides DEF Admitted, Uncounted
<1>7. Popped' = Popped \ {t} /\ t \in Popped
  BY <1>1, <1>3, <1>4, ThreadSides DEF Popped
<1>8. Taken' = Taken
  <2>1. ASSUME NEW w \in Thread
        PROVE  Taken'[w] = Taken[w]
    <3>1. CASE w \in Producer
      <4>1. w \notin Consumer
        BY <3>1, ThreadSides
      <4>2. QED
        BY <3>1, <4>1 DEF Taken
    <3>2. CASE w = t
      <4>1. w \in Consumer /\ w \notin Producer
        BY <1>2, <3>2
      <4>2. QED
        BY <1>1, <1>3, <1>4, <3>2, <4>1 DEF Taken
    <3>3. CASE w \in Consumer /\ w # t
      <4>1. w \notin Producer
        BY <3>3, ThreadSides
      <4>2. CASE won[w]
        BY <1>1, <1>3, <3>3, <4>1, <4>2 DEF Taken
      <4>3. CASE ~ won[w]
        BY <1>1, <1>3, <3>3, <4>1, <4>3 DEF Taken
      <4>4. QED
        BY <4>2, <4>3
    <3>4. QED
      BY <3>1, <3>2, <3>3, ThreadSides
  <2>2. Taken' = [w \in Thread |-> Taken'[w]] /\ Taken = [w \in Thread |-> Taken[w]]
    BY DEF Taken
  <2>3. QED
    BY <2>1, <2>2
<1>9. SizeOK'
  <2>1. Cardinality(Popped') = Cardinality(Popped) - 1
    BY <1>7, SizeParts, FS_RemoveElement
  <2>2. QED
    BY <1>1, <1>5, <1>6, <2>1, SizeParts DEF SizeOK
<1>10. DataOK'
  BY <1>1, <1>2 DEF DataOK
<1>11. ValuesOK'
  BY <1>1, <1>2, <1>3, ThreadSides DEF ValuesOK
<1>12. QED
  BY <1>1, <1>2, <1>5, <1>6, <1>8, <1>9, <1>10, <1>11 DEF Refines, Abstract

\* A push that helps the tail on has not linked its node.
LEMMA HelpUnnoticed ==
    ASSUME NEW i, NEW due, FifoInv(i, due), NEW t \in Producer, Link(t),
           next[local[t].node] # Null, work' = work
    PROVE  Refines
<1>1. /\ next' = next /\ value' = value /\ mine' = mine /\ won' = won
      /\ out' = out /\ linked' = linked /\ size' = size /\ llsc' = llsc /\ pc[t] = "link"
      /\ target' = [target EXCEPT ![t] = next[local[t].node]]
  BY DEF Link
<1>2. QueueInv(i, due) /\ t \in Thread /\ t \notin Consumer
  BY ThreadSides DEF FifoInv
<1>3. \A u \in Thread : /\ pc'[u] = "idle" <=> pc[u] = "idle"
                        /\ pc'[u] = "discount" <=> pc[u] = "discount"
  BY <1>1, <1>2 DEF Link, Goto, QueueInv, QueueTypeOK
<1>4. \A u \in Consumer : target'[u] = target[u]
  BY <1>1, <1>2, ThreadSides DEF QueueInv, QueueTypeOK
<1>5. Unnoticed
  BY <1>1, <1>3, <1>4, ThreadSides DEF Unnoticed
<1>6. pred'[Current("head")] = pred[Current("head")]
  BY <1>2, LinkFrame, FirstNode
<1>7. First' = First
  BY <1>1, <1>6, FirstStays
<1>8. QED
  BY <1>1, <1>5, <1>7, ListUnnoticed

\* A push that appends its node appends its value.
LEMMA LinkLinks ==
    ASSUME NEW i, NEW due, FifoInv(i, due), NEW t \in Producer, Link(t),
           next[local[t].node] = Null, work' = work
    PROVE  Refines
<1>1. PICK n : n = mine[t]
  OBVIOUS
<1>2. PICK last : last = local[t].node
  OBVIOUS
<1>3. /\ value' = value /\ mine' = mine /\ out' = out /\ size' = size /\ llsc' = llsc
      /\ pc[t] = "link" /\ linked' = [linked EXCEPT ![t] = @ + 1]
  BY DEF Link
<1>4. /\ QueueInv(i, due) /\ DataOK /\ ValuesOK /\ SizeOK /\ Chained(next)
      /\ next \in [Node -> Node \union {Null}] /\ t \in Thread /\ t \notin Consumer
  BY ThreadSides DEF FifoInv, QueueInv, QueueTypeOK
<1>5. /\ next' = [next EXCEPT ![last] = n] /\ won'[t]
      /\ \A u \in Thread : u # t => target'[u] = target[u] /\ (won'[u] <=> won[u])
      /\ n \in Node /\ n # last /\ i[last] \in Nat
      /\ \A m \in InList : i[m] <= i[last]
  <2>1. PICK j : j = Appended(i, t)
    OBVIOUS
  <2>2. QED
    BY <1>1, <1>2, <1>4, <2>1, AppendFrame
<1>6. /\ ~ won[t] /\ n # Null /\ next[n] = Null /\ last \in InList /\ last \in Node
      /\ pred'[Current("head")] = pred[Current("head")]
  BY <1>1, <1>2, <1>4, LinkFrame, FirstNode
<1>7. pc'[t] = "swing" /\ \A u \in Thread : u # t => pc'[u] = pc[u]
  BY <1>4, LinkFrame
<1>8. First' = First /\ First \in InList /\ First \in Node
      /\ llsc["head"].version <= i[First] /\ i[First] \in Nat
  BY <1>3, <1>4, <1>6, FirstStays, FirstNode
<1>9. PICK s : /\ Chain(next, First, s) /\ Contents = [k \in 1 .. Len(s) |-> value[s[k]]]
               /\ Contents \in Seq({value[m] : m \in Node}) /\ Len(Contents) = Len(s)
  BY <1>4, ContentsAre
<1>10. s \in Seq(Node) /\ Len(s) \in Nat
  BY <1>9 DEF Chain
<1>11. At(First, s, Len(s)) = last
  <2>1. PICK e : e = At(First, s, Len(s))
    OBVIOUS
  <2>2. Len(s) \in 0 .. Len(s)
    BY <1>10
  <2>3. e \in InList /\ i[e] = i[First] + Len(s) /\ \A m \in InList : i[m] <= i[First] + Len(s)
    BY <1>4, <1>8, <1>9, <2>1, <2>2, AheadLinked
  <2>4. i[e] <= i[last] /\ i[last] <= i[e]
    BY <1>5, <1>6, <2>3
  <2>5. i[e] = i[last]
    BY <1>5, <1>8, <1>10, <2>3, <2>4
  <2>6. e = last
    BY <1>4, <1>6, <2>3, <2>5 DEF QueueInv, IndexedOK
  <2>7. QED
    BY <2>1, <2>6
<1>12. Chained(next') /\ next' \in [Node -> Node \union {Null}]
  <2>1. last # n /\ next[last] = Null
    BY <1>2, <1>5
  <2>2. ASSUME NEW m \in Node
        PROVE  \E w : Chain(next', m, w)
    <3>1. PICK w : Chain(next, m, w)
      BY <1>4 DEF Chained
    <3>2. Chain(next', m, IF At(m, w, Len(w)) = last THEN Append(w, n) ELSE w)
      BY <1>4, <1>5, <1>6, <2>1, <3>1, ChainGrow
    <3>3. QED
      BY <3>2
  <2>3. QED
    BY <1>4, <1>5, <2>2 DEF Chained
<1>13. PICK r : r = Append(s, n)
  OBVIOUS
<1>14. /\ r \in Seq(Node) /\ Len(r) = Len(s) + 1 /\ DOMAIN r = 1 .. Len(s) + 1
       /\ r[Len(s) + 1] = n /\ \A k \in 1 .. Len(s) : r[k] = s[k]
  BY <1>5, <1>10, <1>13
<1>15. Behind'[First'] = r
  <2>1. last # n /\ next[last] = Null
    BY <1>2, <1>5
  <2>2. Chain(next', First, IF At(First, s, Len(s)) = last THEN Append(s, n) ELSE s)
    BY <1>4, <1>5, <1>6, <1>8, <1>9, <2>1, ChainGrow
  <2>3. Chain(next', First, r)
    BY <1>11, <1>13, <2>2
  <2>4. \A m \in Node : \A w : Chain(next', m, w) => Behind'[m] = w
    BY <1>12, BehindIs DEF Behind
  <2>5. QED
    BY <1>8, <2>3, <2>4
<1>16. Contents' = [k \in 1 .. Len(s) + 1 |-> value[r[k]]]
  BY <1>3, <1>14, <1>15 DEF Contents
<1>17. value[n] = <<t, linked[t] + 1>> /\ linked[t] < work.pushes[t]
  BY <1>1, <1>3, <1>4, <1>6 DEF ValuesOK
<1>18. Contents' = Append(Contents, <<t, linked[t] + 1>>)
  <2>1. PICK V : V = {value[m] : m \in Node}
    OBVIOUS
  <2>2. PICK q \in Seq(V) : q = Contents
    BY <1>9, <2>1
  <2>3. Len(q) = Len(s) /\ \A k \in 1 .. Len(s) : q[k] = value[s[k]]
    BY <1>9, <1>10, <2>2
  <2>4. PICK x \in V : x = value[n]
    BY <1>5, <2>1
  <2>5. PICK p : p = Append(q, x)
    OBVIOUS
  <2>6. p \in Seq(V) /\ Len(p) = Len(s) + 1 /\ p[Len(s) + 1] = x /\ \A k \in 1 .. Len(s) : p[k] = q[k]
    BY <1>10, <2>2, <2>3, <2>4, <2>5
  <2>7. ASSUME NEW k \in 1 .. Len(s) + 1
        PROVE  p[k] = value[r[k]]
    <3>1. CASE k = Len(s) + 1
      BY <1>14, <2>4, <2>6, <3>1
    <3>2. CASE k # Len(s) + 1
      <4>1. k \in 1 .. Len(s)
        BY <1>10, <3>2
      <4>2. QED
        BY <1>14, <2>3, <2>6, <4>1
    <3>3. QED
      BY <3>1, <3>2
  <2>8. p = [k \in 1 .. Len(s) + 1 |-> value[r[k]]]
    BY <1>10, <2>6, <2>7
  <2>9. QED
    BY <1>16, <1>17, <2>2, <2>4, <2>5, <2>8
<1>19. Admitted' = Admitted \ {t} /\ t \in Admitted
  BY <1>3, <1>5, <1>6, <1>7, ThreadSides DEF Admitted
<1>20. Uncounted' = Uncounted \union {t} /\ t \notin Uncounted
  BY <1>5, <1>6, ThreadSides DEF Uncounted
<1>21. Popped' = Popped
  BY <1>4, <1>5, <1>7, ThreadSides DEF Popped
<1>22. Taken' = Taken
  <2>1. ASSUME NEW w \in Thread
        PROVE  Taken'[w] = Taken[w]
    <3>1. CASE w \in Producer
      <4>1. w \notin Consumer
        BY <3>1, ThreadSides
      <4>2. QED
        BY <3>1, <4>1 DEF Taken
    <3>2. CASE w \in Consumer
      <4>1. w # t /\ w \notin Producer
        BY <1>4, <3>2, ThreadSides
      <4>2. CASE won[w]
        BY <1>3, <1>5, <3>2, <4>1, <4>2 DEF Taken
      <4>3. CASE ~ won[w]
        BY <1>3, <1>5, <3>2, <4>1, <4>3 DEF Taken
      <4>4. QED
        BY <4>2, <4>3
    <3>3. QED
      BY <3>1, <3>2, ThreadSides
  <2>2. Taken' = [w \in Thread |-> Taken'[w]] /\ Taken = [w \in Thread |-> Taken[w]]
    BY DEF Taken
  <2>3. QED
    BY <2>1, <2>2
<1>23. <<t, linked[t] + 1>> \in Values
  <2>1. linked[t] \in Nat /\ work.pushes \in [Producer -> Nat] /\ work \in Work
    BY <1>4, QueueAssumption DEF DataOK
  <2>2. linked[t] + 1 \in 1 .. work.pushes[t]
    BY <1>17, <2>1
  <2>3. <<t, linked[t] + 1>> \in {t} \X (1 .. work.pushes[t])
    BY <2>2
  <2> DEFINE Own(p, w) == {p} \X (1 .. w.pushes[p])
  <2>4. Values = UNION {Own(p, w) : p \in Producer, w \in Work}
    BY DEF Values
  <2>5. <<t, linked[t] + 1>> \in Own(t, work)
    BY <2>3
  <2> HIDE DEF Own
  <2>6. QED
    BY <2>1, <2>4, <2>5
<1>24. Fifo!Link(t)
  BY <1>18, <1>19, <1>20, <1>22, <1>23 DEF Fifo!Link, Admitted, Uncounted, Taken, Values
<1>25. SizeOK'
  <2>1. Cardinality(Uncounted') = Cardinality(Uncounted) + 1
    BY <1>20, SizeParts, FS_AddElement
  <2>2. Len(Contents') = Len(Contents) + 1
    BY <1>9, <1>10, <1>16
  <2>3. QED
    BY <1>3, <1>21, <2>1, <2>2, SizeParts DEF SizeOK
<1>26. DataOK'
  BY <1>3, <1>4 DEF DataOK
<1>27. ValuesOK'
  <2>1. ASSUME NEW u \in Producer, ~ won'[u]
        PROVE  /\ pc'[u] # "idle" => linked'[u] < work.pushes[u]
               /\ mine[u] # Null => value[mine[u]] = <<u, linked'[u] + 1>>
    <3>1. u # t
      BY <1>5, <2>1
    <3>2. linked'[u] = linked[u] /\ ~ won[u] /\ pc'[u] = pc[u]
      BY <1>3, <1>4, <1>5, <1>7, <2>1, <3>1, ThreadSides DEF DataOK
    <3>3. QED
      BY <1>4, <2>1, <3>2 DEF ValuesOK
  <2>2. QED
    BY <1>3, <2>1 DEF ValuesOK
<1>28. QED
  BY <1>4, <1>12, <1>24, <1>25, <1>26, <1>27 DEF Refines, Fifo!Next

-----------------------------------------------------------------------------

FifoIInv == \E i, due : FifoInv(i, due)

\* Every step does what BoundedFifo allows.
LEMMA FifoStep ==
    ASSUME FifoIInv, [QueueNext]_queueVars
    PROVE  FifoIInv' /\ [Fifo!Next]_Abstract
<1>1. PICK i, due : FifoInv(i, due)
  BY DEF FifoIInv
<1>2. ASSUME NEW t \in Thread, StoreConditional(t), work' = work
      PROVE  Refines
  <2>1. CASE Swing(t)
    BY <1>1, <1>2, <2>1, SwingUnnoticed, SwingPops, ThreadSides
  <2>2. CASE Advance(t)
    BY <1>1, <1>2, <2>2, AdvanceUnnoticed
  <2>3. CASE Advanced(t) \/ Transfer(t)
    BY <1>1, <1>2, <2>3, PlaceUnnoticed
  <2>4. CASE Release(t) \/ SetNlPred(t)
    BY <1>1, <1>2, <2>4, ReleaseUnnoticed
  <2>5. QED
    BY <1>2, <2>1, <2>2, <2>3, <2>4 DEF StoreConditional
<1>3. ASSUME NEW t \in Producer, Push(t), work' = work
      PROVE  Refines
  <2>1. t \in Thread
    BY ThreadSides
  <2>2. CASE StartPush(t)
    BY <1>1, <1>3, <2>2, StartPushAdmits
  <2>3. CASE Count(t)
    BY <1>1, <1>3, <2>3, CountCounts
  <2>4. CASE Allocate(t) \/ TailAgain(t)
    BY <1>1, <1>3, <2>1, <2>4, ReadUnnoticed DEF ReadMove
  <2>5. CASE Link(t)
    BY <1>1, <1>3, <2>5, HelpUnnoticed, LinkLinks
  <2>6. QED
    BY <1>3, <2>2, <2>3, <2>4, <2>5 DEF Push
<1>4. ASSUME NEW t \in Consumer, Pop(t), work' = work
      PROVE  Refines
  <2>1. t \in Thread
    BY ThreadSides
  <2>2. CASE Peek(t)
    BY <1>1, <1>4, <2>1, <2>2, PlaceUnnoticed
  <2>3. CASE Discount(t)
    BY <1>1, <1>4, <2>3, DiscountUnnoticed
  <2>4. CASE StartPop(t)
    BY <1>1, <1>4, <2>1, <2>4, ReadUnnoticed DEF ReadMove
  <2>5. CASE Take(t)
    BY <1>1, <1>4, <2>5, TakeUnnoticed
  <2>6. QED
    BY <1>4, <2>2, <2>3, <2>4, <2>5 DEF Pop
<1>5. ASSUME UNCHANGED queueVars
      PROVE  Refines
  <2>1. /\ llsc' = llsc /\ next' = next /\ pred' = pred /\ value' = value /\ mine' = mine
        /\ target' = target /\ won' = won /\ out' = out /\ linked' = linked /\ size' = size
        /\ pc' = pc /\ work' = work
    BY <1>5 DEF queueVars
  <2>2. First' = First /\ Unnoticed
    BY <2>1 DEF First, Current, Unnoticed
  <2>3. QED
    BY <1>1, <2>1, <2>2, ListUnnoticed
<1>6. Refines
  <2>1. CASE QueueNext
    BY <1>2, <1>3, <1>4, <2>1, ThreadSides DEF QueueNext
  <2>2. QED
    BY <1>5, <2>1
<1>7. IInv'
  <2>1. IInv
    BY <1>1 DEF IInv, FifoInv
  <2>2. QED
    BY <2>1, QueueStep
<1>8. FifoIInv'
  <2>1. \E j, d : QueueInv(j, d)'
    BY <1>7 DEF IInv
  <2>2. Chained(next)' /\ DataOK' /\ ValuesOK' /\ SizeOK'
    BY <1>6 DEF Refines, Chained, Chain
  <2>3. PICK j, d : QueueInv(j, d)'
    BY <2>1
  <2>4. FifoInv(j, d)'
    BY <2>2, <2>3 DEF FifoInv
  <2>5. QED
    BY <2>4 DEF FifoIInv
<1>9. QED
  BY <1>6, <1>8 DEF Refines

\* At first the queue is empty, and every list is.
LEMMA FifoInitial ==
    ASSUME QueueInit
    PROVE  FifoIInv /\ Fifo!Init
<1>1. PICK i, due : QueueInv(i, due)
  BY QueueInitial
<1>2. next = [n \in Node |-> Null] /\ Node0 \in Node /\ Null \notin Node
  BY QueueAssumption DEF QueueInit
<1>3. \A n \in Node : Chain(next, n, << >>)
  BY <1>2 DEF Chain, At
<1>4. Chained(next)
  BY <1>3 DEF Chained
<1>5. Contents = << >> /\ Len(Contents) = 0
  <2>1. First \in Node
    BY <1>1, FirstNode
  <2>2. PICK s : Chain(next, First, s) /\ Contents = [k \in 1 .. Len(s) |-> value[s[k]]]
    BY <1>1, <1>4, ContentsAre
  <2>3. s = << >>
    BY <1>3, <2>1, <2>2, ChainUnique
  <2>4. QED
    BY <2>2, <2>3
<1>6. /\ \A t \in Thread : pc[t] = "idle" /\ ~ won[t] /\ mine[t] = Null
      /\ size = 0 /\ linked = [t \in Producer |-> 0] /\ out = [t \in Consumer |-> << >>]
      /\ work \in Work /\ DOMAIN value = Node
  BY DEF QueueInit
<1>7. Admitted = {} /\ Uncounted = {} /\ Popped = {}
  BY <1>6, ThreadSides DEF Admitted, Uncounted, Popped
<1>8. Taken = [t \in Thread |-> << >>]
  <2>1. ASSUME NEW t \in Thread
        PROVE  Taken[t] = << >>
    <3>1. CASE t \in Producer
      <4>1. t \notin Consumer
        BY <3>1, ThreadSides
      <4>2. QED
        BY <3>1, <4>1 DEF Taken
    <3>2. CASE t \in Consumer
      <4>1. t \notin Producer /\ ~ won[t] /\ out[t] = << >>
        BY <1>6, <3>2, ThreadSides
      <4>2. QED
        BY <3>2, <4>1 DEF Taken
    <3>3. QED
      BY <3>1, <3>2, ThreadSides
  <2>2. Taken = [t \in Thread |-> Taken[t]]
    BY DEF Taken
  <2>3. QED
    BY <2>1, <2>2
<1>9. Cardinality({}) = 0
  BY FS_EmptySet
<1>10. DataOK /\ ValuesOK /\ SizeOK
  BY <1>5, <1>6, <1>7, <1>9, ThreadSides DEF DataOK, ValuesOK, SizeOK
<1>11. FifoIInv
  BY <1>1, <1>4, <1>10 DEF FifoIInv, FifoInv
<1>12. Fifo!Init
  BY <1>5, <1>7, <1>8 DEF Fifo!Init, Admitted, Uncounted, Taken
<1>13. QED
  BY <1>11, <1>12

\* A pop that finds nothing to take has found the queue empty.
THEOREM FalseOnlyIfEmptyHolds == QueueSpec => FalseOnlyIfEmpty
<1> DEFINE Empty == \A t \in Consumer : pc[t] = "peek" /\ pc'[t] = "release" => Contents = << >>
<1>1. QueueInit => FifoIInv
  BY FifoInitial
<1>2. FifoIInv /\ [QueueNext]_queueVars => FifoIInv'
  BY FifoStep
<1>3. ASSUME FifoIInv, [QueueNext]_queueVars
      PROVE  [Empty]_queueVars
  <2>1. PICK i, due : FifoInv(i, due)
    BY <1>3 DEF FifoIInv
  <2>2. SUFFICES ASSUME NEW t \in Consumer, pc[t] = "peek", pc'[t] = "release"
                 PROVE  Contents = << >>
    OBVIOUS
  <2>3. QueueInv(i, due) /\ t \in Thread /\ t \notin Producer /\ Chained(next) /\ DOMAIN pc = Thread
    BY <2>1, ThreadSides DEF FifoInv, QueueInv, QueueTypeOK
  <2>4. Peek(t)
    <3>1. QueueNext
      BY <1>3, <2>2 DEF queueVars
    <3>2. PICK u \in Thread : (u \in Producer /\ Push(u)) \/ StoreConditional(u) \/ (u \in Consumer /\ Pop(u))
      BY <3>1, ThreadSides DEF QueueNext
    <3>3. u = t
      BY <2>2, <2>3, <3>2 DEF Push, Pop, StoreConditional, StartPush, Allocate, TailAgain, Link, Count,
         Return, Swing, Advance, Advanced, Transfer, Release, SetNlPred, StartPop, Peek, Take,
         Discount, Goto
    <3>4. QED
      BY <2>2, <2>3, <3>2, <3>3 DEF Pop, StoreConditional, StartPop, Take, Discount, Return, Goto,
         Swing, Advance, Advanced, Transfer, Release, SetNlPred
  <2>5. PICK n : n = local[t].node
    OBVIOUS
  <2>6. n \in InList /\ n \in Node /\ i[n] = local[t].version /\ local[t].version \in Nat
    BY <2>2, <2>3, <2>5, HeldPredecessor DEF Reading
  <2>7. next[n] = Null
    BY <2>2, <2>3, <2>4, <2>5 DEF Peek, Following, Goto
  <2>8. \A m \in InList : i[m] <= i[n]
    BY <2>3, <2>6, <2>7 DEF QueueInv, IndexedOK
  <2>9. i[n] <= llsc["head"].version
    BY <2>2, <2>3, <2>5, <2>6, ThreadSides DEF QueueInv, HeldOK, Reading
  <2>10. /\ First \in InList /\ First \in Node /\ i[First] >= llsc["head"].version
         /\ i[First] \in Int /\ llsc["head"].version \in Nat
    BY <2>3, FirstNode
  <2>11. i[First] = i[n]
    BY <2>6, <2>8, <2>9, <2>10
  <2>12. First = n
    BY <2>3, <2>6, <2>10, <2>11 DEF QueueInv, IndexedOK
  <2>13. PICK s : Chain(next, First, s) /\ Contents = [k \in 1 .. Len(s) |-> value[s[k]]]
    BY <2>3, ContentsAre
  <2>14. s = << >>
    BY <2>7, <2>10, <2>12, <2>13, ChainRest
  <2>15. QED
    BY <2>13, <2>14
<1>4. QED
  BY <1>1, <1>2, <1>3, PTL DEF QueueSpec, FalseOnlyIfEmpty

\* The lock-free queue is a queue: every value that is pushed goes to one
\* consumer, in the order in which they were linked, and there are never more
\* than the size that was asked for allows.
THEOREM ImplementsFifoHolds == QueueSpec => ImplementsFifo
<1>1. QueueInit => FifoIInv /\ Fifo!Init
  BY FifoInitial
<1>2. FifoIInv /\ [QueueNext]_queueVars => FifoIInv' /\ [Fifo!Next]_(Fifo!vars)
  <2>1. Fifo!vars = Abstract
    BY DEF Fifo!vars, Abstract, Admitted, Uncounted, Taken
  <2>2. Fifo!vars' = Abstract'
    BY DEF Fifo!vars, Abstract, Admitted, Uncounted, Taken
  <2>3. QED
    BY <2>1, <2>2, FifoStep
<1>3. QueueSpec => Fifo!Spec
  BY <1>1, <1>2, PTL DEF QueueSpec, Fifo!Spec
<1>4. QED
  BY <1>3, FalseOnlyIfEmptyHolds, PTL DEF ImplementsFifo

-----------------------------------------------------------------------------
(* Nothing is left behind.                                                  *)

\* What could be freed has been.
FreedOK == \A n \in InList : ~ Freeable(exit[n])

\* What the head has passed, and what is in its other pointer, was claimed.
PassedOK(i) ==
    \A n \in InList \ {Node0, Node1} :
        i[n] <= llsc["head"].version \/ n = Other("head") => Claimed(n)

\* The first two nodes are nobody's, and stay.
FirstsOK(i) == \A n \in {Node0, Node1} : n \in InList /\ i[n] <= 0 /\ ~ Claimed(n)

\* A node is not looked at through its successor any more, or somebody is about
\* to say so, or the successor is not clean yet, or there is none.
MarksOK(i) ==
    \A n \in InList :
        \/ exit[n].nl_p
        \/ \E t \in Thread : before[t] = n
        \/ \E m \in InList : i[m] = i[n] + 1 /\ pred[m] = n /\ ~ Clean(exit[m])
        \/ \A m \in InList : i[m] <= i[n]

\* A tail that lags behind, or a head whose pointer was set, has a thread on it.
LaggardsOK(i) ==
    /\ \A n \in InList : i[n] > llsc["tail"].version =>
          /\ i[n] = llsc["tail"].version + 1
          /\ \E t \in Producer : pc[t] \in {"swing", "advance"}
                                 /\ local[t].version = llsc["tail"].version
    /\ Other("head") # pred[Current("head")] =>
          \E t \in Consumer : pc[t] = "advance" /\ local[t].version = llsc["head"].version

KeptInv(i, due) ==
    /\ QueueInv(i, due)
    /\ FreedOK
    /\ PassedOK(i)
    /\ FirstsOK(i)
    /\ MarksOK(i)
    /\ LaggardsOK(i)

\* What a step has to do besides keeping QueueInv.
Keeps(i) == FreedOK' /\ PassedOK(i)' /\ FirstsOK(i)' /\ MarksOK(i)' /\ LaggardsOK(i)'

\* A clean node has no reader, in every state of the invariant.
LEMMA CleanAlways ==
    \A i, due : QueueInv(i, due) => \A n \in InList : Clean(exit[n]) => Readers(n) = {}
BY CleanUnread

\* A step that changes neither the list nor the exits nor who marks them.
LEMMA ListKept ==
    ASSUME NEW i, NEW due, KeptInv(i, due),
           InList' = InList, exit' = exit, before' = before, \A m \in InList : pred'[m] = pred[m]
    PROVE  FreedOK' /\ MarksOK(i)'
<1>1. FreedOK'
  BY DEF KeptInv, FreedOK
<1>2. MarksOK(i)'
  <2>1. ASSUME NEW n \in InList
        PROVE  \/ exit[n].nl_p
               \/ \E t \in Thread : before[t] = n
               \/ \E m \in InList : i[m] = i[n] + 1 /\ pred'[m] = n /\ ~ Clean(exit[m])
               \/ \A m \in InList : i[m] <= i[n]
    BY DEF KeptInv, MarksOK
  <2>2. QED
    BY <2>1 DEF MarksOK
<1>3. QED
  BY <1>1, <1>2

\* What the consumers have is what they had.
ClaimsSame == \A u \in Consumer : (won'[u] <=> won[u]) /\ (won[u] => target'[u] = target[u])

\* A step that neither pops nor moves the head.
LEMMA ClaimsKept ==
    ASSUME NEW i, NEW due, KeptInv(i, due), ClaimsSame,
           InList' = InList, \A m \in InList : exit'[m].to_be_freed <=> exit[m].to_be_freed,
           llsc'["head"].version = llsc["head"].version, Other("head")' = Other("head")
    PROVE  PassedOK(i)' /\ FirstsOK(i)'
<1>1. \A n \in InList : Claimed(n)' <=> Claimed(n)
  BY DEF Claimed, ClaimsSame
<1>2. QED
  BY <1>1 DEF KeptInv, PassedOK, FirstsOK

\* A thread that is needed stays where it is needed.
LEMMA LaggardsKept ==
    ASSUME NEW i, NEW due, KeptInv(i, due), InList' \subseteq InList,
           \A x \in Sides : llsc'[x].version = llsc[x].version,
           Other("head")' = Other("head"), Current("head")' = Current("head"),
           pred'[Current("head")] = pred[Current("head")],
           \A u \in Thread : pc[u] \in {"swing", "advance"} /\ local[u].version = llsc[Side(u)].version =>
               /\ local'[u].version = local[u].version
               /\ pc'[u] = pc[u] \/ (u \in Producer /\ pc'[u] = "advance")
    PROVE  LaggardsOK(i)'
<1>1. "head" \in Sides /\ "tail" \in Sides
  BY DEF Sides
<1>2. ASSUME NEW n \in InList', i[n] > llsc["tail"].version
      PROVE  /\ i[n] = llsc["tail"].version + 1
             /\ \E t \in Producer : pc'[t] \in {"swing", "advance"}
                                    /\ local'[t].version = llsc["tail"].version
  <2>1. PICK t \in Producer : pc[t] \in {"swing", "advance"} /\ local[t].version = llsc["tail"].version
    BY <1>2 DEF KeptInv, LaggardsOK
  <2>2. t \in Thread /\ Side(t) = "tail"
    BY ThreadSides
  <2>3. pc'[t] \in {"swing", "advance"} /\ local'[t].version = llsc["tail"].version
    BY <2>1, <2>2
  <2>4. QED
    BY <1>2, <2>3 DEF KeptInv, LaggardsOK
<1>3. ASSUME Other("head") # pred[Current("head")]
      PROVE  \E t \in Consumer : pc'[t] = "advance" /\ local'[t].version = llsc["head"].version
  <2>1. PICK t \in Consumer : pc[t] = "advance" /\ local[t].version = llsc["head"].version
    BY <1>3 DEF KeptInv, LaggardsOK
  <2>2. t \in Thread /\ Side(t) = "head" /\ t \notin Producer
    BY ThreadSides
  <2>3. QED
    BY <2>1, <2>2
<1>4. QED
  BY <1>1, <1>2, <1>3 DEF LaggardsOK

\* A step of a thread that neither swings nor advances.
LEMMA OthersLag ==
    ASSUME NEW t \in Thread, \A u \in Thread : u # t => pc'[u] = pc[u] /\ local'[u] = local[u],
           pc[t] \notin {"swing", "advance"}
    PROVE  \A u \in Thread : pc[u] \in {"swing", "advance"} /\ local[u].version = llsc[Side(u)].version =>
               /\ local'[u].version = local[u].version
               /\ pc'[u] = pc[u] \/ (u \in Producer /\ pc'[u] = "advance")
OBVIOUS

\* StartPush, Count, Peek, Discount and Advanced.
LEMMA PlaceKeeps ==
    ASSUME NEW i, NEW due, KeptInv(i, due), NEW t \in Thread, PlaceMove(t)
    PROVE  Keeps(i)
<1>1. QueueInv(i, due)
  BY DEF KeptInv
<1>2. /\ llsc' = llsc /\ next' = next /\ pred' = pred /\ exit' = exit /\ free' = free
      /\ local' = local /\ moved' = moved /\ before' = before
      /\ OthersSame(t) /\ InList' = InList
  BY <1>1, PlaceFrame
<1>3. ClaimsSame
  <2>1. CASE t \in Producer
    <3>1. \A u \in Consumer : u # t /\ u \in Thread
      BY <2>1, ThreadSides
    <3>2. QED
      BY <1>2, <3>1 DEF ClaimsSame, OthersSame
  <2>2. CASE t \in Consumer
    <3>1. t \notin Producer
      BY <2>2, ThreadSides
    <3>2. \A u \in Consumer : u \in Thread
      BY ThreadSides
    <3>3. (won'[t] <=> won[t]) /\ (won[t] => target'[t] = target[t])
      <4>1. CASE Peek(t)
        <5>1. ~ won[t] /\ won' = won
          BY <1>1, <2>2, <4>1 DEF Peek, QueueInv, PlacesOK
        <5>2. QED
          BY <5>1
      <4>2. CASE Discount(t)
        <5>1. ~ won[t] /\ won' = [won EXCEPT ![t] = FALSE]
          BY <1>1, <2>2, <4>2 DEF Discount, Return, QueueInv, PlacesOK
        <5>2. won' = won
          BY <1>1, <5>1 DEF QueueInv, QueueTypeOK
        <5>3. QED
          BY <5>1, <5>2
      <4>3. CASE Advanced(t)
        BY <4>3 DEF Advanced, threads
      <4>4. QED
        BY <3>1, <4>1, <4>2, <4>3 DEF PlaceMove
    <3>4. QED
      BY <1>2, <3>2, <3>3 DEF ClaimsSame, OthersSame
  <2>3. QED
    BY <2>1, <2>2, ThreadSides
<1>4. Other("head")' = Other("head") /\ Current("head")' = Current("head")
  BY <1>2 DEF Other, Current
<1>5. \A u \in Thread : pc[u] \in {"swing", "advance"} /\ local[u].version = llsc[Side(u)].version =>
          /\ local'[u].version = local[u].version
          /\ pc'[u] = pc[u] \/ (u \in Producer /\ pc'[u] = "advance")
  <2>1. pc[t] \in {"swing", "advance"} => local[t].version # llsc[Side(t)].version
    BY DEF PlaceMove, StartPush, Count, Peek, Discount, Advanced
  <2>2. QED
    BY <1>2, <2>1 DEF OthersSame
<1>6. LaggardsOK(i)'
  BY <1>2, <1>4, <1>5, LaggardsKept
<1>7. FreedOK' /\ MarksOK(i)'
  BY <1>2, ListKept
<1>8. PassedOK(i)' /\ FirstsOK(i)'
  BY <1>2, <1>3, <1>4, ClaimsKept
<1>9. QED
  BY <1>6, <1>7, <1>8 DEF Keeps

\* ll_op.
LEMMA ReadKeeps ==
    ASSUME NEW i, NEW due, KeptInv(i, due), NEW t \in Thread, ReadMove(t)
    PROVE  Keeps(i)
<1>1. QueueInv(i, due)
  BY DEF KeptInv
<1>2. /\ LL(t) /\ pc[t] \notin Reading /\ pc'[t] \in {"link", "peek"}
      /\ OthersSame(t) /\ pred' = pred /\ exit' = exit
      /\ before' = before /\ won' = won /\ ~ won[t] /\ InList' = InList
  BY <1>1, ReadMoveFrame
<1>3. /\ "head" \in Sides
      /\ \A x \in Sides : /\ llsc'[x].version = llsc[x].version
                          /\ Current(x)' = Current(x) /\ Other(x)' = Other(x)
  BY <1>1, <1>2, ReadFrame DEF Sides
<1>4. ClaimsSame
  BY <1>2, ThreadSides DEF ClaimsSame, OthersSame
<1>5. \A u \in Thread : pc[u] \in {"swing", "advance"} /\ local[u].version = llsc[Side(u)].version =>
          /\ local'[u].version = local[u].version
          /\ pc'[u] = pc[u] \/ (u \in Producer /\ pc'[u] = "advance")
  BY <1>2, OthersLag DEF Reading, OthersSame
<1>6. LaggardsOK(i)'
  BY <1>2, <1>3, <1>5, LaggardsKept
<1>7. FreedOK' /\ MarksOK(i)'
  BY <1>2, ListKept
<1>8. PassedOK(i)' /\ FirstsOK(i)'
  BY <1>2, <1>3, <1>4, ClaimsKept
<1>9. QED
  BY <1>6, <1>7, <1>8 DEF Keeps

\* A pop that sets the other pointer claims its node.
LEMMA SwingKeeps ==
    ASSUME NEW i, NEW due, KeptInv(i, due), NEW t \in Thread, Swing(t)
    PROVE  Keeps(i)
<1>1. QueueInv(i, due) /\ "head" \in Sides
  BY DEF KeptInv, Sides
<1>2. /\ next' = next /\ pred' = pred /\ exit' = exit /\ free' = free
      /\ mine' = mine /\ target' = target /\ local' = local /\ before' = before /\ pc[t] = "swing"
  BY DEF Swing, memory
<1>3. /\ \A x \in Sides : /\ llsc'[x].version = llsc[x].version
                          /\ Current(x)' = Current(x)
                          /\ x # Side(t) \/ ~ Expected(t) => Other(x)' = Other(x)
      /\ Expected(t) => Other(Side(t))' = target[t] /\ target[t] \in InList
                        /\ i[target[t]] = local[t].version + 1
  BY <1>1, SwingPointers
<1>4. pc'[t] = "advance" /\ \A u \in Thread : u # t => pc'[u] = pc[u]
  BY <1>1 DEF Swing, Goto, QueueInv, QueueTypeOK
<1>5. /\ t \in Producer => won' = won
      /\ t \in Consumer => ~ won[t] /\ won' = [won EXCEPT ![t] = Expected(t)]
  BY <1>1, <1>2, ThreadSides DEF Swing, QueueInv, PlacesOK
<1>6. /\ \A u \in Thread : u # t => (won'[u] <=> won[u])
      /\ t \in Producer => (won'[t] <=> won[t])
      /\ t \in Consumer => (won'[t] <=> Expected(t))
  BY <1>1, <1>5, ThreadSides DEF QueueInv, QueueTypeOK
<1>7. InList' = InList
  BY <1>2, <1>6, ThreadSides DEF InList, Private
<1>8. FreedOK' /\ MarksOK(i)'
  BY <1>2, <1>7, ListKept
<1>9. CASE t \in Producer \/ ~ Expected(t)
  <2>1. Other("head")' = Other("head") /\ Current("head")' = Current("head")
    BY <1>1, <1>3, <1>9, ThreadSides
  <2>2. ClaimsSame
    BY <1>2, <1>5, <1>6, <1>9, ThreadSides DEF ClaimsSame
  <2>3. PassedOK(i)' /\ FirstsOK(i)'
    BY <1>1, <1>2, <1>3, <1>7, <2>1, <2>2, ClaimsKept
  <2>4. CASE t \in Producer
    <3>1. \A u \in Thread : pc[u] \in {"swing", "advance"} /\ local[u].version = llsc[Side(u)].version =>
              /\ local'[u].version = local[u].version
              /\ pc'[u] = pc[u] \/ (u \in Producer /\ pc'[u] = "advance")
      BY <1>2, <1>4, <2>4
    <3>2. LaggardsOK(i)'
      BY <1>2, <1>3, <1>7, <2>1, <3>1, LaggardsKept
    <3>3. QED
      BY <1>8, <2>3, <3>2 DEF Keeps
  <2>5. CASE t \notin Producer
    <3>1. \A u \in Producer : u # t /\ u \in Thread
      BY <2>5, ThreadSides
    <3>2. \A u \in Consumer : pc[u] = "advance" => pc'[u] = "advance"
      BY <1>4, ThreadSides
    <3>3. \A x \in Sides : llsc'[x].version = llsc[x].version
      BY <1>3
    <3>4. LaggardsOK(i)'
      <4>1. \A u \in Producer : pc'[u] = pc[u]
        BY <1>4, <3>1
      <4>2. "tail" \in Sides
        BY DEF Sides
      <4>3. QED
        BY <1>1, <1>2, <1>7, <2>1, <3>2, <3>3, <4>1, <4>2 DEF KeptInv, LaggardsOK
    <3>5. QED
      BY <1>8, <2>3, <3>4 DEF Keeps
  <2>6. QED
    BY <2>4, <2>5
<1>10. CASE t \in Consumer /\ Expected(t)
  <2>1. PICK n \in InList : n = target[t]
    BY <1>3, <1>10
  <2>2. t \notin Producer /\ Side(t) = "head" /\ pc[t] \in Reading
    BY <1>2, <1>10, ThreadSides DEF Reading
  <2>3. llsc["head"].version = local[t].version /\ llsc["head"].version \in Nat
    BY <1>1, <1>10, <2>2, ExpectedCurrent, PointerNumbers
  <2>4. Other("head")' = n /\ i[n] = llsc["head"].version + 1 /\ Current("head")' = Current("head")
    BY <1>1, <1>3, <1>10, <2>1, <2>2, <2>3
  <2>5. \A u \in Consumer : won[u] => u # t /\ won'[u]
    BY <1>5, <1>6, <1>10, ThreadSides
  <2>6. \A m \in InList : Claimed(m)' <=> Claimed(m) \/ m = n
    <3>1. \A u \in Consumer : won'[u] <=> won[u] \/ u = t
      BY <1>6, <1>10, <2>5, ThreadSides
    <3>2. QED
      BY <1>2, <1>10, <2>1, <3>1 DEF Claimed
  <2>7. PassedOK(i)'
    BY <1>1, <1>3, <1>7, <2>4, <2>6 DEF KeptInv, PassedOK
  <2>8. FirstsOK(i)'
    <3>1. n \notin {Node0, Node1}
      BY <2>3, <2>4 DEF KeptInv, FirstsOK
    <3>2. QED
      BY <1>7, <2>6, <3>1 DEF KeptInv, FirstsOK
  <2>9. LaggardsOK(i)'
    <3>1. \A u \in Producer : pc'[u] = pc[u]
      BY <1>4, <2>2, ThreadSides
    <3>2. pc'[t] = "advance" /\ local'[t].version = llsc'["head"].version
      BY <1>1, <1>2, <1>3, <1>4, <2>3
    <3>3. "tail" \in Sides
      BY DEF Sides
    <3>4. QED
      BY <1>2, <1>3, <1>7, <1>10, <3>1, <3>2, <3>3 DEF KeptInv, LaggardsOK
  <2>10. QED
    BY <1>8, <2>7, <2>8, <2>9 DEF Keeps
<1>11. QED
  BY <1>9, <1>10, ThreadSides

\* Moving the version on: the node that was in the other pointer is passed.
LEMMA AdvanceKeeps ==
    ASSUME NEW i, NEW due, KeptInv(i, due), NEW t \in Thread, Advance(t)
    PROVE  Keeps(i)
<1>1. QueueInv(i, due) /\ "head" \in Sides /\ "tail" \in Sides
  BY DEF KeptInv, Sides
<1>2. /\ pred' = pred /\ exit' = exit /\ free' = free /\ mine' = mine /\ target' = target
      /\ won' = won /\ local' = local /\ before' = before /\ pc[t] = "advance"
  BY DEF Advance, memory
<1>3. InList' = InList /\ ClaimsSame
  BY <1>2 DEF InList, Private, ClaimsSame
<1>4. FreedOK' /\ MarksOK(i)'
  BY <1>2, <1>3, ListKept
<1>5. \A n : Claimed(n)' <=> Claimed(n)
  BY <1>2 DEF Claimed
<1>6. \A u \in Thread : u # t => pc'[u] = pc[u]
  BY <1>1 DEF Advance, Goto, QueueInv, QueueTypeOK
<1>7. PICK x \in Sides : x = Side(t)
  BY ThreadSides
<1>8. /\ \A y \in Sides : y # x => /\ llsc'[y] = llsc[y]
                                   /\ Current(y)' = Current(y)
                                   /\ Other(y)' = Other(y)
      /\ llsc'[x].version = llsc[x].version + 1
      /\ Current(x)' = Other(x) /\ Other(x)' = Current(x)
      /\ Other(x) \in InList /\ i[Other(x)] = llsc[x].version + 1
      /\ pred[Other(x)] = Current(x) /\ llsc[x].version \in Nat
  BY <1>1, <1>7, AdvancePointers
<1>9. \A n \in InList : n \in Node /\ i[n] \in Int
  BY <1>1 DEF QueueInv, IndexedOK, InList
<1>10. CASE x = "head"
  <2>1. PICK v \in Nat : v = llsc["head"].version
    BY <1>8, <1>10
  <2>2. llsc'["head"].version = v + 1 /\ Other("head")' = Current("head")
    BY <1>8, <1>10, <2>1
  <2>3. Current("head") \in InList /\ i[Current("head")] = v
    BY <1>1, <2>1, PointerNumbers
  <2>4. \A n \in InList : i[n] <= v + 1 \/ n = Current("head") => i[n] <= v \/ n = Other("head")
    <3>1. \A n \in InList : i[n] = v + 1 => n = Other("head")
      BY <1>1, <1>8, <1>10, <2>1 DEF QueueInv, IndexedOK
    <3>2. QED
      BY <1>9, <2>1, <2>3, <3>1
  <2>5. PassedOK(i)'
    BY <1>3, <1>5, <2>1, <2>2, <2>4 DEF KeptInv, PassedOK
  <2>6. FirstsOK(i)'
    BY <1>3, <1>5 DEF KeptInv, FirstsOK
  <2>7. \A u \in Producer : pc'[u] = pc[u]
    BY <1>6, <1>7, <1>10, ThreadSides
  <2>8. LaggardsOK(i)'
    BY <1>1, <1>2, <1>3, <1>8, <1>10, <2>7 DEF KeptInv, LaggardsOK
  <2>9. QED
    BY <1>4, <2>5, <2>6, <2>8 DEF Keeps
<1>11. CASE x # "head"
  <2>1. x = "tail" /\ t \in Producer
    BY <1>7, <1>11, ThreadSides DEF Sides
  <2>2. llsc'["head"] = llsc["head"] /\ Current("head")' = Current("head") /\ Other("head")' = Other("head")
    BY <1>1, <1>8, <1>11
  <2>3. PassedOK(i)' /\ FirstsOK(i)'
    BY <1>2, <1>3, <2>2, ClaimsKept
  <2>4. \A u \in Consumer : pc'[u] = pc[u]
    BY <1>6, <2>1, ThreadSides
  <2>5. \A n \in InList : ~ (i[n] > llsc["tail"].version + 1)
    <3>1. \A n \in InList : i[n] > llsc["tail"].version => i[n] = llsc["tail"].version + 1
      BY DEF KeptInv, LaggardsOK
    <3>2. QED
      BY <1>8, <1>9, <2>1, <3>1
  <2>6. LaggardsOK(i)'
    BY <1>2, <1>3, <1>8, <2>1, <2>2, <2>4, <2>5 DEF KeptInv, LaggardsOK
  <2>7. QED
    BY <1>4, <2>3, <2>6 DEF Keeps
<1>12. QED
  BY <1>10, <1>11

LEMMA CleanAlwaysNext ==
    (\A i, due : QueueInv(i, due) => \A n \in InList : Clean(exit[n]) => Readers(n) = {})'
BY CleanAlways, PTL

\* transfer_op cannot make a node clean: the thread has not released it yet.
LEMMA TransferKeeps ==
    ASSUME NEW i, NEW due, KeptInv(i, due), NEW t \in Thread, Transfer(t)
    PROVE  Keeps(i)
<1>1. QueueInv(i, due)
  BY DEF KeptInv
<1>2. /\ llsc' = llsc /\ next' = next /\ pred' = pred /\ free' = free /\ mine' = mine
      /\ target' = target /\ won' = won /\ local' = local /\ before' = before /\ pc[t] = "transfer"
  BY DEF Transfer
<1>3. PICK n \in InList : n = local[t].node
  BY <1>1, TransferFrame
<1>4. /\ \A m \in Node : m # n => exit'[m] = exit[m]
      /\ exit'[n].nl_p = exit[n].nl_p /\ exit'[n].to_be_freed = exit[n].to_be_freed
      /\ ~ Clean(exit[n])
  BY <1>1, <1>3, TransferFrame
<1>5. InList' = InList /\ ClaimsSame
  BY <1>2 DEF InList, Private, ClaimsSame
<1>6. ~ Clean(exit'[n])
  <2>1. \E d : QueueInv(i, d)'
    BY <1>1, TransferStep
  <2>2. PICK d : QueueInv(i, d)'
    BY <2>1
  <2>3. \A m \in InList' : Clean(exit'[m]) => Readers(m)' = {}
    BY <2>2, CleanAlwaysNext DEF Clean
  <2>4. t \in Readers(n)'
    BY <1>2, <1>3 DEF Readers
  <2>5. QED
    BY <1>5, <2>3, <2>4
<1>7. \A m \in InList : Clean(exit'[m]) <=> Clean(exit[m])
  BY <1>4, <1>6 DEF InList
<1>8. \A m \in InList : exit'[m].nl_p = exit[m].nl_p /\ exit'[m].to_be_freed = exit[m].to_be_freed
  BY <1>4 DEF InList
<1>9. FreedOK'
  BY <1>5, <1>7, <1>8 DEF KeptInv, FreedOK, Freeable
<1>10. MarksOK(i)'
  <2>1. ASSUME NEW m \in InList
        PROVE  \/ exit'[m].nl_p
               \/ \E u \in Thread : before[u] = m
               \/ \E k \in InList : i[k] = i[m] + 1 /\ pred[k] = m /\ ~ Clean(exit'[k])
               \/ \A k \in InList : i[k] <= i[m]
    BY <1>7, <1>8 DEF KeptInv, MarksOK
  <2>2. QED
    BY <1>2, <1>5, <2>1 DEF MarksOK
<1>11. Other("head")' = Other("head") /\ Current("head")' = Current("head")
  BY <1>2 DEF Other, Current
<1>12. PassedOK(i)' /\ FirstsOK(i)'
  BY <1>2, <1>5, <1>8, <1>11, ClaimsKept
<1>13. \A u \in Thread : u # t => pc'[u] = pc[u]
  BY <1>1 DEF Transfer, Goto, QueueInv, QueueTypeOK
<1>14. LaggardsOK(i)'
  <2>1. \A u \in Thread : pc[u] \in {"swing", "advance"} /\ local[u].version = llsc[Side(u)].version =>
            /\ local'[u].version = local[u].version
            /\ pc'[u] = pc[u] \/ (u \in Producer /\ pc'[u] = "advance")
    BY <1>2, <1>13, OthersLag
  <2>2. QED
    BY <1>2, <1>5, <1>11, <2>1, LaggardsKept
<1>15. QED
  BY <1>9, <1>10, <1>12, <1>14 DEF Keeps

\* Release and SetNlPred: what becomes clean marks its predecessor, and what
\* can be freed is.
LEMMA ReleaseKeeps ==
    ASSUME NEW i, NEW due, KeptInv(i, due), NEW t \in Thread, Release(t) \/ SetNlPred(t)
    PROVE  Keeps(i)
<1>1. QueueInv(i, due)
  BY DEF KeptInv
<1>2. /\ llsc' = llsc /\ mine' = mine /\ target' = target /\ won' = won
      /\ \A u \in Thread : u # t => /\ pc'[u] = pc[u] /\ local'[u] = local[u]
                                    /\ before'[u] = before[u]
      /\ pc[t] \notin {"swing", "advance"}
  BY <1>1 DEF Release, SetNlPred, Goto, QueueInv, QueueTypeOK
<1>3. \E n \in InList : \E e \in Exits :
          /\ Store(n, e) /\ (e.to_be_freed <=> exit[n].to_be_freed)
          /\ exit[n].nl_p => e.nl_p
          /\ \/ /\ Release(t) /\ n = local[t].node
                /\ before[t] = Null /\ (e.nl_p <=> exit[n].nl_p)
                /\ Clean(e) => before'[t] = pred[n]
             \/ /\ SetNlPred(t) /\ n = before[t] /\ e.nl_p
                /\ Clean(e) <=> Clean(exit[n])
  <2>1. CASE Release(t)
    <3>1. PICK n \in InList : n = local[t].node
      BY <1>1, <2>1, ReleaseFrame
    <3>2. PICK e : e = Released(t)
      OBVIOUS
    <3>3. /\ e \in Exits /\ Store(n, e) /\ e.nl_p = exit[n].nl_p
          /\ e.to_be_freed = exit[n].to_be_freed /\ (Clean(e) => before'[t] = pred[n])
      BY <1>1, <2>1, <3>1, <3>2, ReleaseFrame
    <3>4. before[t] = Null
      BY <1>1, <2>1 DEF Release, QueueInv, PlacesOK
    <3>5. QED
      BY <2>1, <3>1, <3>3, <3>4
  <2>2. CASE SetNlPred(t)
    <3>1. PICK n \in InList : n = before[t]
      BY <1>1, <2>2 DEF SetNlPred, QueueInv, PlacesOK, PredecessorsOK
    <3>2. exit[n] \in Exits
      BY <1>1 DEF InList, QueueInv, QueueTypeOK
    <3>3. PICK e \in Exits : e = [exit[n] EXCEPT !.nl_p = TRUE]
      BY <3>2 DEF Exits
    <3>4. /\ e.to_be_freed = exit[n].to_be_freed /\ e.nl_p
          /\ e.count = exit[n].count /\ e.transfers_left = exit[n].transfers_left
      BY <3>2, <3>3 DEF Exits
    <3>5. Store(n, e)
      BY <2>2, <3>1, <3>3 DEF SetNlPred, NlPred
    <3>6. QED
      BY <2>2, <3>1, <3>4, <3>5 DEF Clean
  <2>3. QED
    BY <2>1, <2>2
<1>4. PICK n \in InList : \E e \in Exits :
          /\ Store(n, e) /\ (e.to_be_freed <=> exit[n].to_be_freed)
          /\ exit[n].nl_p => e.nl_p
          /\ \/ /\ Release(t) /\ n = local[t].node
                /\ before[t] = Null /\ (e.nl_p <=> exit[n].nl_p)
                /\ Clean(e) => before'[t] = pred[n]
             \/ /\ SetNlPred(t) /\ n = before[t] /\ e.nl_p
                /\ Clean(e) <=> Clean(exit[n])
  BY <1>3
<1>5. PICK e \in Exits :
          /\ Store(n, e) /\ (e.to_be_freed <=> exit[n].to_be_freed)
          /\ exit[n].nl_p => e.nl_p
          /\ \/ /\ Release(t) /\ n = local[t].node
                /\ before[t] = Null /\ (e.nl_p <=> exit[n].nl_p)
                /\ Clean(e) => before'[t] = pred[n]
             \/ /\ SetNlPred(t) /\ n = before[t] /\ e.nl_p
                /\ Clean(e) <=> Clean(exit[n])
  BY <1>4
<1>6. /\ InList' \subseteq InList /\ \A m \in InList : m # n => m \in InList'
      /\ n \in InList' <=> ~ Freeable(e)
      /\ \A m \in InList' : /\ pred'[m] = pred[m]
                            /\ m # n => exit'[m] = exit[m]
                            /\ m = n => exit'[m] = e
  BY <1>1, <1>2, <1>5, StoreFrame
<1>7. FreedOK'
  BY <1>6 DEF KeptInv, FreedOK
<1>8. \A m \in InList' : Claimed(m)' <=> Claimed(m)
  BY <1>2, <1>5, <1>6 DEF Claimed
<1>9. Other("head")' = Other("head") /\ Current("head")' = Current("head")
  BY <1>2 DEF Other, Current
<1>10. PassedOK(i)'
  BY <1>2, <1>6, <1>8, <1>9 DEF KeptInv, PassedOK
<1>11. FirstsOK(i)'
  <2>1. Freeable(e) => Claimed(n)
    BY <1>5 DEF Freeable, Claimed
  <2>2. QED
    BY <1>6, <1>8, <2>1 DEF KeptInv, FirstsOK
<1>12. LaggardsOK(i)'
  <2>1. Current("head") \in InList' /\ pred'[Current("head")] = pred[Current("head")]
    <3>1. Current("head") \in InList /\ ~ Clean(exit[Current("head")])
      BY <1>1, PointerNumbers DEF Sides
    <3>2. ASSUME Freeable(e)
          PROVE  n # Current("head")
      <4>1. exit[n].nl_p \/ before[t] = n
        BY <1>5, <3>2 DEF Freeable
      <4>2. i[n] + 1 < llsc["head"].version /\ i[n] \in Int
        BY <1>1, <4>1 DEF QueueInv, PredecessorsOK, IndexedOK, InList, Sides
      <4>3. i[Current("head")] = llsc["head"].version /\ llsc["head"].version \in Nat
        BY <1>1, PointerNumbers DEF Sides
      <4>4. QED
        BY <4>2, <4>3
    <3>3. QED
      BY <1>1, <1>6, <3>1, <3>2
  <2>2. \A u \in Thread : pc[u] \in {"swing", "advance"} /\ local[u].version = llsc[Side(u)].version =>
            /\ local'[u].version = local[u].version
            /\ pc'[u] = pc[u] \/ (u \in Producer /\ pc'[u] = "advance")
    BY <1>2, OthersLag
  <2>3. QED
    BY <1>2, <1>6, <1>9, <2>1, <2>2, LaggardsKept
<1>13. MarksOK(i)'
  <2>1. ASSUME NEW k \in InList'
        PROVE  \/ exit'[k].nl_p
               \/ \E u \in Thread : before'[u] = k
               \/ \E m \in InList' : i[m] = i[k] + 1 /\ pred'[m] = k /\ ~ Clean(exit'[m])
               \/ \A m \in InList' : i[m] <= i[k]
    <3>1. k \in InList
      BY <1>6
    <3>2. CASE exit[k].nl_p
      BY <1>5, <1>6, <3>2
    <3>3. CASE \E u \in Thread : before[u] = k
      <4>1. PICK u \in Thread : before[u] = k
        BY <3>3
      <4>2. CASE u # t
        BY <1>2, <4>1, <4>2
      <4>3. CASE u = t
        <5>1. before[t] # Null
          BY <3>1, <4>1, <4>3, QueueAssumption DEF InList
        <5>2. n = k /\ e.nl_p
          BY <1>5, <4>1, <4>3, <5>1
        <5>3. QED
          BY <1>6, <5>2
      <4>4. QED
        BY <4>2, <4>3
    <3>4. CASE \E m \in InList : i[m] = i[k] + 1 /\ pred[m] = k /\ ~ Clean(exit[m])
      <4>1. PICK m \in InList : i[m] = i[k] + 1 /\ pred[m] = k /\ ~ Clean(exit[m])
        BY <3>4
      <4>2. CASE m # n \/ ~ Clean(e)
        <5>1. m \in InList' /\ ~ Clean(exit'[m]) /\ pred'[m] = k
          BY <1>6, <4>1, <4>2 DEF Freeable
        <5>2. QED
          BY <4>1, <5>1
      <4>3. CASE m = n /\ Clean(e)
        <5>1. before'[t] = k
          BY <1>5, <4>1, <4>3
        <5>2. QED
          BY <5>1
      <4>4. QED
        BY <4>2, <4>3
    <3>5. CASE \A m \in InList : i[m] <= i[k]
      BY <1>6, <3>5
    <3>6. QED
      BY <3>1, <3>2, <3>3, <3>4, <3>5 DEF KeptInv, MarksOK
  <2>2. QED
    BY <2>1 DEF MarksOK
<1>14. QED
  BY <1>7, <1>10, <1>11, <1>12, <1>13 DEF Keeps

\* A node that was taken and is still looked at stays, and is claimed as before.
LEMMA TakeKeeps ==
    ASSUME NEW i, NEW due, KeptInv(i, due), NEW t \in Consumer, Take(t)
    PROVE  Keeps(i)
<1>1. QueueInv(i, due) /\ t \in Thread /\ t \notin Producer
  BY ThreadSides DEF KeptInv
<1>2. PICK n \in InList : n = target[t] /\ won[t] /\ pc[t] = "take"
  BY <1>1 DEF Take, QueueInv, PlacesOK, ClaimsOK
<1>3. exit[n] \in Exits
  BY <1>1, <1>2 DEF InList, QueueInv, QueueTypeOK
<1>4. PICK e \in Exits : e = [exit[n] EXCEPT !.to_be_freed = TRUE]
  BY <1>3 DEF Exits
<1>5. /\ e.transfers_left = exit[n].transfers_left /\ e.count = exit[n].count
      /\ e.nl_p = exit[n].nl_p /\ e.to_be_freed
  BY <1>3, <1>4 DEF Exits
<1>6. Clean(e) <=> Clean(exit[n])
  BY <1>5 DEF Clean
<1>7. /\ Store(n, e)
      /\ llsc' = llsc /\ mine' = mine /\ local' = local /\ before' = before
      /\ target' = [target EXCEPT ![t] = Null] /\ won' = [won EXCEPT ![t] = FALSE]
      /\ pc' = [pc EXCEPT ![t] = "discount"]
  BY <1>2, <1>4 DEF Take, Goto
<1>8. /\ ~ won'[t]
      /\ \A u \in Thread : u # t => pc'[u] = pc[u] /\ won'[u] = won[u] /\ target'[u] = target[u]
      /\ \A u \in Producer : won'[u] = won[u]
  BY <1>1, <1>7, ThreadSides DEF QueueInv, QueueTypeOK
<1>9. /\ InList' \subseteq InList /\ \A m \in InList : m # n => m \in InList'
      /\ n \in InList' <=> ~ Freeable(e)
      /\ \A m \in InList' : /\ pred'[m] = pred[m]
                            /\ m # n => exit'[m] = exit[m]
                            /\ m = n => exit'[m] = e
  <2>1. Store(n, e) /\ mine' = mine /\ \A u \in Producer : won'[u] = won[u]
    BY <1>7, <1>8
  <2>2. QED
    BY <1>1, <2>1, StoreFrame
<1>10. FreedOK'
  BY <1>9 DEF KeptInv, FreedOK
<1>11. \A m \in InList' : Claimed(m)' <=> Claimed(m)
  <2>1. ASSUME NEW m \in InList', m # n
        PROVE  Claimed(m)' <=> Claimed(m)
    <3>1. exit'[m] = exit[m]
      BY <1>9, <2>1
    <3>2. \A u \in Consumer : won'[u] /\ target'[u] = m <=> won[u] /\ target[u] = m
      BY <1>1, <1>2, <1>8, <2>1, ThreadSides
    <3>3. QED
      BY <3>1, <3>2 DEF Claimed
  <2>2. n \in InList' => Claimed(n)' /\ Claimed(n)
    BY <1>2, <1>5, <1>9 DEF Claimed
  <2>3. QED
    BY <2>1, <2>2
<1>12. Other("head")' = Other("head") /\ Current("head")' = Current("head")
  BY <1>7 DEF Other, Current
<1>13. PassedOK(i)'
  BY <1>7, <1>9, <1>11, <1>12 DEF KeptInv, PassedOK
<1>14. FirstsOK(i)'
  <2>1. Claimed(n)
    BY <1>2 DEF Claimed
  <2>2. QED
    BY <1>9, <1>11, <2>1 DEF KeptInv, FirstsOK
<1>15. LaggardsOK(i)'
  <2>1. Current("head") \in InList /\ ~ Clean(exit[Current("head")])
    BY <1>1, PointerNumbers DEF Sides
  <2>2. Current("head") \in InList' /\ pred'[Current("head")] = pred[Current("head")]
    BY <1>6, <1>9, <2>1 DEF Freeable
  <2>3. \A u \in Thread : pc[u] \in {"swing", "advance"} /\ local[u].version = llsc[Side(u)].version =>
            /\ local'[u].version = local[u].version
            /\ pc'[u] = pc[u] \/ (u \in Producer /\ pc'[u] = "advance")
    BY <1>1, <1>2, <1>7, <1>8, OthersLag
  <2>4. QED
    BY <1>7, <1>9, <1>12, <2>2, <2>3, LaggardsKept
<1>16. MarksOK(i)'
  <2>1. ASSUME NEW k \in InList'
        PROVE  \/ exit'[k].nl_p
               \/ \E u \in Thread : before[u] = k
               \/ \E m \in InList' : i[m] = i[k] + 1 /\ pred'[m] = k /\ ~ Clean(exit'[m])
               \/ \A m \in InList' : i[m] <= i[k]
    <3>1. k \in InList /\ (exit'[k].nl_p <=> exit[k].nl_p)
      BY <1>5, <1>9
    <3>2. CASE \E m \in InList : i[m] = i[k] + 1 /\ pred[m] = k /\ ~ Clean(exit[m])
      <4>1. PICK m \in InList : i[m] = i[k] + 1 /\ pred[m] = k /\ ~ Clean(exit[m])
        BY <3>2
      <4>2. m \in InList' /\ ~ Clean(exit'[m]) /\ pred'[m] = k
        BY <1>6, <1>9, <4>1 DEF Freeable
      <4>3. QED
        BY <4>1, <4>2
    <3>3. CASE \A m \in InList : i[m] <= i[k]
      BY <1>9, <3>3
    <3>4. QED
      BY <3>1, <3>2, <3>3 DEF KeptInv, MarksOK
  <2>2. QED
    BY <1>7, <2>1 DEF MarksOK
<1>17. QED
  BY <1>10, <1>13, <1>14, <1>15, <1>16 DEF Keeps

\* A push that helps leaves the list alone.
LEMMA HelpKeeps ==
    ASSUME NEW i, NEW due, KeptInv(i, due), NEW t \in Producer, Link(t),
           next[local[t].node] # Null
    PROVE  Keeps(i)
<1>1. QueueInv(i, due)
  BY DEF KeptInv
<1>2. /\ t \in Thread /\ pc[t] = "link"
      /\ llsc' = llsc /\ exit' = exit /\ free' = free /\ local' = local /\ mine' = mine
      /\ before' = before
      /\ \A m \in InList : pred'[m] = pred[m]
      /\ \A u \in Thread : u # t => pc'[u] = pc[u]
  BY <1>1, LinkFrame
<1>3. won' = won /\ target' = [target EXCEPT ![t] = next[local[t].node]]
  BY DEF Link
<1>4. InList' = InList
  BY <1>2, <1>3 DEF InList, Private
<1>5. ClaimsSame
  <2>1. \A u \in Consumer : u # t /\ u \in Thread
    BY ThreadSides
  <2>2. \A u \in Thread : u # t => target'[u] = target[u]
    BY <1>1, <1>3 DEF QueueInv, QueueTypeOK
  <2>3. QED
    BY <1>3, <2>1, <2>2 DEF ClaimsSame
<1>6. Other("head")' = Other("head") /\ Current("head")' = Current("head")
  BY <1>2 DEF Other, Current
<1>7. Current("head") \in InList
  BY <1>1, PointerNumbers DEF Sides
<1>8. \A u \in Thread : pc[u] \in {"swing", "advance"} /\ local[u].version = llsc[Side(u)].version =>
          /\ local'[u].version = local[u].version
          /\ pc'[u] = pc[u] \/ (u \in Producer /\ pc'[u] = "advance")
  BY <1>2, OthersLag
<1>9. LaggardsOK(i)'
  BY <1>2, <1>4, <1>6, <1>7, <1>8, LaggardsKept
<1>10. FreedOK' /\ MarksOK(i)'
  BY <1>2, <1>4, ListKept
<1>11. PassedOK(i)' /\ FirstsOK(i)'
  BY <1>2, <1>4, <1>5, <1>6, ClaimsKept
<1>12. QED
  BY <1>9, <1>10, <1>11 DEF Keeps

\* The appended node is not passed, and the tail lags behind it.
LEMMA AppendKeeps ==
    ASSUME NEW i, NEW due, KeptInv(i, due), NEW t \in Producer, Link(t),
           next[local[t].node] = Null,
           NEW j, j = Appended(i, t)
    PROVE  Keeps(j)
<1>1. QueueInv(i, due)
  BY DEF KeptInv
<1>2. PICK n : n = mine[t]
  OBVIOUS
<1>3. PICK last : last = local[t].node
  OBVIOUS
<1>4. /\ target'[t] = n
      /\ pred' = [pred EXCEPT ![n] = last]
      /\ \A u \in Thread : u # t => target'[u] = target[u] /\ won'[u] = won[u]
      /\ n \in Node /\ n \notin InList /\ n # last /\ InList' = InList \union {n}
      /\ j \in [Node -> Int] /\ j[n] = i[last] + 1 /\ \A m \in InList : j[m] = i[m]
      /\ i[last] = local[t].version /\ i[last] \in Nat
      /\ \A m \in InList : i[m] <= i[last] /\ (m # last => i[m] < i[last])
      /\ \A x \in Sides : llsc[x].version <= i[last]
      /\ llsc["tail"].version = i[last]
  BY <1>1, <1>2, <1>3, AppendFrame
<1>5. /\ t \in Thread /\ pc[t] = "link"
      /\ exit[n] = NewExit /\ last \in InList
      /\ llsc' = llsc /\ exit' = exit /\ free' = free /\ local' = local /\ mine' = mine
      /\ before' = before
      /\ \A m \in InList : pred'[m] = pred[m]
      /\ pc'[t] = "swing"
      /\ \A u \in Thread : u # t => pc'[u] = pc[u]
  BY <1>1, <1>2, <1>3, LinkFrame
<1>6. pred'[n] = last
  BY <1>1, <1>4 DEF QueueInv, QueueTypeOK
<1>7. /\ \A m \in InList : i[m] \in Int
      /\ "head" \in Sides /\ "tail" \in Sides
      /\ \A x \in Sides : llsc[x].version \in Nat
  BY <1>1 DEF QueueInv, QueueTypeOK, Ends, IndexedOK, InList, Sides
<1>8. ~ Clean(exit[n]) /\ ~ exit[n].to_be_freed
  BY <1>5 DEF NewExit, Clean
<1>9. FreedOK'
  BY <1>4, <1>5, <1>8 DEF KeptInv, FreedOK, Freeable
<1>10. \A m : Claimed(m)' <=> Claimed(m)
  <2>1. \A u \in Consumer : target'[u] = target[u] /\ (won'[u] <=> won[u])
    BY <1>4, ThreadSides
  <2>2. QED
    BY <1>5, <2>1 DEF Claimed
<1>11. Other("head")' = Other("head") /\ Current("head")' = Current("head")
  BY <1>5 DEF Other, Current
<1>12. Current("head") \in InList /\ Other("head") \in InList
  <2>1. Current("head") \in InList /\ ~ Clean(exit[Current("head")])
    BY <1>1, <1>7, PointerNumbers
  <2>2. pred[Current("head")] \in InList
    BY <1>1, <2>1 DEF QueueInv, PredecessorsOK
  <2>3. QED
    BY <1>1, <1>7, <2>1, <2>2 DEF QueueInv, PointersOK
<1>13. PassedOK(j)'
  <2>1. ASSUME NEW m \in InList', m \notin {Node0, Node1},
               j[m] <= llsc["head"].version \/ m = Other("head")
        PROVE  Claimed(m)
    <3>1. m # n
      <4>1. ~ (j[n] <= llsc["head"].version)
        BY <1>4, <1>7
      <4>2. QED
        BY <1>4, <1>12, <2>1, <4>1
    <3>2. m \in InList /\ j[m] = i[m]
      BY <1>4, <3>1
    <3>3. QED
      BY <2>1, <3>2 DEF KeptInv, PassedOK
  <2>2. QED
    BY <1>5, <1>10, <1>11, <2>1 DEF PassedOK
<1>14. FirstsOK(j)'
  BY <1>4, <1>10 DEF KeptInv, FirstsOK
<1>15. MarksOK(j)'
  <2>1. ASSUME NEW k \in InList'
        PROVE  \/ exit[k].nl_p
               \/ \E u \in Thread : before[u] = k
               \/ \E m \in InList' : j[m] = j[k] + 1 /\ pred'[m] = k /\ ~ Clean(exit[m])
               \/ \A m \in InList' : j[m] <= j[k]
    <3>1. CASE k = n
      BY <1>4, <1>7, <3>1
    <3>2. CASE k = last
      <4>1. n \in InList' /\ j[n] = j[k] + 1 /\ pred'[n] = k
        BY <1>4, <1>5, <1>6, <3>2
      <4>2. QED
        BY <1>8, <4>1
    <3>3. CASE k # n /\ k # last
      <4>1. k \in InList /\ j[k] = i[k]
        BY <1>4, <3>3
      <4>2. ~ \A m \in InList : i[m] <= i[k]
        <5>1. i[k] < i[last]
          BY <1>4, <3>3, <4>1
        <5>2. QED
          BY <1>5, <1>7, <4>1, <5>1
      <4>3. CASE \E m \in InList : i[m] = i[k] + 1 /\ pred[m] = k /\ ~ Clean(exit[m])
        <5>1. PICK m \in InList : i[m] = i[k] + 1 /\ pred[m] = k /\ ~ Clean(exit[m])
          BY <4>3
        <5>2. m \in InList' /\ j[m] = j[k] + 1 /\ pred'[m] = k
          BY <1>4, <1>5, <4>1, <5>1
        <5>3. QED
          BY <5>1, <5>2
      <4>4. QED
        BY <4>1, <4>2, <4>3 DEF KeptInv, MarksOK
    <3>4. QED
      BY <3>1, <3>2, <3>3
  <2>2. QED
    BY <1>5, <2>1 DEF MarksOK
<1>16. LaggardsOK(j)'
  <2>1. ASSUME NEW m \in InList', j[m] > llsc["tail"].version
        PROVE  /\ j[m] = llsc["tail"].version + 1
               /\ \E u \in Producer : pc'[u] \in {"swing", "advance"}
                                      /\ local[u].version = llsc["tail"].version
    <3>1. m = n
      BY <1>4, <1>7, <2>1
    <3>2. QED
      BY <1>4, <1>5, <3>1
  <2>2. ASSUME Other("head") # pred[Current("head")]
        PROVE  \E u \in Consumer : pc'[u] = "advance" /\ local[u].version = llsc["head"].version
    <3>1. PICK u \in Consumer : pc[u] = "advance" /\ local[u].version = llsc["head"].version
      BY <2>2 DEF KeptInv, LaggardsOK
    <3>2. u # t /\ u \in Thread
      BY ThreadSides
    <3>3. QED
      BY <1>5, <3>1, <3>2
  <2>3. QED
    BY <1>5, <1>11, <1>12, <2>1, <2>2 DEF LaggardsOK
<1>17. QED
  BY <1>9, <1>13, <1>14, <1>15, <1>16 DEF Keeps

KeptIInv == \E i, due : KeptInv(i, due)

\* At first there are the two nodes, the second one before the first.
LEMMA KeptInitial ==
    ASSUME QueueInit
    PROVE  KeptIInv
<1>1. PICK i, due : i[Node0] = 0 /\ i[Node1] = -1 /\ QueueInv(i, due)
  BY QueueInitial
<1>2. Node0 \in Node /\ Node1 \in Node /\ Node0 # Node1 /\ Null \notin Node
  BY QueueAssumption
<1>3. InList = {Node0, Node1}
  <2>1. Private = {}
    BY ThreadSides DEF QueueInit, Private
  <2>2. QED
    BY <1>2, <2>1 DEF QueueInit, InList
<1>4. /\ \A t \in Thread : ~ won[t]
      /\ exit[Node0] = NewExit /\ ~ exit[Node1].nl_p /\ ~ exit[Node1].to_be_freed
      /\ pred[Node0] = Node1
  BY <1>2 DEF QueueInit, NewExit
<1>5. FreedOK
  BY <1>3, <1>4 DEF FreedOK, Freeable, NewExit
<1>6. PassedOK(i)
  BY <1>3 DEF PassedOK
<1>7. FirstsOK(i)
  BY <1>1, <1>3, <1>4, ThreadSides DEF FirstsOK, Claimed, NewExit
<1>8. MarksOK(i)
  BY <1>1, <1>3, <1>4 DEF MarksOK, Clean, NewExit
<1>9. LaggardsOK(i)
  <2>1. \A x \in Sides : llsc[x] = [ptr |-> [k \in 0 .. 1 |-> IF k = 0 THEN Node0 ELSE Node1],
                                    version |-> 0, count |-> 0]
    BY DEF QueueInit, Sides
  <2>2. NonCurrent(0) = 1 /\ 0 % 2 = 0
    BY DEF NonCurrent
  <2>3. PICK p : p = [k \in 0 .. 1 |-> IF k = 0 THEN Node0 ELSE Node1]
    OBVIOUS
  <2>4. \A x \in Sides : llsc[x] = [ptr |-> p, version |-> 0, count |-> 0]
    BY <2>1, <2>3
  <2>5. \A x \in Sides : llsc[x].ptr = p /\ llsc[x].version = 0
    BY <2>4
  <2>6. p[0] = Node0 /\ p[1] = Node1
    BY <2>3
  <2>7. \A x \in Sides : Current(x) = Node0 /\ Other(x) = Node1
    BY <2>2, <2>5, <2>6 DEF Current, Other
  <2>8. "head" \in Sides /\ "tail" \in Sides
    BY DEF Sides
  <2>9. QED
    BY <1>1, <1>3, <1>4, <2>5, <2>7, <2>8 DEF LaggardsOK
<1>10. QED
  BY <1>1, <1>5, <1>6, <1>7, <1>8, <1>9 DEF KeptInv, KeptIInv

\* Both halves of the invariant together.
LEMMA KeptNext ==
    ASSUME NEW j, Keeps(j), \E d : QueueInv(j, d)'
    PROVE  KeptIInv'
BY DEF Keeps, KeptInv, KeptIInv

LEMMA KeptStep ==
    ASSUME KeptIInv, [QueueNext]_queueVars
    PROVE  KeptIInv'
<1>1. PICK i, due : KeptInv(i, due)
  BY DEF KeptIInv
<1>2. QueueInv(i, due)
  BY <1>1 DEF KeptInv
<1>3. ASSUME NEW t \in Thread, StoreConditional(t)
      PROVE  KeptIInv'
  <2>1. CASE Swing(t)
    BY <1>1, <1>2, <2>1, SwingStep, SwingKeeps, KeptNext
  <2>2. CASE Advance(t)
    BY <1>1, <1>2, <2>2, AdvanceStep, AdvanceKeeps, KeptNext
  <2>3. CASE Advanced(t)
    BY <1>1, <1>2, <2>3, PlaceStep, PlaceKeeps, KeptNext DEF PlaceMove
  <2>4. CASE Transfer(t)
    BY <1>1, <1>2, <2>4, TransferStep, TransferKeeps, KeptNext
  <2>5. CASE Release(t)
    BY <1>1, <1>2, <2>5, ReleaseStep, ReleaseKeeps, KeptNext
  <2>6. CASE SetNlPred(t)
    BY <1>1, <1>2, <2>6, SetNlPredStep, ReleaseKeeps, KeptNext
  <2>7. QED
    BY <1>3, <2>1, <2>2, <2>3, <2>4, <2>5, <2>6 DEF StoreConditional
<1>4. ASSUME NEW t \in Producer, Push(t)
      PROVE  KeptIInv'
  <2>1. t \in Thread
    BY ThreadSides
  <2>2. CASE StartPush(t) \/ Count(t)
    BY <1>1, <1>2, <2>1, <2>2, PlaceStep, PlaceKeeps, KeptNext DEF PlaceMove
  <2>3. CASE Allocate(t) \/ TailAgain(t)
    BY <1>1, <1>2, <2>1, <2>3, ReadStep, ReadKeeps, KeptNext DEF ReadMove
  <2>4. CASE Link(t)
    <3>1. CASE next[local[t].node] # Null
      BY <1>1, <1>2, <2>4, <3>1, LinkHelps, HelpKeeps, KeptNext
    <3>2. CASE next[local[t].node] = Null
      <4>1. PICK j : j = Appended(i, t)
        OBVIOUS
      <4>2. Keeps(j)
        BY <1>1, <2>4, <3>2, <4>1, AppendKeeps
      <4>3. \E d : QueueInv(j, d)'
        BY <1>2, <2>4, <3>2, <4>1, AppendStep
      <4>4. QED
        BY <4>2, <4>3, KeptNext
    <3>3. QED
      BY <3>1, <3>2
  <2>5. QED
    BY <1>4, <2>2, <2>3, <2>4 DEF Push
<1>5. ASSUME NEW t \in Consumer, Pop(t)
      PROVE  KeptIInv'
  <2>1. t \in Thread
    BY ThreadSides
  <2>2. CASE Peek(t) \/ Discount(t)
    BY <1>1, <1>2, <2>1, <2>2, PlaceStep, PlaceKeeps, KeptNext DEF PlaceMove
  <2>3. CASE StartPop(t)
    BY <1>1, <1>2, <2>1, <2>3, ReadStep, ReadKeeps, KeptNext DEF ReadMove
  <2>4. CASE Take(t)
    BY <1>1, <1>2, <2>4, TakeStep, TakeKeeps, KeptNext
  <2>5. QED
    BY <1>5, <2>2, <2>3, <2>4 DEF Pop
<1>6. CASE UNCHANGED queueVars
  <2>1. /\ llsc' = llsc /\ next' = next /\ pred' = pred /\ exit' = exit /\ free' = free /\ pc' = pc
        /\ local' = local /\ mine' = mine /\ target' = target /\ won' = won /\ before' = before
    BY <1>6 DEF queueVars
  <2>2. InList' = InList /\ ClaimsSame
    BY <2>1 DEF InList, Private, ClaimsSame
  <2>3. Other("head")' = Other("head") /\ Current("head")' = Current("head")
    BY <2>1 DEF Other, Current
  <2>4. Keeps(i)
    <3>1. FreedOK' /\ MarksOK(i)'
      BY <1>1, <2>1, <2>2, ListKept
    <3>2. PassedOK(i)' /\ FirstsOK(i)'
      BY <1>1, <2>1, <2>2, <2>3, ClaimsKept
    <3>3. LaggardsOK(i)'
      BY <1>1, <2>1, <2>2, <2>3, LaggardsKept
    <3>4. QED
      BY <3>1, <3>2, <3>3 DEF Keeps
  <2>5. QueueInv(i, due)'
    BY <1>2, <1>6, QueueStutters
  <2>6. QED
    BY <2>4, <2>5, KeptNext
<1>7. QED
  BY <1>3, <1>4, <1>5, <1>6, ThreadSides DEF QueueNext

\* Once all are out of the queue, nobody can free a node any more: what is
\* still there is the queue's own.
LEMMA IdleKept ==
    ASSUME NEW i, NEW due, KeptInv(i, due), Chained(next), \A t \in Thread : pc[t] = "idle"
    PROVE  Node \ free = {Node0, Node1} \union {llsc["head"].ptr[k] : k \in 0 .. 1}
                         \union {Behind[Current("head")][k] : k \in DOMAIN Behind[Current("head")]}
<1>1. QueueInv(i, due)
  BY DEF KeptInv
<1>2. PICK v : v = llsc["head"].version
  OBVIOUS
<1>3. PICK c : c = Current("head")
  OBVIOUS
<1>4. /\ v \in Nat /\ i[c] = v /\ c \in InList
      /\ pred[c] \in InList /\ i[pred[c]] = v - 1
  BY <1>1, <1>2, <1>3, FirstNode
<1>5. "head" \in Sides /\ "tail" \in Sides
  BY DEF Sides
<1>6. Other("head") = pred[c]
  <2>1. \A t \in Consumer : pc[t] = "idle"
    BY ThreadSides
  <2>2. QED
    BY <1>3, <2>1 DEF KeptInv, LaggardsOK
<1>7. \A n \in InList : i[n] <= llsc["tail"].version
  <2>1. \A n \in InList : ~ (i[n] > llsc["tail"].version)
    BY ThreadSides DEF KeptInv, LaggardsOK
  <2>2. \A n \in InList : i[n] \in Int /\ llsc["tail"].version \in Nat
    BY <1>1, <1>5 DEF QueueInv, QueueTypeOK, Ends, IndexedOK, InList
  <2>3. QED
    BY <2>1, <2>2
<1>8. Node \ free = InList
  <2>1. \A t \in Producer : mine[t] = Null
    BY <1>1, ThreadSides DEF QueueInv, PlacesOK
  <2>2. QED
    BY <2>1 DEF InList, Private
<1>9. {llsc["head"].ptr[k] : k \in 0 .. 1} = {c, pred[c]}
  <2>1. PICK p : p = llsc["head"].ptr
    OBVIOUS
  <2>2. p[v % 2] = c /\ p[NonCurrent(v)] = pred[c]
    BY <1>2, <1>3, <1>6, <2>1 DEF Current, Other
  <2>3. {p[k] : k \in 0 .. 1} = {p[0], p[1]}
    OBVIOUS
  <2>4. v % 2 \in {0, 1} /\ NonCurrent(v) \in {0, 1} /\ NonCurrent(v) # v % 2
    BY <1>4, Parity
  <2>5. QED
    BY <2>1, <2>2, <2>3, <2>4
<1>10. PICK s : Chain(next, c, s)
  BY <1>4 DEF Chained, InList
<1>11. Behind[c] = s /\ s \in Seq(Node) /\ Len(s) \in Nat /\ DOMAIN s = 1 .. Len(s)
  <2>1. c \in Node /\ next \in [Node -> Node \union {Null}]
    BY <1>1, <1>4 DEF QueueInv, QueueTypeOK, InList
  <2>2. Behind[c] = s
    BY <1>10, <2>1, BehindIs DEF Behind
  <2>3. QED
    BY <1>10, <2>2 DEF Chain
<1>12. /\ \A k \in 0 .. Len(s) : At(c, s, k) \in InList /\ i[At(c, s, k)] = v + k
       /\ \A m \in InList : i[m] <= v + Len(s)
  <2>1. llsc["head"].version <= i[c]
    BY <1>2, <1>4
  <2>2. QED
    BY <1>1, <1>4, <1>10, <2>1, AheadLinked
<1>13. PICK B : B = {s[k] : k \in DOMAIN s}
  OBVIOUS
<1>14. B \subseteq InList
  <2>1. \A k \in 1 .. Len(s) : s[k] \in InList
    BY <1>11, <1>12 DEF At
  <2>2. QED
    BY <1>11, <1>13, <2>1
<1>15. Node0 \in InList /\ Node1 \in InList
  BY DEF KeptInv, FirstsOK
<1>16. ASSUME NEW n \in InList
       PROVE  n \in {Node0, Node1, c, pred[c]} \union B
  <2>1. i[n] \in Int
    BY <1>1 DEF QueueInv, IndexedOK, InList
  <2>2. CASE i[n] >= v
    <3>1. PICK k \in 0 .. Len(s) : k = i[n] - v
      BY <1>4, <1>11, <1>12, <2>1, <2>2
    <3>2. n = At(c, s, k)
      BY <1>1, <1>4, <1>12, <2>1, <3>1 DEF QueueInv, IndexedOK
    <3>3. k # 0 => k \in DOMAIN s
      BY <1>11
    <3>4. QED
      BY <1>13, <3>2, <3>3 DEF At
  <2>3. CASE i[n] = v - 1
    BY <1>1, <1>4, <2>3 DEF QueueInv, IndexedOK
  <2>4. CASE i[n] < v - 1 /\ n \notin {Node0, Node1}
    <3>1. \A m \in InList : i[m] < v => Clean(exit[m])
      <4>1. ASSUME NEW m \in InList, i[m] < v
            PROVE  Clean(exit[m])
        <5>1. Readers(m) = {}
          <6>1. m # Null
            BY QueueAssumption DEF InList
          <6>2. \A t \in Thread : local[t].node = Null
            BY <1>1 DEF QueueInv, PlacesOK, Reading
          <6>3. QED
            BY <6>1, <6>2 DEF Readers
        <5>2. \A x \in Sides : ~ Transferring(x, m)
          BY DEF Transferring
        <5>3. v <= llsc["tail"].version /\ llsc["tail"].version \in Nat
          BY <1>1, <1>4, <1>5, <1>7 DEF QueueInv, QueueTypeOK, Ends
        <5>4. \A x \in Sides : ~ (llsc[x].version <= i[m])
          <6>1. i[m] \in Int
            BY <1>1 DEF QueueInv, IndexedOK, InList
          <6>2. QED
            BY <1>2, <1>4, <4>1, <5>3, <6>1 DEF Sides
        <5>5. exit[m].transfers_left = 0
          BY <1>1, <5>2, <5>4, CleanUnread DEF Open
        <5>6. QED
          BY <1>1, <5>1, <5>5, CleanUnread
      <4>2. QED
        BY <4>1
    <3>2. exit[n].to_be_freed
      <4>1. Claimed(n)
        BY <1>2, <1>4, <2>1, <2>4 DEF KeptInv, PassedOK
      <4>2. \A t \in Consumer : ~ won[t]
        BY <1>1, ThreadSides DEF QueueInv, PlacesOK
      <4>3. QED
        BY <4>1, <4>2 DEF Claimed
    <3>3. exit[n].nl_p
      <4>1. n # Null /\ \A t \in Thread : before[t] = Null
        BY <1>1, QueueAssumption DEF QueueInv, PlacesOK, InList
      <4>2. ~ \A m \in InList : i[m] <= i[n]
        BY <1>4, <2>1, <2>4
      <4>3. \A m \in InList : i[m] = i[n] + 1 => Clean(exit[m])
        BY <1>4, <2>1, <2>4, <3>1
      <4>4. QED
        BY <4>1, <4>2, <4>3 DEF KeptInv, MarksOK
    <3>4. Clean(exit[n])
      BY <1>4, <2>1, <2>4, <3>1
    <3>5. QED
      BY <3>2, <3>3, <3>4 DEF KeptInv, FreedOK, Freeable
  <2>5. QED
    BY <1>4, <2>1, <2>2, <2>3, <2>4
<1>17. InList = {Node0, Node1} \union {c, pred[c]} \union B
  BY <1>4, <1>14, <1>15, <1>16
<1>18. {Behind[c][k] : k \in DOMAIN Behind[c]} = B
  BY <1>11, <1>13
<1>19. QED
  BY <1>3, <1>8, <1>9, <1>17, <1>18

\* No node is lost: when all the threads are outside, those that are not free
\* are the first two, the head's and those that the queue holds.
THEOREM NothingLostHolds == QueueSpec => []NothingLost
<1>1. QueueInit => FifoIInv /\ KeptIInv
  BY FifoInitial, KeptInitial
<1>2. FifoIInv /\ KeptIInv /\ [QueueNext]_queueVars => (FifoIInv /\ KeptIInv)'
  BY FifoStep, KeptStep
<1>3. FifoIInv /\ KeptIInv => NothingLost
  BY IdleKept DEF FifoIInv, FifoInv, KeptIInv, NothingLost
<1>4. QED
  BY <1>1, <1>2, <1>3, PTL DEF QueueSpec

\* Memory is freed as soon as nobody looks at it any more, and not sooner.
THEOREM MemoryKeptHolds == QueueSpec => []MemoryKept
BY NeverTouchesFreedHolds, NothingLostHolds, PTL DEF MemoryKept
=============================================================================
