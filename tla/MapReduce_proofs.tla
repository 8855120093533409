-------------------------- MODULE MapReduce_proofs --------------------------
(* That a reducer which only counts empty contexts misses no message,       *)
(* proved for any number of mappers and reducers, any messages and any size *)
(* of the queues.                                                           *)
EXTENDS MapReduce, FiniteSetTheorems, SequenceTheorems, TLAPS

Items == [from : Mapper, index : Nat]

\* The mappers whose admitted push is for reducer r.
Admitted(r) == {m \in admitted : Target(m, sent[m] + 1) = r}

\* The mappers whose empty context reducer r has popped.
Heard(r) == {m \in Mapper : Item(m, Len(To[m]) + 1 + r) \in popped[r]}

TypeInv ==
    /\ sent \in [Mapper -> Nat]
    /\ admitted \subseteq Mapper
    /\ uncounted \subseteq Mapper
    /\ admitted \intersect uncounted = {}
    /\ queue \in [Reducer -> Seq(Items)]
    /\ num_empty \in [Reducer -> Nat]
    /\ stopped \subseteq Reducer
    /\ popped \in [Reducer -> SUBSET Items]
    /\ \A m \in Mapper : sent[m] <= Total(m)
    /\ \A m \in admitted : sent[m] < Total(m)

\* The room that the admitted pushes may take.
RoomInv ==
    \A r \in Reducer :
        Len(queue[r]) + Cardinality(Admitted(r)) < Capacity + Cardinality(Mapper)

\* An item is on its way to, or was popped by, the reducer it is for.
Delivered(r, item) ==
    /\ 1 <= item.index
    /\ item.index <= sent[item.from]
    /\ Target(item.from, item.index) = r

\* What is queued was pushed, and no item overtakes one of the same mapper.
QueueInv ==
    \A r \in Reducer :
        /\ \A i \in 1 .. Len(queue[r]) : Delivered(r, queue[r][i])
        /\ \A i, j \in 1 .. Len(queue[r]) :
              i < j /\ queue[r][i].from = queue[r][j].from
              => queue[r][i].index < queue[r][j].index

\* What was popped came before all that is queued.
PoppedInv ==
    \A r \in Reducer : \A item \in popped[r] :
        /\ Delivered(r, item)
        /\ \A i \in 1 .. Len(queue[r]) :
              queue[r][i].from = item.from => item.index < queue[r][i].index

\* What was pushed is queued or was popped.
SentInv ==
    \A m \in Mapper : \A n \in 1 .. sent[m] :
        LET r == Target(m, n)
        IN  \/ Item(m, n) \in popped[r]
            \/ \E i \in 1 .. Len(queue[r]) : queue[r][i] = Item(m, n)

\* A reducer counts each mapper once, and stops when it has counted them all.
CountInv ==
    /\ \A r \in Reducer : num_empty[r] = Cardinality(Heard(r))
    /\ \A r \in stopped : num_empty[r] >= Cardinality(Mapper)

IInv == TypeInv /\ RoomInv /\ QueueInv /\ PoppedInv /\ SentInv /\ CountInv

-----------------------------------------------------------------------------

\* A message of a mapper is for one of the reducers.
LEMMA TargetType ==
    ASSUME NEW m \in Mapper
    PROVE  /\ Total(m) \in Nat
           /\ Len(To[m]) \in Nat
           /\ \A i \in 1 .. Total(m) : Target(m, i) \in Reducer
           /\ \A r \in Reducer : /\ Len(To[m]) + 1 + r \in 1 .. Total(m)
                                 /\ Target(m, Len(To[m]) + 1 + r) = r
<1>1. To[m] \in Seq(Reducer) /\ Reducers \in Nat
  BY MapReduceAssumption
<1>2. Len(To[m]) \in Nat
  BY <1>1
<1>3. Total(m) \in Nat
  BY <1>1, <1>2 DEF Total
<1>4. ASSUME NEW i \in 1 .. Total(m) PROVE Target(m, i) \in Reducer
  <2>1. CASE i <= Len(To[m])
    BY <1>1, <1>2, <2>1, ElementOfSeq DEF Target
  <2>2. CASE ~ (i <= Len(To[m]))
    BY <1>1, <1>2, <2>2 DEF Target, Total, Reducer
  <2>3. QED
    BY <2>1, <2>2
<1>5. ASSUME NEW r \in Reducer
      PROVE  Len(To[m]) + 1 + r \in 1 .. Total(m) /\ Target(m, Len(To[m]) + 1 + r) = r
  BY <1>1, <1>2 DEF Target, Total, Reducer
<1>6. QED
  BY <1>2, <1>3, <1>4, <1>5

\* A reducer is a natural number, and a mapper ends with it only once.
LEMMA EmptyIndex ==
    ASSUME NEW m \in Mapper, NEW i \in Nat, i > Len(To[m]),
           NEW r \in Reducer, Target(m, i) = r
    PROVE  i = Len(To[m]) + 1 + r
<1>1. Len(To[m]) \in Nat /\ r \in Nat
  BY TargetType DEF Reducer
<1>2. r = i - Len(To[m]) - 1
  BY <1>1 DEF Target
<1>3. \A n, k \in Nat : k = i - n - 1 => i = n + 1 + k
  OBVIOUS
<1>4. QED
  BY <1>1, <1>2, <1>3

\* The sets that are counted are finite, and there is room in a queue.
LEMMA Finite ==
    ASSUME TypeInv
    PROVE  /\ Cardinality(Mapper) \in Nat
           /\ Capacity \in Nat \ {0}
           /\ \A S \in SUBSET Mapper : /\ IsFiniteSet(S)
                                       /\ Cardinality(S) \in Nat
                                       /\ Cardinality(S) <= Cardinality(Mapper)
           /\ \A r : /\ Admitted(r) \in SUBSET Mapper
                     /\ Uncounted(r) \in SUBSET Mapper
                     /\ Heard(r) \in SUBSET Mapper
<1>1. IsFiniteSet(Mapper) /\ Capacity \in Nat \ {0}
  BY MapReduceAssumption
<1>2. \A S \in SUBSET Mapper : IsFiniteSet(S) /\ Cardinality(S) <= Cardinality(Mapper)
  BY <1>1, FS_Subset
<1>3. \A S \in SUBSET Mapper : Cardinality(S) \in Nat
  BY <1>2, FS_CardinalityType
<1>4. \A r : /\ Admitted(r) \in SUBSET Mapper
            /\ Uncounted(r) \in SUBSET Mapper
            /\ Heard(r) \in SUBSET Mapper
  BY DEF Admitted, Uncounted, Heard, TypeInv
<1>5. QED
  BY <1>1, <1>2, <1>3, <1>4

\* Everything is empty at first.
LEMMA InitInv == Init => IInv
<1> SUFFICES ASSUME Init PROVE IInv
  OBVIOUS
<1>1. TypeInv
  <2>1. queue \in [Reducer -> Seq(Items)]
    BY DEF Init
  <2>2. popped \in [Reducer -> SUBSET Items]
    BY DEF Init
  <2>3. \A m \in Mapper : sent[m] <= Total(m)
    BY TargetType DEF Init
  <2>4. QED
    BY <2>1, <2>2, <2>3 DEF Init, TypeInv
<1>2. \A r \in Reducer : Len(queue[r]) = 0 /\ Admitted(r) = {} /\ Heard(r) = {}
  BY DEF Init, Admitted, Heard
<1>3. Cardinality({}) = 0
  BY FS_EmptySet
<1>4. RoomInv
  BY <1>1, <1>2, <1>3, Finite DEF RoomInv
<1>5. QueueInv /\ PoppedInv /\ SentInv
  BY <1>2 DEF Init, QueueInv, PoppedInv, SentInv
<1>6. CountInv
  BY <1>2, <1>3 DEF Init, CountInv
<1>7. QED
  BY <1>1, <1>4, <1>5, <1>6 DEF IInv

-----------------------------------------------------------------------------

\* An admission only takes room.
LEMMA AdmitInv == ASSUME IInv, NEW m \in Mapper, Admit(m) PROVE IInv'
<1> USE DEF IInv
<1>1. TypeInv'
  BY DEF TypeInv, Admit, Total
<1>2. RoomInv'
  <2> SUFFICES ASSUME NEW r \in Reducer
               PROVE  Len(queue'[r]) + Cardinality(Admitted(r)') < Capacity + Cardinality(Mapper)
    BY DEF RoomInv
  <2>1. Len(queue[r]) \in Nat /\ queue' = queue
    BY DEF TypeInv, Admit
  <2>2. /\ Cardinality(Admitted(r)') \in Nat
        /\ Cardinality(Uncounted(r)) \in Nat
        /\ Cardinality(Uncounted(r)) + Cardinality(Admitted(r)') <= Cardinality(Mapper)
    <3>1. Admitted(r)' \in SUBSET Mapper /\ Uncounted(r) \in SUBSET Mapper
      BY <1>1, Finite DEF Admitted, TypeInv
    <3>2. Uncounted(r) \intersect Admitted(r)' = {}
      BY DEF Uncounted, Admitted, Admit, TypeInv
    <3>3. /\ IsFiniteSet(Admitted(r)') /\ IsFiniteSet(Uncounted(r))
          /\ Cardinality(Admitted(r)') \in Nat
          /\ Cardinality(Uncounted(r)) \in Nat
          /\ Cardinality(Uncounted(r) \union Admitted(r)') <= Cardinality(Mapper)
      BY <3>1, Finite
    <3>4. Cardinality(Uncounted(r) \union Admitted(r)')
            = Cardinality(Uncounted(r)) + Cardinality(Admitted(r)')
      <4>1. Cardinality(Uncounted(r) \union Admitted(r)')
              = Cardinality(Uncounted(r)) + Cardinality(Admitted(r)')
                - Cardinality(Uncounted(r) \intersect Admitted(r)')
        BY <3>3, FS_Union
      <4>2. Cardinality(Uncounted(r) \intersect Admitted(r)') = 0
        BY <3>2, FS_EmptySet
      <4>3. QED
        BY <3>3, <4>1, <4>2
    <3>5. QED
      BY <3>3, <3>4
  <2>3. CASE r = Target(m, sent[m] + 1)
    <3>1. Len(queue[r]) - Cardinality(Uncounted(r)) < Capacity
      BY <2>3 DEF Admit, Room
    <3>2. QED
      BY <2>1, <2>2, <3>1, Finite
  <2>4. CASE r # Target(m, sent[m] + 1)
    <3>1. Admitted(r)' = Admitted(r)
      BY <2>4 DEF Admit, Admitted, Target
    <3>2. QED
      BY <2>1, <3>1 DEF RoomInv
  <2>5. QED
    BY <2>3, <2>4
<1>3. QueueInv' /\ PoppedInv' /\ SentInv'
  BY DEF Admit, QueueInv, PoppedInv, SentInv, Delivered
<1>4. CountInv'
  BY DEF Admit, CountInv, Heard
<1>5. QED
  BY <1>1, <1>2, <1>3, <1>4

\* Counting a node that was linked changes nothing else.
LEMMA CountsInv == ASSUME IInv, NEW m \in Mapper, Count(m) PROVE IInv'
<1> USE DEF IInv
<1>1. TypeInv'
  BY DEF TypeInv, Count, Total
<1>2. RoomInv' /\ CountInv'
  BY DEF Count, RoomInv, Admitted, CountInv, Heard
<1>3. QueueInv' /\ PoppedInv' /\ SentInv'
  BY DEF Count, QueueInv, PoppedInv, SentInv, Delivered
<1>4. QED
  BY <1>1, <1>2, <1>3

\* A reducer that stops changes nothing that is counted.
LEMMA StopInv == ASSUME IInv, NEW r \in Reducer, Stop(r) PROVE IInv'
<1> USE DEF IInv
<1>1. TypeInv'
  BY DEF TypeInv, Stop, Total
<1>2. RoomInv'
  BY DEF Stop, RoomInv, Admitted
<1>3. QueueInv' /\ PoppedInv' /\ SentInv'
  BY DEF Stop, QueueInv, PoppedInv, SentInv, Delivered
<1>4. CountInv'
  BY DEF Stop, AllEnded, CountInv, Heard
<1>5. QED
  BY <1>1, <1>2, <1>3, <1>4

\* Neither does a step that leaves everything as it is.
LEMMA StutterInv == ASSUME IInv, UNCHANGED vars PROVE IInv'
<1> USE DEF vars, IInv
<1>1. TypeInv'
  BY DEF TypeInv, Total
<1>2. RoomInv' /\ CountInv'
  BY DEF RoomInv, Admitted, CountInv, Heard
<1>3. QueueInv' /\ PoppedInv' /\ SentInv'
  BY DEF QueueInv, PoppedInv, SentInv, Delivered
<1>4. QED
  BY <1>1, <1>2, <1>3

-----------------------------------------------------------------------------

\* What a push does to its queue.
LEMMA PushQueue ==
    ASSUME TypeInv, NEW m \in Mapper, Push(m), NEW r, r = Target(m, sent[m] + 1)
    PROVE  /\ r \in Reducer
           /\ m \in admitted
           /\ sent[m] \in Nat
           /\ sent[m] + 1 <= Total(m)
           /\ Item(m, sent[m] + 1) \in Items
           /\ sent'[m] = sent[m] + 1
           /\ \A k \in Mapper : k # m => sent'[k] = sent[k]
           /\ queue'[r] \in Seq(Items)
           /\ Len(queue[r]) \in Nat
           /\ Len(queue'[r]) = Len(queue[r]) + 1
           /\ \A i \in 1 .. Len(queue[r]) : queue'[r][i] = queue[r][i]
           /\ queue'[r][Len(queue[r]) + 1] = Item(m, sent[m] + 1)
           /\ \A x \in Reducer : x # r => queue'[x] = queue[x]
<1>1. m \in admitted /\ sent[m] \in Nat /\ Total(m) \in Nat /\ sent[m] < Total(m)
  BY TargetType DEF TypeInv, Push
<1>2. r \in Reducer
  BY <1>1, TargetType
<1>3. Item(m, sent[m] + 1) \in Items
  BY <1>1 DEF Item, Items
<1>4. queue[r] \in Seq(Items)
  BY <1>2 DEF TypeInv
<1>5. queue'[r] = Append(queue[r], Item(m, sent[m] + 1))
  BY <1>2 DEF Push, TypeInv
<1>6. \A x \in Reducer : x # r => queue'[x] = queue[x]
  BY <1>2 DEF Push, TypeInv
<1>7. sent'[m] = sent[m] + 1 /\ \A k \in Mapper : k # m => sent'[k] = sent[k]
  BY DEF Push, TypeInv
<1>8. /\ queue'[r] \in Seq(Items)
      /\ Len(queue[r]) \in Nat
      /\ Len(queue'[r]) = Len(queue[r]) + 1
      /\ \A i \in 1 .. Len(queue[r]) : queue'[r][i] = queue[r][i]
      /\ queue'[r][Len(queue[r]) + 1] = Item(m, sent[m] + 1)
  BY <1>3, <1>4, <1>5, AppendProperties
<1>9. QED
  BY <1>1, <1>2, <1>3, <1>6, <1>7, <1>8

\* What was on its way stays so when more is sent.
LEMMA StillDelivered ==
    ASSUME TypeInv, NEW m \in Mapper, Push(m), NEW r \in Reducer,
           NEW item \in Items, Delivered(r, item)
    PROVE  Delivered(r, item)'
<1>1. item.from \in Mapper /\ item.index \in Nat
  BY DEF Items
<1>2. sent[item.from] \in Nat /\ sent'[item.from] \in Nat /\ sent[item.from] <= sent'[item.from]
  <2>1. \A k \in Mapper : sent[k] \in Nat
    BY DEF TypeInv
  <2>2. sent'[m] = sent[m] + 1 /\ \A k \in Mapper : k # m => sent'[k] = sent[k]
    BY PushQueue
  <2>3. QED
    BY <1>1, <2>1, <2>2
<1>3. item.index <= sent[item.from] => item.index <= sent'[item.from]
  BY <1>1, <1>2
<1>4. QED
  BY <1>3 DEF Delivered, Target

\* A push adds at the end what is newer than anything of its mapper.
LEMMA PushInv == ASSUME IInv, NEW m \in Mapper, Push(m) PROVE IInv'
<1>a. TypeInv /\ RoomInv /\ QueueInv /\ PoppedInv /\ SentInv /\ CountInv
  BY DEF IInv
<1>0. PICK r, new : r = Target(m, sent[m] + 1) /\ new = Item(m, sent[m] + 1)
  OBVIOUS
<1>b. /\ r \in Reducer
      /\ m \in admitted
      /\ sent[m] \in Nat
      /\ sent[m] + 1 <= Total(m)
      /\ new \in Items
      /\ new.from = m /\ new.index = sent[m] + 1
      /\ sent'[m] = sent[m] + 1
      /\ \A k \in Mapper : k # m => sent'[k] = sent[k]
      /\ queue'[r] \in Seq(Items)
      /\ Len(queue[r]) \in Nat
      /\ Len(queue'[r]) = Len(queue[r]) + 1
      /\ \A i \in 1 .. Len(queue[r]) : queue'[r][i] = queue[r][i]
      /\ queue'[r][Len(queue[r]) + 1] = new
      /\ \A x \in Reducer : x # r => queue'[x] = queue[x]
  <2>1. new.from = m /\ new.index = sent[m] + 1
    BY <1>0 DEF Item
  <2>2. QED
    BY <1>0, <1>a, <2>1, PushQueue
<1>c. /\ admitted' = admitted \ {m}
      /\ uncounted' = uncounted \union {m}
      /\ UNCHANGED <<num_empty, stopped, popped>>
  BY DEF Push
<1>d. \A k \in Mapper : sent[k] \in Nat
  BY <1>a DEF TypeInv
<1>e. \A x \in Reducer : /\ queue[x] \in Seq(Items)
                         /\ Len(queue[x]) \in Nat
                         /\ \A i \in 1 .. Len(queue[x]) : queue[x][i] \in Items
                         /\ popped[x] \in SUBSET Items
  <2>1. \A x \in Reducer : queue[x] \in Seq(Items) /\ popped[x] \in SUBSET Items
    BY <1>a DEF TypeInv
  <2>2. QED
    BY <2>1, ElementOfSeq, LenProperties
<1>f. Delivered(r, new)'
  BY <1>0, <1>b DEF Delivered
<1>1. TypeInv'
  <2>1. sent' \in [Mapper -> Nat]
    BY <1>a DEF Push, TypeInv
  <2>2. queue' \in [Reducer -> Seq(Items)]
    <3>1. \A x \in Reducer : queue'[x] \in Seq(Items)
      BY <1>b, <1>e
    <3>2. DOMAIN queue' = Reducer /\ queue' = [x \in Reducer |-> queue'[x]]
      BY <1>a DEF Push, TypeInv
    <3>3. QED
      BY <3>1, <3>2
  <2>3. \A k \in Mapper : sent'[k] <= Total(k)
    BY <1>a, <1>b DEF TypeInv
  <2>4. \A k \in admitted' : sent'[k] < Total(k)
    BY <1>a, <1>b, <1>c DEF TypeInv
  <2>5. QED
    BY <1>a, <1>c, <2>1, <2>2, <2>3, <2>4 DEF TypeInv
<1>2. RoomInv'
  <2> SUFFICES ASSUME NEW x \in Reducer
               PROVE  Len(queue'[x]) + Cardinality(Admitted(x)') < Capacity + Cardinality(Mapper)
    BY DEF RoomInv
  <2>1. Len(queue[x]) + Cardinality(Admitted(x)) < Capacity + Cardinality(Mapper)
    BY <1>a DEF RoomInv
  <2>2. /\ Len(queue[x]) \in Nat
        /\ IsFiniteSet(Admitted(x))
        /\ Cardinality(Admitted(x)) \in Nat
        /\ Cardinality(Mapper) \in Nat
        /\ Capacity \in Nat
    BY <1>a, <1>e, Finite
  <2>3. Admitted(x)' = Admitted(x) \ {m}
    BY <1>a, <1>b, <1>c DEF Admitted, TypeInv
  <2>4. CASE x = r
    <3>1. m \in Admitted(x)
      BY <1>0, <1>b, <2>4 DEF Admitted
    <3>2. Cardinality(Admitted(x)') = Cardinality(Admitted(x)) - 1
      BY <2>2, <2>3, <3>1, FS_RemoveElement
    <3>3. QED
      BY <1>b, <2>1, <2>2, <2>4, <3>2
  <2>5. CASE x # r
    <3>1. m \notin Admitted(x)
      BY <1>0, <2>5 DEF Admitted
    <3>2. Admitted(x)' = Admitted(x) /\ queue'[x] = queue[x]
      BY <1>b, <2>3, <2>5, <3>1
    <3>3. QED
      BY <2>1, <3>2
  <2>6. QED
    BY <2>4, <2>5
<1>3. QueueInv'
  <2>1. ASSUME NEW x \in Reducer, NEW i \in 1 .. Len(queue'[x])
        PROVE  Delivered(x, queue[x][i])'
    <3>1. CASE x = r /\ i = Len(queue[r]) + 1
      BY <1>b, <1>f, <3>1
    <3>2. CASE ~ (x = r /\ i = Len(queue[r]) + 1)
      <4>1. i \in 1 .. Len(queue[x]) /\ queue'[x][i] = queue[x][i]
        BY <1>b, <3>2
      <4>2. Delivered(x, queue[x][i]) /\ queue[x][i] \in Items
        BY <1>a, <1>e, <4>1 DEF QueueInv
      <4>3. sent[queue[x][i].from] <= sent'[queue[x][i].from]
            /\ queue[x][i].from \in Mapper /\ queue[x][i].index \in Nat
        BY <1>b, <1>d, <4>2 DEF Items
      <4>4. sent[queue[x][i].from] \in Nat /\ sent'[queue[x][i].from] \in Nat
        BY <1>1, <1>d, <4>3 DEF TypeInv
      <4>5. queue[x][i].index <= sent'[queue[x][i].from]
        BY <4>2, <4>3, <4>4 DEF Delivered
      <4>6. QED
        BY <4>1, <4>2, <4>5 DEF Delivered
    <3>3. QED
      BY <3>1, <3>2
  <2>2. ASSUME NEW x \in Reducer,
               NEW i \in 1 .. Len(queue'[x]), NEW j \in 1 .. Len(queue'[x]),
               i < j, queue'[x][i].from = queue'[x][j].from
        PROVE  queue'[x][i].index < queue'[x][j].index
    <3>1. CASE x = r /\ j = Len(queue[r]) + 1
      <4>1. i \in 1 .. Len(queue[x]) /\ queue'[x][i] = queue[x][i] /\ queue'[x][j] = new
        BY <1>b, <2>2, <3>1
      <4>2. queue[x][i].index <= sent[m] /\ queue[x][i].index \in Nat
        <5>1. queue[x][i].from = m
          BY <1>b, <2>2, <4>1
        <5>2. Delivered(x, queue[x][i]) /\ queue[x][i] \in Items
          BY <1>a, <1>e, <4>1 DEF QueueInv
        <5>3. QED
          BY <5>1, <5>2 DEF Delivered, Items
      <4>3. QED
        BY <1>b, <4>1, <4>2
    <3>2. CASE ~ (x = r /\ j = Len(queue[r]) + 1)
      <4>1. /\ i \in 1 .. Len(queue[x]) /\ queue'[x][i] = queue[x][i]
            /\ j \in 1 .. Len(queue[x]) /\ queue'[x][j] = queue[x][j]
        <5>1. CASE x # r
          BY <1>b, <5>1
        <5>2. CASE x = r
          <6>1. i \in Nat /\ j \in Nat /\ 1 <= i /\ 1 <= j /\ i < j
                /\ j <= Len(queue[r]) + 1 /\ j # Len(queue[r]) + 1
            BY <1>b, <2>2, <3>2, <5>2
          <6>2. i \in 1 .. Len(queue[r]) /\ j \in 1 .. Len(queue[r])
            BY <1>b, <6>1
          <6>3. QED
            BY <1>b, <5>2, <6>2
        <5>3. QED
          BY <5>1, <5>2
      <4>2. QED
        BY <1>a, <2>2, <4>1 DEF QueueInv
    <3>3. QED
      BY <3>1, <3>2
  <2>3. QED
    BY <2>1, <2>2 DEF QueueInv
<1>4. PoppedInv'
  <2> SUFFICES ASSUME NEW x \in Reducer, NEW item \in popped[x]
               PROVE  /\ Delivered(x, item)'
                      /\ \A i \in 1 .. Len(queue'[x]) :
                            queue'[x][i].from = item.from => item.index < queue'[x][i].index
    BY <1>c DEF PoppedInv
  <2>1. item \in Items /\ Delivered(x, item)
    BY <1>a, <1>e DEF PoppedInv
  <2>2. Delivered(x, item)'
    BY <1>a, <2>1, StillDelivered
  <2>3. ASSUME NEW i \in 1 .. Len(queue'[x]), queue'[x][i].from = item.from
        PROVE  item.index < queue'[x][i].index
    <3>1. CASE x = r /\ i = Len(queue[r]) + 1
      <4>1. item.index \in Nat /\ item.index <= sent[m]
        BY <1>b, <2>1, <2>3, <3>1 DEF Delivered, Items
      <4>2. QED
        BY <1>b, <3>1, <4>1
    <3>2. CASE ~ (x = r /\ i = Len(queue[r]) + 1)
      <4>1. i \in 1 .. Len(queue[x]) /\ queue'[x][i] = queue[x][i]
        BY <1>b, <3>2
      <4>2. QED
        BY <1>a, <2>3, <4>1 DEF PoppedInv
    <3>3. QED
      BY <3>1, <3>2
  <2>4. QED
    BY <2>2, <2>3
<1>5. SentInv'
  <2> SUFFICES ASSUME NEW k \in Mapper, NEW n \in 1 .. sent'[k]
               PROVE  \/ Item(k, n) \in popped[Target(k, n)]
                      \/ \E i \in 1 .. Len(queue'[Target(k, n)]) :
                            queue'[Target(k, n)][i] = Item(k, n)
    BY <1>c DEF SentInv
  <2>1. CASE k = m /\ n = sent[m] + 1
    <3>1. Len(queue[r]) + 1 \in 1 .. Len(queue'[r])
      BY <1>b
    <3>2. QED
      BY <1>0, <1>b, <2>1, <3>1
  <2>2. CASE ~ (k = m /\ n = sent[m] + 1)
    <3>1. n \in 1 .. sent[k]
      BY <1>b, <1>d, <2>2
    <3>2. Target(k, n) \in Reducer
      <4>1. n \in 1 .. Total(k)
        BY <1>a, <1>d, <3>1, TargetType DEF TypeInv
      <4>2. QED
        BY <4>1, TargetType
    <3>3. \/ Item(k, n) \in popped[Target(k, n)]
          \/ \E i \in 1 .. Len(queue[Target(k, n)]) : queue[Target(k, n)][i] = Item(k, n)
      BY <1>a, <3>1 DEF SentInv
    <3>4. \A i \in 1 .. Len(queue[Target(k, n)]) :
             /\ i \in 1 .. Len(queue'[Target(k, n)])
             /\ queue'[Target(k, n)][i] = queue[Target(k, n)][i]
      <4>1. CASE Target(k, n) = r
        <5>1. \A i \in 1 .. Len(queue[r]) : i \in 1 .. Len(queue'[r])
          BY <1>b, <1>e
        <5>2. \A i \in 1 .. Len(queue[r]) : queue'[r][i] = queue[r][i]
          BY <1>b
        <5>3. QED
          BY <4>1, <5>1, <5>2
      <4>2. CASE Target(k, n) # r
        BY <1>b, <3>2, <4>2
      <4>3. QED
        BY <4>1, <4>2
    <3>5. QED
      BY <3>3, <3>4
  <2>3. QED
    BY <2>1, <2>2
<1>6. CountInv'
  BY <1>a, <1>c DEF CountInv, Heard
<1>7. QED
  BY <1>1, <1>2, <1>3, <1>4, <1>5, <1>6 DEF IInv

-----------------------------------------------------------------------------

\* What a pop does to its queue.
LEMMA PopQueue ==
    ASSUME TypeInv, NEW r \in Reducer, Pop(r), NEW item, item = Head(queue[r])
    PROVE  /\ Len(queue[r]) \in Nat
           /\ 1 \in 1 .. Len(queue[r])
           /\ item = queue[r][1]
           /\ item \in Items
           /\ queue'[r] \in Seq(Items)
           /\ Len(queue'[r]) = Len(queue[r]) - 1
           /\ \A i \in 1 .. Len(queue'[r]) : queue'[r][i] = queue[r][i + 1]
           /\ \A x \in Reducer : x # r => queue'[x] = queue[x]
           /\ popped'[r] = popped[r] \union {item}
           /\ \A x \in Reducer : x # r => popped'[x] = popped[x]
<1>1. queue[r] \in Seq(Items) /\ queue[r] # << >>
  BY DEF TypeInv, Pop
<1>2. Len(queue[r]) \in Nat /\ Len(queue[r]) # 0
  BY <1>1, EmptySeq
<1>3. queue'[r] = Tail(queue[r]) /\ \A x \in Reducer : x # r => queue'[x] = queue[x]
  BY DEF Pop, TypeInv
<1>4. /\ item \in Items
      /\ queue'[r] \in Seq(Items)
      /\ Len(queue'[r]) = Len(queue[r]) - 1
      /\ \A i \in 1 .. Len(queue'[r]) : queue'[r][i] = queue[r][i + 1]
  BY <1>1, <1>3, HeadTailProperties
<1>5. item = queue[r][1]
  BY <1>1
<1>6. popped'[r] = popped[r] \union {item} /\ \A x \in Reducer : x # r => popped'[x] = popped[x]
  BY DEF Pop, TypeInv
<1>7. QED
  BY <1>2, <1>3, <1>4, <1>5, <1>6

\* A pop hands on the oldest item; an empty context is the last of its mapper.
LEMMA PopInv == ASSUME IInv, NEW r \in Reducer, Pop(r) PROVE IInv'
<1>a. TypeInv /\ RoomInv /\ QueueInv /\ PoppedInv /\ SentInv /\ CountInv
  BY DEF IInv
<1>0. PICK item : item = Head(queue[r])
  OBVIOUS
<1>b. /\ Len(queue[r]) \in Nat
      /\ 1 \in 1 .. Len(queue[r])
      /\ item = queue[r][1]
      /\ item \in Items
      /\ queue'[r] \in Seq(Items)
      /\ Len(queue'[r]) = Len(queue[r]) - 1
      /\ \A i \in 1 .. Len(queue'[r]) : queue'[r][i] = queue[r][i + 1]
      /\ \A x \in Reducer : x # r => queue'[x] = queue[x]
      /\ popped'[r] = popped[r] \union {item}
      /\ \A x \in Reducer : x # r => popped'[x] = popped[x]
  BY <1>0, <1>a, PopQueue
<1>c. /\ UNCHANGED <<sent, admitted, uncounted, stopped>>
      /\ ~ (num_empty[r] >= Cardinality(Mapper))
      /\ num_empty' = IF IsEmpty(item) THEN [num_empty EXCEPT ![r] = @ + 1] ELSE num_empty
  BY <1>0 DEF Pop, AllEnded
<1>d. \A x \in Reducer : /\ queue[x] \in Seq(Items)
                         /\ Len(queue[x]) \in Nat
                         /\ popped[x] \in SUBSET Items
  BY <1>a, LenProperties DEF TypeInv
<1>e. \A i \in 1 .. Len(queue'[r]) :
         i + 1 \in 1 .. Len(queue[r]) /\ i + 1 > 1 /\ queue'[r][i] = queue[r][i + 1]
  BY <1>b
<1>f. item.from \in Mapper /\ item.index \in Nat /\ item = Item(item.from, item.index)
  BY <1>b DEF Items, Item
<1>g. Delivered(r, item)
  BY <1>a, <1>b DEF QueueInv
<1>h. item \notin popped[r]
  <2> SUFFICES ASSUME item \in popped[r] PROVE FALSE
    OBVIOUS
  <2>1. item.index < item.index
    BY <1>a, <1>b DEF PoppedInv
  <2>2. QED
    BY <1>f, <2>1
<1>1. TypeInv'
  <2>1. queue' \in [Reducer -> Seq(Items)]
    <3>1. \A x \in Reducer : queue'[x] \in Seq(Items)
      BY <1>b, <1>d
    <3>2. queue' = [x \in Reducer |-> queue'[x]]
      BY <1>a DEF Pop, TypeInv
    <3>3. QED
      BY <3>1, <3>2
  <2>2. popped' \in [Reducer -> SUBSET Items]
    <3>1. \A x \in Reducer : popped'[x] \in SUBSET Items
      BY <1>b, <1>d
    <3>2. popped' = [x \in Reducer |-> popped'[x]]
      BY <1>a DEF Pop, TypeInv
    <3>3. QED
      BY <3>1, <3>2
  <2>3. num_empty' \in [Reducer -> Nat]
    BY <1>a, <1>c DEF TypeInv
  <2>4. QED
    BY <1>a, <1>c, <2>1, <2>2, <2>3 DEF TypeInv
<1>2. RoomInv'
  <2> SUFFICES ASSUME NEW x \in Reducer
               PROVE  Len(queue'[x]) + Cardinality(Admitted(x)') < Capacity + Cardinality(Mapper)
    BY DEF RoomInv
  <2>1. Admitted(x)' = Admitted(x)
    BY <1>c DEF Admitted
  <2>2. Len(queue'[x]) <= Len(queue[x]) /\ Len(queue'[x]) \in Nat
    <3>1. CASE x = r
      BY <1>b, <3>1
    <3>2. CASE x # r
      BY <1>b, <1>d, <3>2
    <3>3. QED
      BY <3>1, <3>2
  <2>3. QED
    BY <1>a, <1>d, <2>1, <2>2, Finite DEF RoomInv
<1>3. QueueInv'
  <2>1. ASSUME NEW x \in Reducer, NEW i \in 1 .. Len(queue'[x])
        PROVE  Delivered(x, queue[x][i])'
    <3>1. Delivered(x, queue'[x][i])
      <4>1. CASE x = r
        BY <1>a, <1>e, <4>1 DEF QueueInv
      <4>2. CASE x # r
        BY <1>a, <1>b, <4>2 DEF QueueInv
      <4>3. QED
        BY <4>1, <4>2
    <3>2. QED
      BY <1>c, <3>1 DEF Delivered
  <2>2. ASSUME NEW x \in Reducer,
               NEW i \in 1 .. Len(queue'[x]), NEW j \in 1 .. Len(queue'[x]),
               i < j, queue'[x][i].from = queue'[x][j].from
        PROVE  queue'[x][i].index < queue'[x][j].index
    <3>1. CASE x = r
      <4>1. i + 1 < j + 1
        BY <2>2
      <4>2. QED
        BY <1>a, <1>e, <2>2, <3>1, <4>1 DEF QueueInv
    <3>2. CASE x # r
      BY <1>a, <1>b, <2>2, <3>2 DEF QueueInv
    <3>3. QED
      BY <3>1, <3>2
  <2>3. QED
    BY <2>1, <2>2 DEF QueueInv
<1>4. PoppedInv'
  <2>1. ASSUME NEW x \in Reducer, NEW old \in popped'[x]
        PROVE  /\ Delivered(x, old)'
               /\ \A i \in 1 .. Len(queue'[x]) :
                     queue'[x][i].from = old.from => old.index < queue'[x][i].index
    <3>1. CASE x = r /\ old = item
      <4>1. Delivered(x, old)'
        BY <1>c, <1>g, <3>1 DEF Delivered
      <4>2. \A i \in 1 .. Len(queue'[r]) :
               queue'[r][i].from = item.from => item.index < queue'[r][i].index
        <5>1. item = queue[r][1] /\ \A i \in 1 .. Len(queue'[r]) :
                  1 \in 1 .. Len(queue[r]) /\ i + 1 \in 1 .. Len(queue[r])
          BY <1>b, <1>e
        <5>2. \A i, j \in 1 .. Len(queue[r]) :
                  i < j /\ queue[r][i].from = queue[r][j].from
                  => queue[r][i].index < queue[r][j].index
          BY <1>a DEF QueueInv
        <5>3. \A i \in 1 .. Len(queue'[r]) : 1 < i + 1
          BY <1>e
        <5> QED
          BY <1>e, <5>1, <5>2, <5>3
      <4>3. QED
        BY <3>1, <4>1, <4>2
    <3>2. CASE ~ (x = r /\ old = item)
      <4>1. old \in popped[x]
        BY <1>b, <2>1, <3>2
      <4>2. Delivered(x, old)'
        BY <1>a, <1>c, <4>1 DEF PoppedInv, Delivered
      <4>3. \A i \in 1 .. Len(queue[x]) :
               queue[x][i].from = old.from => old.index < queue[x][i].index
        BY <1>a, <4>1 DEF PoppedInv
      <4>4. \A i \in 1 .. Len(queue'[x]) :
               \E j \in 1 .. Len(queue[x]) : queue'[x][i] = queue[x][j]
        BY <1>b, <1>e
      <4>5. QED
        BY <4>2, <4>3, <4>4
    <3>3. QED
      BY <3>1, <3>2
  <2>2. QED
    BY <2>1 DEF PoppedInv
<1>5. SentInv'
  <2> SUFFICES ASSUME NEW m \in Mapper, NEW n \in 1 .. sent[m]
               PROVE  \/ Item(m, n) \in popped'[Target(m, n)]
                      \/ \E i \in 1 .. Len(queue'[Target(m, n)]) :
                            queue'[Target(m, n)][i] = Item(m, n)
    BY <1>c DEF SentInv
  <2>1. Target(m, n) \in Reducer
    <3>1. sent[m] \in Nat /\ sent[m] <= Total(m) /\ Total(m) \in Nat
      BY <1>a, TargetType DEF TypeInv
    <3>2. n \in 1 .. Total(m)
      BY <3>1
    <3>3. QED
      BY <3>2, TargetType
  <2>2. CASE Item(m, n) \in popped[Target(m, n)]
    BY <1>b, <2>1, <2>2
  <2>3. ASSUME NEW i \in 1 .. Len(queue[Target(m, n)]), queue[Target(m, n)][i] = Item(m, n)
        PROVE  \/ Item(m, n) \in popped'[Target(m, n)]
               \/ \E j \in 1 .. Len(queue'[Target(m, n)]) :
                     queue'[Target(m, n)][j] = Item(m, n)
    <3>1. CASE Target(m, n) # r
      BY <1>b, <2>1, <2>3, <3>1
    <3>2. CASE Target(m, n) = r /\ i = 1
      BY <1>b, <2>3, <3>2
    <3>3. CASE Target(m, n) = r /\ i # 1
      <4>1. i - 1 \in 1 .. Len(queue'[r]) /\ queue'[r][i - 1] = queue[r][i]
        BY <1>b, <2>3, <3>3
      <4>2. QED
        BY <2>3, <3>3, <4>1
    <3>4. QED
      BY <3>1, <3>2, <3>3
  <2>4. QED
    BY <1>a, <2>2, <2>3 DEF SentInv
<1>6. CountInv'
  <2>1. ASSUME NEW x \in Reducer PROVE num_empty'[x] = Cardinality(Heard(x)')
    <3>1. CASE x # r
      <4>1. Heard(x)' = Heard(x) /\ num_empty'[x] = num_empty[x]
        BY <1>a, <1>b, <1>c, <3>1 DEF Heard, TypeInv
      <4>2. QED
        BY <1>a, <4>1 DEF CountInv
    <3>2. CASE x = r /\ ~ IsEmpty(item)
      <4>1. \A m \in Mapper : Item(m, Len(To[m]) + 1 + r) # item
        <5> SUFFICES ASSUME NEW m \in Mapper, Item(m, Len(To[m]) + 1 + r) = item PROVE FALSE
          OBVIOUS
        <5>1. item.from = m /\ item.index = Len(To[m]) + 1 + r
          BY DEF Item
        <5>2. Len(To[m]) \in Nat /\ r \in Nat
          BY TargetType DEF Reducer
        <5>3. QED
          BY <3>2, <5>1, <5>2 DEF IsEmpty
      <4>2. Heard(r)' = Heard(r)
        BY <1>b, <4>1 DEF Heard
      <4>3. QED
        BY <1>a, <1>c, <3>2, <4>2 DEF CountInv
    <3>3. CASE x = r /\ IsEmpty(item)
      <4>1. item = Item(item.from, Len(To[item.from]) + 1 + r)
        <5>1. item.index > Len(To[item.from]) /\ Target(item.from, item.index) = r
          BY <1>g, <3>3 DEF IsEmpty, Delivered
        <5>2. item.index = Len(To[item.from]) + 1 + r
          BY <1>f, <5>1, EmptyIndex
        <5>3. QED
          BY <1>f, <5>2
      <4>2. item.from \notin Heard(r)
        BY <1>h, <4>1 DEF Heard
      <4>3. \A m \in Mapper : m # item.from => Item(m, Len(To[m]) + 1 + r) # item
        BY DEF Item
      <4>4. Heard(r)' = Heard(r) \union {item.from}
        BY <1>b, <1>f, <4>1, <4>3 DEF Heard
      <4>5. IsFiniteSet(Heard(r))
        BY <1>a, Finite
      <4>6. Cardinality(Heard(r)') = Cardinality(Heard(r)) + 1
        BY <4>2, <4>4, <4>5, FS_AddElement
      <4>7. num_empty'[r] = num_empty[r] + 1
        BY <1>a, <1>c, <3>3 DEF TypeInv
      <4>8. QED
        BY <1>a, <3>3, <4>6, <4>7 DEF CountInv
    <3>4. QED
      BY <3>1, <3>2, <3>3
  <2>2. ASSUME NEW x \in stopped' PROVE num_empty'[x] >= Cardinality(Mapper)
    <3>1. x \in Reducer /\ x # r
      BY <1>a, <1>c, <2>2 DEF CountInv, TypeInv
    <3>2. num_empty'[x] = num_empty[x]
      BY <1>a, <1>c, <3>1 DEF TypeInv
    <3>3. QED
      BY <1>a, <1>c, <2>2, <3>2 DEF CountInv
  <2>3. QED
    BY <2>1, <2>2 DEF CountInv
<1>7. QED
  BY <1>1, <1>2, <1>3, <1>4, <1>5, <1>6 DEF IInv

-----------------------------------------------------------------------------

\* Every step of the threads keeps the invariant.
LEMMA StepInv == IInv /\ [Next]_vars => IInv'
<1> SUFFICES ASSUME IInv, [Next]_vars PROVE IInv'
  OBVIOUS
<1>1. ASSUME NEW m \in Mapper, Map(m) PROVE IInv'
  BY <1>1, AdmitInv, PushInv, CountsInv DEF Map
<1>2. ASSUME NEW r \in Reducer, Reduce(r) PROVE IInv'
  BY <1>2, PopInv, StopInv DEF Reduce
<1>3. CASE UNCHANGED vars
  BY <1>3, StutterInv
<1>4. QED
  BY <1>1, <1>2, <1>3 DEF Next

\* The invariant holds in every state.
LEMMA Invariance == Spec => []IInv
  BY InitInv, StepInv, PTL DEF Spec

\* The threads keep to their types, and a queue never exceeds its max_size by
\* as many nodes as there are mappers, however the size checks and the links
\* of NGramCounts::modify's pushes interleave.
THEOREM Typing == Spec => []TypeOK
<1>1. IInv => TypeOK
  <2> SUFFICES ASSUME IInv PROVE TypeOK
    OBVIOUS
  <2>1. TypeInv
    BY DEF IInv
  <2>2. ASSUME NEW r \in Reducer
        PROVE  /\ Len(queue[r]) < Capacity + Cardinality(Mapper)
               /\ num_empty[r] \in 0 .. Cardinality(Mapper)
    <3>1. Len(queue[r]) \in Nat
      BY <2>1, LenProperties DEF TypeInv
    <3>2. /\ Cardinality(Admitted(r)) \in Nat
          /\ Cardinality(Heard(r)) \in Nat
          /\ Cardinality(Heard(r)) <= Cardinality(Mapper)
          /\ Cardinality(Mapper) \in Nat
          /\ Capacity \in Nat
      BY <2>1, Finite
    <3>3. Len(queue[r]) + Cardinality(Admitted(r)) < Capacity + Cardinality(Mapper)
      BY DEF IInv, RoomInv
    <3>4. num_empty[r] = Cardinality(Heard(r))
      BY DEF IInv, CountInv
    <3>5. QED
      BY <3>1, <3>2, <3>3, <3>4
  <2>3. num_empty \in [Reducer -> 0 .. Cardinality(Mapper)]
    BY <2>1, <2>2 DEF TypeInv
  <2>4. QED
    BY <2>1, <2>2, <2>3 DEF TypeInv, TypeOK, Items
<1>2. QED
  BY <1>1, Invariance, PTL

\* In every state of the invariant a reducer that has counted as many empty
\* contexts as there are mappers has received all that was meant for it.
LEMMA EndedHasAll ==
    ASSUME IInv, NEW r \in Reducer, AllEnded(r)
    PROVE  /\ queue[r] = << >>
           /\ \A m \in Mapper : \A i \in 1 .. Total(m) :
                 Target(m, i) = r => sent[m] >= i /\ Item(m, i) \in popped[r]
<1>1. r \in Reducer /\ queue[r] \in Seq(Items) /\ r \in Nat
  BY DEF IInv, TypeInv, Reducer
<1>2. Heard(r) = Mapper
  <2>1. Cardinality(Heard(r)) >= Cardinality(Mapper)
    BY <1>1 DEF IInv, CountInv, AllEnded
  <2>2. Heard(r) \in SUBSET Mapper /\ IsFiniteSet(Mapper)
    BY MapReduceAssumption DEF Heard
  <2>3. Cardinality(Heard(r)) = Cardinality(Mapper)
    BY <2>1, <2>2, Finite DEF IInv
  <2>4. QED
    BY <2>2, <2>3, FS_Subset
<1>3. ASSUME NEW m \in Mapper
      PROVE  /\ Item(m, Len(To[m]) + 1 + r) \in popped[r]
             /\ Len(To[m]) + 1 + r <= sent[m]
             /\ Len(To[m]) \in Nat /\ sent[m] \in Nat
  <2>1. Item(m, Len(To[m]) + 1 + r) \in popped[r]
    BY <1>2 DEF Heard
  <2>2. Delivered(r, Item(m, Len(To[m]) + 1 + r))
    BY <1>1, <2>1 DEF IInv, PoppedInv
  <2>3. QED
    BY <2>1, <2>2, TargetType DEF Delivered, Item, IInv, TypeInv
<1>4. ASSUME NEW m \in Mapper, NEW i \in 1 .. Total(m), Target(m, i) = r
      PROVE  i <= Len(To[m]) + 1 + r /\ i \in Nat
  <2>1. i \in Nat
    BY TargetType
  <2>2. CASE i <= Len(To[m])
    BY <1>1, <1>3, <2>1, <2>2
  <2>3. CASE i > Len(To[m])
    <3>1. i = Len(To[m]) + 1 + r
      BY <1>1, <1>4, <2>1, <2>3, EmptyIndex
    <3>2. QED
      BY <1>1, <1>3, <2>1, <3>1
  <2>4. QED
    BY <1>3, <2>1, <2>2, <2>3
<1>5. ASSUME NEW j \in 1 .. Len(queue[r]) PROVE FALSE
  <2>1. PICK item : item = queue[r][j]
    OBVIOUS
  <2>2. Delivered(r, item) /\ item \in Items
    BY <1>1, <2>1, ElementOfSeq DEF IInv, QueueInv
  <2>3. item.from \in Mapper /\ item.index \in Nat
    BY <2>2 DEF Items
  <2>4. item.index \in 1 .. Total(item.from)
    <3>1. /\ 1 <= item.index /\ item.index <= sent[item.from]
          /\ sent[item.from] <= Total(item.from)
          /\ sent[item.from] \in Nat /\ Total(item.from) \in Nat
      BY <2>2, <2>3, TargetType DEF Delivered, IInv, TypeInv
    <3>2. QED
      BY <2>3, <3>1
  <2>5. item.index <= Len(To[item.from]) + 1 + r
    BY <1>4, <2>2, <2>3, <2>4 DEF Delivered
  <2>6. Len(To[item.from]) + 1 + r < item.index
    <3>1. PICK empty : empty = Item(item.from, Len(To[item.from]) + 1 + r)
      OBVIOUS
    <3>2. empty.from = item.from /\ empty.index = Len(To[item.from]) + 1 + r
      BY <3>1 DEF Item
    <3>3. empty \in popped[r]
      BY <1>3, <2>3, <3>1
    <3>4. empty.index < item.index
      BY <1>1, <2>1, <3>2, <3>3 DEF IInv, PoppedInv
    <3>5. QED
      BY <3>2, <3>4
  <2>7. QED
    BY <1>1, <1>3, <2>3, <2>5, <2>6
<1>6. queue[r] = << >>
  <2>1. Len(queue[r]) \in Nat
    BY <1>1, LenProperties
  <2>2. Len(queue[r]) = 0
    BY <1>5, <2>1
  <2>3. QED
    BY <1>1, <2>2, EmptySeq
<1>7. ASSUME NEW m \in Mapper, NEW i \in 1 .. Total(m), Target(m, i) = r
      PROVE  sent[m] >= i /\ Item(m, i) \in popped[r]
  <2>1. i <= Len(To[m]) + 1 + r /\ i \in Nat
    BY <1>4, <1>7
  <2>2. sent[m] >= i
    BY <1>1, <1>3, <2>1
  <2>3. i \in 1 .. sent[m]
    BY <1>3, <2>1, <2>2
  <2>4. QED
    BY <1>5, <1>7, <2>2, <2>3 DEF IInv, SentInv
<1>8. QED
  BY <1>6, <1>7

\* A reducer stops when it has counted all ends.
LEMMA StoppedInv == IInv => StoppedHasAll
<1>1. IInv => \A r \in stopped : r \in Reducer /\ AllEnded(r)
  BY DEF IInv, TypeInv, CountInv, AllEnded
<1>2. QED
  BY <1>1, EndedHasAll DEF StoppedHasAll

\* A reducer of NGramCounts::modify or NGram::bounds that has counted as many
\* empty contexts as there are mappers has received all that was meant for it.
THEOREM StoppedHasAllHolds == Spec => []StoppedHasAll
  BY Invariance, StoppedInv, PTL
=============================================================================
