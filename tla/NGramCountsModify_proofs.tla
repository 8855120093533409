---------------------- MODULE NGramCountsModify_proofs ----------------------
(* The modified counts are computed by threads of the shape of MapReduce:   *)
(* what is proved there of the queues, for any messages, holds of the       *)
(* messages that NGramCounts::modify sends.  The processes of MPI in place  *)
(* of the threads have an invariant of their own, on what is in the devices *)
(* between them.  What is in the queues has its place in the sums; it is    *)
(* one message for each n-gram and each reason to send one, each is handled *)
(* once, and so the sums come to be the modified counts.                    *)
EXTENDS NGramCountsModifyMPI, MapReduce_proofs, NGramIndex_proofs

\* There is a reducer for each shard.
LEMMA ReducerOfShard == Reducer = Shard
  BY ModifyAssumption, ThreadsAssumption DEF Reducer

\* A step of modify is one of its mapper or reducer threads with what they do
\* with a message, or leaves their queues alone.
LEMMA StepOfThreads == ASSUME [ModifyNext]_modifyVars PROVE [Next]_vars
<1>1. CASE \E s \in Shard : ModifyMap(s)
  <2>1. \A s \in Shard : s \in Mapper
    BY ThreadsAssumption
  <2>2. QED
    BY <1>1, <2>1 DEF ModifyMap, Next
<1>2. CASE \E s \in Shard : ModifyReduce(s)
  <2>1. PICK s \in Shard : ModifyReduce(s)
    BY <1>2
  <2>2. Pop(s) \/ Stop(s)
    BY <2>1 DEF ModifyReduce, PopEmpty, PopKnown, PopUnknown, Write
  <2>3. QED
    BY <2>2, ReducerOfShard DEF Next, Reduce
<1>3. CASE Joined /\ UNCHANGED modifyVars
  BY <1>3 DEF modifyVars
<1>4. CASE UNCHANGED modifyVars
  BY <1>4 DEF modifyVars
<1>5. QED
  BY <1>1, <1>2, <1>3, <1>4 DEF ModifyNext

\* The mappers and reducers of modify implement those of MapReduce.
THEOREM ImplementsMapReduce == ModifySpec => Spec
<1>1. ModifyInit => Init
  BY DEF ModifyInit
<1>2. [ModifyNext]_modifyVars => [Next]_vars
  BY StepOfThreads
<1>3. QED
  BY <1>1, <1>2, PTL DEF ModifySpec, Spec

\* When a reducer of modify writes its sums, no count for its shard is still
\* on its way: it has popped every message of every mapper that is meant for
\* it, for every index, number of shards and size of the queues.
THEOREM ModifyHasAll == ModifySpec => []StoppedHasAll
  BY ImplementsMapReduce, StoppedHasAllHolds

-----------------------------------------------------------------------------
(* The processes.                                                           *)

\* The message of size zero that ends the device from m to r, as an item.
EndOf(m, r) == Item(m, Len(To[m]) + 1 + r)

\* The items that m has for r.
MessagesFor(m, r) == {Item(m, i) : i \in {i \in 1 .. Len(To[m]) : To[m][i] = r}}

MessagesOf(r) == UNION {MessagesFor(m, r) : m \in Mapper}

DeviceOf(S) == [buffer : Seq(S), wire : Seq(S), terminated : BOOLEAN]

Holds(s, item) == \E i \in 1 .. Len(s) : s[i] = item

\* Is an item in a device?
Under(d, item) == Holds(d.wire, item) \/ Holds(d.buffer, item)

ProcessType ==
    /\ sent \in [Mapper -> Nat]
    /\ queue \in [Reducer -> Seq(Items)]
    /\ num_empty \in [Reducer -> Nat]
    /\ stopped \subseteq Reducer
    /\ popped \in [Reducer -> SUBSET Items]
    /\ device \in [Mapper -> [Reducer -> DeviceOf(Items)]]

\* A device that was terminated has no more than its end; another one has
\* messages of its mapper for its reducer.
DeviceInv ==
    \A m \in Mapper : \A r \in Reducer :
        /\ device[m][r].terminated =>
              /\ sent[m] >= Len(To[m])
              /\ device[m][r].buffer = << >>
              /\ device[m][r].wire \in {<< >>, <<EndOf(m, r)>>}
        /\ ~ device[m][r].terminated => device[m][r] \in DeviceOf(MessagesFor(m, r))

\* A reducer has messages that are meant for it, or one end.
ReadInv ==
    \A r \in Reducer :
        queue[r] \in Seq(MessagesOf(r)) \/ \E m \in Mapper : queue[r] = <<EndOf(m, r)>>

\* The end of a device is behind all of its messages.
EndInv ==
    \A m \in Mapper : \A r \in Reducer :
        /\ EndOf(m, r) \in popped[r] =>
              /\ device[m][r].terminated
              /\ device[m][r].wire = << >>
              /\ \A i \in 1 .. Len(queue[r]) : queue[r][i].from # m
        /\ queue[r] = <<EndOf(m, r)>> =>
              /\ device[m][r].terminated
              /\ device[m][r].wire = << >>
              /\ EndOf(m, r) \notin popped[r]

\* What was written is in the device, or was read, or was handled.
WrittenInv ==
    \A m \in Mapper : \A r \in Reducer : \A item \in MessagesFor(m, r) :
        item.index <= sent[m] =>
            item \in popped[r] \/ Holds(queue[r], item) \/ Under(device[m][r], item)

\* A mapper counts the devices that it has terminated.
TerminatedInv ==
    \A m \in Mapper :
        sent[m] >= Len(To[m]) =>
            sent[m] = Len(To[m]) + Cardinality({r \in Reducer : device[m][r].terminated})

\* A reducer counts the ends, and stops when all of them have counted all.
HeardInv ==
    /\ \A r \in Reducer : num_empty[r] = Cardinality(Heard(r))
    /\ stopped # {} => \A r \in Reducer : num_empty[r] >= Cardinality(Mapper)

PInv ==
    /\ ProcessType /\ DeviceInv /\ ReadInv /\ EndInv
    /\ WrittenInv /\ TerminatedInv /\ HeardInv

\* Sending a message loses nothing of a device.
LEMMA FlushKeeps ==
    ASSUME NEW S, NEW d \in DeviceOf(S), NEW n \in Nat
    PROVE  /\ Processes!flush(d, n) \in DeviceOf(S)
           /\ Processes!flush(d, n).terminated <=> d.terminated
           /\ \A item : Under(d, item) => Under(Processes!flush(d, n), item)
<1> DEFINE f == Processes!flush(d, n)
           b == d.buffer
           k == Processes!Smaller(BufferSize, Len(b))
<1>1. /\ b \in Seq(S) /\ d.wire \in Seq(S) /\ d.terminated \in BOOLEAN
      /\ Len(b) \in Nat
  BY LenProperties DEF DeviceOf
<1>2. k \in 0 .. Len(b)
  BY <1>1, BufferAssumption DEF Processes!Smaller
<1>3. CASE d.wire = << >> /\ Len(b) >= n
  <2>1. f = [d EXCEPT !.wire = SubSeq(b, 1, k), !.buffer = SubSeq(b, k + 1, Len(b))]
    BY <1>3 DEF Processes!flush, Processes!test
  <2>2. /\ SubSeq(b, 1, k) \in Seq(S)
        /\ Len(SubSeq(b, 1, k)) = k
        /\ \A i \in 1 .. k : SubSeq(b, 1, k)[i] = b[i]
    BY <1>1, <1>2
  <2>3. /\ SubSeq(b, k + 1, Len(b)) \in Seq(S)
        /\ Len(SubSeq(b, k + 1, Len(b))) = Len(b) - k
        /\ \A i \in 1 .. Len(b) - k : SubSeq(b, k + 1, Len(b))[i] = b[k + i]
    BY <1>1, <1>2
  <2>4. /\ f.wire = SubSeq(b, 1, k) /\ f.buffer = SubSeq(b, k + 1, Len(b))
        /\ f.terminated = d.terminated /\ f \in DeviceOf(S)
    BY <2>1, <2>2, <2>3 DEF DeviceOf
  <2>5. ASSUME NEW item, Under(d, item) PROVE Under(f, item)
    <3>1. PICK i \in 1 .. Len(b) : b[i] = item
      BY <1>3, <2>5 DEF Under, Holds
    <3>2. CASE i <= k
      BY <1>1, <1>2, <2>2, <2>4, <3>1, <3>2 DEF Under, Holds
    <3>3. CASE i > k
      <4>1. i - k \in 1 .. Len(b) - k /\ k + (i - k) = i
        BY <1>1, <1>2, <3>1, <3>3
      <4>2. SubSeq(b, k + 1, Len(b))[i - k] = item
        BY <2>3, <3>1, <4>1
      <4>3. QED
        BY <2>3, <2>4, <4>1, <4>2 DEF Under, Holds
    <3>4. QED
      BY <1>2, <3>1, <3>2, <3>3
  <2>6. QED
    BY <2>4, <2>5
<1>4. CASE ~ (d.wire = << >> /\ Len(b) >= n)
  BY <1>4 DEF Processes!flush, Processes!test
<1>5. QED
  BY <1>3, <1>4

\* Writing a line adds it to what is in a device.
LEMMA WriteKeeps ==
    ASSUME NEW S, NEW d \in DeviceOf(S), NEW line \in S
    PROVE  /\ Processes!write(d, line) \in DeviceOf(S)
           /\ Processes!write(d, line).terminated <=> d.terminated
           /\ Under(Processes!write(d, line), line)
           /\ \A item : Under(d, item) => Under(Processes!write(d, line), item)
<1> DEFINE f == Processes!flush(d, BufferSize)
           w == [f EXCEPT !.buffer = Append(@, line)]
<1>1. BufferSize \in Nat
  BY BufferAssumption
<1>2. /\ f \in DeviceOf(S) /\ (f.terminated <=> d.terminated)
      /\ \A item : Under(d, item) => Under(f, item)
  BY <1>1, FlushKeeps
<1> HIDE DEF f
<1>3. f.buffer \in Seq(S)
  BY <1>2 DEF DeviceOf
<1>4. /\ Append(f.buffer, line) \in Seq(S)
      /\ Len(Append(f.buffer, line)) = Len(f.buffer) + 1 /\ Len(f.buffer) \in Nat
      /\ \A i \in 1 .. Len(f.buffer) : Append(f.buffer, line)[i] = f.buffer[i]
      /\ Append(f.buffer, line)[Len(f.buffer) + 1] = line
  BY <1>3
<1>5. /\ w.buffer = Append(f.buffer, line) /\ w.wire = f.wire
      /\ (w.terminated <=> f.terminated) /\ w \in DeviceOf(S)
  BY <1>2, <1>4 DEF DeviceOf
<1>6. Under(w, line)
  BY <1>4, <1>5 DEF Under, Holds
<1>7. \A item : Under(f, item) => Under(w, item)
  BY <1>4, <1>5 DEF Under, Holds
<1>8. Processes!write(d, line) = Processes!flush(w, BufferSize)
  BY DEF Processes!write, f
<1> HIDE DEF w
<1>9. QED
  BY <1>1, <1>2, <1>5, <1>6, <1>7, <1>8, FlushKeeps

\* A sequence over a set is one over any larger set.
LEMMA SeqOfLarger ==
    ASSUME NEW S, NEW T, S \subseteq T, NEW s \in Seq(S)
    PROVE  s \in Seq(T)
<1>1. Len(s) \in Nat /\ s = [i \in 1 .. Len(s) |-> s[i]] /\ \A i \in 1 .. Len(s) : s[i] \in T
  BY LenProperties, ElementOfSeq
<1>2. QED
  BY <1>1

\* A device of items of a set is one of items of any larger set.
LEMMA DeviceOfLarger ==
    ASSUME NEW S, NEW T, S \subseteq T, NEW d \in DeviceOf(S)
    PROVE  d \in DeviceOf(T)
<1>1. d.buffer \in Seq(T) /\ d.wire \in Seq(T)
  BY SeqOfLarger DEF DeviceOf
<1>2. QED
  BY <1>1 DEF DeviceOf

\* An end is an item of its mapper, and an empty context.
LEMMA EndType ==
    ASSUME NEW m \in Mapper, NEW r \in Reducer
    PROVE  /\ r \in Nat
           /\ EndOf(m, r) \in Items
           /\ EndOf(m, r).from = m
           /\ EndOf(m, r).index = Len(To[m]) + 1 + r
           /\ IsEmpty(EndOf(m, r))
           /\ EndOf(m, r) = Item(m, Len(To[m]) + r + 1)
<1>1. Len(To[m]) \in Nat /\ r \in Nat
  BY TargetType DEF Reducer
<1>2. Len(To[m]) + 1 + r = Len(To[m]) + r + 1 /\ Len(To[m]) + 1 + r > Len(To[m])
  BY <1>1
<1>3. QED
  BY <1>1, <1>2 DEF EndOf, Item, Items, IsEmpty

\* A message is no end.
LEMMA MessageType ==
    ASSUME NEW m \in Mapper, NEW r \in Reducer, NEW item \in MessagesFor(m, r)
    PROVE  /\ item \in Items
           /\ item.from = m
           /\ item.index \in 1 .. Len(To[m])
           /\ To[m][item.index] = r
           /\ ~ IsEmpty(item)
           /\ \A n \in Mapper : \A q \in Reducer : item # EndOf(n, q)
           /\ item = Item(m, item.index)
<1>1. PICK i \in 1 .. Len(To[m]) : To[m][i] = r /\ item = Item(m, i)
  BY DEF MessagesFor
<1>2. Len(To[m]) \in Nat /\ i \in Nat /\ ~ (i > Len(To[m]))
  BY <1>1, TargetType
<1>3. item.from = m /\ item.index = i
  BY <1>1 DEF Item
<1>4. ~ IsEmpty(item)
  BY <1>2, <1>3 DEF IsEmpty
<1>5. QED
  BY <1>1, <1>2, <1>3, <1>4, EndType DEF Items, Item

\* A message for a reducer is one of its mapper's for it, and no end.
LEMMA MessageOf ==
    ASSUME NEW r \in Reducer, NEW item \in MessagesOf(r)
    PROVE  /\ item.from \in Mapper
           /\ item \in MessagesFor(item.from, r)
           /\ item \in Items
           /\ ~ IsEmpty(item)
           /\ \A n \in Mapper : \A q \in Reducer : item # EndOf(n, q)
<1>1. PICK m \in Mapper : item \in MessagesFor(m, r)
  BY DEF MessagesOf
<1>2. QED
  BY <1>1, MessageType

-----------------------------------------------------------------------------
(* A mapper process writes a line.                                          *)

\* What is written is in its device, and nothing is lost in the others.
LEMMA WriteInv ==
    ASSUME PInv, NEW m \in Mapper, Processes!Write(m)
    PROVE  PInv'
<1> DEFINE i == sent[m] + 1
           t == To[m][i]
           line == Item(m, i)
           written(r) == IF r = t THEN Processes!write(device[m][r], line) ELSE device[m][r]
           new(r) == Processes!flush(written(r), BufferSize)
<1>1. /\ sent[m] \in Nat /\ Len(To[m]) \in Nat /\ sent[m] < Len(To[m])
      /\ i \in 1 .. Len(To[m])
  BY TargetType DEF PInv, ProcessType, Processes!Write
<1>2. t \in Reducer /\ line \in MessagesFor(m, t) /\ line.index = i
  <2>1. t \in Reducer
    BY <1>1, MapReduceAssumption, ElementOfSeq
  <2>2. QED
    BY <1>1, <2>1 DEF MessagesFor, Item
<1>3. ASSUME NEW r \in Reducer
      PROVE  ~ device[m][r].terminated /\ device[m][r] \in DeviceOf(MessagesFor(m, r))
  <2>1. ~ (sent[m] >= Len(To[m]))
    BY <1>1
  <2>2. QED
    BY <2>1 DEF PInv, DeviceInv
<1>4. ASSUME NEW r \in Reducer
      PROVE  /\ written(r) \in DeviceOf(MessagesFor(m, r))
             /\ ~ written(r).terminated
             /\ \A item : Under(device[m][r], item) => Under(written(r), item)
             /\ r = t => Under(written(r), line)
  BY <1>2, <1>3, WriteKeeps
<1> HIDE DEF written
<1>5. ASSUME NEW r \in Reducer
      PROVE  /\ new(r) \in DeviceOf(MessagesFor(m, r))
             /\ ~ new(r).terminated
             /\ \A item : Under(device[m][r], item) => Under(new(r), item)
             /\ r = t => Under(new(r), line)
  BY <1>4, BufferAssumption, FlushKeeps
<1> HIDE DEF new
<1>6. /\ device' = [device EXCEPT ![m] = [r \in Reducer |-> new(r)]]
      /\ sent' = [sent EXCEPT ![m] = i]
      /\ UNCHANGED <<queue, num_empty, stopped, popped>>
  BY DEF Processes!Write, Processes!Item, Item, Processes!Reducer, Reducer, new, written
<1>7. /\ \A n \in Mapper : sent'[n] = (IF n = m THEN i ELSE sent[n])
      /\ \A n \in Mapper : \A r \in Reducer :
            device'[n][r] = (IF n = m THEN new(r) ELSE device[n][r])
  BY <1>6 DEF PInv, ProcessType
<1>8. ProcessType'
  <2>1. \A r \in Reducer : new(r) \in DeviceOf(Items)
    BY <1>5, DeviceOfLarger, MessageType
  <2>2. [r \in Reducer |-> new(r)] \in [Reducer -> DeviceOf(Items)]
    BY <2>1
  <2>3. i \in Nat
    BY <1>1
  <2>4. QED
    BY <1>6, <2>2, <2>3 DEF PInv, ProcessType
<1>9. DeviceInv'
  BY <1>5, <1>7 DEF PInv, DeviceInv
<1>10. ReadInv'
  BY <1>6 DEF PInv, ReadInv
<1>11. EndInv'
  BY <1>3, <1>6, <1>7 DEF PInv, EndInv
<1>12. WrittenInv'
  <2> SUFFICES ASSUME NEW n \in Mapper, NEW r \in Reducer, NEW item \in MessagesFor(n, r),
                      item.index <= sent'[n]
               PROVE  item \in popped[r] \/ Holds(queue[r], item) \/ Under(device'[n][r], item)
    BY <1>6 DEF WrittenInv, Under, Holds
  <2>1. CASE item.index <= sent[n]
    BY <1>5, <1>7, <2>1 DEF PInv, WrittenInv
  <2>2. CASE ~ (item.index <= sent[n])
    <3>1. n = m /\ item.index = i
      BY <1>1, <1>7, <2>2, MessageType
    <3>2. r = t /\ item = line
      BY <3>1, MessageType
    <3>3. QED
      BY <1>5, <1>7, <3>1, <3>2
  <2>3. QED
    BY <2>1, <2>2
<1>13. TerminatedInv'
  <2> SUFFICES ASSUME NEW n \in Mapper, sent'[n] >= Len(To[n])
               PROVE  sent'[n] = Len(To[n]) + Cardinality({r \in Reducer : device'[n][r].terminated})
    BY DEF TerminatedInv
  <2>1. CASE n = m
    <3>1. {r \in Reducer : device'[n][r].terminated} = {}
      BY <1>5, <1>7, <2>1
    <3>2. sent'[n] = Len(To[n])
      BY <1>1, <1>7, <2>1
    <3>3. Cardinality({r \in Reducer : device'[n][r].terminated}) = 0
      BY <3>1, FS_EmptySet
    <3>4. QED
      BY <1>1, <2>1, <3>2, <3>3
  <2>2. CASE n # m
    <3>1. {r \in Reducer : device'[n][r].terminated} = {r \in Reducer : device[n][r].terminated}
      BY <1>7, <2>2
    <3>2. QED
      BY <1>7, <2>2, <3>1 DEF PInv, TerminatedInv
  <2>3. QED
    BY <2>1, <2>2
<1>14. HeardInv'
  BY <1>6 DEF PInv, HeardInv, Heard
<1>15. QED
  BY <1>8, <1>9, <1>10, <1>11, <1>12, <1>13, <1>14 DEF PInv

\* At its end a mapper sends what is left in a device.
LEMMA FlushRestInv ==
    ASSUME PInv, NEW m \in Mapper, NEW t \in Reducer, Processes!FlushRest(m, t)
    PROVE  PInv'
<1> DEFINE new == Processes!flush(device[m][t], 1)
<1>1. /\ device' = [device EXCEPT ![m][t] = new]
      /\ device[m][t].buffer # << >>
      /\ UNCHANGED <<sent, queue, num_empty, stopped, popped>>
  BY DEF Processes!FlushRest, Processes!vars
<1>2. ~ device[m][t].terminated /\ device[m][t] \in DeviceOf(MessagesFor(m, t))
  BY <1>1 DEF PInv, DeviceInv
<1>3. /\ new \in DeviceOf(MessagesFor(m, t))
      /\ ~ new.terminated
      /\ \A item : Under(device[m][t], item) => Under(new, item)
  BY <1>2, FlushKeeps
<1> HIDE DEF new
<1>4. \A n \in Mapper : \A r \in Reducer :
          device'[n][r] = (IF n = m /\ r = t THEN new ELSE device[n][r])
  BY <1>1 DEF PInv, ProcessType
<1>5. ProcessType'
  <2>1. new \in DeviceOf(Items)
    BY <1>3, DeviceOfLarger, MessageType
  <2>2. QED
    BY <1>1, <2>1 DEF PInv, ProcessType
<1>6. DeviceInv'
  BY <1>1, <1>3, <1>4 DEF PInv, DeviceInv
<1>7. ReadInv'
  BY <1>1 DEF PInv, ReadInv
<1>8. EndInv'
  BY <1>1, <1>2, <1>4 DEF PInv, EndInv
<1>9. WrittenInv'
  <2> SUFFICES ASSUME NEW n \in Mapper, NEW r \in Reducer, NEW item \in MessagesFor(n, r),
                      item.index <= sent[n]
               PROVE  item \in popped[r] \/ Holds(queue[r], item) \/ Under(device'[n][r], item)
    BY <1>1 DEF WrittenInv, Under, Holds
  <2>1. QED
    BY <1>3, <1>4 DEF PInv, WrittenInv
<1>10. TerminatedInv'
  <2> SUFFICES ASSUME NEW n \in Mapper, sent[n] >= Len(To[n])
               PROVE  sent[n] = Len(To[n]) + Cardinality({r \in Reducer : device'[n][r].terminated})
    BY <1>1 DEF TerminatedInv
  <2>1. {r \in Reducer : device'[n][r].terminated} = {r \in Reducer : device[n][r].terminated}
    BY <1>2, <1>3, <1>4
  <2>2. QED
    BY <2>1 DEF PInv, TerminatedInv
<1>11. HeardInv'
  BY <1>1 DEF PInv, HeardInv, Heard
<1>12. QED
  BY <1>5, <1>6, <1>7, <1>8, <1>9, <1>10, <1>11 DEF PInv

\* A device that is empty is terminated by a message of its own.
LEMMA TerminateInv ==
    ASSUME PInv, NEW m \in Mapper, NEW t \in Reducer, Processes!Terminate(m, t)
    PROVE  PInv'
<1> DEFINE old == device[m][t]
           new == [old EXCEPT !.wire = <<EndOf(m, t)>>, !.terminated = TRUE]
<1>1. /\ device' = [device EXCEPT ![m][t].wire = <<Item(m, Len(To[m]) + t + 1)>>,
                                  ![m][t].terminated = TRUE]
      /\ sent' = [sent EXCEPT ![m] = @ + 1]
      /\ sent[m] >= Len(To[m])
      /\ old.wire = << >> /\ old.buffer = << >> /\ ~ old.terminated
      /\ UNCHANGED <<queue, num_empty, stopped, popped>>
  BY DEF Processes!Terminate, Processes!test, Processes!Item, Item
<1>2. /\ device \in [Mapper -> [Reducer -> DeviceOf(Items)]]
      /\ old \in DeviceOf(Items)
      /\ sent \in [Mapper -> Nat] /\ sent[m] \in Nat /\ Len(To[m]) \in Nat
  BY TargetType DEF PInv, ProcessType
<1>3. /\ EndOf(m, t) \in Items /\ EndOf(m, t) = Item(m, Len(To[m]) + t + 1)
      /\ <<EndOf(m, t)>> \in Seq(Items) /\ <<EndOf(m, t)>> # << >>
  BY EndType
<1>4. /\ new.wire = <<EndOf(m, t)>> /\ new.buffer = << >> /\ new.terminated
      /\ new \in DeviceOf(Items)
  BY <1>1, <1>2, <1>3 DEF DeviceOf
<1>5. device' = [device EXCEPT ![m][t] = new]
  BY <1>1, <1>2, <1>3
<1> HIDE DEF new
<1>6. /\ \A n \in Mapper : \A r \in Reducer :
            ~ (n = m /\ r = t) => device'[n][r] = device[n][r]
      /\ device'[m][t] = new
      /\ \A n \in Mapper : sent'[n] = (IF n = m THEN sent[m] + 1 ELSE sent[n])
  <2>1. \A n \in Mapper : \A r \in Reducer :
            ~ (n = m /\ r = t) => device'[n][r] = device[n][r]
    BY <1>2, <1>5
  <2>2. device'[m][t] = new
    BY <1>2, <1>5
  <2>3. \A n \in Mapper : sent'[n] = (IF n = m THEN sent[m] + 1 ELSE sent[n])
    BY <1>1, <1>2
  <2>4. QED
    BY <2>1, <2>2, <2>3
<1>7. EndOf(m, t) \notin popped[t] /\ queue[t] # <<EndOf(m, t)>>
  BY <1>1 DEF PInv, EndInv
<1>8. ProcessType'
  <2>1. device' \in [Mapper -> [Reducer -> DeviceOf(Items)]]
    BY <1>2, <1>4, <1>5
  <2>2. sent' \in [Mapper -> Nat]
    BY <1>1, <1>2
  <2>3. QED
    BY <1>1, <2>1, <2>2 DEF PInv, ProcessType
<1>9. DeviceInv'
  <2> SUFFICES ASSUME NEW n \in Mapper, NEW r \in Reducer
               PROVE  /\ device'[n][r].terminated =>
                            /\ sent'[n] >= Len(To[n])
                            /\ device'[n][r].buffer = << >>
                            /\ device'[n][r].wire \in {<< >>, <<EndOf(n, r)>>}
                      /\ ~ device'[n][r].terminated =>
                            device'[n][r] \in DeviceOf(MessagesFor(n, r))
    BY DEF DeviceInv
  <2>1. sent[m] + 1 >= Len(To[m])
    BY <1>1, <1>2
  <2>2. CASE n = m /\ r = t
    BY <1>4, <1>6, <2>1, <2>2
  <2>3. CASE ~ (n = m /\ r = t)
    <3>1. sent[n] >= Len(To[n]) => sent'[n] >= Len(To[n])
      BY <1>6, <2>1
    <3>2. QED
      BY <1>6, <2>3, <3>1 DEF PInv, DeviceInv
  <2>4. QED
    BY <2>2, <2>3
<1>10. ReadInv'
  BY <1>1 DEF PInv, ReadInv
<1>11. EndInv'
  <2> SUFFICES ASSUME NEW n \in Mapper, NEW r \in Reducer
               PROVE  /\ EndOf(n, r) \in popped[r] =>
                            /\ device'[n][r].terminated
                            /\ device'[n][r].wire = << >>
                            /\ \A i \in 1 .. Len(queue[r]) : queue[r][i].from # n
                      /\ queue[r] = <<EndOf(n, r)>> =>
                            /\ device'[n][r].terminated
                            /\ device'[n][r].wire = << >>
                            /\ EndOf(n, r) \notin popped[r]
    BY <1>1 DEF EndInv
  <2>1. CASE n = m /\ r = t
    BY <1>7, <2>1
  <2>2. CASE ~ (n = m /\ r = t)
    <3>1. device'[n][r] = device[n][r]
      BY <1>6, <2>2
    <3>2. QED
      BY <3>1 DEF PInv, EndInv
  <2>3. QED
    BY <2>1, <2>2
<1>12. WrittenInv'
  <2> SUFFICES ASSUME NEW n \in Mapper, NEW r \in Reducer, NEW item \in MessagesFor(n, r)
               PROVE  item \in popped[r] \/ Holds(queue[r], item) \/ Under(device'[n][r], item)
                      \/ ~ (item.index <= sent'[n])
    BY <1>1 DEF WrittenInv, Under, Holds
  <2>1. item.index <= sent'[n] => item.index <= sent[n]
    BY <1>1, <1>2, <1>6, MessageType
  <2>2. ~ Under(old, item)
    BY <1>1 DEF Under, Holds
  <2>3. QED
    BY <1>6, <2>1, <2>2 DEF PInv, WrittenInv
<1>13. TerminatedInv'
  <2> SUFFICES ASSUME NEW n \in Mapper, sent'[n] >= Len(To[n])
               PROVE  sent'[n] = Len(To[n]) + Cardinality({r \in Reducer : device'[n][r].terminated})
    BY DEF TerminatedInv
  <2> DEFINE before == {r \in Reducer : device[n][r].terminated}
             after == {r \in Reducer : device'[n][r].terminated}
  <2>1. CASE n = m
    <3>1. after = before \union {t} /\ t \notin before
      <4>1. device'[m][t].terminated /\ ~ device[m][t].terminated
        BY <1>1, <1>4, <1>6
      <4>2. ASSUME NEW r \in Reducer, r # t
            PROVE  device'[m][r].terminated <=> device[m][r].terminated
        BY <1>6, <4>2
      <4>3. QED
        BY <2>1, <4>1, <4>2
    <3>2. IsFiniteSet(before)
      <4>1. IsFiniteSet(Reducer)
        BY MapReduceAssumption, FS_Interval DEF Reducer
      <4>2. QED
        BY <4>1, FS_Subset
    <3>3. Cardinality(after) = Cardinality(before) + 1 /\ Cardinality(before) \in Nat
      BY <3>1, <3>2, FS_AddElement, FS_CardinalityType
    <3>4. sent[m] = Len(To[m]) + Cardinality(before)
      BY <1>1, <2>1 DEF PInv, TerminatedInv
    <3>5. sent'[n] = sent[m] + 1
      BY <1>6, <2>1
    <3> HIDE DEF before, after
    <3>6. sent'[n] = Len(To[n]) + Cardinality(after)
      BY <1>2, <2>1, <3>3, <3>4, <3>5
    <3>7. QED
      BY <3>6 DEF after
  <2>2. CASE n # m
    <3>1. after = before
      BY <1>6, <2>2
    <3>2. QED
      BY <1>6, <2>2, <3>1 DEF PInv, TerminatedInv
  <2>3. QED
    BY <2>1, <2>2
<1>14. HeardInv'
  BY <1>1 DEF PInv, HeardInv, Heard
<1>15. QED
  BY <1>8, <1>9, <1>10, <1>11, <1>12, <1>13, <1>14 DEF PInv

\* A reducer reads a message from a device.
LEMMA ReceiveInv ==
    ASSUME PInv, NEW m \in Mapper, NEW t \in Reducer, Processes!Receive(t, m)
    PROVE  PInv'
<1> DEFINE old == device[m][t]
           new == [old EXCEPT !.wire = << >>]
<1>1. /\ device' = [device EXCEPT ![m][t] = new]
      /\ queue' = [queue EXCEPT ![t] = old.wire]
      /\ queue[t] = << >> /\ old.wire # << >>
      /\ UNCHANGED <<sent, num_empty, stopped, popped>>
  BY DEF Processes!Receive, Processes!test
<1>2. /\ device \in [Mapper -> [Reducer -> DeviceOf(Items)]]
      /\ old \in DeviceOf(Items)
      /\ queue \in [Reducer -> Seq(Items)]
      /\ old.wire \in Seq(Items)
  BY DEF PInv, ProcessType, DeviceOf
<1>3. /\ new.wire = << >> /\ new.buffer = old.buffer
      /\ (new.terminated <=> old.terminated)
      /\ new \in DeviceOf(Items)
      /\ \A S : old \in DeviceOf(S) => new \in DeviceOf(S)
  <2>1. /\ new.wire = << >> /\ new.buffer = old.buffer
        /\ (new.terminated <=> old.terminated)
    BY <1>2 DEF DeviceOf
  <2>2. ASSUME NEW S, old \in DeviceOf(S) PROVE new \in DeviceOf(S)
    <3>1. << >> \in Seq(S)
      OBVIOUS
    <3>2. QED
      BY <2>2, <3>1 DEF DeviceOf
  <2>3. QED
    BY <1>2, <2>1, <2>2
<1> HIDE DEF new
<1>4. /\ \A n \in Mapper : \A r \in Reducer :
            ~ (n = m /\ r = t) => device'[n][r] = device[n][r]
      /\ device'[m][t] = new
      /\ \A r \in Reducer : r # t => queue'[r] = queue[r]
      /\ queue'[t] = old.wire
  <2>1. \A n \in Mapper : \A r \in Reducer :
            ~ (n = m /\ r = t) => device'[n][r] = device[n][r]
    BY <1>1, <1>2
  <2>2. device'[m][t] = new
    BY <1>1, <1>2
  <2>3. \A r \in Reducer : (r # t => queue'[r] = queue[r]) /\ queue'[t] = old.wire
    BY <1>1, <1>2
  <2>4. QED
    BY <2>1, <2>2, <2>3
<1>5. /\ old.terminated => old.wire = <<EndOf(m, t)>>
      /\ ~ old.terminated => old.wire \in Seq(MessagesFor(m, t))
  BY <1>1 DEF PInv, DeviceInv, DeviceOf
<1>6. /\ \A i \in 1 .. Len(old.wire) : old.wire[i].from = m
      /\ \A n \in Mapper : old.wire = <<EndOf(n, t)>> => n = m /\ old.terminated
  <2>1. CASE old.terminated
    <3>1. Len(old.wire) = 1 /\ old.wire[1] = EndOf(m, t)
      BY <1>5, <2>1
    <3>2. \A n \in Mapper : EndOf(n, t).from = n
      BY EndType
    <3>3. \A n \in Mapper : <<EndOf(n, t)>>[1] = EndOf(n, t)
      OBVIOUS
    <3>4. QED
      BY <2>1, <3>1, <3>2, <3>3
  <2>2. CASE ~ old.terminated
    <3>1. \A i \in 1 .. Len(old.wire) : old.wire[i] \in MessagesFor(m, t)
      BY <1>5, <2>2, ElementOfSeq
    <3>2. \A i \in 1 .. Len(old.wire) :
              old.wire[i].from = m /\ \A n \in Mapper : old.wire[i] # EndOf(n, t)
      BY <3>1, MessageType
    <3>3. \A n \in Mapper : old.wire # <<EndOf(n, t)>>
      <4> SUFFICES ASSUME NEW n \in Mapper, old.wire = <<EndOf(n, t)>> PROVE FALSE
        OBVIOUS
      <4>1. Len(old.wire) = 1 /\ old.wire[1] = EndOf(n, t)
        OBVIOUS
      <4>2. QED
        BY <3>2, <4>1
    <3>4. QED
      BY <3>2, <3>3
  <2>3. QED
    BY <2>1, <2>2
<1>7. ProcessType'
  <2>1. device' \in [Mapper -> [Reducer -> DeviceOf(Items)]]
    BY <1>1, <1>2, <1>3
  <2>2. queue' \in [Reducer -> Seq(Items)]
    BY <1>1, <1>2
  <2>3. QED
    BY <1>1, <2>1, <2>2 DEF PInv, ProcessType
<1>8. DeviceInv'
  <2> SUFFICES ASSUME NEW n \in Mapper, NEW r \in Reducer
               PROVE  /\ device'[n][r].terminated =>
                            /\ sent[n] >= Len(To[n])
                            /\ device'[n][r].buffer = << >>
                            /\ device'[n][r].wire \in {<< >>, <<EndOf(n, r)>>}
                      /\ ~ device'[n][r].terminated =>
                            device'[n][r] \in DeviceOf(MessagesFor(n, r))
    BY <1>1 DEF DeviceInv
  <2>1. CASE n = m /\ r = t
    <3>1. old.terminated => sent[m] >= Len(To[m]) /\ old.buffer = << >>
      BY DEF PInv, DeviceInv
    <3>2. ~ old.terminated => old \in DeviceOf(MessagesFor(m, t))
      BY DEF PInv, DeviceInv
    <3>3. QED
      BY <1>3, <1>4, <2>1, <3>1, <3>2
  <2>2. CASE ~ (n = m /\ r = t)
    <3>1. device'[n][r] = device[n][r]
      BY <1>4, <2>2
    <3>2. QED
      BY <3>1 DEF PInv, DeviceInv
  <2>3. QED
    BY <2>1, <2>2
<1>9. ReadInv'
  <2> SUFFICES ASSUME NEW r \in Reducer
               PROVE  \/ queue'[r] \in Seq(MessagesOf(r))
                      \/ \E n \in Mapper : queue'[r] = <<EndOf(n, r)>>
    BY DEF ReadInv
  <2>1. CASE r = t
    <3>1. MessagesFor(m, t) \subseteq MessagesOf(t)
      BY DEF MessagesOf
    <3>2. ~ old.terminated => old.wire \in Seq(MessagesOf(t))
      BY <1>5, <3>1, SeqOfLarger
    <3>3. QED
      BY <1>4, <1>5, <2>1, <3>2
  <2>2. CASE r # t
    BY <1>4, <2>2 DEF PInv, ReadInv
  <2>3. QED
    BY <2>1, <2>2
<1>10. EndInv'
  <2> SUFFICES ASSUME NEW n \in Mapper, NEW r \in Reducer
               PROVE  /\ EndOf(n, r) \in popped[r] =>
                            /\ device'[n][r].terminated
                            /\ device'[n][r].wire = << >>
                            /\ \A i \in 1 .. Len(queue'[r]) : queue'[r][i].from # n
                      /\ queue'[r] = <<EndOf(n, r)>> =>
                            /\ device'[n][r].terminated
                            /\ device'[n][r].wire = << >>
                            /\ EndOf(n, r) \notin popped[r]
    BY <1>1 DEF EndInv
  <2>1. EndOf(m, t) \notin popped[t]
    BY <1>1 DEF PInv, EndInv
  <2>2. CASE n = m /\ r = t
    BY <1>3, <1>4, <1>6, <2>1, <2>2
  <2>3. CASE n # m /\ r = t
    <3>1. device'[n][t] = device[n][t] /\ queue'[t] = old.wire
      BY <1>4, <2>3
    <3>2. EndOf(n, t) \in popped[t] => device[n][t].terminated /\ device[n][t].wire = << >>
      BY DEF PInv, EndInv
    <3>3. QED
      BY <1>6, <2>3, <3>1, <3>2
  <2>4. CASE r # t
    <3>1. device'[n][r] = device[n][r] /\ queue'[r] = queue[r]
      BY <1>4, <2>4
    <3>2. QED
      BY <3>1 DEF PInv, EndInv
  <2>5. QED
    BY <2>2, <2>3, <2>4
<1>11. WrittenInv'
  <2> SUFFICES ASSUME NEW n \in Mapper, NEW r \in Reducer, NEW item \in MessagesFor(n, r),
                      item.index <= sent[n]
               PROVE  item \in popped[r] \/ Holds(queue'[r], item) \/ Under(device'[n][r], item)
    BY <1>1 DEF WrittenInv, Under, Holds
  <2>1. item \in popped[r] \/ Holds(queue[r], item) \/ Under(device[n][r], item)
    BY DEF PInv, WrittenInv
  <2>2. CASE r # t
    BY <1>4, <2>1, <2>2
  <2>3. CASE r = t
    <3>1. ~ Holds(queue[t], item)
      BY <1>1 DEF Holds
    <3>2. CASE n # m
      BY <1>4, <2>1, <2>3, <3>1, <3>2
    <3>3. CASE n = m
      <4>1. Under(old, item) => Holds(queue'[t], item) \/ Under(new, item)
        BY <1>3, <1>4 DEF Under
      <4>2. QED
        BY <1>4, <2>1, <2>3, <3>1, <3>3, <4>1
    <3>4. QED
      BY <3>2, <3>3
  <2>4. QED
    BY <2>2, <2>3
<1>12. TerminatedInv'
  <2> SUFFICES ASSUME NEW n \in Mapper, sent[n] >= Len(To[n])
               PROVE  sent[n] = Len(To[n]) + Cardinality({r \in Reducer : device'[n][r].terminated})
    BY <1>1 DEF TerminatedInv
  <2>1. ASSUME NEW r \in Reducer
        PROVE  device'[n][r].terminated <=> device[n][r].terminated
    <3>1. CASE n = m /\ r = t
      BY <1>3, <1>4, <3>1
    <3>2. CASE ~ (n = m /\ r = t)
      <4>1. device'[n][r] = device[n][r]
        BY <1>4, <3>2
      <4>2. QED
        BY <4>1
    <3>3. QED
      BY <3>1, <3>2
  <2>2. {r \in Reducer : device'[n][r].terminated} = {r \in Reducer : device[n][r].terminated}
    BY <2>1
  <2>3. QED
    BY <2>2 DEF PInv, TerminatedInv
<1>13. HeardInv'
  BY <1>1 DEF PInv, HeardInv, Heard
<1>14. QED
  BY <1>7, <1>8, <1>9, <1>10, <1>11, <1>12, <1>13 DEF PInv

-----------------------------------------------------------------------------
(* A reducer handles what it has read.                                      *)

\* What a reducer pops was handled, and an end that it pops is counted once.
LEMMA PopPInv ==
    ASSUME PInv, NEW t \in Reducer, Pop(t), UNCHANGED device
    PROVE  PInv'
<1> DEFINE item == Head(queue[t])
<1>1. /\ queue[t] \in Seq(Items) /\ queue[t] # << >>
      /\ num_empty[t] \in Nat
  BY DEF PInv, ProcessType, Pop
<1>2. /\ item = queue[t][1] /\ 1 \in 1 .. Len(queue[t]) /\ item \in Items
      /\ Tail(queue[t]) \in Seq(Items)
      /\ Len(Tail(queue[t])) = Len(queue[t]) - 1 /\ Len(queue[t]) \in Nat
      /\ \A i \in 1 .. Len(Tail(queue[t])) : Tail(queue[t])[i] = queue[t][i + 1]
  BY <1>1, ElementOfSeq
<1>3. /\ queue' = [queue EXCEPT ![t] = Tail(@)]
      /\ popped' = [popped EXCEPT ![t] = @ \union {item}]
      /\ num_empty' = IF IsEmpty(item) THEN [num_empty EXCEPT ![t] = @ + 1] ELSE num_empty
      /\ UNCHANGED <<sent, stopped, device>>
  BY DEF Pop
<1>4. stopped = {}
  BY DEF PInv, HeardInv, Pop, AllEnded
<1>5. \/ queue[t] \in Seq(MessagesOf(t)) /\ item \in MessagesOf(t)
      \/ \E m \in Mapper : queue[t] = <<EndOf(m, t)>> /\ item = EndOf(m, t)
  <2>1. CASE queue[t] \in Seq(MessagesOf(t))
    BY <1>2, <2>1, ElementOfSeq
  <2>2. CASE \E m \in Mapper : queue[t] = <<EndOf(m, t)>>
    BY <2>2
  <2>3. QED
    BY <2>1, <2>2 DEF PInv, ReadInv
<1> HIDE DEF item
<1>6. /\ \A r \in Reducer : r # t => queue'[r] = queue[r] /\ popped'[r] = popped[r]
      /\ queue'[t] = Tail(queue[t])
      /\ popped'[t] = popped[t] \union {item}
      /\ \A r \in Reducer : popped[r] \subseteq popped'[r]
  BY <1>3 DEF PInv, ProcessType
<1>7. /\ \A r \in Reducer : r # t => num_empty'[r] = num_empty[r]
      /\ IsEmpty(item) => num_empty'[t] = num_empty[t] + 1
      /\ ~ IsEmpty(item) => num_empty'[t] = num_empty[t]
  BY <1>3 DEF PInv, ProcessType
<1>8. ProcessType'
  <2>1. queue' \in [Reducer -> Seq(Items)]
    BY <1>2, <1>3 DEF PInv, ProcessType
  <2>2. popped' \in [Reducer -> SUBSET Items]
    BY <1>2, <1>3 DEF PInv, ProcessType
  <2>3. num_empty' \in [Reducer -> Nat]
    BY <1>3 DEF PInv, ProcessType
  <2>4. QED
    BY <1>3, <2>1, <2>2, <2>3 DEF PInv, ProcessType
<1>9. DeviceInv'
  BY <1>3 DEF PInv, DeviceInv
<1>10. ReadInv'
  <2> SUFFICES ASSUME NEW r \in Reducer
               PROVE  \/ queue'[r] \in Seq(MessagesOf(r))
                      \/ \E n \in Mapper : queue'[r] = <<EndOf(n, r)>>
    BY DEF ReadInv
  <2>1. CASE r # t
    BY <1>6, <2>1 DEF PInv, ReadInv
  <2>2. CASE r = t /\ queue[t] \in Seq(MessagesOf(t))
    <3>1. Tail(queue[t]) \in Seq(MessagesOf(t))
      BY <1>1, <2>2
    <3>2. QED
      BY <1>6, <2>2, <3>1
  <2>3. CASE r = t /\ \E m \in Mapper : queue[t] = <<EndOf(m, t)>>
    <3>1. Tail(queue[t]) = << >>
      BY <2>3
    <3>2. << >> \in Seq(MessagesOf(t))
      OBVIOUS
    <3>3. QED
      BY <1>6, <2>3, <3>1, <3>2
  <2>4. QED
    BY <1>5, <2>1, <2>2, <2>3
<1>11. EndInv'
  <2> SUFFICES ASSUME NEW n \in Mapper, NEW r \in Reducer
               PROVE  /\ EndOf(n, r) \in popped'[r] =>
                            /\ device[n][r].terminated
                            /\ device[n][r].wire = << >>
                            /\ \A i \in 1 .. Len(queue'[r]) : queue'[r][i].from # n
                      /\ queue'[r] = <<EndOf(n, r)>> =>
                            /\ device[n][r].terminated
                            /\ device[n][r].wire = << >>
                            /\ EndOf(n, r) \notin popped'[r]
    BY <1>3 DEF EndInv
  <2>1. CASE r # t
    BY <1>6, <2>1 DEF PInv, EndInv
  <2>2. CASE r = t /\ queue[t] \in Seq(MessagesOf(t)) /\ item \in MessagesOf(t)
    <3>1. EndOf(n, t) # item
      BY <2>2, MessageOf
    <3>2. EndOf(n, t) \in popped[t] =>
              /\ device[n][t].terminated
              /\ device[n][t].wire = << >>
              /\ \A i \in 1 .. Len(queue[t]) : queue[t][i].from # n
      BY DEF PInv, EndInv
    <3>3. \A i \in 1 .. Len(queue'[t]) :
              i + 1 \in 1 .. Len(queue[t]) /\ queue'[t][i] = queue[t][i + 1]
      BY <1>2, <1>6
    <3>4. queue'[t] # <<EndOf(n, t)>>
      <4> SUFFICES ASSUME queue'[t] = <<EndOf(n, t)>> PROVE FALSE
        OBVIOUS
      <4>1. 1 \in 1 .. Len(queue'[t]) /\ queue'[t][1] = EndOf(n, t)
        OBVIOUS
      <4>2. 2 \in 1 .. Len(queue[t]) /\ queue[t][2] = EndOf(n, t)
        BY <3>3, <4>1
      <4>3. queue[t][2] \in MessagesOf(t)
        BY <2>2, <4>2, ElementOfSeq
      <4>4. QED
        BY <4>2, <4>3, MessageOf
    <3>5. QED
      BY <1>6, <2>2, <3>1, <3>2, <3>3, <3>4
  <2>3. CASE r = t /\ \E m \in Mapper : queue[t] = <<EndOf(m, t)>> /\ item = EndOf(m, t)
    <3>1. PICK m \in Mapper : queue[t] = <<EndOf(m, t)>> /\ item = EndOf(m, t)
      BY <2>3
    <3>2. Tail(queue[t]) = << >>
      BY <3>1
    <3>3. EndOf(n, t) \in popped'[t] => EndOf(n, t) \in popped[t] \/ n = m
      BY <1>6, <3>1, EndType
    <3>4. EndOf(n, t) \in popped'[t] => device[n][t].terminated /\ device[n][t].wire = << >>
      BY <3>1, <3>3 DEF PInv, EndInv
    <3>5. Len(queue'[t]) = 0 /\ queue'[t] # <<EndOf(n, t)>>
      <4>1. queue'[t] = << >> /\ Len(<< >>) = 0
        BY <1>6, <3>2
      <4>2. Len(<<EndOf(n, t)>>) = 1
        OBVIOUS
      <4>3. QED
        BY <4>1, <4>2
    <3>6. QED
      BY <2>3, <3>4, <3>5
  <2>4. QED
    BY <1>5, <2>1, <2>2, <2>3
<1>12. WrittenInv'
  <2> SUFFICES ASSUME NEW n \in Mapper, NEW r \in Reducer, NEW x \in MessagesFor(n, r),
                      x.index <= sent[n]
               PROVE  x \in popped'[r] \/ Holds(queue'[r], x) \/ Under(device[n][r], x)
    BY <1>3 DEF WrittenInv, Under, Holds
  <2>1. x \in popped[r] \/ Holds(queue[r], x) \/ Under(device[n][r], x)
    BY DEF PInv, WrittenInv
  <2>2. ASSUME Holds(queue[r], x) PROVE x \in popped'[r] \/ Holds(queue'[r], x)
    <3>1. CASE r # t
      BY <1>6, <2>2, <3>1
    <3>2. CASE r = t
      <4>1. PICK i \in 1 .. Len(queue[t]) : queue[t][i] = x
        BY <2>2, <3>2 DEF Holds
      <4>2. CASE i = 1
        BY <1>2, <1>6, <3>2, <4>1, <4>2
      <4>3. CASE i # 1
        <5>1. i - 1 \in 1 .. Len(queue'[t]) /\ (i - 1) + 1 = i
          BY <1>2, <1>6, <4>1, <4>3
        <5>2. queue'[t][i - 1] = x
          BY <1>2, <1>6, <4>1, <5>1
        <5>3. QED
          BY <3>2, <5>1, <5>2 DEF Holds
      <4>4. QED
        BY <4>2, <4>3
    <3>3. QED
      BY <3>1, <3>2
  <2>3. QED
    BY <1>6, <2>1, <2>2
<1>13. TerminatedInv'
  BY <1>3 DEF PInv, TerminatedInv
<1>14. HeardInv'
  <2>1. ASSUME NEW r \in Reducer PROVE num_empty'[r] = Cardinality(Heard(r)')
    <3>1. num_empty[r] = Cardinality(Heard(r)) /\ num_empty[r] \in Nat
      BY DEF PInv, HeardInv, ProcessType
    <3>2. CASE r # t
      <4>1. Heard(r)' = Heard(r) /\ num_empty'[r] = num_empty[r]
        BY <1>6, <1>7, <3>2 DEF Heard
      <4>2. QED
        BY <3>1, <4>1
    <3>3. CASE r = t /\ item \in MessagesOf(t)
      <4>1. ~ IsEmpty(item) /\ \A n \in Mapper : EndOf(n, t) # item
        BY <3>3, MessageOf
      <4>2. Heard(t)' = Heard(t)
        BY <1>6, <4>1 DEF Heard, EndOf
      <4>3. QED
        BY <1>7, <3>1, <3>3, <4>1, <4>2
    <3>4. CASE r = t /\ \E m \in Mapper : queue[t] = <<EndOf(m, t)>> /\ item = EndOf(m, t)
      <4>1. PICK m \in Mapper : queue[t] = <<EndOf(m, t)>> /\ item = EndOf(m, t)
        BY <3>4
      <4>2. IsEmpty(item) /\ \A n \in Mapper : EndOf(n, t) = item => n = m
        BY <4>1, EndType
      <4>3. EndOf(m, t) \notin popped[t]
        BY <4>1 DEF PInv, EndInv
      <4>4. m \notin Heard(t) /\ Heard(t)' = Heard(t) \union {m}
        BY <1>6, <4>1, <4>2, <4>3 DEF Heard, EndOf
      <4>5. IsFiniteSet(Heard(t))
        BY MapReduceAssumption, FS_Subset DEF Heard
      <4>6. Cardinality(Heard(t)') = Cardinality(Heard(t)) + 1
        BY <4>4, <4>5, FS_AddElement
      <4>7. QED
        BY <1>7, <3>1, <3>4, <4>2, <4>6
    <3>5. QED
      BY <1>5, <3>2, <3>3, <3>4
  <2>2. QED
    BY <1>3, <1>4, <2>1 DEF HeardInv
<1>15. QED
  BY <1>8, <1>9, <1>10, <1>11, <1>12, <1>13, <1>14 DEF PInv

\* A reducer stops when all of them have come to their end.
LEMMA StopPInv ==
    ASSUME PInv, NEW t \in Reducer, Stop(t), Processes!Barrier, UNCHANGED device
    PROVE  PInv'
<1>1. /\ stopped' = stopped \union {t}
      /\ UNCHANGED <<sent, queue, num_empty, popped, device>>
  BY DEF Stop
<1>2. \A r \in Reducer : num_empty[r] >= Cardinality(Mapper)
  <2>1. Processes!Cardinality(Mapper) = Cardinality(Mapper)
    BY Zenon DEF Processes!Cardinality, Cardinality
  <2>2. QED
    BY <2>1 DEF Processes!Barrier, Processes!AllEnded, Processes!Reducer, Reducer
<1>3. ProcessType' /\ DeviceInv' /\ ReadInv' /\ EndInv' /\ TerminatedInv'
  <2>1. ProcessType'
    BY <1>1 DEF PInv, ProcessType
  <2>2. DeviceInv' /\ EndInv' /\ TerminatedInv'
    BY <1>1 DEF PInv, DeviceInv, EndInv, TerminatedInv
  <2>3. ReadInv'
    BY <1>1 DEF PInv, ReadInv
  <2>4. QED
    BY <2>1, <2>2, <2>3
<1>4. WrittenInv'
  BY <1>1 DEF PInv, WrittenInv, Under, Holds
<1>5. HeardInv'
  BY <1>1, <1>2 DEF PInv, HeardInv, Heard
<1>6. QED
  BY <1>3, <1>4, <1>5 DEF PInv

\* What leaves the processes as they are leaves their invariant.
LEMMA StutterPInv == ASSUME PInv, UNCHANGED <<vars, device>> PROVE PInv'
<1>1. UNCHANGED <<sent, queue, num_empty, stopped, popped, device>>
  BY DEF vars
<1>2. ProcessType' /\ DeviceInv' /\ EndInv'
  BY <1>1 DEF PInv, ProcessType, DeviceInv, EndInv
<1>3. ReadInv' /\ TerminatedInv' /\ HeardInv'
  BY <1>1 DEF PInv, ReadInv, TerminatedInv, HeardInv, Heard
<1>4. WrittenInv'
  BY <1>1 DEF PInv, WrittenInv, Under, Holds
<1>5. QED
  BY <1>2, <1>3, <1>4 DEF PInv

\* Before anything is sent nothing is in a queue, and nothing was.
LEMMA NothingSent ==
    ASSUME IInv, \A m \in Mapper : sent[m] = 0, NEW r \in Reducer
    PROVE  queue[r] = << >> /\ popped[r] = {}
<1>1. ASSUME NEW item \in Items PROVE ~ Delivered(r, item)
  <2>1. item.from \in Mapper /\ item.index \in Nat
    BY DEF Items
  <2>2. sent[item.from] = 0
    BY <2>1
  <2>3. QED
    BY <2>1, <2>2 DEF Delivered
<1>2. queue[r] \in Seq(Items) /\ popped[r] \subseteq Items
  BY DEF IInv, TypeInv
<1>3. \A i \in 1 .. Len(queue[r]) : Delivered(r, queue[r][i]) /\ queue[r][i] \in Items
  BY <1>2, ElementOfSeq DEF IInv, QueueInv
<1>4. ~ (1 \in 1 .. Len(queue[r]))
  BY <1>1, <1>3
<1>5. Len(queue[r]) \in Nat
  BY <1>2, LenProperties
<1>6. Len(queue[r]) = 0
  BY <1>4, <1>5
<1>7. \A item \in popped[r] : Delivered(r, item)
  BY DEF IInv, PoppedInv
<1>8. QED
  BY <1>1, <1>2, <1>6, <1>7, EmptySeq

\* Processes that take the place of threads of which none has sent anything
\* find nothing on its way.
LEMMA SpawnPInv ==
    ASSUME IInv, \A m \in Mapper : sent[m] = 0, device = Processes!Devices
    PROVE  PInv
<1>1. /\ sent \in [Mapper -> Nat]
      /\ queue \in [Reducer -> Seq(Items)]
      /\ num_empty \in [Reducer -> Nat]
      /\ stopped \subseteq Reducer
      /\ popped \in [Reducer -> SUBSET Items]
  BY DEF IInv, TypeInv
<1>3. \A r \in Reducer : queue[r] = << >> /\ popped[r] = {}
  BY NothingSent
<1>4. Cardinality({}) = 0
  BY FS_EmptySet
<1>5. ASSUME NEW r \in Reducer PROVE num_empty[r] = 0 /\ num_empty[r] = Cardinality(Heard(r))
  <2>1. Heard(r) = {}
    BY <1>3 DEF Heard
  <2>2. QED
    BY <1>4, <2>1 DEF IInv, CountInv
<1>6. stopped = {}
  <2> SUFFICES ASSUME NEW r \in stopped PROVE FALSE
    OBVIOUS
  <2>1. IsFiniteSet(Mapper) /\ 0 \in Mapper
    BY MapReduceAssumption, ThreadsAssumption, IndexAssumption
  <2>2. Cardinality(Mapper) \in Nat /\ Cardinality(Mapper) # 0
    BY <2>1, FS_CardinalityType, FS_EmptySet
  <2>3. num_empty[r] = 0 /\ num_empty[r] >= Cardinality(Mapper)
    BY <1>1, <1>5 DEF IInv, CountInv
  <2>4. QED
    BY <2>2, <2>3
<1>7. ASSUME NEW m \in Mapper, NEW r \in Reducer
      PROVE  /\ device[m][r].buffer = << >> /\ device[m][r].wire = << >>
             /\ ~ device[m][r].terminated
             /\ \A S : device[m][r] \in DeviceOf(S)
  <2>1. device[m][r] = [buffer |-> << >>, wire |-> << >>, terminated |-> FALSE]
    BY DEF Processes!Devices, Processes!Reducer, Processes!Opened, Reducer
  <2>2. \A S : << >> \in Seq(S)
    OBVIOUS
  <2>3. QED
    BY <2>1, <2>2 DEF DeviceOf
<1>8. ProcessType
  <2>1. device \in [Mapper -> [Reducer -> DeviceOf(Items)]]
    <3>1. device = [m \in Mapper |-> [r \in Reducer |->
                       [buffer |-> << >>, wire |-> << >>, terminated |-> FALSE]]]
      BY DEF Processes!Devices, Processes!Reducer, Processes!Opened, Reducer
    <3>2. [buffer |-> << >>, wire |-> << >>, terminated |-> FALSE] \in DeviceOf(Items)
      BY DEF DeviceOf
    <3>3. QED
      BY <3>1, <3>2
  <2>2. QED
    BY <1>1, <2>1 DEF ProcessType
<1>9. DeviceInv
  BY <1>7 DEF DeviceInv
<1>10. ReadInv
  <2>1. \A S : << >> \in Seq(S)
    OBVIOUS
  <2>2. QED
    BY <1>3, <2>1 DEF ReadInv
<1>11. EndInv
  <2>1. \A m \in Mapper : \A r \in Reducer : << >> # <<EndOf(m, r)>>
    OBVIOUS
  <2>2. QED
    BY <1>3, <2>1 DEF EndInv
<1>12. WrittenInv
  <2> SUFFICES ASSUME NEW m \in Mapper, NEW r \in Reducer, NEW item \in MessagesFor(m, r),
                      item.index <= sent[m]
               PROVE  FALSE
    BY DEF WrittenInv
  <2>1. item.index \in 1 .. Len(To[m]) /\ Len(To[m]) \in Nat /\ sent[m] = 0
    BY MessageType, TargetType
  <2>2. QED
    BY <2>1
<1>13. TerminatedInv
  <2> SUFFICES ASSUME NEW m \in Mapper, sent[m] >= Len(To[m])
               PROVE  sent[m] = Len(To[m]) + Cardinality({r \in Reducer : device[m][r].terminated})
    BY DEF TerminatedInv
  <2>1. {r \in Reducer : device[m][r].terminated} = {}
    BY <1>7
  <2>2. Cardinality({r \in Reducer : device[m][r].terminated}) = 0
    BY <1>4, <2>1
  <2>3. sent[m] = 0 /\ Len(To[m]) = 0
    BY TargetType
  <2>4. QED
    BY <2>2, <2>3
<1>14. HeardInv
  BY <1>5, <1>6 DEF HeardInv
<1>15. QED
  BY <1>8, <1>9, <1>10, <1>11, <1>12, <1>13, <1>14 DEF PInv

\* A process that has counted all ends has handled what was meant for it.
LEMMA EndedPInv ==
    ASSUME PInv, NEW r \in Reducer, AllEnded(r)
    PROVE  /\ queue[r] = << >>
           /\ \A m \in Mapper :
                 /\ EndOf(m, r) \in popped[r]
                 /\ device[m][r].terminated
                 /\ device[m][r].wire = << >> /\ device[m][r].buffer = << >>
                 /\ sent[m] >= Len(To[m])
           /\ MessagesOf(r) \subseteq popped[r]
<1>1. queue[r] \in Seq(Items)
  BY DEF PInv, ProcessType
<1>2. ASSUME NEW m \in Mapper PROVE EndOf(m, r) \in popped[r]
  <2>1. Cardinality(Heard(r)) >= Cardinality(Mapper)
    BY DEF PInv, HeardInv, AllEnded
  <2>2. Heard(r) \in SUBSET Mapper /\ IsFiniteSet(Mapper)
    BY MapReduceAssumption DEF Heard
  <2>3. Cardinality(Heard(r)) <= Cardinality(Mapper) /\ IsFiniteSet(Heard(r))
    BY <2>2, FS_Subset
  <2>4. Cardinality(Heard(r)) \in Nat /\ Cardinality(Mapper) \in Nat
    BY <2>2, <2>3, FS_CardinalityType
  <2>5. Cardinality(Heard(r)) = Cardinality(Mapper)
    BY <2>1, <2>3, <2>4
  <2>6. Heard(r) = Mapper
    BY <2>2, <2>5, FS_Subset
  <2>7. QED
    BY <2>6 DEF Heard, EndOf
<1>3. ASSUME NEW m \in Mapper
      PROVE  /\ device[m][r].terminated
             /\ device[m][r].wire = << >> /\ device[m][r].buffer = << >>
             /\ sent[m] >= Len(To[m])
             /\ \A i \in 1 .. Len(queue[r]) : queue[r][i].from # m
  BY <1>2 DEF PInv, DeviceInv, EndInv
<1>4. queue[r] = << >>
  <2>1. Len(queue[r]) \in Nat
    BY <1>1, LenProperties
  <2>2. ~ (1 \in 1 .. Len(queue[r]))
    <3> SUFFICES ASSUME 1 \in 1 .. Len(queue[r]) PROVE FALSE
      OBVIOUS
    <3>1. queue[r][1] \in Items
      BY <1>1, ElementOfSeq
    <3>2. QED
      BY <1>3, <3>1 DEF Items
  <2>3. Len(queue[r]) = 0
    BY <2>1, <2>2
  <2>4. QED
    BY <1>1, <2>3, EmptySeq
<1>5. ASSUME NEW item \in MessagesOf(r) PROVE item \in popped[r]
  <2>1. PICK m \in Mapper : item \in MessagesFor(m, r)
    BY DEF MessagesOf
  <2>2. item.index \in 1 .. Len(To[m]) /\ Len(To[m]) \in Nat /\ sent[m] \in Nat
    BY <2>1, MessageType, TargetType DEF PInv, ProcessType
  <2>3. item.index <= sent[m]
    BY <1>3, <2>2
  <2>4. item \in popped[r] \/ Holds(queue[r], item) \/ Under(device[m][r], item)
    BY <2>1, <2>3 DEF PInv, WrittenInv
  <2>5. ~ Holds(queue[r], item) /\ ~ Under(device[m][r], item)
    BY <1>3, <1>4 DEF Under, Holds
  <2>6. QED
    BY <2>4, <2>5
<1>6. QED
  BY <1>2, <1>3, <1>4, <1>5

\* In every state of the processes' invariant a reducer that has written has
\* handled all that was meant for it, of every mapper.
LEMMA StoppedPInv == ASSUME PInv PROVE StoppedHasAll
<1> SUFFICES ASSUME NEW r \in stopped
             PROVE  /\ queue[r] = << >>
                    /\ \A m \in Mapper : \A i \in 1 .. Total(m) :
                          Target(m, i) = r => sent[m] >= i /\ Item(m, i) \in popped[r]
  BY DEF StoppedHasAll
<1>1. r \in Reducer
  BY DEF PInv, ProcessType
<1>2. \A q \in Reducer : AllEnded(q)
  BY DEF PInv, HeardInv, AllEnded
<1>3. ASSUME NEW m \in Mapper, NEW q \in Reducer
      PROVE  device[m][q].terminated /\ EndOf(m, q) \in popped[q] /\ sent[m] >= Len(To[m])
  BY <1>2, EndedPInv
<1>4. queue[r] = << >> /\ MessagesOf(r) \subseteq popped[r]
  BY <1>1, <1>2, EndedPInv
<1>5. ASSUME NEW m \in Mapper, NEW i \in 1 .. Total(m), Target(m, i) = r
      PROVE  sent[m] >= i /\ Item(m, i) \in popped[r]
  <2>1. /\ Total(m) \in Nat /\ Len(To[m]) \in Nat /\ i \in Nat
        /\ Total(m) = Len(To[m]) + Reducers /\ Reducers \in Nat
    BY TargetType, MapReduceAssumption DEF Total
  <2>2. sent[m] = Total(m)
    <3>1. {q \in Reducer : device[m][q].terminated} = Reducer
      BY <1>3
    <3>2. Cardinality(Reducer) = Reducers
      <4>1. Cardinality(0 .. Reducers - 1) =
                IF 0 > Reducers - 1 THEN 0 ELSE (Reducers - 1) - 0 + 1
        BY <2>1, FS_Interval
      <4>2. QED
        BY <2>1, <4>1 DEF Reducer
    <3>3. sent[m] = Len(To[m]) + Cardinality({q \in Reducer : device[m][q].terminated})
      BY <1>1, <1>3 DEF PInv, TerminatedInv
    <3>4. QED
      BY <2>1, <3>1, <3>2, <3>3
  <2>3. sent[m] >= i
    BY <2>1, <2>2
  <2>4. CASE i <= Len(To[m])
    <3>1. To[m][i] = r /\ i \in 1 .. Len(To[m])
      BY <1>5, <2>1, <2>4 DEF Target
    <3>2. Item(m, i) \in MessagesOf(r)
      BY <3>1 DEF MessagesOf, MessagesFor
    <3>3. QED
      BY <1>4, <2>3, <3>2
  <2>5. CASE i > Len(To[m])
    <3>1. Item(m, i) = EndOf(m, r)
      BY <1>1, <1>5, <2>1, <2>5, EmptyIndex DEF EndOf
    <3>2. QED
      BY <1>1, <1>3, <2>3, <3>1
  <2>6. QED
    BY <2>1, <2>4, <2>5
<1>6. QED
  BY <1>4, <1>5

-----------------------------------------------------------------------------
(* The program: threads, or processes in their place.                       *)

MediumInv ==
    /\ medium \in {"threads", "processes", "aborted"}
    /\ medium = "threads" => IInv /\ device = Processes!Devices
    /\ medium # "threads" => PInv

\* What leaves queues and devices as they are leaves their invariant, also
\* when the processes are stopped.
LEMMA StutterMedium ==
    ASSUME MediumInv, UNCHANGED <<vars, device>>,
           medium' = medium \/ (medium = "processes" /\ medium' = "aborted")
    PROVE  MediumInv'
<1>1. IInv => IInv'
  BY StutterInv
<1>2. PInv => PInv'
  BY StutterPInv
<1>3. device' = device
  OBVIOUS
<1>4. Processes!Devices' = Processes!Devices
  BY DEF Processes!Devices
<1>5. QED
  BY <1>1, <1>2, <1>3, <1>4 DEF MediumInv

\* What a mapper process does keeps the invariant.
LEMMA CarryInv ==
    ASSUME PInv, NEW m \in Mapper, Processes!Carry(m)
    PROVE  PInv'
<1>1. Processes!Reducer = Reducer
  BY DEF Processes!Reducer, Reducer
<1>2. CASE Processes!Write(m)
  BY <1>2, WriteInv
<1>3. CASE \E r \in Reducer : Processes!FlushRest(m, r)
  BY <1>3, FlushRestInv
<1>4. CASE \E r \in Reducer : Processes!Terminate(m, r)
  BY <1>4, TerminateInv
<1>5. CASE \E r \in Reducer : Processes!Receive(r, m)
  BY <1>5, ReceiveInv
<1>6. QED
  BY <1>1, <1>2, <1>3, <1>4, <1>5 DEF Processes!Carry

\* What a reducer does with a message is a step of MapReduce.
LEMMA ReducerSteps ==
    ASSUME NEW s \in Shard, ModifyReduce(s)
    PROVE  Pop(s) \/ Stop(s)
BY DEF ModifyReduce, PopEmpty, PopKnown, PopUnknown, Write

\* Printing the counts leaves the queues alone.
LEMMA DumpingKeeps == ASSUME DumpingNext PROVE UNCHANGED modifyVars
BY DEF DumpingNext, Open, PushContext, PopContext, PrintContext, allVars

\* There are threads first, and they have sent nothing.
LEMMA MediumInit == ModifyMPIInit => MediumInv
<1> SUFFICES ASSUME ModifyMPIInit PROVE MediumInv
  OBVIOUS
<1>1. Init /\ medium = "threads" /\ device = Processes!Devices
  BY DEF ModifyMPIInit, DumpInit, ModifyInit, Processes!MPIInit
<1>2. QED
  BY <1>1, InitInv DEF MediumInv

\* Threads, processes, and the start of processes keep the invariant.
LEMMA MediumStep ==
    MediumInv /\ [ModifyMPINext]_<<allVars, modifyMPIVars>> => MediumInv'
<1> SUFFICES ASSUME MediumInv, [ModifyMPINext]_<<allVars, modifyMPIVars>>
             PROVE  MediumInv'
  OBVIOUS
<1>1. Mapper = Shard /\ Reducer = Shard
  BY ThreadsAssumption, ReducerOfShard
<1>2. Processes!Devices' = Processes!Devices
  BY DEF Processes!Devices
<1>3. ASSUME UNCHANGED <<modifyVars, device>>,
             medium' = medium \/ (medium = "processes" /\ medium' = "aborted")
      PROVE  MediumInv'
  BY <1>3, StutterMedium DEF modifyVars
<1>4. CASE Spawn
  <2>1. /\ medium = "threads" /\ medium' = "processes"
        /\ \A m \in Mapper : sent[m] = 0
        /\ UNCHANGED <<vars, device>>
    BY <1>1, <1>4 DEF Spawn, allVars, modifyVars
  <2>2. PInv
    BY <2>1, SpawnPInv DEF MediumInv
  <2>3. PInv'
    BY <2>1, <2>2, StutterPInv
  <2>4. QED
    BY <2>1, <2>3 DEF MediumInv
<1>5. ASSUME NEW s \in Shard, medium = "processes", CarryCount(s)
      PROVE  MediumInv'
  <2>1. Processes!Carry(s) /\ medium' = medium /\ PInv
    BY <1>5 DEF CarryCount, MediumInv
  <2>2. PInv'
    BY <1>1, <2>1, CarryInv
  <2>3. QED
    BY <1>5, <2>1, <2>2 DEF MediumInv
<1>6. ASSUME NEW s \in Shard, medium = "processes", AbortCount(s)
      PROVE  MediumInv'
  BY <1>3, <1>6 DEF AbortCount, allVars
<1>7. ASSUME NEW s \in Shard, medium = "threads", Map(s) \/ Reduce(s),
             UNCHANGED modifyMPIVars
      PROVE  MediumInv'
  <2>1. IInv'
    BY <1>1, <1>7, StepInv DEF MediumInv, Next
  <2>2. medium' = medium /\ device' = device
    BY <1>7 DEF modifyMPIVars
  <2>3. QED
    BY <1>2, <1>7, <2>1, <2>2 DEF MediumInv
<1>8. ASSUME NEW s \in Shard, medium # "aborted", MayReduce(s),
             Modifying(ModifyReduce(s)), UNCHANGED modifyMPIVars
      PROVE  MediumInv'
  <2>1. Pop(s) \/ Stop(s)
    BY <1>8, ReducerSteps DEF Modifying
  <2>2. CASE medium = "threads"
    BY <1>7, <1>8, <2>1, <2>2 DEF Reduce
  <2>3. CASE medium = "processes"
    <3>1. PInv /\ UNCHANGED device /\ medium' = medium
      BY <1>8, <2>3 DEF MediumInv, modifyMPIVars
    <3>2. Stop(s) => Processes!Barrier
      BY <1>8, <2>3 DEF MayReduce, Stop
    <3>3. PInv'
      BY <1>1, <2>1, <3>1, <3>2, PopPInv, StopPInv
    <3>4. QED
      BY <2>3, <3>1, <3>3 DEF MediumInv
  <2>4. QED
    BY <1>8, <2>2, <2>3 DEF MediumInv
<1>9. CASE DumpingNext /\ UNCHANGED modifyMPIVars
  <2>1. UNCHANGED modifyVars
    BY <1>9, DumpingKeeps
  <2>2. medium' = medium /\ device' = device
    BY <1>9 DEF modifyMPIVars
  <2>3. QED
    BY <1>3, <2>1, <2>2
<1>10. CASE UNCHANGED <<allVars, modifyMPIVars>>
  <2>1. UNCHANGED modifyVars /\ medium' = medium /\ device' = device
    BY <1>10 DEF allVars, modifyMPIVars
  <2>2. QED
    BY <1>3, <2>1
<1>11. QED
  <2>1. CASE \E s \in Shard : medium = "processes" /\ (CarryCount(s) \/ AbortCount(s))
    BY <1>5, <1>6, <2>1
  <2>2. CASE \E s \in Shard : /\ medium = "threads"
                              /\ Modifying(ModifyMap(s))
                              /\ UNCHANGED modifyMPIVars
    BY <1>7, <2>2 DEF Modifying, ModifyMap
  <2>3. CASE \E s \in Shard : /\ medium # "aborted" /\ MayReduce(s)
                              /\ Modifying(ModifyReduce(s))
                              /\ UNCHANGED modifyMPIVars
    BY <1>8, <2>3
  <2>4. QED
    BY <1>4, <1>9, <1>10, <2>1, <2>2, <2>3 DEF ModifyMPINext

\* The queues and devices are always as the invariant has them.
LEMMA MediumInvariance == ModifyMPISpec => []MediumInv
  BY MediumInit, MediumStep, PTL DEF ModifyMPISpec

\* Whether threads or processes modify the counts: when a reducer writes its
\* sums, it has handled every message that any mapper had for it, and no one
\* waits to send it more.  A process counts the messages of size zero that end
\* its devices, which come behind pieces of a buffer that was sent before, over
\* as many messages as it takes.
THEOREM ModifyMPIHasAll == ModifyMPISpec => []StoppedHasAll
<1>1. MediumInv => StoppedHasAll
  BY StoppedInv, StoppedPInv DEF MediumInv
<1>2. QED
  BY <1>1, MediumInvariance, PTL

-----------------------------------------------------------------------------
(* Where the messages go.                                                   *)

\* A one-to-one correspondence with a finite set counts.
LEMMA Matched ==
    ASSUME NEW S, NEW T, IsFiniteSet(T), NEW f \in [S -> T],
           \A x \in S : \A y \in S : f[x] = f[y] => x = y,
           \A z \in T : \E x \in S : f[x] = z
    PROVE  IsFiniteSet(S) /\ Cardinality(S) = Cardinality(T)
<1>1. f \in Injection(S, T) /\ f \in Surjection(S, T)
  BY DEF Injection, Surjection, IsInjective
<1>2. QED
  BY <1>1, FS_Injection

\* The places in the first n of some sequences, and a way to run through them in
\* the order of the sequences put together.
Places(seqs, n) == {x \in (1 .. n) \X Nat : x[2] \in 1 .. Len(seqs[x[1]])}

IsPlacing(f, flat, seqs, n) ==
    /\ f \in [1 .. Len(flat) -> Places(seqs, n)]
    /\ \A i \in 1 .. Len(flat) : flat[i] = seqs[f[i][1]][f[i][2]]
    /\ \A i \in 1 .. Len(flat) : \A j \in 1 .. Len(flat) : f[i] = f[j] => i = j
    /\ \A x \in Places(seqs, n) : \E i \in 1 .. Len(flat) : f[i] = x

\* One more sequence comes behind those put together.
LEMMA PlacingNext ==
    ASSUME NEW S, NEW seqs \in Seq(Seq(S)), NEW n \in Nat, n + 1 <= Len(seqs),
           NEW flat \in Seq(S), NEW f, IsPlacing(f, flat, seqs, n)
    PROVE  \E g : IsPlacing(g, flat \o seqs[n + 1], seqs, n + 1)
<1> DEFINE t == seqs[n + 1]
           a == Len(flat)
           b == Len(t)
           g == [i \in 1 .. a + b |-> IF i <= a THEN f[i] ELSE <<n + 1, i - a>>]
<1>1. t \in Seq(S)
  <2>1. n + 1 \in 1 .. Len(seqs)
    BY LenProperties
  <2>2. QED
    BY <2>1, ElementOfSeq
<1>2. /\ a \in Nat /\ b \in Nat
      /\ Len(flat \o t) = a + b
      /\ \A i \in 1 .. a : (flat \o t)[i] = flat[i]
      /\ \A i \in 1 .. b : (flat \o t)[a + i] = t[i]
  BY <1>1
<1>3. /\ f \in [1 .. a -> Places(seqs, n)]
      /\ \A i \in 1 .. a : flat[i] = seqs[f[i][1]][f[i][2]]
      /\ \A i \in 1 .. a : \A j \in 1 .. a : f[i] = f[j] => i = j
      /\ \A x \in Places(seqs, n) : \E i \in 1 .. a : f[i] = x
  BY DEF IsPlacing
<1>4. ASSUME NEW x \in Places(seqs, n)
      PROVE  /\ x[1] \in 1 .. n /\ x[1] # n + 1
             /\ x \in Places(seqs, n + 1)
  BY DEF Places
<1>5. \A k \in 1 .. b : <<n + 1, k>> \in Places(seqs, n + 1)
  BY <1>2 DEF Places
<1>6. ASSUME NEW x \in Places(seqs, n + 1)
      PROVE  x \in Places(seqs, n) \/ \E k \in 1 .. b : x = <<n + 1, k>>
  <2>1. /\ x = <<x[1], x[2]>> /\ x[1] \in 1 .. n + 1 /\ x[2] \in Nat
        /\ x[2] \in 1 .. Len(seqs[x[1]])
    BY DEF Places
  <2>2. CASE x[1] = n + 1
    BY <2>1, <2>2
  <2>3. CASE x[1] # n + 1
    <3>1. x[1] \in 1 .. n
      BY <2>1, <2>3
    <3>2. QED
      BY <2>1, <3>1 DEF Places
  <2>4. QED
    BY <2>2, <2>3
<1>7. /\ \A i \in 1 .. a : i \in 1 .. a + b /\ g[i] = f[i] /\ f[i] \in Places(seqs, n)
      /\ \A k \in 1 .. b : a + k \in 1 .. a + b /\ g[a + k] = <<n + 1, k>>
      /\ \A i \in 1 .. a + b : i \in 1 .. a \/ (i - a \in 1 .. b /\ a + (i - a) = i)
  <2>1. \A i \in 1 .. a : i \in 1 .. a + b /\ i <= a
    BY <1>2
  <2>2. \A k \in 1 .. b : a + k \in 1 .. a + b /\ ~ (a + k <= a) /\ (a + k) - a = k
    BY <1>2
  <2>3. \A i \in 1 .. a + b : i \in 1 .. a \/ (i - a \in 1 .. b /\ a + (i - a) = i)
    BY <1>2
  <2>4. \A i \in 1 .. a : f[i] \in Places(seqs, n)
    BY <1>3
  <2> HIDE DEF a, b
  <2>5. QED
    BY <2>1, <2>2, <2>3, <2>4
<1> HIDE DEF g, t, a, b
<1>8. ASSUME NEW i \in 1 .. a + b PROVE g[i] \in Places(seqs, n + 1)
  <2>1. CASE i \in 1 .. a
    BY <1>4, <1>7, <2>1
  <2>2. CASE i - a \in 1 .. b /\ a + (i - a) = i
    <3>1. g[a + (i - a)] = <<n + 1, i - a>>
      BY <1>7, <2>2
    <3>2. QED
      BY <1>5, <2>2, <3>1
  <2>3. QED
    BY <1>7, <2>1, <2>2
<1>9. ASSUME NEW i \in 1 .. a + b PROVE (flat \o t)[i] = seqs[g[i][1]][g[i][2]]
  <2>1. CASE i \in 1 .. a
    BY <1>2, <1>3, <1>7, <2>1
  <2>2. CASE i - a \in 1 .. b /\ a + (i - a) = i
    <3>1. g[i] = <<n + 1, i - a>> /\ (flat \o t)[i] = t[i - a]
      BY <1>2, <1>7, <2>2
    <3>2. QED
      BY <3>1 DEF t
  <2>3. QED
    BY <1>7, <2>1, <2>2
<1>10. ASSUME NEW i \in 1 .. a + b, NEW j \in 1 .. a + b, g[i] = g[j] PROVE i = j
  <2>1. CASE i \in 1 .. a /\ j \in 1 .. a
    BY <1>3, <1>7, <1>10, <2>1
  <2>2. CASE i \notin 1 .. a /\ j \notin 1 .. a
    <3>1. g[i] = <<n + 1, i - a>> /\ g[j] = <<n + 1, j - a>>
      BY <1>7, <2>2
    <3>2. a + (i - a) = i /\ a + (j - a) = j
      BY <1>7, <2>2
    <3>3. <<n + 1, i - a>> = <<n + 1, j - a>>
      BY <1>10, <3>1
    <3>4. i - a = j - a
      BY <3>3
    <3>5. QED
      BY <3>2, <3>4
  <2>3. ASSUME NEW x \in 1 .. a, NEW y \in 1 .. a + b, y \notin 1 .. a, g[x] = g[y] PROVE FALSE
    <3>1. g[y] = <<n + 1, y - a>> /\ g[x] \in Places(seqs, n)
      BY <1>7, <2>3
    <3>2. QED
      BY <1>4, <2>3, <3>1
  <2>4. QED
    BY <1>10, <2>1, <2>2, <2>3
<1>11. ASSUME NEW x \in Places(seqs, n + 1) PROVE \E i \in 1 .. a + b : g[i] = x
  <2>1. CASE x \in Places(seqs, n)
    BY <1>3, <1>7, <2>1
  <2>2. CASE \E k \in 1 .. b : x = <<n + 1, k>>
    BY <1>7, <2>2
  <2>3. QED
    BY <1>6, <2>1, <2>2
<1>12. g \in [1 .. a + b -> Places(seqs, n + 1)]
  <2>1. g = [i \in 1 .. a + b |-> g[i]]
    BY DEF g
  <2>2. QED
    BY <1>8, <2>1
<1>13. IsPlacing(g, flat \o t, seqs, n + 1)
  BY <1>2, <1>9, <1>10, <1>11, <1>12 DEF IsPlacing
<1>14. QED
  BY <1>13 DEF t

\* What FlattenSeq computes, one sequence after the other.
LEMMA FlattenPrefixes ==
    ASSUME NEW S, NEW seqs \in Seq(Seq(S)), Len(seqs) # 0
    PROVE  \E f : /\ f[1] = seqs[1]
                  /\ \A i \in 2 .. Len(seqs) : f[i] = f[i - 1] \o seqs[i]
                  /\ FlattenSeq(seqs) = f[Len(seqs)]
<1> DEFINE n == Len(seqs)
           Step(f, k) == [i \in 1 .. k |-> IF i = 1 THEN seqs[i] ELSE f[i - 1] \o seqs[i]]
           flatten == CHOOSE f : f = Step(f, n)
<1>1. n \in Nat /\ \A i \in 1 .. n : seqs[i] \in Seq(S)
  BY ElementOfSeq, LenProperties
<1>2. FlattenSeq(seqs) = IF n = 0 THEN seqs ELSE flatten[n]
  BY DEF FlattenSeq
<1>3. \E f : f = Step(f, n)
  <2> DEFINE Solved(k) == \E f : f = Step(f, k)
             Bad == {k \in Nat : k <= n /\ ~ Solved(k)}
  <2> SUFFICES ASSUME ~ Solved(n) PROVE FALSE
    OBVIOUS
  <2>1. n \in Bad
    <3> HIDE DEF Solved
    <3>1. QED
      BY <1>1
  <2>2. PICK k \in Bad : \A j \in Bad : k <= j
    <3>1. Bad \in SUBSET Nat /\ Bad # {}
      BY <2>1
    <3> HIDE DEF Bad
    <3>2. QED
      BY <3>1, HasLeast
  <2>3. k # 0
    <3>1. << >> = Step(<< >>, 0)
      OBVIOUS
    <3>2. Solved(0)
      BY <3>1
    <3> HIDE DEF Solved
    <3>3. QED
      BY <2>2, <3>2
  <2>4. k \in Nat /\ k <= n /\ k - 1 \in Nat /\ k - 1 <= n /\ ~ (k <= k - 1)
    BY <1>1, <2>2, <2>3
  <2>5. PICK f : f = Step(f, k - 1)
    <3>1. Solved(k - 1)
      <4> HIDE DEF Solved
      <4>1. QED
        BY <2>2, <2>4
    <3>2. QED
      BY <3>1
  <2> DEFINE g == [i \in 1 .. k |-> IF i = k THEN (IF k = 1 THEN seqs[k] ELSE f[k - 1] \o seqs[k])
                                             ELSE f[i]]
  <2>6. g = Step(g, k)
    <3>1. ASSUME NEW i \in 1 .. k
          PROVE  g[i] = IF i = 1 THEN seqs[i] ELSE g[i - 1] \o seqs[i]
      <4>1. CASE i = k
        <5>1. CASE k = 1
          BY <4>1, <5>1
        <5>2. CASE k # 1
          <6>1. g[k - 1] = f[k - 1]
            BY <2>4, <5>2
          <6>2. QED
            BY <2>4, <4>1, <5>2, <6>1
        <5>3. QED
          BY <5>1, <5>2
      <4>2. CASE i # k
        <5>1. i \in 1 .. k - 1 /\ g[i] = f[i]
          BY <2>4, <4>2
        <5>2. f[i] = IF i = 1 THEN seqs[i] ELSE f[i - 1] \o seqs[i]
          BY <2>5, <5>1
        <5>3. CASE i = 1
          BY <5>1, <5>2, <5>3
        <5>4. CASE i # 1
          <6>1. i - 1 \in 1 .. k /\ i - 1 # k
            BY <2>4, <5>1, <5>4
          <6>2. g[i - 1] = f[i - 1]
            BY <6>1
          <6>3. QED
            BY <5>1, <5>2, <5>4, <6>2
        <5>5. QED
          BY <5>3, <5>4
      <4>3. QED
        BY <4>1, <4>2
    <3> HIDE DEF g
    <3>2. g = [i \in 1 .. k |-> g[i]]
      BY DEF g
    <3>3. QED
      BY <3>1, <3>2
  <2>7. Solved(k)
    BY <2>6
  <2>8. QED
    BY <2>2, <2>7
<1>4. flatten = Step(flatten, n)
  BY <1>3
<1> HIDE DEF flatten
<1>5. /\ flatten[1] = seqs[1]
      /\ \A i \in 2 .. n : flatten[i] = flatten[i - 1] \o seqs[i]
      /\ FlattenSeq(seqs) = flatten[n]
  <2>1. flatten[1] = seqs[1]
    <3>1. 1 \in 1 .. n
      BY <1>1
    <3>2. QED
      BY <1>4, <3>1
  <2>2. ASSUME NEW i \in 2 .. n PROVE flatten[i] = flatten[i - 1] \o seqs[i]
    <3>1. i \in 1 .. n /\ i # 1
      BY <1>1
    <3>2. QED
      BY <1>4, <3>1
  <2>3. QED
    BY <1>2, <2>1, <2>2
<1>6. QED
  BY <1>5

\* Each element of the sequences has its place in what FlattenSeq makes of them.
LEMMA Placing ==
    ASSUME NEW S, NEW seqs \in Seq(Seq(S))
    PROVE  /\ FlattenSeq(seqs) \in Seq(S)
           /\ \E f : IsPlacing(f, FlattenSeq(seqs), seqs, Len(seqs))
<1> DEFINE n == Len(seqs)
<1>1. n \in Nat /\ \A i \in 1 .. n : seqs[i] \in Seq(S)
  BY ElementOfSeq, LenProperties
<1>2. \E f : IsPlacing(f, << >>, seqs, 0)
  <2>1. Places(seqs, 0) = {}
    <3>1. 1 .. 0 = {}
      OBVIOUS
    <3>2. QED
      BY <3>1 DEF Places
  <2>2. IsPlacing(<< >>, << >>, seqs, 0)
    BY <2>1 DEF IsPlacing
  <2>3. QED
    BY <2>2
<1>3. CASE n = 0
  <2>1. seqs = << >>
    BY <1>3, EmptySeq
  <2>2. FlattenSeq(seqs) = << >>
    BY <1>3, <2>1 DEF FlattenSeq
  <2>3. QED
    BY <1>2, <1>3, <2>2
<1>4. CASE n # 0
  <2>1. PICK f : /\ f[1] = seqs[1]
                 /\ \A i \in 2 .. n : f[i] = f[i - 1] \o seqs[i]
                 /\ FlattenSeq(seqs) = f[n]
    BY <1>4, FlattenPrefixes
  <2> DEFINE Placed(k) == f[k] \in Seq(S) /\ \E g : IsPlacing(g, f[k], seqs, k)
             Bad == {k \in Nat : k \in 1 .. n /\ ~ Placed(k)}
  <2>2. Placed(1)
    <3>1. PICK g : IsPlacing(g, << >>, seqs, 0)
      BY <1>2
    <3>2. seqs[1] \in Seq(S) /\ 0 + 1 = 1 /\ 0 + 1 <= Len(seqs) /\ << >> \in Seq(S)
      BY <1>1, <1>4
    <3>3. \E h : IsPlacing(h, << >> \o seqs[0 + 1], seqs, 0 + 1)
      BY <3>1, <3>2, PlacingNext
    <3>4. << >> \o seqs[1] = seqs[1]
      BY <3>2, ConcatEmptySeq
    <3>5. QED
      BY <2>1, <3>2, <3>3, <3>4
  <2>3. ASSUME Bad # {} PROVE FALSE
    <3>1. PICK k \in Bad : \A j \in Bad : k <= j
      <4>1. Bad \in SUBSET Nat
        OBVIOUS
      <4> HIDE DEF Bad
      <4>2. QED
        BY <2>3, <4>1, HasLeast
    <3>2. k \in 1 .. n /\ ~ Placed(k) /\ k # 1
      <4> HIDE DEF Placed
      <4>1. QED
        BY <2>2, <3>1
    <3>3. /\ k - 1 \in Nat /\ k - 1 \in 1 .. n /\ ~ (k <= k - 1) /\ (k - 1) + 1 = k
          /\ k \in 2 .. n /\ (k - 1) + 1 <= Len(seqs)
      BY <1>1, <3>2
    <3>4. Placed(k - 1)
      <4> HIDE DEF Placed
      <4>1. QED
        BY <3>1, <3>3
    <3>5. PICK g : IsPlacing(g, f[k - 1], seqs, k - 1)
      BY <3>4
    <3>6. \E h : IsPlacing(h, f[k - 1] \o seqs[(k - 1) + 1], seqs, (k - 1) + 1)
      BY <3>3, <3>4, <3>5, PlacingNext
    <3>7. f[k] = f[k - 1] \o seqs[k] /\ f[k] \in Seq(S)
      <4>1. f[k] = f[k - 1] \o seqs[k]
        BY <2>1, <3>3
      <4>2. f[k - 1] \in Seq(S) /\ seqs[k] \in Seq(S)
        BY <1>1, <3>2, <3>4
      <4>3. QED
        BY <4>1, <4>2, ConcatProperties
    <3>8. QED
      BY <3>2, <3>3, <3>6, <3>7
  <2>4. Placed(n)
    <3> HIDE DEF Placed
    <3>1. QED
      BY <1>1, <1>4, <2>3
  <2>5. QED
    BY <2>1, <2>4
<1>5. QED
  BY <1>3, <1>4

\* What modify may send: n-grams that are not of the last order, with counts.
Sendable == {Message(g, n) : g \in {g \in Seq(Word) : Len(g) \in 1 .. Order - 1}, n \in Nat}

\* A message of a shorter n-gram with a count may be sent.
LEMMA IsSendable ==
    ASSUME NEW g \in Seq(Word), Len(g) \in 1 .. Order - 1, NEW n \in Nat
    PROVE  Message(g, n) \in Sendable
BY DEF Sendable

\* The fields of what may be sent.
LEMMA SendableIs ==
    ASSUME NEW message \in Sendable
    PROVE  /\ message.context \in Seq(Word)
           /\ Len(message.context) \in 1 .. Order - 1
           /\ message.to = shard_index(message.context)
           /\ message.count \in Nat
BY DEF Sendable, Message

\* Every shard has the unigram that starts a sentence.
LEMMA UnigramType ==
    ASSUME NEW s \in Shard, NEW id \in Pos(s)
    PROVE  Unigram(s, id) \in Nat
<1> DEFINE w == Ngram(s, id)[1]
           endings == {p \in Pos(s) : Len(Ngram(s, p)) = 2 /\ LastWord(Ngram(s, p)) = w}
<1>1. Cardinality(endings) \in Nat
  <2>1. IsFiniteSet(endings)
    BY NodeType, FS_Subset
  <2>2. QED
    BY <2>1, FS_CardinalityType
<1>2. counts[0][Find(0, <<Bos>>)] \in Nat
  <2>1. 0 \in Shard /\ Has(0, <<Bos>>)
    BY IndexAssumption, ModifyAssumption
  <2>2. Find(0, <<Bos>>) \in Pos(0)
    BY <2>1, FindHas
  <2>3. QED
    BY <2>1, <2>2, ModifyAssumption
<1>3. BosCount(s) \in Nat
  BY <1>2 DEF BosCount
<1> HIDE DEF endings
<1>4. Unigram(s, id) = Cardinality(endings) + (IF w = Bos THEN BosCount(s) ELSE 0)
  BY DEF Unigram, endings
<1>5. QED
  BY <1>1, <1>3, <1>4

\* A node of two words or more sends its n-gram without the first word, unless
\* that is a unigram, and itself, unless it is of the last order.
LEMMA PushedSendable ==
    ASSUME NEW s \in Shard, NEW p \in Pos(s)
    PROVE  Pushed(s, p) \in Seq(Sendable)
<1> DEFINE g == Ngram(s, p)
           preceded == IF Len(g) > 2 THEN <<Preceded(s, g)>> ELSE << >>
           kept == IF KeepsCount(g) THEN <<Message(g, counts[s][p])>> ELSE << >>
<1>1. g \in Seq(Word) /\ Len(g) \in 1 .. Order /\ Order \in Nat
  BY NodeType, IndexAssumption
<1>2. preceded \in Seq(Sendable)
  <2>1. CASE Len(g) > 2
    <3>1. Tail(g) \in Seq(Word) /\ Len(Tail(g)) = Len(g) - 1
      BY <1>1, <2>1
    <3>2. Len(Tail(g)) \in 1 .. Order - 1
      BY <1>1, <2>1, <3>1
    <3>3. Message(Tail(g), 1) \in Sendable
      <4> HIDE DEF g
      <4>1. QED
        BY <3>1, <3>2, IsSendable
    <3>4. Preceded(s, g) \in Sendable
      BY <3>3 DEF Preceded
    <3>5. QED
      BY <2>1, <3>4
  <2>2. QED
    BY <2>1
<1>3. kept \in Seq(Sendable)
  <2>1. CASE KeepsCount(g)
    <3>1. Len(g) \in 1 .. Order - 1
      BY <1>1, <2>1 DEF KeepsCount
    <3>2. counts[s][p] \in Nat
      BY ModifyAssumption
    <3>3. Message(g, counts[s][p]) \in Sendable
      BY <1>1, <3>1, <3>2, IsSendable
    <3>4. QED
      BY <2>1, <3>3
  <2>2. QED
    BY <2>1
<1>4. Pushed(s, p) = preceded \o kept
  BY DEF Pushed
<1> HIDE DEF preceded, kept
<1>5. QED
  BY <1>2, <1>3, <1>4, ConcatProperties

\* The sequences that Messages puts together: one for each node, with the
\* unigrams behind.
NonZeroMessage(count, g) == IF count # 0 THEN <<Message(g, count)>> ELSE << >>

PushedLonger(m) ==
    [i \in 1 .. Size(m) - Offset(m, 1) |-> Pushed(m, Offset(m, 1) + i - 1)]

PushedUnigrams(m) ==
    [i \in 1 .. Offset(m, 1) |-> NonZeroMessage(Unigram(m, i - 1), Ngram(m, i - 1))]

AllPushed(m) == PushedLonger(m) \o PushedUnigrams(m)

\* The sequences of the longer n-grams come first, each of a node of its own.
LEMMA AllPushedIs ==
    ASSUME NEW m \in Shard
    PROVE  /\ Size(m) \in Nat /\ Offset(m, 1) \in 0 .. Size(m)
           /\ Messages(m) = FlattenSeq(AllPushed(m))
           /\ AllPushed(m) \in Seq(Seq(Sendable))
           /\ Len(AllPushed(m)) = Size(m)
           /\ \A i \in 1 .. Size(m) - Offset(m, 1) :
                 /\ Offset(m, 1) + i - 1 \in Pos(m)
                 /\ Len(Ngram(m, Offset(m, 1) + i - 1)) > 1
                 /\ AllPushed(m)[i] = Pushed(m, Offset(m, 1) + i - 1)
           /\ \A i \in Size(m) - Offset(m, 1) + 1 .. Size(m) :
                 /\ i - (Size(m) - Offset(m, 1)) - 1 \in Pos(m)
                 /\ Len(Ngram(m, i - (Size(m) - Offset(m, 1)) - 1)) = 1
                 /\ AllPushed(m)[i] =
                      NonZeroMessage(Unigram(m, i - (Size(m) - Offset(m, 1)) - 1),
                                     Ngram(m, i - (Size(m) - Offset(m, 1)) - 1))
<1> DEFINE o == Offset(m, 1)
           n == Size(m) - o
<1>1. /\ Size(m) \in Nat /\ Pos(m) = 0 .. Size(m) - 1 /\ o \in 0 .. Size(m)
      /\ \A q \in Pos(m) : q < o <=> Len(Ngram(m, q)) <= 1
  BY NodeType, OffsetBounds DEF Pos
<1>2. n \in Nat /\ o \in Nat /\ n + o = Size(m)
  BY <1>1
<1>3. ASSUME NEW i \in 1 .. n
      PROVE  o + i - 1 \in Pos(m) /\ Len(Ngram(m, o + i - 1)) > 1
  <2>1. o + i - 1 \in Pos(m) /\ ~ (o + i - 1 < o)
    BY <1>1
  <2>2. ~ (Len(Ngram(m, o + i - 1)) <= 1) /\ Len(Ngram(m, o + i - 1)) \in Int
    BY <1>1, <2>1, NgramLength
  <2>3. QED
    BY <2>1, <2>2
<1>4. ASSUME NEW i \in 1 .. o
      PROVE  i - 1 \in Pos(m) /\ Len(Ngram(m, i - 1)) = 1
  <2>1. i - 1 \in Pos(m) /\ i - 1 < o
    BY <1>1
  <2>2. /\ Len(Ngram(m, i - 1)) <= 1 /\ Len(Ngram(m, i - 1)) \in Int
        /\ Len(Ngram(m, i - 1)) >= 1
    BY <1>1, <2>1, NgramLength
  <2>3. QED
    BY <2>1, <2>2
<1>5. PushedLonger(m) \in Seq(Seq(Sendable)) /\ Len(PushedLonger(m)) = n
  <2>1. \A i \in 1 .. n : Pushed(m, o + i - 1) \in Seq(Sendable)
    BY <1>3, PushedSendable
  <2>2. PushedLonger(m) = [i \in 1 .. n |-> Pushed(m, o + i - 1)]
    BY DEF PushedLonger
  <2>3. QED
    BY <1>2, <2>1, <2>2
<1>6. PushedUnigrams(m) \in Seq(Seq(Sendable)) /\ Len(PushedUnigrams(m)) = o
  <2>1. ASSUME NEW i \in 1 .. o
        PROVE  NonZeroMessage(Unigram(m, i - 1), Ngram(m, i - 1)) \in Seq(Sendable)
    <3>1. Ngram(m, i - 1) \in Seq(Word) /\ Len(Ngram(m, i - 1)) \in 1 .. Order - 1
      <4>1. Len(Ngram(m, i - 1)) = 1 /\ Order - 1 \in Int /\ 1 <= Order - 1
        BY <1>4, IndexAssumption
      <4>2. Ngram(m, i - 1) \in Seq(Word)
        BY <1>4, NodeType
      <4>3. 1 \in 1 .. Order - 1
        BY <4>1
      <4>4. QED
        BY <4>1, <4>2, <4>3
    <3>2. Unigram(m, i - 1) \in Nat
      BY <1>4, UnigramType
    <3>3. Message(Ngram(m, i - 1), Unigram(m, i - 1)) \in Sendable
      BY <3>1, <3>2, IsSendable
    <3>4. QED
      BY <3>3 DEF NonZeroMessage
  <2>2. PushedUnigrams(m) =
            [i \in 1 .. o |-> NonZeroMessage(Unigram(m, i - 1), Ngram(m, i - 1))]
    BY DEF PushedUnigrams
  <2> HIDE DEF o
  <2>3. [i \in 1 .. o |-> NonZeroMessage(Unigram(m, i - 1), Ngram(m, i - 1))]
            \in [1 .. o -> Seq(Sendable)]
    BY <2>1
  <2>4. PushedUnigrams(m) \in [1 .. o -> Seq(Sendable)]
    BY <2>2, <2>3
  <2>5. QED
    BY <1>2, <2>4, IsASeq, LenProperties
<1>7. Messages(m) = FlattenSeq(AllPushed(m))
  BY DEF Messages, AllPushed, PushedLonger, PushedUnigrams, NonZeroMessage
<1>8. /\ AllPushed(m) \in Seq(Seq(Sendable)) /\ Len(AllPushed(m)) = n + o
      /\ \A i \in 1 .. n : AllPushed(m)[i] = PushedLonger(m)[i]
      /\ \A i \in 1 .. o : AllPushed(m)[n + i] = PushedUnigrams(m)[i]
  <2> DEFINE a == PushedLonger(m)
             b == PushedUnigrams(m)
  <2>1. /\ a \in Seq(Seq(Sendable)) /\ Len(a) = n
        /\ b \in Seq(Seq(Sendable)) /\ Len(b) = o /\ AllPushed(m) = a \o b
    BY <1>5, <1>6 DEF AllPushed
  <2> HIDE DEF a, b, o, n
  <2>2. AllPushed(m) \in Seq(Seq(Sendable)) /\ Len(AllPushed(m)) = n + o
    BY <2>1, ConcatProperties
  <2>3. \A i \in 1 .. n : AllPushed(m)[i] = a[i]
    BY <1>2, <2>1
  <2>4. ASSUME NEW i \in 1 .. o PROVE AllPushed(m)[n + i] = b[i]
    <3>1. n + i \in 1 .. n + o /\ ~ (n + i <= n) /\ (n + i) - n = i
      BY <1>2
    <3>2. (a \o b)[n + i] = b[(n + i) - n]
      BY <2>1, <3>1, ConcatProperties
    <3>3. QED
      BY <2>1, <3>1, <3>2
  <2>5. QED
    BY <2>2, <2>3, <2>4 DEF a, b
<1>9. \A i \in 1 .. n : AllPushed(m)[i] = Pushed(m, o + i - 1)
  BY <1>8 DEF PushedLonger
<1>10. ASSUME NEW i \in n + 1 .. Size(m)
       PROVE  /\ i - n - 1 \in Pos(m)
              /\ Len(Ngram(m, i - n - 1)) = 1
              /\ AllPushed(m)[i] = NonZeroMessage(Unigram(m, i - n - 1), Ngram(m, i - n - 1))
  <2> DEFINE k == i - n
  <2>1. k \in 1 .. o /\ n + k = i
    BY <1>2
  <2>2. AllPushed(m)[i] = PushedUnigrams(m)[k]
    BY <1>8, <2>1
  <2>3. PushedUnigrams(m)[k] = NonZeroMessage(Unigram(m, k - 1), Ngram(m, k - 1))
    BY <2>1 DEF PushedUnigrams
  <2>4. QED
    BY <1>4, <2>1, <2>2, <2>3
<1>11. Len(AllPushed(m)) = Size(m)
  BY <1>2, <1>8
<1>12. QED
  BY <1>1, <1>3, <1>7, <1>8, <1>9, <1>10, <1>11

\* All that is pushed may be sent.
LEMMA MessagesSendable ==
    ASSUME NEW s \in Shard
    PROVE  Messages(s) \in Seq(Sendable)
  BY AllPushedIs, Placing

\* What a reducer receives was sent to its shard.
LEMMA ReceivedIs ==
    ASSUME NEW s \in Shard, NEW item \in MessagesOf(s)
    PROVE  Received(item) \in Sendable /\ Received(item).to = s
<1>1. s \in Reducer /\ Mapper = Shard
  BY ReducerOfShard, ThreadsAssumption
<1>2. PICK m \in Shard : item \in MessagesFor(m, s)
  BY <1>1 DEF MessagesOf
<1>3. /\ item.from = m /\ item.index \in 1 .. Len(To[m]) /\ To[m][item.index] = s
  BY <1>1, <1>2, MessageType
<1>4. Output[m] \in Seq(Sendable) /\ Len(Output[m]) \in Nat
  BY MessagesSendable, LenProperties DEF Output
<1>5. To[m] = [i \in 1 .. Len(Output[m]) |-> Output[m][i].to]
  BY ThreadsAssumption DEF Targets
<1>6. Len(To[m]) = Len(Output[m])
  BY <1>4, <1>5
<1>7. item.index \in 1 .. Len(Output[m]) /\ Output[m][item.index].to = s
  BY <1>3, <1>5, <1>6
<1>8. QED
  BY <1>3, <1>4, <1>7, ElementOfSeq DEF Received

\* Its n-gram has a place in the sums of the shard.
LEMMA ReceivedInside ==
    ASSUME NEW s \in Shard, NEW item \in MessagesOf(s), Has(s, Received(item).context)
    PROVE  Find(s, Received(item).context) \in CountsOffset(s) .. position_size(s) - 1
<1> DEFINE g == Received(item).context
           p == Find(s, g)
<1>1. /\ Len(g) \in 1 .. Order - 1 /\ shard_index(g) = s
      /\ Order \in Nat
  BY ReceivedIs, SendableIs, IndexAssumption
<1>2. p \in Pos(s) /\ Ngram(s, p) = g /\ p \in Nat
  BY FindHas, NodeType
<1> HIDE DEF p, g
<1>3. Order - 1 \in Int /\ 1 \in Int
  BY <1>1
<1>4. /\ Offset(s, Order - 1) \in Int
      /\ p < Offset(s, Order - 1) <=> Len(g) <= Order - 1
  BY <1>2, <1>3, OffsetBounds
<1>5. /\ Offset(s, 1) \in Int
      /\ p < Offset(s, 1) <=> Len(g) <= 1
  BY <1>2, <1>3, OffsetBounds
<1>6. p < position_size(s)
  BY <1>1, <1>4 DEF position_size
<1>7. CountsOffset(s) <= p /\ CountsOffset(s) \in Int
  <2>1. CASE s = 0
    BY <1>2, <2>1 DEF CountsOffset
  <2>2. CASE s # 0
    <3>1. ~ (Len(g) <= 1)
      BY <1>1, <2>2 DEF shard_index
    <3>2. QED
      BY <1>2, <1>5, <2>2, <3>1 DEF CountsOffset
  <2>3. QED
    BY <2>1, <2>2
<1>8. p \in CountsOffset(s) .. position_size(s) - 1
  BY <1>2, <1>4, <1>6, <1>7 DEF position_size
<1>9. QED
  BY <1>8 DEF p, g

\* What is queued, and is no end, is a message for the reducer of the queue.
LEMMA QueuedIs ==
    ASSUME MediumInv, NEW s \in Shard, NEW i \in 1 .. Len(queue[s]), ~ IsEmpty(queue[s][i])
    PROVE  queue[s][i] \in MessagesOf(s)
<1> DEFINE item == queue[s][i]
<1>1. s \in Reducer
  BY ReducerOfShard
<1>2. CASE medium = "threads"
  <2>1. queue[s] \in Seq(Items) /\ Delivered(s, item)
    BY <1>1, <1>2 DEF MediumInv, IInv, TypeInv, QueueInv
  <2>2. /\ item \in Items /\ item.from \in Mapper /\ item.index \in Nat
        /\ item = Item(item.from, item.index)
    <3>1. item \in Items
      BY <2>1, ElementOfSeq
    <3> HIDE DEF item
    <3>2. QED
      BY <3>1 DEF Items, Item
  <2>3. Len(To[item.from]) \in Nat /\ ~ (item.index > Len(To[item.from]))
    BY <2>2, TargetType DEF IsEmpty
  <2>4. item.index \in 1 .. Len(To[item.from]) /\ To[item.from][item.index] = s
    BY <2>1, <2>2, <2>3 DEF Delivered, Target
  <2> HIDE DEF item
  <2>5. item \in MessagesFor(item.from, s)
    BY <2>2, <2>4 DEF MessagesFor
  <2>6. QED
    BY <2>2, <2>5 DEF MessagesOf, item
<1>3. CASE medium # "threads"
  <2>1. PInv
    BY <1>3 DEF MediumInv
  <2>2. CASE queue[s] \in Seq(MessagesOf(s))
    BY <2>2, ElementOfSeq
  <2>3. CASE \E m \in Mapper : queue[s] = <<EndOf(m, s)>>
    <3>1. PICK m \in Mapper : queue[s] = <<EndOf(m, s)>>
      BY <2>3
    <3>2. item = EndOf(m, s)
      BY <3>1
    <3>3. QED
      BY <1>1, <3>2, EndType
  <2>4. QED
    BY <1>1, <2>1, <2>2, <2>3 DEF PInv, ReadInv
<1>4. QED
  BY <1>2, <1>3

-----------------------------------------------------------------------------
(* The sums.                                                                *)

Sums(s) == [CountsOffset(s) .. position_size(s) - 1 -> Nat]

\* The sums of a shard are numbers, one for each n-gram that it counts.
SumsInv ==
    /\ counts_modified = [s \in Shard |-> counts_modified[s]]
    /\ \A s \in Shard : counts_modified[s] \in Sums(s)

\* All the sums are 0 first.
LEMMA SumsInit == ModifyMPIInit => SumsInv
<1> SUFFICES ASSUME ModifyMPIInit PROVE SumsInv
  OBVIOUS
<1>1. counts_modified = [s \in Shard |->
          [p \in CountsOffset(s) .. position_size(s) - 1 |-> 0]]
  BY DEF ModifyMPIInit, DumpInit, ModifyInit
<1>2. \A s \in Shard :
          counts_modified[s] = [p \in CountsOffset(s) .. position_size(s) - 1 |-> 0]
  BY <1>1
<1>3. ASSUME NEW s \in Shard PROVE counts_modified[s] \in Sums(s)
  <2> DEFINE D == CountsOffset(s) .. position_size(s) - 1
  <2>1. counts_modified[s] = [p \in D |-> 0] /\ Sums(s) = [D -> Nat]
    BY <1>2 DEF Sums
  <2> HIDE DEF D
  <2>2. QED
    BY <2>1
<1>4. counts_modified = [s \in Shard |-> counts_modified[s]]
  BY <1>1
<1>5. QED
  BY <1>3, <1>4 DEF SumsInv

\* A count that a reducer has popped is added in its place.
LEMMA SumsAdd ==
    ASSUME MediumInv, SumsInv, NEW s \in Shard, PopKnown(s)
    PROVE  SumsInv'
<1> DEFINE item == Head(queue[s])
           p == Find(s, Received(item).context)
           count == Received(item).count
<1>1. /\ queue[s] # << >> /\ ~ IsEmpty(item) /\ Has(s, Received(item).context)
      /\ counts_modified' = [counts_modified EXCEPT ![s][p] = @ + count]
  BY DEF PopKnown, Pop, Plus
<1>2. queue[s] \in Seq(Items)
  BY ReducerOfShard DEF MediumInv, IInv, TypeInv, PInv, ProcessType
<1>3. item = queue[s][1] /\ 1 \in 1 .. Len(queue[s])
  BY <1>1, <1>2
<1>4. item \in MessagesOf(s)
  BY <1>1, <1>3, QueuedIs
<1> HIDE DEF item
<1>5. p \in CountsOffset(s) .. position_size(s) - 1 /\ count \in Nat
  BY <1>1, <1>4, ReceivedInside, ReceivedIs, SendableIs
<1> HIDE DEF p, count
<1>6. counts_modified[s] \in Sums(s)
  BY DEF SumsInv
<1> DEFINE new == [counts_modified[s] EXCEPT ![p] = @ + count]
<1>7. new \in Sums(s)
  <2> DEFINE D == CountsOffset(s) .. position_size(s) - 1
  <2>1. p \in D /\ counts_modified[s] \in [D -> Nat]
    BY <1>5, <1>6 DEF Sums
  <2> HIDE DEF D
  <2>2. counts_modified[s][p] + count \in Nat
    BY <1>5, <2>1
  <2>3. new \in [D -> Nat]
    BY <2>1, <2>2
  <2>4. QED
    BY <2>3 DEF Sums, D
<1>8. counts_modified' = [counts_modified EXCEPT ![s] = new]
  BY <1>1
<1> HIDE DEF new
<1>9. counts_modified' = [q \in Shard |-> IF q = s THEN new ELSE counts_modified[q]]
  BY <1>8 DEF SumsInv
<1>10. \A q \in Shard : counts_modified'[q] = IF q = s THEN new ELSE counts_modified[q]
  BY <1>9
<1>11. \A q \in Shard : counts_modified'[q] \in Sums(q)
  BY <1>7, <1>10 DEF SumsInv
<1>12. counts_modified' = [q \in Shard |-> counts_modified'[q]]
  BY <1>9
<1>13. QED
  BY <1>11, <1>12 DEF SumsInv, Sums

\* No step of the program changes what sums there are.
LEMMA SumsStep ==
    MediumInv /\ SumsInv /\ [ModifyMPINext]_<<allVars, modifyMPIVars>> => SumsInv'
<1> SUFFICES ASSUME MediumInv, SumsInv, [ModifyMPINext]_<<allVars, modifyMPIVars>>
             PROVE  SumsInv'
  OBVIOUS
<1>1. ASSUME counts_modified' = counts_modified PROVE SumsInv'
  BY <1>1 DEF SumsInv, Sums
<1>2. ASSUME NEW s \in Shard, ModifyReduce(s) PROVE SumsInv'
  <2>1. CASE PopKnown(s)
    BY <2>1, SumsAdd
  <2>2. CASE PopEmpty(s) \/ PopUnknown(s) \/ Write(s)
    BY <1>1, <2>2 DEF PopEmpty, PopUnknown, Write
  <2>3. QED
    BY <1>2, <2>1, <2>2 DEF ModifyReduce
<1>3. CASE Spawn
  BY <1>1, <1>3 DEF Spawn, allVars, modifyVars
<1>4. ASSUME NEW s \in Shard, CarryCount(s) \/ AbortCount(s) PROVE SumsInv'
  BY <1>1, <1>4 DEF CarryCount, AbortCount, allVars, modifyVars
<1>5. ASSUME NEW s \in Shard, Modifying(ModifyMap(s)) PROVE SumsInv'
  BY <1>1, <1>5 DEF Modifying, ModifyMap
<1>6. ASSUME NEW s \in Shard, Modifying(ModifyReduce(s)) PROVE SumsInv'
  BY <1>2, <1>6 DEF Modifying
<1>7. CASE DumpingNext
  <2>1. UNCHANGED modifyVars
    BY <1>7, DumpingKeeps
  <2>2. QED
    BY <1>1, <2>1 DEF modifyVars
<1>8. CASE UNCHANGED <<allVars, modifyMPIVars>>
  BY <1>1, <1>8 DEF allVars, modifyVars
<1>9. QED
  BY <1>3, <1>4, <1>5, <1>6, <1>7, <1>8 DEF ModifyMPINext

\* There is always a sum for each n-gram that a shard counts.
LEMMA SumsInvariance == ModifyMPISpec => []SumsInv
  BY MediumInvariance, SumsInit, SumsStep, PTL DEF ModifyMPISpec

\* Every count that a reducer receives has its place in the reducer's sums,
\* which go from the first n-gram that the shard counts to the last one that is
\* not of the last order: no unigram comes to a shard but the first, and nothing
\* of the last order is sent, for every index, number of shards and way that
\* the messages mix.  An index outside would be written behind the vector.
THEOREM InsideCountsHolds == ModifyMPISpec => []InsideCounts
<1>1. ASSUME MediumInv, SumsInv PROVE InsideCounts
  <2> SUFFICES ASSUME NEW s \in Shard, NEW i \in 1 .. Len(queue[s]), ~ IsEmpty(queue[s][i]),
                      Has(s, Received(queue[s][i]).context)
               PROVE  Find(s, Received(queue[s][i]).context) \in DOMAIN counts_modified[s]
    BY DEF InsideCounts
  <2>1. queue[s][i] \in MessagesOf(s)
    BY <1>1, QueuedIs
  <2>2. Find(s, Received(queue[s][i]).context) \in CountsOffset(s) .. position_size(s) - 1
    BY <2>1, ReceivedInside
  <2>3. DOMAIN counts_modified[s] = CountsOffset(s) .. position_size(s) - 1
    BY <1>1 DEF SumsInv, Sums
  <2>4. QED
    BY <2>2, <2>3
<1>2. QED
  BY <1>1, MediumInvariance, SumsInvariance, PTL

-----------------------------------------------------------------------------
(* What the messages of a mapper come from.                                 *)

\* Why a mapper sends a message: for a node, that an n-gram was seen before its
\* suffix, that the n-gram of the node keeps its count, or a unigram's count.
SourcesOf(m) ==
    {x \in {"suffix", "own", "unigram"} \X Pos(m) :
        \/ x[1] = "suffix" /\ Len(Ngram(m, x[2])) > 2
        \/ x[1] = "own" /\ Len(Ngram(m, x[2])) > 1 /\ KeepsCount(Ngram(m, x[2]))
        \/ x[1] = "unigram" /\ Len(Ngram(m, x[2])) = 1 /\ Unigram(m, x[2]) # 0}

SourceMessage(m, x) ==
    IF x[1] = "suffix" THEN Preceded(m, Ngram(m, x[2]))
    ELSE IF x[1] = "own" THEN Message(Ngram(m, x[2]), counts[m][x[2]])
    ELSE Message(Ngram(m, x[2]), Unigram(m, x[2]))

IsSourcing(f, m) ==
    /\ f \in [1 .. Len(Messages(m)) -> SourcesOf(m)]
    /\ \A i \in 1 .. Len(Messages(m)) : Messages(m)[i] = SourceMessage(m, f[i])
    /\ \A i \in 1 .. Len(Messages(m)) : \A j \in 1 .. Len(Messages(m)) : f[i] = f[j] => i = j
    /\ \A x \in SourcesOf(m) : \E i \in 1 .. Len(Messages(m)) : f[i] = x

\* What is pushed for a node, case by case.
LEMMA PushedIs ==
    ASSUME NEW s \in Shard, NEW p \in Pos(s)
    PROVE  LET g == Ngram(s, p)
               preceded == Preceded(s, g)
               kept == Message(g, counts[s][p])
           IN  /\ Len(g) > 2 /\ KeepsCount(g) => Pushed(s, p) = <<preceded, kept>>
               /\ Len(g) > 2 /\ ~ KeepsCount(g) => Pushed(s, p) = <<preceded>>
               /\ ~ (Len(g) > 2) /\ KeepsCount(g) => Pushed(s, p) = <<kept>>
               /\ ~ (Len(g) > 2) /\ ~ KeepsCount(g) => Pushed(s, p) = << >>
<1> DEFINE g == Ngram(s, p)
           a == Preceded(s, g)
           b == Message(g, counts[s][p])
<1>1. Pushed(s, p) = (IF Len(g) > 2 THEN <<a>> ELSE << >>)
                        \o (IF KeepsCount(g) THEN <<b>> ELSE << >>)
  BY DEF Pushed
<1>2. ASSUME NEW x, NEW y PROVE <<x>> \o <<y>> = <<x, y>>
  <2> DEFINE u == <<x>>
             v == <<y>>
             w == <<x, y>>
  <2>1. /\ u \in Seq({x, y}) /\ v \in Seq({x, y}) /\ w \in Seq({x, y})
        /\ Len(u) = 1 /\ Len(v) = 1 /\ Len(w) = 2
        /\ u[1] = x /\ v[1] = y /\ w[1] = x /\ w[2] = y
    OBVIOUS
  <2> HIDE DEF u, v, w
  <2>2. /\ u \o v \in Seq({x, y}) /\ Len(u \o v) = 1 + 1
        /\ \A i \in 1 .. 1 + 1 : (u \o v)[i] = IF i <= 1 THEN u[i] ELSE v[i - 1]
    BY <2>1, ConcatProperties
  <2>3. \A i \in 1 .. 2 : i = 1 \/ i = 2
    OBVIOUS
  <2>4. Len(u \o v) = 2 /\ (u \o v)[1] = x /\ (u \o v)[2] = y
    BY <2>1, <2>2
  <2>5. \A i \in 1 .. Len(u \o v) : (u \o v)[i] = w[i]
    BY <2>1, <2>3, <2>4
  <2>6. u \o v = w
    BY <2>1, <2>2, <2>4, <2>5, SeqEqual
  <2>7. QED
    BY <2>6 DEF u, v, w
<1>3. \A x : <<x>> \o << >> = <<x>> /\ << >> \o <<x>> = <<x>>
  OBVIOUS
<1>4. << >> \o << >> = << >>
  OBVIOUS
<1> HIDE DEF a, b, g
<1>5. /\ Len(g) > 2 /\ KeepsCount(g) => Pushed(s, p) = <<a, b>>
      /\ Len(g) > 2 /\ ~ KeepsCount(g) => Pushed(s, p) = <<a>>
      /\ ~ (Len(g) > 2) /\ KeepsCount(g) => Pushed(s, p) = <<b>>
      /\ ~ (Len(g) > 2) /\ ~ KeepsCount(g) => Pushed(s, p) = << >>
  BY <1>1, <1>2, <1>3, <1>4
<1>6. QED
  BY <1>5 DEF a, b, g

\* The short tuples as sequences.
LEMMA Tuples ==
    /\ Len(<< >>) = 0
    /\ \A x : Len(<<x>>) = 1 /\ <<x>>[1] = x
    /\ \A x, y : Len(<<x, y>>) = 2 /\ <<x, y>>[1] = x /\ <<x, y>>[2] = y
OBVIOUS

\* Where a message is in what its mapper pushes.
PlaceOf(m, z) ==
    IF z[1] = "unigram" THEN <<Size(m) - Offset(m, 1) + z[2] + 1, 1>>
    ELSE <<z[2] - Offset(m, 1) + 1,
           IF z[1] = "own" /\ Len(Ngram(m, z[2])) > 2 THEN 2 ELSE 1>>

\* A source that is not a unigram is a node behind the unigrams.
LEMMA SourceIs ==
    ASSUME NEW m \in Shard, NEW z \in SourcesOf(m)
    PROVE  /\ z = <<z[1], z[2]>> /\ z[1] \in {"suffix", "own", "unigram"} /\ z[2] \in Pos(m)
           /\ z[1] = "unigram" =>
                 /\ Len(Ngram(m, z[2])) = 1 /\ Unigram(m, z[2]) # 0
                 /\ z[2] \in 0 .. Offset(m, 1) - 1
           /\ z[1] # "unigram" => z[2] \in Offset(m, 1) .. Size(m) - 1
           /\ z[1] = "suffix" => Len(Ngram(m, z[2])) > 2
           /\ z[1] = "own" => Len(Ngram(m, z[2])) > 1 /\ KeepsCount(Ngram(m, z[2]))
<1>1. /\ z = <<z[1], z[2]>> /\ z[1] \in {"suffix", "own", "unigram"} /\ z[2] \in Pos(m)
      /\ z[1] = "unigram" => Len(Ngram(m, z[2])) = 1 /\ Unigram(m, z[2]) # 0
      /\ z[1] = "suffix" => Len(Ngram(m, z[2])) > 2
      /\ z[1] = "own" => Len(Ngram(m, z[2])) > 1 /\ KeepsCount(Ngram(m, z[2]))
  BY DEF SourcesOf
<1>2. Len(Ngram(m, z[2])) \in Int
  BY <1>1, NgramLength
<1>3. /\ Size(m) \in Nat /\ Pos(m) = 0 .. Size(m) - 1 /\ Offset(m, 1) \in 0 .. Size(m)
      /\ z[2] < Offset(m, 1) <=> Len(Ngram(m, z[2])) <= 1
  BY <1>1, NodeType, OffsetBounds DEF Pos
<1>4. z[1] = "unigram" => z[2] \in 0 .. Offset(m, 1) - 1
  <2> SUFFICES ASSUME z[1] = "unigram" PROVE z[2] \in 0 .. Offset(m, 1) - 1
    OBVIOUS
  <2>1. Len(Ngram(m, z[2])) <= 1
    BY <1>1
  <2>2. z[2] < Offset(m, 1) /\ z[2] \in Nat
    BY <1>1, <1>3, <2>1
  <2>3. QED
    BY <1>3, <2>2
<1>5. z[1] # "unigram" => Len(Ngram(m, z[2])) > 1
  BY <1>1, <1>2
<1>6. z[1] # "unigram" => z[2] \in Offset(m, 1) .. Size(m) - 1
  BY <1>1, <1>2, <1>3, <1>5
<1>7. QED
  BY <1>1, <1>4, <1>6

\* Its message is there.
LEMMA SourcePlace ==
    ASSUME NEW m \in Shard, NEW z \in SourcesOf(m)
    PROVE  /\ PlaceOf(m, z) \in Places(AllPushed(m), Size(m))
           /\ AllPushed(m)[PlaceOf(m, z)[1]][PlaceOf(m, z)[2]] = SourceMessage(m, z)
<1> DEFINE o == Offset(m, 1)
           n == Size(m) - o
           q == z[2]
           g == Ngram(m, q)
           seqs == AllPushed(m)
<1>1. Size(m) \in Nat /\ o \in 0 .. Size(m) /\ n \in Nat /\ n + o = Size(m)
  BY AllPushedIs
<1>2. CASE z[1] = "unigram"
  <2> DEFINE i == n + q + 1
  <2>1. q \in 0 .. o - 1 /\ Unigram(m, q) # 0
    BY <1>2, SourceIs
  <2>2. i \in n + 1 .. Size(m) /\ i - n - 1 = q /\ i \in 1 .. Size(m)
    BY <1>1, <2>1
  <2>3. seqs[i] = NonZeroMessage(Unigram(m, i - n - 1), Ngram(m, i - n - 1))
    BY <2>2, AllPushedIs
  <2>4. seqs[i] = <<Message(g, Unigram(m, q))>>
    BY <2>1, <2>2, <2>3 DEF NonZeroMessage
  <2>5. PlaceOf(m, z) = <<i, 1>>
    BY <1>2 DEF PlaceOf
  <2>6. SourceMessage(m, z) = Message(g, Unigram(m, q))
    BY <1>2 DEF SourceMessage
  <2>7. Len(seqs[i]) = 1 /\ seqs[i][1] = Message(g, Unigram(m, q))
    BY <2>4
  <2> HIDE DEF i, seqs, g, q
  <2>8. QED
    BY <2>2, <2>5, <2>6, <2>7 DEF Places, seqs
<1>3. CASE z[1] # "unigram"
  <2> DEFINE i == q - o + 1
             a == Preceded(m, g)
             b == Message(g, counts[m][q])
  <2>1. q \in o .. Size(m) - 1 /\ q \in Pos(m)
    BY <1>3, SourceIs
  <2>2. i \in 1 .. n /\ o + i - 1 = q /\ i \in 1 .. Size(m)
    BY <1>1, <2>1
  <2>3. seqs[i] = Pushed(m, o + i - 1)
    BY <2>2, AllPushedIs
  <2>4. seqs[i] = Pushed(m, q)
    BY <2>2, <2>3
  <2>5. /\ Len(g) > 2 /\ KeepsCount(g) => seqs[i] = <<a, b>>
        /\ Len(g) > 2 /\ ~ KeepsCount(g) => seqs[i] = <<a>>
        /\ ~ (Len(g) > 2) /\ KeepsCount(g) => seqs[i] = <<b>>
    BY <2>1, <2>4, PushedIs
  <2>6. CASE z[1] = "suffix"
    <3>1. Len(g) > 2 /\ PlaceOf(m, z) = <<i, 1>> /\ SourceMessage(m, z) = a
      BY <2>6, SourceIs DEF PlaceOf, SourceMessage
    <3> HIDE DEF a, b, g, i, seqs, q
    <3>2. Len(seqs[i]) \in Nat /\ Len(seqs[i]) >= 1 /\ seqs[i][1] = a
      <4>1. seqs[i] = <<a>> \/ seqs[i] = <<a, b>>
        BY <2>5, <3>1
      <4>2. QED
        BY <4>1, Tuples
    <3>3. QED
      BY <2>2, <3>1, <3>2 DEF Places, seqs
  <2>7. CASE z[1] = "own"
    <3>1. /\ KeepsCount(g) /\ SourceMessage(m, z) = b
          /\ Len(g) > 2 => PlaceOf(m, z) = <<i, 2>>
          /\ ~ (Len(g) > 2) => PlaceOf(m, z) = <<i, 1>>
      BY <2>7, SourceIs DEF PlaceOf, SourceMessage
    <3> HIDE DEF a, b, g, i, seqs, q
    <3>2. CASE Len(g) > 2
      <4>1. Len(seqs[i]) = 2 /\ seqs[i][2] = b
        BY <2>5, <3>1, <3>2
      <4>2. QED
        BY <2>2, <3>1, <3>2, <4>1 DEF Places, seqs
    <3>3. CASE ~ (Len(g) > 2)
      <4>1. seqs[i] = <<b>>
        BY <2>5, <3>1, <3>3
      <4>2. Len(seqs[i]) = 1 /\ seqs[i][1] = b
        BY <4>1, Tuples
      <4>3. QED
        BY <2>2, <3>1, <3>3, <4>2 DEF Places, seqs
    <3>4. QED
      BY <3>2, <3>3
  <2>8. z[1] \in {"suffix", "own", "unigram"}
    BY SourceIs
  <2>9. QED
    BY <1>3, <2>6, <2>7, <2>8
<1>4. QED
  BY <1>2, <1>3

\* No two messages are in one place,
LEMMA SourcePlaceOnce ==
    ASSUME NEW m \in Shard, NEW z \in SourcesOf(m), NEW y \in SourcesOf(m),
           PlaceOf(m, z) = PlaceOf(m, y)
    PROVE  z = y
<1> DEFINE o == Offset(m, 1)
           n == Size(m) - o
           K(x) == IF x[1] = "own" /\ Len(Ngram(m, x[2])) > 2 THEN 2 ELSE 1
<1>1. o \in Int /\ n \in Int /\ n + o = Size(m)
  BY AllPushedIs
<1>2. ASSUME NEW x \in SourcesOf(m)
      PROVE  /\ x[2] \in Int
             /\ x[1] = "unigram" => PlaceOf(m, x) = <<n + x[2] + 1, 1>> /\ x[2] >= 0
             /\ x[1] # "unigram" => /\ PlaceOf(m, x) = <<x[2] - o + 1, K(x)>>
                                    /\ x[2] - o + 1 <= n
  <2>1. x[2] \in Pos(m)
    BY SourceIs
  <2>2. x[2] \in Int /\ x[2] >= 0
    BY <2>1, NodeType
  <2>3. x[1] = "unigram" => PlaceOf(m, x) = <<n + x[2] + 1, 1>>
    BY DEF PlaceOf
  <2>4. x[1] # "unigram" => PlaceOf(m, x) = <<x[2] - o + 1, K(x)>>
    BY DEF PlaceOf
  <2>5. x[1] # "unigram" => x[2] \in o .. Size(m) - 1
    BY SourceIs
  <2>6. x[1] # "unigram" => x[2] - o + 1 <= n
    BY <1>1, <2>5
  <2>7. QED
    BY <2>2, <2>3, <2>4, <2>6
<1>3. CASE z[1] = "unigram" /\ y[1] = "unigram"
  <2>1. <<n + z[2] + 1, 1>> = <<n + y[2] + 1, 1>>
    BY <1>2, <1>3
  <2>2. n + z[2] + 1 = n + y[2] + 1
    BY <2>1
  <2>3. z[2] = y[2]
    BY <1>1, <1>2, <2>2
  <2>4. QED
    BY <1>3, <2>3, SourceIs
<1>4. CASE z[1] # "unigram" /\ y[1] # "unigram"
  <2> HIDE DEF K
  <2>1. <<z[2] - o + 1, K(z)>> = <<y[2] - o + 1, K(y)>>
    BY <1>2, <1>4
  <2>2. z[2] - o + 1 = y[2] - o + 1 /\ K(z) = K(y)
    BY <2>1
  <2>3. z[2] = y[2]
    BY <1>1, <1>2, <2>2
  <2>4. z[1] \in {"suffix", "own"} /\ y[1] \in {"suffix", "own"}
    BY <1>4, SourceIs
  <2>5. ASSUME NEW u \in SourcesOf(m), NEW v \in SourcesOf(m), u[1] = "suffix", v[1] = "own",
               u[2] = v[2], K(u) = K(v)
        PROVE  FALSE
    <3>1. Len(Ngram(m, v[2])) > 2
      BY <2>5, SourceIs
    <3>2. K(v) = 2 /\ K(u) = 1
      BY <2>5, <3>1 DEF K
    <3>3. QED
      BY <2>5, <3>2
  <2>6. z[1] = y[1]
    BY <2>2, <2>3, <2>4, <2>5
  <2>7. QED
    BY <2>3, <2>6, SourceIs
<1>5. ASSUME NEW u \in SourcesOf(m), NEW v \in SourcesOf(m), u[1] = "unigram", v[1] # "unigram",
             PlaceOf(m, u) = PlaceOf(m, v)
      PROVE  FALSE
  <2> HIDE DEF K
  <2>1. <<n + u[2] + 1, 1>> = <<v[2] - o + 1, K(v)>>
    BY <1>2, <1>5
  <2>2. n + u[2] + 1 = v[2] - o + 1
    BY <2>1
  <2>3. u[2] >= 0 /\ v[2] - o + 1 <= n /\ u[2] \in Int /\ v[2] \in Int
    BY <1>2, <1>5
  <2>4. QED
    BY <1>1, <2>2, <2>3
<1>6. QED
  BY <1>3, <1>4, <1>5

\* and every place is one of a message.
LEMMA PlaceSource ==
    ASSUME NEW m \in Shard, NEW x \in Places(AllPushed(m), Size(m))
    PROVE  \E z \in SourcesOf(m) : PlaceOf(m, z) = x
<1> DEFINE o == Offset(m, 1)
           n == Size(m) - o
           seqs == AllPushed(m)
<1>1. Size(m) \in Nat /\ o \in 0 .. Size(m) /\ n \in Nat /\ n + o = Size(m)
  BY AllPushedIs
<1>2. PICK i \in 1 .. Size(m), k \in Nat : x = <<i, k>> /\ k \in 1 .. Len(seqs[i])
  BY DEF Places
<1>3. CASE i \in n + 1 .. Size(m)
  <2> DEFINE q == i - n - 1
             z == <<"unigram", q>>
  <2>1. /\ q \in Pos(m) /\ Len(Ngram(m, q)) = 1
        /\ seqs[i] = NonZeroMessage(Unigram(m, q), Ngram(m, q))
    BY <1>3, AllPushedIs
  <2>2. Unigram(m, q) # 0 /\ k = 1
    <3> HIDE DEF q, seqs
    <3>1. QED
      BY <1>2, <2>1 DEF NonZeroMessage
  <2>3. z \in SourcesOf(m)
    BY <2>1, <2>2 DEF SourcesOf
  <2>4. PlaceOf(m, z) = <<n + q + 1, 1>> /\ n + q + 1 = i
    BY <1>1, <1>2 DEF PlaceOf
  <2>5. QED
    BY <1>2, <2>2, <2>3, <2>4
<1>4. CASE i \in 1 .. n
  <2> DEFINE q == o + i - 1
             g == Ngram(m, q)
             a == Preceded(m, g)
             b == Message(g, counts[m][q])
  <2>1. q \in Pos(m) /\ Len(g) > 1 /\ seqs[i] = Pushed(m, q)
    BY <1>4, AllPushedIs
  <2>2. /\ Len(g) > 2 /\ KeepsCount(g) => seqs[i] = <<a, b>>
        /\ Len(g) > 2 /\ ~ KeepsCount(g) => seqs[i] = <<a>>
        /\ ~ (Len(g) > 2) /\ KeepsCount(g) => seqs[i] = <<b>>
        /\ ~ (Len(g) > 2) /\ ~ KeepsCount(g) => seqs[i] = << >>
    BY <2>1, PushedIs
  <2>3. q - o + 1 = i
    BY <1>1, <1>2
  <2>4. \/ Len(g) > 2 /\ k = 1
        \/ Len(g) > 2 /\ KeepsCount(g) /\ k = 2
        \/ ~ (Len(g) > 2) /\ KeepsCount(g) /\ k = 1
    <3> HIDE DEF a, b, g, q, seqs
    <3>1. CASE Len(g) > 2 /\ KeepsCount(g)
      <4>1. k \in 1 .. 2
        BY <1>2, <2>2, <3>1, Tuples
      <4>2. QED
        BY <3>1, <4>1
    <3>2. CASE Len(g) > 2 /\ ~ KeepsCount(g)
      <4>1. k \in 1 .. 1
        BY <1>2, <2>2, <3>2, Tuples
      <4>2. QED
        BY <3>2, <4>1
    <3>3. CASE ~ (Len(g) > 2) /\ KeepsCount(g)
      <4>1. k \in 1 .. 1
        BY <1>2, <2>2, <3>3, Tuples
      <4>2. QED
        BY <3>3, <4>1
    <3>4. CASE ~ (Len(g) > 2) /\ ~ KeepsCount(g)
      <4>1. k \in 1 .. 0
        BY <1>2, <2>2, <3>4, Tuples
      <4>2. QED
        BY <4>1
    <3>5. QED
      BY <2>2, <3>1, <3>2, <3>3, <3>4
  <2>5. CASE Len(g) > 2 /\ k = 1
    <3> DEFINE z == <<"suffix", q>>
    <3>1. z \in SourcesOf(m)
      BY <2>1, <2>5 DEF SourcesOf
    <3>2. PlaceOf(m, z) = <<i, 1>>
      BY <2>3 DEF PlaceOf
    <3>3. QED
      BY <1>2, <2>5, <3>1, <3>2
  <2>6. CASE KeepsCount(g) /\ k = IF Len(g) > 2 THEN 2 ELSE 1
    <3> DEFINE z == <<"own", q>>
    <3>1. z \in SourcesOf(m)
      BY <2>1, <2>6 DEF SourcesOf
    <3>2. PlaceOf(m, z) = <<i, k>>
      BY <2>3, <2>6 DEF PlaceOf
    <3>3. QED
      BY <1>2, <3>1, <3>2
  <2>7. QED
    BY <2>4, <2>5, <2>6
<1>5. QED
  BY <1>1, <1>2, <1>3, <1>4

\* The messages of a mapper are one for each source.
LEMMA Sourcing == ASSUME NEW m \in Shard PROVE \E f : IsSourcing(f, m)
<1> DEFINE P == Places(AllPushed(m), Size(m))
           N == 1 .. Len(Messages(m))
<1>1. PICK h : IsPlacing(h, Messages(m), AllPushed(m), Size(m))
  <2>1. /\ AllPushed(m) \in Seq(Seq(Sendable)) /\ Len(AllPushed(m)) = Size(m)
        /\ Messages(m) = FlattenSeq(AllPushed(m))
    BY AllPushedIs
  <2>2. \E h : IsPlacing(h, FlattenSeq(AllPushed(m)), AllPushed(m), Len(AllPushed(m)))
    BY <2>1, Placing
  <2>3. QED
    BY <2>1, <2>2
<1>2. /\ h \in [N -> P]
      /\ \A i \in N : Messages(m)[i] = AllPushed(m)[h[i][1]][h[i][2]]
      /\ \A i \in N : \A j \in N : h[i] = h[j] => i = j
      /\ \A x \in P : \E i \in N : h[i] = x
  BY <1>1 DEF IsPlacing
<1> DEFINE At(i) == CHOOSE z \in SourcesOf(m) : PlaceOf(m, z) = h[i]
           f == [i \in N |-> At(i)]
<1>3. ASSUME NEW i \in N PROVE At(i) \in SourcesOf(m) /\ PlaceOf(m, At(i)) = h[i]
  <2>1. h[i] \in P
    BY <1>2
  <2>2. \E z \in SourcesOf(m) : PlaceOf(m, z) = h[i]
    BY <2>1, PlaceSource
  <2>3. QED
    BY <2>2
<1>4. f \in [N -> SourcesOf(m)] /\ \A i \in N : f[i] = At(i)
  BY <1>3
<1> HIDE DEF At, f
<1>5. ASSUME NEW i \in N PROVE Messages(m)[i] = SourceMessage(m, f[i])
  BY <1>2, <1>3, <1>4, SourcePlace
<1>6. \A i \in N : \A j \in N : f[i] = f[j] => i = j
  BY <1>2, <1>3, <1>4
<1>7. ASSUME NEW z \in SourcesOf(m) PROVE \E i \in N : f[i] = z
  <2>1. PlaceOf(m, z) \in P
    BY SourcePlace
  <2>2. PICK i \in N : h[i] = PlaceOf(m, z)
    BY <1>2, <2>1
  <2>3. f[i] \in SourcesOf(m) /\ PlaceOf(m, f[i]) = PlaceOf(m, z)
    BY <1>3, <1>4, <2>2
  <2>4. f[i] = z
    BY <2>3, SourcePlaceOnce
  <2>5. QED
    BY <2>4
<1>8. IsSourcing(f, m)
  BY <1>4, <1>5, <1>6, <1>7 DEF IsSourcing
<1>9. QED
  BY <1>8

\* The source of a message that is sent.
Src(item) == (CHOOSE f : IsSourcing(f, item.from))[item.index]

\* The items for a reducer are the messages that are sent to its shard.
LEMMA MessagesOfIs ==
    ASSUME NEW s \in Shard
    PROVE  /\ \A item \in MessagesOf(s) :
                /\ item.from \in Shard /\ item.index \in 1 .. Len(Messages(item.from))
                /\ item = Item(item.from, item.index)
                /\ Received(item) = Messages(item.from)[item.index]
           /\ \A m \in Shard : \A i \in 1 .. Len(Messages(m)) :
                Messages(m)[i].to = s =>
                    /\ Item(m, i) \in MessagesOf(s)
                    /\ Item(m, i).from = m /\ Item(m, i).index = i
<1>1. s \in Reducer /\ Mapper = Shard
  BY ReducerOfShard, ThreadsAssumption
<1>2. ASSUME NEW m \in Shard
      PROVE  /\ Output[m] = Messages(m) /\ Len(Messages(m)) \in Nat
             /\ Len(To[m]) = Len(Messages(m))
             /\ \A i \in 1 .. Len(Messages(m)) : To[m][i] = Messages(m)[i].to
  <2>1. Output[m] = Messages(m) /\ Len(Messages(m)) \in Nat
    BY MessagesSendable, LenProperties DEF Output
  <2>2. To[m] = [i \in 1 .. Len(Messages(m)) |-> Messages(m)[i].to]
    BY <2>1, ThreadsAssumption DEF Targets
  <2>3. QED
    BY <2>1, <2>2
<1>3. ASSUME NEW item \in MessagesOf(s)
      PROVE  /\ item.from \in Shard /\ item.index \in 1 .. Len(Messages(item.from))
             /\ item = Item(item.from, item.index)
             /\ Received(item) = Messages(item.from)[item.index]
  <2>1. PICK m \in Shard : item \in MessagesFor(m, s)
    BY <1>1 DEF MessagesOf
  <2>2. /\ item.from = m /\ item.index \in 1 .. Len(To[m])
        /\ item = Item(m, item.index)
    BY <1>1, <2>1, MessageType
  <2>3. QED
    BY <1>2, <2>2 DEF Received
<1>4. ASSUME NEW m \in Shard, NEW i \in 1 .. Len(Messages(m)), Messages(m)[i].to = s
      PROVE  Item(m, i) \in MessagesOf(s) /\ Item(m, i).from = m /\ Item(m, i).index = i
  <2>1. Item(m, i) \in MessagesFor(m, s)
    BY <1>2, <1>4 DEF MessagesFor
  <2>2. QED
    BY <1>1, <2>1 DEF MessagesOf, Item
<1>5. QED
  BY <1>3, <1>4

\* What a reducer receives has a source,
LEMMA ItemSource ==
    ASSUME NEW s \in Shard, NEW item \in MessagesOf(s)
    PROVE  /\ item.from \in Shard
           /\ Src(item) \in SourcesOf(item.from)
           /\ Received(item) = SourceMessage(item.from, Src(item))
<1> DEFINE f == CHOOSE f : IsSourcing(f, item.from)
<1>1. /\ item.from \in Shard /\ item.index \in 1 .. Len(Messages(item.from))
      /\ Received(item) = Messages(item.from)[item.index]
  BY MessagesOfIs
<1>2. IsSourcing(f, item.from)
  BY <1>1, Sourcing
<1>3. Src(item) = f[item.index]
  BY DEF Src
<1> HIDE DEF f
<1>4. QED
  BY <1>1, <1>2, <1>3 DEF IsSourcing

\* of which nothing else comes,
LEMMA ItemSourceOnce ==
    ASSUME NEW s \in Shard, NEW item \in MessagesOf(s), NEW other \in MessagesOf(s),
           item.from = other.from, Src(item) = Src(other)
    PROVE  item = other
<1> DEFINE m == item.from
           f == CHOOSE f : IsSourcing(f, m)
<1>1. /\ m \in Shard
      /\ item.index \in 1 .. Len(Messages(m)) /\ item = Item(m, item.index)
      /\ other.index \in 1 .. Len(Messages(m)) /\ other = Item(m, other.index)
  BY MessagesOfIs
<1>2. IsSourcing(f, m)
  BY <1>1, Sourcing
<1>3. f[item.index] = f[other.index]
  BY DEF Src
<1> HIDE DEF f, m
<1>4. item.index = other.index
  BY <1>1, <1>2, <1>3 DEF IsSourcing
<1>5. QED
  BY <1>1, <1>4

\* and every source of a message for a shard comes to it.
LEMMA SourceItem ==
    ASSUME NEW s \in Shard, NEW m \in Shard, NEW z \in SourcesOf(m),
           SourceMessage(m, z).to = s
    PROVE  \E item \in MessagesOf(s) : item.from = m /\ Src(item) = z
<1> DEFINE f == CHOOSE f : IsSourcing(f, m)
<1>1. IsSourcing(f, m)
  BY Sourcing
<1> HIDE DEF f
<1>2. PICK i \in 1 .. Len(Messages(m)) : f[i] = z /\ Messages(m)[i] = SourceMessage(m, f[i])
  BY <1>1 DEF IsSourcing
<1>3. Item(m, i) \in MessagesOf(s) /\ Item(m, i).from = m /\ Item(m, i).index = i
  BY <1>2, MessagesOfIs
<1>4. Src(Item(m, i)) = z
  BY <1>2, <1>3 DEF Src, f
<1>5. QED
  BY <1>3, <1>4

\* What the three kinds of sources send.
LEMMA SourceMessageIs ==
    ASSUME NEW m \in Shard, NEW z \in SourcesOf(m)
    PROVE  /\ SourceMessage(m, z).to = shard_index(SourceMessage(m, z).context)
           /\ z[1] = "suffix" => /\ SourceMessage(m, z).context = Tail(Ngram(m, z[2]))
                                 /\ SourceMessage(m, z).count = 1
           /\ z[1] = "own" => /\ SourceMessage(m, z).context = Ngram(m, z[2])
                              /\ SourceMessage(m, z).count = counts[m][z[2]]
           /\ z[1] = "unigram" => /\ SourceMessage(m, z).context = Ngram(m, z[2])
                                  /\ SourceMessage(m, z).count = Unigram(m, z[2])
<1>1. z[1] \in {"suffix", "own", "unigram"}
  BY SourceIs
<1>2. CASE z[1] = "suffix"
  BY <1>2 DEF SourceMessage, Preceded, Message
<1>3. CASE z[1] = "own"
  BY <1>3 DEF SourceMessage, Message
<1>4. CASE z[1] = "unigram"
  BY <1>4 DEF SourceMessage, Message
<1>5. QED
  BY <1>1, <1>2, <1>3, <1>4

\* An n-gram of two or more words has one node in all the shards; a unigram has
\* one in each.
LEMMA OneNode ==
    ASSUME NEW m \in Shard, NEW n \in Shard, NEW p \in Pos(m), NEW q \in Pos(n),
           Ngram(m, p) = Ngram(n, q), m = n \/ Len(Ngram(m, p)) > 1
    PROVE  m = n /\ p = q
<1>1. m = n
  BY ShardAssumption
<1>2. QED
  BY <1>1, IndexAssumption

\* The index is finite.
LEMMA NgramsFinite == IsFiniteSet(Ngrams)
<1> DEFINE N(s) == {Ngram(s, p) : p \in Pos(s)}
           T == {N(s) : s \in Shard}
<1>1. ASSUME NEW s \in Shard PROVE IsFiniteSet(N(s))
  <2> DEFINE f == [p \in Pos(s) |-> Ngram(s, p)]
  <2>1. f \in Surjection(Pos(s), N(s))
    BY DEF Surjection
  <2>2. IsFiniteSet(Pos(s))
    BY NodeType
  <2> HIDE DEF f, N
  <2>3. QED
    BY <2>1, <2>2, FS_Surjection
<1>2. IsFiniteSet(T)
  <2> DEFINE f == [s \in Shard |-> N(s)]
  <2> HIDE DEF N
  <2>1. f \in Surjection(Shard, T)
    BY DEF Surjection
  <2>2. IsFiniteSet(Shard)
    BY MapReduceAssumption, ThreadsAssumption
  <2> HIDE DEF f, T
  <2>3. QED
    BY <2>1, <2>2, FS_Surjection
<1> HIDE DEF N
<1>3. \A S \in T : IsFiniteSet(S)
  BY <1>1
<1> HIDE DEF T
<1>4. IsFiniteSet(UNION T)
  BY <1>2, <1>3, FS_UNION
<1>5. QED
  BY <1>4 DEF Ngrams, T, N

\* The numbers up to n.
LEMMA Interval ==
    ASSUME NEW n \in Nat
    PROVE  IsFiniteSet(1 .. n) /\ Cardinality(1 .. n) = n
<1>1. IsFiniteSet(1 .. n) /\ Cardinality(1 .. n) = IF 1 > n THEN 0 ELSE n - 1 + 1
  BY FS_Interval
<1>2. QED
  BY <1>1

\* The n-grams that an n-gram is the suffix of.
Extensions(g) == {h \in Ngrams : Tail(h) = g}

\* They are n-grams of the index, one word longer.
LEMMA ExtensionIs ==
    ASSUME NEW g \in Seq(Word), Len(g) >= 1, NEW h \in Extensions(g)
    PROVE  /\ h \in Seq(Word) /\ Len(h) = Len(g) + 1
           /\ \E m \in Shard : \E q \in Pos(m) : Ngram(m, q) = h
<1>1. PICK m \in Shard : \E q \in Pos(m) : Ngram(m, q) = h /\ Tail(h) = g
  BY DEF Extensions, Ngrams
<1>2. h \in Seq(Word) /\ Len(h) \in Int /\ Len(h) >= 1
  BY <1>1, NodeType, NgramLength
<1>3. Len(Tail(h)) = Len(h) - 1
  BY <1>2
<1>4. QED
  BY <1>1, <1>2, <1>3

\* The ones of which the counts of the messages in a set are made that are for
\* node p of shard s.
Load(s, p, X) ==
    {x \in (X \intersect MessagesOf(s)) \X Nat :
        Received(x[1]).context = Ngram(s, p) /\ x[2] \in 1 .. Received(x[1]).count}

\* Each is one of the count of a message, and its message has a source.
LEMMA LoadIs ==
    ASSUME NEW s \in Shard, NEW p, NEW x \in Load(s, p, MessagesOf(s))
    PROVE  /\ x = <<x[1], x[2]>> /\ x[1] \in MessagesOf(s) /\ x[2] \in Nat
           /\ x[1].from \in Shard /\ Src(x[1]) \in SourcesOf(x[1].from)
           /\ SourceMessage(x[1].from, Src(x[1])).context = Ngram(s, p)
           /\ x[2] \in 1 .. SourceMessage(x[1].from, Src(x[1])).count
<1>1. /\ x = <<x[1], x[2]>> /\ x[1] \in MessagesOf(s) /\ x[2] \in Nat
      /\ Received(x[1]).context = Ngram(s, p) /\ x[2] \in 1 .. Received(x[1]).count
  BY DEF Load
<1>2. QED
  BY <1>1, ItemSource

\* The suffixes of two or more words that come to their shard are one for each
\* n-gram that has one more word in front.
LEMMA LoadOfSuffixes ==
    ASSUME NEW s \in Shard, NEW p \in Pos(s), Len(Ngram(s, p)) > 1
    PROVE  LET L == {x \in Load(s, p, MessagesOf(s)) : Src(x[1])[1] = "suffix"}
           IN  /\ IsFiniteSet(L)
               /\ Cardinality(L) = Cardinality(Extensions(Ngram(s, p)))
<1> DEFINE g == Ngram(s, p)
           H == Extensions(g)
           L == {x \in Load(s, p, MessagesOf(s)) : Src(x[1])[1] = "suffix"}
           f == [x \in L |-> Ngram(x[1].from, Src(x[1])[2])]
<1>1. g \in Seq(Word) /\ Len(g) \in Int /\ shard_index(g) = s
  BY NodeType, NgramLength, ShardAssumption
<1>2. ASSUME NEW x \in L
      PROVE  /\ x = <<x[1], x[2]>> /\ x[1] \in MessagesOf(s)
             /\ x[1].from \in Shard /\ Src(x[1]) \in SourcesOf(x[1].from)
             /\ Src(x[1]) = <<"suffix", Src(x[1])[2]>> /\ Src(x[1])[2] \in Pos(x[1].from)
             /\ Tail(Ngram(x[1].from, Src(x[1])[2])) = g
             /\ Len(Ngram(x[1].from, Src(x[1])[2])) > 2
             /\ x[2] = 1
  <2>1. /\ x = <<x[1], x[2]>> /\ x[1] \in MessagesOf(s)
        /\ x[1].from \in Shard /\ Src(x[1]) \in SourcesOf(x[1].from)
        /\ SourceMessage(x[1].from, Src(x[1])).context = g
        /\ x[2] \in 1 .. SourceMessage(x[1].from, Src(x[1])).count
        /\ Src(x[1])[1] = "suffix"
    BY LoadIs
  <2>2. /\ Src(x[1]) = <<"suffix", Src(x[1])[2]>> /\ Src(x[1])[2] \in Pos(x[1].from)
        /\ Len(Ngram(x[1].from, Src(x[1])[2])) > 2
    BY <2>1, SourceIs
  <2>3. /\ SourceMessage(x[1].from, Src(x[1])).context = Tail(Ngram(x[1].from, Src(x[1])[2]))
        /\ SourceMessage(x[1].from, Src(x[1])).count = 1
    BY <2>1, SourceMessageIs
  <2>4. QED
    BY <2>1, <2>2, <2>3
<1>3. f \in [L -> H]
  <2>1. ASSUME NEW x \in L PROVE Ngram(x[1].from, Src(x[1])[2]) \in H
    BY <1>2 DEF Extensions, Ngrams
  <2> HIDE DEF H, L
  <2>2. QED
    BY <2>1
<1>4. \A x \in L : f[x] = Ngram(x[1].from, Src(x[1])[2])
  OBVIOUS
<1> HIDE DEF f
<1>5. ASSUME NEW x \in L, NEW y \in L, f[x] = f[y] PROVE x = y
  <2> DEFINE m == x[1].from
             n == y[1].from
             i == Src(x[1])[2]
             j == Src(y[1])[2]
  <2>1. /\ m \in Shard /\ n \in Shard /\ i \in Pos(m) /\ j \in Pos(n)
        /\ Ngram(m, i) = Ngram(n, j) /\ Len(Ngram(m, i)) > 2
    BY <1>2, <1>4, <1>5
  <2>2. Len(Ngram(m, i)) > 1
    BY <2>1, NgramLength
  <2>3. m = n /\ i = j
    BY <2>1, <2>2, OneNode
  <2>4. Src(x[1]) = Src(y[1])
    BY <1>2, <2>3
  <2>5. x[1] = y[1]
    BY <1>2, <2>3, <2>4, ItemSourceOnce
  <2>6. QED
    BY <1>2, <2>5
<1>6. ASSUME NEW h \in H PROVE \E x \in L : f[x] = h
  <2>1. Tail(h) = g /\ Len(h) = Len(g) + 1
    BY <1>1, ExtensionIs DEF Extensions
  <2>2. PICK m \in Shard : \E q \in Pos(m) : Ngram(m, q) = h
    BY <1>1, ExtensionIs
  <2>a. PICK q \in Pos(m) : Ngram(m, q) = h
    BY <2>2
  <2> DEFINE z == <<"suffix", q>>
  <2>3. z \in SourcesOf(m)
    BY <1>1, <2>1, <2>a DEF SourcesOf
  <2>4. SourceMessage(m, z).context = g /\ SourceMessage(m, z).count = 1
    BY <2>1, <2>a, <2>3, SourceMessageIs
  <2>5. SourceMessage(m, z).to = s
    BY <1>1, <2>3, <2>4, SourceMessageIs
  <2>6. PICK item \in MessagesOf(s) : item.from = m /\ Src(item) = z
    BY <2>3, <2>5, SourceItem
  <2>7. Received(item) = SourceMessage(m, z)
    BY <2>6, ItemSource
  <2>8. <<item, 1>> \in L
    BY <2>4, <2>6, <2>7 DEF Load
  <2>9. f[<<item, 1>>] = h
    BY <1>4, <2>a, <2>6, <2>8
  <2>10. QED
    BY <2>8, <2>9
<1>7. IsFiniteSet(H)
  BY NgramsFinite, FS_Subset DEF Extensions
<1> HIDE DEF L, H
<1>8. IsFiniteSet(L) /\ Cardinality(L) = Cardinality(H)
  BY <1>3, <1>5, <1>6, <1>7, Matched
<1>9. QED
  BY <1>8 DEF L, H

\* An n-gram of two or more words that keeps its count sends it to itself.
LEMMA LoadOfOwn ==
    ASSUME NEW s \in Shard, NEW p \in Pos(s), Len(Ngram(s, p)) > 1
    PROVE  LET L == {x \in Load(s, p, MessagesOf(s)) : Src(x[1])[1] # "suffix"}
           IN  /\ IsFiniteSet(L)
               /\ Cardinality(L) = IF KeepsCount(Ngram(s, p)) THEN counts[s][p] ELSE 0
<1> DEFINE g == Ngram(s, p)
           L == {x \in Load(s, p, MessagesOf(s)) : Src(x[1])[1] # "suffix"}
           c == counts[s][p]
           f == [x \in L |-> x[2]]
<1>1. /\ g \in Seq(Word) /\ Len(g) \in Int /\ shard_index(g) = s /\ c \in Nat
  BY NodeType, NgramLength, ShardAssumption, ModifyAssumption
<1>2. ASSUME NEW x \in L
      PROVE  /\ x = <<x[1], x[2]>> /\ x[1] \in MessagesOf(s)
             /\ x[1].from = s /\ Src(x[1]) = <<"own", p>>
             /\ x[2] \in 1 .. c /\ KeepsCount(g)
  <2> DEFINE m == x[1].from
             z == Src(x[1])
  <2>1. /\ x = <<x[1], x[2]>> /\ x[1] \in MessagesOf(s)
        /\ m \in Shard /\ z \in SourcesOf(m)
        /\ SourceMessage(m, z).context = g
        /\ x[2] \in 1 .. SourceMessage(m, z).count
        /\ z[1] # "suffix"
    BY LoadIs
  <2>2. /\ z = <<z[1], z[2]>> /\ z[1] \in {"own", "unigram"} /\ z[2] \in Pos(m)
        /\ z[1] = "unigram" => Len(Ngram(m, z[2])) = 1
        /\ z[1] = "own" => KeepsCount(Ngram(m, z[2]))
    BY <2>1, SourceIs
  <2>3. SourceMessage(m, z).context = Ngram(m, z[2])
    BY <2>1, <2>2, SourceMessageIs
  <2>4. Ngram(m, z[2]) = g
    BY <2>1, <2>3
  <2>5. z[1] = "own"
    BY <1>1, <2>2, <2>4
  <2>6. m = s /\ z[2] = p
    BY <2>1, <2>2, <2>4, OneNode
  <2>7. SourceMessage(m, z).count = counts[m][z[2]]
    BY <2>1, <2>5, SourceMessageIs
  <2> HIDE DEF m, z
  <2>8. z = <<"own", p>> /\ KeepsCount(g) /\ x[2] \in 1 .. c
    BY <2>1, <2>2, <2>4, <2>5, <2>6, <2>7
  <2>9. QED
    BY <2>1, <2>6, <2>8 DEF m, z
<1>3. CASE KeepsCount(g)
  <2>1. f \in [L -> 1 .. c] /\ \A x \in L : f[x] = x[2]
    <3>1. \A x \in L : x[2] \in 1 .. c
      BY <1>2
    <3> HIDE DEF L
    <3>2. QED
      BY <3>1
  <2> HIDE DEF f
  <2>2. ASSUME NEW x \in L, NEW y \in L, f[x] = f[y] PROVE x = y
    <3>1. x[1] = y[1]
      BY <1>2, ItemSourceOnce
    <3>2. x[2] = y[2]
      BY <2>1, <2>2
    <3>3. QED
      BY <1>2, <3>1, <3>2
  <2>3. ASSUME NEW k \in 1 .. c PROVE \E x \in L : f[x] = k
    <3> DEFINE z == <<"own", p>>
    <3>1. z \in SourcesOf(s)
      BY <1>3 DEF SourcesOf
    <3>2. /\ SourceMessage(s, z).context = g /\ SourceMessage(s, z).count = c
          /\ SourceMessage(s, z).to = s
      BY <1>1, <3>1, SourceMessageIs
    <3>3. PICK item \in MessagesOf(s) : item.from = s /\ Src(item) = z
      BY <3>1, <3>2, SourceItem
    <3>4. Received(item) = SourceMessage(s, z)
      BY <3>3, ItemSource
    <3>5. <<item, k>> \in L
      BY <1>1, <3>2, <3>3, <3>4 DEF Load
    <3>6. QED
      BY <2>1, <3>5
  <2>4. IsFiniteSet(1 .. c) /\ Cardinality(1 .. c) = c
    BY <1>1, Interval
  <2> HIDE DEF L, c
  <2>5. IsFiniteSet(L) /\ Cardinality(L) = Cardinality(1 .. c)
    BY <2>1, <2>2, <2>3, <2>4, Matched
  <2>6. QED
    BY <1>3, <2>4, <2>5 DEF L, c
<1>4. CASE ~ KeepsCount(g)
  <2>1. L = {}
    BY <1>2, <1>4
  <2>2. IsFiniteSet(L) /\ Cardinality(L) = 0
    BY <2>1, FS_EmptySet
  <2> HIDE DEF L
  <2>3. QED
    BY <1>4, <2>2 DEF L
<1>5. QED
  BY <1>3, <1>4

\* The nodes of the bigrams of a shard that end in a word, one after the other.
Endings(m, w) == {q \in Pos(m) : Len(Ngram(m, q)) = 2 /\ LastWord(Ngram(m, q)) = w}

EndingAt(m, w) ==
    CHOOSE f : f \in Bijection(1 .. Cardinality(Endings(m, w)), Endings(m, w))

BosOf(m, w) == IF w = Bos THEN BosCount(m) ELSE 0

\* Each of them is counted once.
LEMMA EndingsIs ==
    ASSUME NEW m \in Shard, NEW w
    PROVE  /\ Cardinality(Endings(m, w)) \in Nat
           /\ EndingAt(m, w) \in [1 .. Cardinality(Endings(m, w)) -> Endings(m, w)]
           /\ \A i \in 1 .. Cardinality(Endings(m, w)) :
                 \A j \in 1 .. Cardinality(Endings(m, w)) :
                    EndingAt(m, w)[i] = EndingAt(m, w)[j] => i = j
           /\ \A q \in Endings(m, w) :
                 \E i \in 1 .. Cardinality(Endings(m, w)) : EndingAt(m, w)[i] = q
<1> DEFINE E == Endings(m, w)
           f == EndingAt(m, w)
<1>1. IsFiniteSet(E)
  BY NodeType, FS_Subset DEF Endings
<1>2. Cardinality(E) \in Nat /\ ExistsBijection(1 .. Cardinality(E), E)
  <2> HIDE DEF E
  <2>1. QED
    BY <1>1, FS_CardinalityType
<1>3. f \in Bijection(1 .. Cardinality(E), E)
  BY <1>2 DEF ExistsBijection, EndingAt
<1> HIDE DEF E, f
<1>4. /\ f \in [1 .. Cardinality(E) -> E]
      /\ \A q \in E : \E i \in 1 .. Cardinality(E) : f[i] = q
      /\ \A i \in 1 .. Cardinality(E) : \A j \in 1 .. Cardinality(E) : f[i] = f[j] => i = j
  BY <1>3 DEF Bijection, Injection, Surjection, IsInjective
<1>5. QED
  BY <1>2, <1>4 DEF E, f

\* They are what Unigram counts, and so is the start of a sentence.
LEMMA UnigramIs ==
    ASSUME NEW m \in Shard, NEW q \in Pos(m), NEW w, Ngram(m, q) = <<w>>
    PROVE  Unigram(m, q) = Cardinality(Endings(m, w)) + BosOf(m, w)
<1>1. Ngram(m, q)[1] = w
  OBVIOUS
<1>2. QED
  BY <1>1 DEF Unigram, Endings, BosOf

\* Only shard 0 counts the starts of sentences.
LEMMA BosOfIs ==
    ASSUME NEW m \in Shard, NEW w
    PROVE  BosOf(m, w) \in Nat /\ (m # 0 => BosOf(m, w) = 0)
<1>1. counts[0][Find(0, <<Bos>>)] \in Nat
  <2>1. 0 \in Shard /\ Has(0, <<Bos>>)
    BY IndexAssumption, ModifyAssumption
  <2>2. Find(0, <<Bos>>) \in Pos(0)
    BY <2>1, FindHas
  <2>3. QED
    BY <2>1, <2>2, ModifyAssumption
<1>2. QED
  BY <1>1 DEF BosOf, BosCount

\* The counts of a word in all the shards come to shard 0.
LEMMA LoadOfUnigramIs ==
    ASSUME NEW p \in Pos(0), NEW w \in Word, Ngram(0, p) = <<w>>,
           NEW x \in Load(0, p, MessagesOf(0))
    PROVE  /\ x = <<x[1], x[2]>> /\ x[1] \in MessagesOf(0) /\ x[1].from \in Shard
           /\ Src(x[1]) = <<"unigram", Src(x[1])[2]>> /\ Src(x[1])[2] \in Pos(x[1].from)
           /\ Ngram(x[1].from, Src(x[1])[2]) = <<w>>
           /\ x[2] \in 1 .. Cardinality(Endings(x[1].from, w)) + BosOf(x[1].from, w)
<1> DEFINE m == x[1].from
           z == Src(x[1])
<1>1. /\ x = <<x[1], x[2]>> /\ x[1] \in MessagesOf(0)
      /\ m \in Shard /\ z \in SourcesOf(m)
      /\ SourceMessage(m, z).context = <<w>>
      /\ x[2] \in 1 .. SourceMessage(m, z).count
  BY IndexAssumption, LoadIs
<1>2. /\ z = <<z[1], z[2]>> /\ z[1] \in {"suffix", "own", "unigram"} /\ z[2] \in Pos(m)
      /\ z[1] = "suffix" => Len(Ngram(m, z[2])) > 2
      /\ z[1] = "own" => Len(Ngram(m, z[2])) > 1
  BY <1>1, SourceIs
<1>3. Ngram(m, z[2]) \in Seq(Word) /\ Len(Ngram(m, z[2])) \in Int
  BY <1>1, <1>2, NodeType, NgramLength
<1>4. Len(<<w>>) = 1
  OBVIOUS
<1>5. z[1] # "suffix"
  <2> SUFFICES ASSUME z[1] = "suffix" PROVE FALSE
    OBVIOUS
  <2>1. Tail(Ngram(m, z[2])) = <<w>> /\ Len(Ngram(m, z[2])) > 2
    BY <1>1, <1>2, SourceMessageIs
  <2>2. Len(Tail(Ngram(m, z[2]))) = Len(Ngram(m, z[2])) - 1
    BY <1>3, <2>1
  <2>3. Len(Tail(Ngram(m, z[2]))) = 1
    BY <1>4, <2>1, Zenon
  <2>4. \A n, t \in Int : t = n - 1 /\ t = 1 => ~ (n > 2)
    OBVIOUS
  <2>5. Len(Tail(Ngram(m, z[2]))) \in Int
    BY <2>3
  <2> HIDE DEF m, z
  <2>6. QED
    BY <1>3, <2>1, <2>2, <2>3, <2>4, <2>5
<1>6. z[1] # "own"
  <2> SUFFICES ASSUME z[1] = "own" PROVE FALSE
    OBVIOUS
  <2>1. Ngram(m, z[2]) = <<w>> /\ Len(Ngram(m, z[2])) > 1
    BY <1>1, <1>2, SourceMessageIs
  <2>2. QED
    BY <1>3, <1>4, <2>1
<1>7. z[1] = "unigram"
  BY <1>2, <1>5, <1>6
<1>8. Ngram(m, z[2]) = <<w>> /\ SourceMessage(m, z).count = Unigram(m, z[2])
  BY <1>1, <1>7, SourceMessageIs
<1>9. Unigram(m, z[2]) = Cardinality(Endings(m, w)) + BosOf(m, w)
  BY <1>1, <1>2, <1>8, UnigramIs
<1> HIDE DEF m, z
<1>10. QED
  BY <1>1, <1>2, <1>7, <1>8, <1>9 DEF m, z

\* The message of a shard for a word.
LEMMA UnigramItem ==
    ASSUME NEW p \in Pos(0), NEW w \in Word, Ngram(0, p) = <<w>>, NEW m \in Shard,
           Cardinality(Endings(m, w)) + BosOf(m, w) # 0,
           NEW k \in 1 .. Cardinality(Endings(m, w)) + BosOf(m, w)
    PROVE  \E x \in Load(0, p, MessagesOf(0)) : x[1].from = m /\ x[2] = k
<1> DEFINE q == Find(m, <<w>>)
           z == <<"unigram", q>>
<1>1. q \in Pos(m) /\ Ngram(m, q) = <<w>>
  BY IndexAssumption, FindHas
<1>2. Unigram(m, q) = Cardinality(Endings(m, w)) + BosOf(m, w)
  BY <1>1, UnigramIs
<1>3. Len(<<w>>) = 1
  OBVIOUS
<1>4. z \in SourcesOf(m)
  <2>1. Len(Ngram(m, q)) = 1 /\ Unigram(m, q) # 0
    BY <1>1, <1>2, <1>3
  <2> HIDE DEF q
  <2>2. QED
    BY <1>1, <2>1 DEF SourcesOf
<1>5. /\ SourceMessage(m, z).context = <<w>> /\ SourceMessage(m, z).count = Unigram(m, q)
      /\ SourceMessage(m, z).to = shard_index(<<w>>)
  BY <1>1, <1>4, SourceMessageIs
<1>6. shard_index(<<w>>) = 0
  BY <1>3 DEF shard_index
<1>7. PICK item \in MessagesOf(0) : item.from = m /\ Src(item) = z
  BY <1>4, <1>5, <1>6, IndexAssumption, SourceItem
<1>8. Received(item) = SourceMessage(m, z)
  BY <1>7, IndexAssumption, ItemSource
<1>9. k \in Nat
  OBVIOUS
<1>10. Received(item).context = Ngram(0, p) /\ k \in 1 .. Received(item).count
  BY <1>2, <1>5, <1>8
<1> HIDE DEF z, q
<1>11. <<item, k>> \in Load(0, p, MessagesOf(0))
  BY <1>9, <1>10, <1>7 DEF Load
<1>12. QED
  BY <1>7, <1>11

\* Two of them are of one message if they are of one shard.
LEMMA UnigramItemOnce ==
    ASSUME NEW p \in Pos(0), NEW w \in Word, Ngram(0, p) = <<w>>,
           NEW x \in Load(0, p, MessagesOf(0)), NEW y \in Load(0, p, MessagesOf(0)),
           x[1].from = y[1].from, x[2] = y[2]
    PROVE  x = y
<1>1. /\ x = <<x[1], x[2]>> /\ x[1] \in MessagesOf(0) /\ x[1].from \in Shard
      /\ Src(x[1]) = <<"unigram", Src(x[1])[2]>> /\ Src(x[1])[2] \in Pos(x[1].from)
      /\ Ngram(x[1].from, Src(x[1])[2]) = <<w>>
  BY LoadOfUnigramIs
<1>2. /\ y = <<y[1], y[2]>> /\ y[1] \in MessagesOf(0) /\ y[1].from \in Shard
      /\ Src(y[1]) = <<"unigram", Src(y[1])[2]>> /\ Src(y[1])[2] \in Pos(y[1].from)
      /\ Ngram(y[1].from, Src(y[1])[2]) = <<w>>
  BY LoadOfUnigramIs
<1>3. Src(x[1])[2] = Src(y[1])[2]
  BY <1>1, <1>2, OneNode
<1>4. Src(x[1]) = Src(y[1])
  BY <1>1, <1>2, <1>3
<1>5. x[1] = y[1]
  BY <1>1, <1>2, <1>4, IndexAssumption, ItemSourceOnce
<1>6. QED
  BY <1>1, <1>2, <1>5

\* A word counts once for each word before it in a bigram of any shard,
LEMMA LoadOfEndings ==
    ASSUME NEW p \in Pos(0), NEW w \in Word, Ngram(0, p) = <<w>>
    PROVE  LET L == {x \in Load(0, p, MessagesOf(0)) :
                        x[2] <= Cardinality(Endings(x[1].from, w))}
           IN  /\ IsFiniteSet(L)
               /\ Cardinality(L) = Cardinality(Extensions(<<w>>))
<1> DEFINE H == Extensions(<<w>>)
           C(m) == Cardinality(Endings(m, w))
           L == {x \in Load(0, p, MessagesOf(0)) : x[2] <= C(x[1].from)}
           At(x) == EndingAt(x[1].from, w)[x[2]]
           f == [x \in L |-> Ngram(x[1].from, At(x))]
<1>1. ASSUME NEW x \in L
      PROVE  /\ x \in Load(0, p, MessagesOf(0))
             /\ x[1].from \in Shard /\ x[2] \in 1 .. C(x[1].from)
             /\ At(x) \in Pos(x[1].from) /\ Len(Ngram(x[1].from, At(x))) = 2
             /\ LastWord(Ngram(x[1].from, At(x))) = w
  <2>1. /\ x \in Load(0, p, MessagesOf(0)) /\ x[1].from \in Shard
        /\ x[2] \in 1 .. C(x[1].from) + BosOf(x[1].from, w)
        /\ x[2] <= C(x[1].from)
    BY LoadOfUnigramIs
  <2>2. C(x[1].from) \in Nat /\ BosOf(x[1].from, w) \in Nat
    BY <2>1, EndingsIs, BosOfIs
  <2> HIDE DEF C
  <2>3. x[2] \in 1 .. C(x[1].from)
    BY <2>1, <2>2
  <2> USE DEF C
  <2>4. EndingAt(x[1].from, w) \in [1 .. C(x[1].from) -> Endings(x[1].from, w)]
    BY <2>1, EndingsIs
  <2>5. At(x) \in Endings(x[1].from, w)
    BY <2>3, <2>4
  <2> HIDE DEF At
  <2>6. QED
    BY <2>1, <2>3, <2>5 DEF Endings
<1>2. ASSUME NEW m \in Shard, NEW q \in Pos(m), Len(Ngram(m, q)) = 2
      PROVE  /\ Tail(Ngram(m, q)) = <<LastWord(Ngram(m, q))>>
             /\ \A v : Tail(Ngram(m, q)) = <<v>> => LastWord(Ngram(m, q)) = v
  <2>1. Ngram(m, q) \in Seq(Word)
    BY NodeType
  <2> DEFINE h == Ngram(m, q)
             t == Tail(h)
             u == <<LastWord(h)>>
  <2>2. t \in Seq(Word) /\ Len(t) = 1 /\ t[1] = h[2] /\ LastWord(h) = h[2] /\ h[2] \in Word
    BY <1>2, <2>1, ElementOfSeq DEF LastWord
  <2>3. u \in Seq(Word) /\ Len(u) = 1 /\ u[1] = h[2]
    BY <2>2
  <2>4. \A v : <<v>>[1] = v
    OBVIOUS
  <2>5. \A v : t = <<v>> => LastWord(h) = v
    BY <2>2, <2>4
  <2> HIDE DEF t, u, h
  <2>6. \A i \in 1 .. Len(t) : t[i] = u[i]
    BY <2>2, <2>3
  <2>7. t = u
    BY <2>2, <2>3, <2>6, SeqEqual
  <2>8. QED
    BY <2>5, <2>7 DEF t, u, h
<1>3. f \in [L -> H] /\ \A x \in L : f[x] = Ngram(x[1].from, At(x))
  <2>1. ASSUME NEW x \in L PROVE Ngram(x[1].from, At(x)) \in H
    <3>1. /\ x[1].from \in Shard /\ At(x) \in Pos(x[1].from)
          /\ Tail(Ngram(x[1].from, At(x))) = <<w>>
      BY <1>1, <1>2
    <3> HIDE DEF At
    <3>2. QED
      BY <3>1 DEF Extensions, Ngrams
  <2> HIDE DEF H, L, At
  <2>2. QED
    BY <2>1
<1> HIDE DEF f
<1>4. ASSUME NEW x \in L, NEW y \in L, f[x] = f[y] PROVE x = y
  <2>1. x[1].from = y[1].from /\ At(x) = At(y)
    <3>1. /\ Ngram(x[1].from, At(x)) = Ngram(y[1].from, At(y))
          /\ Len(Ngram(x[1].from, At(x))) > 1
      BY <1>1, <1>3, <1>4
    <3> HIDE DEF At, L
    <3>2. QED
      BY <1>1, <3>1, OneNode
  <2>2. x[2] = y[2]
    <3>1. x[2] \in 1 .. C(x[1].from) /\ y[2] \in 1 .. C(x[1].from)
      BY <1>1, <2>1
    <3>2. EndingAt(x[1].from, w)[x[2]] = EndingAt(x[1].from, w)[y[2]]
      BY <2>1
    <3>3. QED
      BY <1>1, <3>1, <3>2, EndingsIs
  <2>3. QED
    BY <1>1, <2>1, <2>2, UnigramItemOnce
<1>5. ASSUME NEW h \in H PROVE \E x \in L : f[x] = h
  <2>1. PICK m \in Shard : \E q \in Pos(m) : Ngram(m, q) = h /\ Tail(h) = <<w>>
    BY DEF Extensions, Ngrams
  <2>2. PICK q \in Pos(m) : Ngram(m, q) = h /\ Tail(h) = <<w>>
    BY <2>1
  <2>3. Len(h) = 2
    <3>1. h \in Seq(Word) /\ Len(h) \in Int /\ Len(h) >= 1
      BY <2>2, NodeType, NgramLength
    <3>2. Len(Tail(h)) = Len(h) - 1 /\ Len(<<w>>) = 1
      BY <3>1
    <3>3. Len(Tail(h)) = 1
      BY <2>2, <3>2, Zenon
    <3>4. QED
      BY <3>1, <3>2, <3>3
  <2>4. q \in Endings(m, w)
    BY <1>2, <2>2, <2>3 DEF Endings
  <2>5. PICK k \in 1 .. C(m) : EndingAt(m, w)[k] = q
    BY <2>4, EndingsIs
  <2>6. C(m) \in Nat /\ BosOf(m, w) \in Nat
    BY EndingsIs, BosOfIs
  <2> HIDE DEF C
  <2>7. C(m) + BosOf(m, w) # 0 /\ k \in 1 .. C(m) + BosOf(m, w) /\ k <= C(m)
    BY <2>5, <2>6
  <2> USE DEF C
  <2>8. PICK x \in Load(0, p, MessagesOf(0)) : x[1].from = m /\ x[2] = k
    BY <2>7, UnigramItem
  <2>9. x \in L
    BY <2>7, <2>8
  <2>10. QED
    BY <1>3, <2>2, <2>5, <2>8, <2>9
<1>6. IsFiniteSet(H)
  BY NgramsFinite, FS_Subset DEF Extensions
<1> HIDE DEF L, H, At
<1>7. IsFiniteSet(L) /\ Cardinality(L) = Cardinality(H)
  BY <1>3, <1>4, <1>5, <1>6, Matched
<1>8. QED
  BY <1>7 DEF L, H

\* and the start of a sentence as often as it was counted besides.
LEMMA LoadOfBos ==
    ASSUME NEW p \in Pos(0), NEW w \in Word, Ngram(0, p) = <<w>>
    PROVE  LET L == {x \in Load(0, p, MessagesOf(0)) :
                        ~ (x[2] <= Cardinality(Endings(x[1].from, w)))}
           IN  IsFiniteSet(L) /\ Cardinality(L) = BosOf(0, w)
<1> DEFINE C(m) == Cardinality(Endings(m, w))
           B == BosOf(0, w)
           L == {x \in Load(0, p, MessagesOf(0)) : ~ (x[2] <= C(x[1].from))}
           f == [x \in L |-> x[2] - C(0)]
<1>1. 0 \in Shard /\ B \in Nat /\ C(0) \in Nat
  BY IndexAssumption, BosOfIs, EndingsIs
<1>2. ASSUME NEW x \in L
      PROVE  /\ x \in Load(0, p, MessagesOf(0)) /\ x[1].from = 0
             /\ x[2] \in Int /\ x[2] - C(0) \in 1 .. B
  <2>1. /\ x \in Load(0, p, MessagesOf(0)) /\ x[1].from \in Shard
        /\ x[2] \in 1 .. C(x[1].from) + BosOf(x[1].from, w)
        /\ ~ (x[2] <= C(x[1].from))
    BY LoadOfUnigramIs
  <2>2. /\ C(x[1].from) \in Nat /\ BosOf(x[1].from, w) \in Nat
        /\ x[1].from # 0 => BosOf(x[1].from, w) = 0
    BY <2>1, EndingsIs, BosOfIs
  <2> HIDE DEF C, L
  <2>3. x[1].from = 0
    BY <2>1, <2>2
  <2>4. QED
    BY <1>1, <2>1, <2>2, <2>3
<1>3. f \in [L -> 1 .. B] /\ \A x \in L : f[x] = x[2] - C(0)
  <2>1. \A x \in L : x[2] - C(0) \in 1 .. B
    BY <1>2
  <2> HIDE DEF L, B, C
  <2>2. QED
    BY <2>1
<1> HIDE DEF f
<1>4. ASSUME NEW x \in L, NEW y \in L, f[x] = f[y] PROVE x = y
  <2>1. x[2] = y[2]
    <3>1. x[2] - C(0) = y[2] - C(0) /\ x[2] \in Int /\ y[2] \in Int
      BY <1>2, <1>3, <1>4
    <3>2. QED
      BY <1>1, <3>1
  <2>2. QED
    BY <1>2, <2>1, UnigramItemOnce
<1>5. ASSUME NEW k \in 1 .. B PROVE \E x \in L : f[x] = k
  <2> HIDE DEF C, B
  <2>1. /\ C(0) + B # 0 /\ C(0) + k \in 1 .. C(0) + B /\ ~ (C(0) + k <= C(0))
        /\ (C(0) + k) - C(0) = k
    BY <1>1
  <2> USE DEF C, B
  <2>2. PICK x \in Load(0, p, MessagesOf(0)) : x[1].from = 0 /\ x[2] = C(0) + k
    BY <1>1, <2>1, UnigramItem
  <2>3. x \in L
    BY <2>1, <2>2
  <2>4. QED
    BY <1>3, <2>1, <2>2, <2>3
<1>6. IsFiniteSet(1 .. B) /\ Cardinality(1 .. B) = B
  BY <1>1, Interval
<1> HIDE DEF L, B
<1>7. IsFiniteSet(L) /\ Cardinality(L) = Cardinality(1 .. B)
  BY <1>3, <1>4, <1>5, <1>6, Matched
<1>8. QED
  BY <1>6, <1>7 DEF L, B

\* All the messages for a node have the ones that its modified count has.
LEMMA LoadOfAll ==
    ASSUME NEW s \in Shard, NEW p \in CountsOffset(s) .. position_size(s) - 1
    PROVE  /\ IsFiniteSet(Load(s, p, MessagesOf(s)))
           /\ Cardinality(Load(s, p, MessagesOf(s))) = Modified(s, p)
<1> DEFINE g == Ngram(s, p)
           A == Load(s, p, MessagesOf(s))
           E == Extensions(g)
<1>1. /\ Order \in Nat /\ Order >= 2 /\ Size(s) \in Nat /\ Pos(s) = 0 .. Size(s) - 1
      /\ Offset(s, 1) \in 0 .. Size(s) /\ Offset(s, Order - 1) \in 0 .. Size(s)
      /\ \A q \in Pos(s) : q < Offset(s, 1) <=> Len(Ngram(s, q)) <= 1
      /\ \A q \in Pos(s) : q < Offset(s, Order - 1) <=> Len(Ngram(s, q)) <= Order - 1
  <2>1. Order \in Nat /\ Order >= 2
    BY IndexAssumption
  <2>2. Order - 1 \in Int /\ 1 \in Int
    BY <2>1
  <2>3. QED
    BY <2>1, <2>2, NodeType, OffsetBounds DEF Pos
<1>2. CountsOffset(s) \in 0 .. Size(s)
  BY <1>1 DEF CountsOffset
<1>3. p \in Pos(s) /\ p < Offset(s, Order - 1)
  BY <1>1, <1>2 DEF position_size
<1>4. /\ g \in Seq(Word) /\ Len(g) \in Int /\ Len(g) >= 1 /\ Len(g) <= Order - 1
  BY <1>1, <1>3, NodeType, NgramLength
<1>5. Len(g) # Order /\ counts[s][p] \in Nat
  BY <1>1, <1>3, <1>4, ModifyAssumption
<1>6. Modified(s, p) = IF g[1] = Bos /\ (Len(g) > 1 \/ BosReached)
                         THEN Cardinality(E) + counts[s][p] ELSE Cardinality(E)
  BY <1>5 DEF Modified, Extensions
<1>7. Cardinality(E) \in Nat
  <2>1. IsFiniteSet(E)
    BY NgramsFinite, FS_Subset DEF Extensions
  <2>2. QED
    BY <2>1, FS_CardinalityType
<1>8. ASSUME NEW L, NEW M, L \cup M = A, L \cap M = {}, IsFiniteSet(L), IsFiniteSet(M),
             Cardinality(L) = Cardinality(E), Cardinality(M) \in Nat
      PROVE  IsFiniteSet(A) /\ Cardinality(A) = Cardinality(E) + Cardinality(M)
  <2> HIDE DEF A, E
  <2>1. /\ IsFiniteSet(L \cup M)
        /\ Cardinality(L \cup M) = Cardinality(L) + Cardinality(M) - Cardinality(L \cap M)
    BY <1>8, FS_Union
  <2>2. Cardinality(L \cap M) = 0
    BY <1>8, FS_EmptySet
  <2>3. Cardinality(A) = Cardinality(E) + Cardinality(M) - 0
    BY <1>8, <2>1, <2>2
  <2>4. \A i, j \in Nat : i + j - 0 = i + j
    OBVIOUS
  <2>5. Cardinality(A) = Cardinality(E) + Cardinality(M)
    BY <1>7, <1>8, <2>3, <2>4
  <2>6. QED
    BY <1>8, <2>1, <2>5
<1>9. CASE Len(g) > 1
  <2> DEFINE L == {x \in A : Src(x[1])[1] = "suffix"}
             M == {x \in A : Src(x[1])[1] # "suffix"}
  <2>1. IsFiniteSet(L) /\ Cardinality(L) = Cardinality(E)
    BY <1>3, <1>9, LoadOfSuffixes
  <2>2. IsFiniteSet(M) /\ Cardinality(M) = IF KeepsCount(g) THEN counts[s][p] ELSE 0
    BY <1>3, <1>9, LoadOfOwn
  <2>3. L \cup M = A /\ L \cap M = {} /\ Cardinality(M) \in Nat
    BY <1>5, <2>2
  <2> HIDE DEF L, M, A, E
  <2>4. IsFiniteSet(A) /\ Cardinality(A) = Cardinality(E) + Cardinality(M)
    BY <1>8, <2>1, <2>2, <2>3
  <2>5. KeepsCount(g) <=> g[1] = Bos
    BY <1>5 DEF KeepsCount
  <2>6. Cardinality(A) = Modified(s, p)
    <3> HIDE DEF g
    <3>1. QED
      BY <1>5, <1>6, <1>7, <1>9, <2>2, <2>4, <2>5
  <2>7. QED
    BY <2>4, <2>6 DEF A
<1>10. CASE Len(g) = 1
  <2>1. s = 0
    <3>1. p < Offset(s, 1)
      <4>1. Len(g) <= 1
        BY <1>10
      <4>2. QED
        BY <1>1, <1>3, <4>1
    <3>2. QED
      BY <1>1, <3>1 DEF CountsOffset
  <2>2. PICK w : w = g[1]
    OBVIOUS
  <2>3. w \in Word /\ g = <<w>>
    <3>1. w \in Word /\ Len(<<w>>) = 1 /\ <<w>>[1] = w
      BY <1>4, <1>10, <2>2, ElementOfSeq
    <3>2. <<w>> \in Seq(Word) /\ \A i \in 1 .. Len(g) : g[i] = <<w>>[i]
      BY <1>10, <2>2, <3>1
    <3> HIDE DEF g
    <3>3. QED
      BY <1>4, <1>10, <3>1, <3>2, SeqEqual
  <2> DEFINE L == {x \in A : x[2] <= Cardinality(Endings(x[1].from, w))}
             M == {x \in A : ~ (x[2] <= Cardinality(Endings(x[1].from, w)))}
  <2>4. IsFiniteSet(L) /\ Cardinality(L) = Cardinality(E)
    BY <1>3, <2>1, <2>3, LoadOfEndings
  <2>5. IsFiniteSet(M) /\ Cardinality(M) = BosOf(0, w)
    BY <1>3, <2>1, <2>3, LoadOfBos
  <2>6. L \cup M = A /\ L \cap M = {} /\ Cardinality(M) \in Nat
    <3>1. Cardinality(M) \in Nat
      BY <2>1, <2>5, BosOfIs
    <3>2. L \cup M = A /\ L \cap M = {}
      OBVIOUS
    <3>3. QED
      BY <3>1, <3>2
  <2> HIDE DEF L, M, A, E
  <2>7. IsFiniteSet(A) /\ Cardinality(A) = Cardinality(E) + BosOf(0, w)
    BY <1>8, <2>4, <2>5, <2>6
  <2>8. BosOf(0, w) = IF w = Bos /\ BosReached THEN counts[s][p] ELSE 0
    <3>1. CASE w = Bos
      <4>1. Has(0, <<Bos>>) /\ Ngram(0, p) = <<Bos>>
        BY <1>3, <2>1, <2>3, <3>1 DEF Has
      <4>2. Find(0, <<Bos>>) \in Pos(0) /\ Ngram(0, Find(0, <<Bos>>)) = <<Bos>>
        BY <4>1, FindHas
      <4>3. Find(0, <<Bos>>) = p
        BY <1>3, <2>1, <4>1, <4>2, OneNode
      <4>4. QED
        BY <2>1, <3>1, <4>3 DEF BosOf, BosCount, BosReached
    <3>2. CASE w # Bos
      BY <3>2 DEF BosOf
    <3>3. QED
      BY <3>1, <3>2
  <2>9. ~ (Len(g) > 1)
    BY <1>10
  <2>10. Modified(s, p) = IF w = Bos /\ BosReached
                           THEN Cardinality(E) + counts[s][p] ELSE Cardinality(E)
    BY <1>6, <2>2, <2>9
  <2>11. Cardinality(A) = Modified(s, p)
    BY <1>5, <1>7, <2>7, <2>8, <2>10
  <2>12. QED
    BY <2>7, <2>11 DEF A
<1>11. Len(g) > 1 \/ Len(g) = 1
  <2>1. Len(g) \in Int /\ Len(g) >= 1
    BY <1>4
  <2>2. \A n \in Int : n >= 1 => n > 1 \/ n = 1
    OBVIOUS
  <2>3. QED
    BY <2>1, <2>2
<1>12. QED
  BY <1>9, <1>10, <1>11

-----------------------------------------------------------------------------
(* The order of the messages.                                               *)

\* Of the messages of one mapper the first comes first.
Precedes(x, y) == ~ IsEmpty(y) /\ x.from = y.from => x.index < y.index

Rising(s) == \A i, j \in 1 .. Len(s) : i < j => Precedes(s[i], s[j])

Ordered(d) ==
    /\ Rising(d.wire)
    /\ Rising(d.buffer)
    /\ \A x, y : Holds(d.wire, x) /\ Holds(d.buffer, y) => Precedes(x, y)

\* Has a reducer read the item?
Read(r, x) == x \in popped[r] \/ Holds(queue[r], x)

\* What a reducer has popped was written before what it has read and not
\* popped, and that before what is in the device.
QueueOrder ==
    \A r \in Reducer :
        /\ Rising(queue[r])
        /\ \A x, y : x \in popped[r] /\ Holds(queue[r], y) => Precedes(x, y)

DeviceOrder ==
    \A m \in Mapper : \A r \in Reducer :
        /\ Ordered(device[m][r])
        /\ \A x, y : Read(r, x) /\ Under(device[m][r], y) => Precedes(x, y)

\* What has been written is not the next message.
SentOrder ==
    \A m \in Mapper : \A r \in Reducer : \A x :
        /\ Read(r, x) \/ Under(device[m][r], x)
        /\ x.from = m
        /\ sent[m] < Len(To[m])
        => x.index <= sent[m]

OrderInv == QueueOrder /\ DeviceOrder /\ SentOrder

\* Sending a message leaves what is in a device in its order.
LEMMA FlushOrders ==
    ASSUME NEW S, NEW d \in DeviceOf(S), NEW n \in Nat, Ordered(d)
    PROVE  /\ Ordered(Processes!flush(d, n))
           /\ \A item : Under(Processes!flush(d, n), item) => Under(d, item)
<1> DEFINE f == Processes!flush(d, n)
           b == d.buffer
           k == Processes!Smaller(BufferSize, Len(b))
<1>1. b \in Seq(S) /\ d.wire \in Seq(S) /\ Len(b) \in Nat
  BY LenProperties DEF DeviceOf
<1>2. k \in 0 .. Len(b)
  BY <1>1, BufferAssumption DEF Processes!Smaller
<1>3. CASE d.wire = << >> /\ Len(b) >= n
  <2>1. f = [d EXCEPT !.wire = SubSeq(b, 1, k), !.buffer = SubSeq(b, k + 1, Len(b))]
    BY <1>3 DEF Processes!flush, Processes!test
  <2>2. /\ Len(SubSeq(b, 1, k)) = k
        /\ \A i \in 1 .. k : SubSeq(b, 1, k)[i] = b[i]
    BY <1>1, <1>2
  <2>3. /\ SubSeq(b, k + 1, Len(b)) \in Seq(S)
        /\ Len(SubSeq(b, k + 1, Len(b))) = Len(b) - k
        /\ \A i \in 1 .. Len(b) - k : SubSeq(b, k + 1, Len(b))[i] = b[k + i]
    BY <1>1, <1>2
  <2>4. f.wire = SubSeq(b, 1, k) /\ f.buffer = SubSeq(b, k + 1, Len(b))
    BY <2>1 DEF DeviceOf
  <2> HIDE DEF f, k
  <2>5. \A i \in 1 .. Len(f.wire) : i \in 1 .. Len(b) /\ i <= k /\ f.wire[i] = b[i]
    BY <1>1, <1>2, <2>2, <2>4
  <2>6. \A i \in 1 .. Len(f.buffer) : k + i \in 1 .. Len(b) /\ k < k + i /\ f.buffer[i] = b[k + i]
    BY <1>1, <1>2, <2>3, <2>4
  <2>7. \A i, j \in 1 .. Len(b) : i < j => Precedes(b[i], b[j])
    BY DEF Ordered, Rising
  <2>8. Rising(f.wire)
    BY <2>5, <2>7 DEF Rising
  <2>9. Rising(f.buffer)
    <3> SUFFICES ASSUME NEW i \in 1 .. Len(f.buffer), NEW j \in 1 .. Len(f.buffer), i < j
                 PROVE  Precedes(f.buffer[i], f.buffer[j])
      BY DEF Rising
    <3>1. k + i < k + j
      BY <1>2
    <3>2. QED
      BY <2>6, <2>7, <3>1
  <2>10. ASSUME NEW x, NEW y, Holds(f.wire, x), Holds(f.buffer, y) PROVE Precedes(x, y)
    <3>1. PICK i \in 1 .. Len(f.wire) : f.wire[i] = x
      BY <2>10 DEF Holds
    <3>2. PICK j \in 1 .. Len(f.buffer) : f.buffer[j] = y
      BY <2>10 DEF Holds
    <3>3. i < k + j
      BY <1>1, <1>2, <2>5, <2>6
    <3>4. QED
      BY <2>5, <2>6, <2>7, <3>1, <3>2, <3>3
  <2>11. ASSUME NEW item, Under(f, item) PROVE Under(d, item)
    <3>1. Holds(f.wire, item) => Holds(b, item)
      BY <2>5 DEF Holds
    <3>2. Holds(f.buffer, item) => Holds(b, item)
      BY <2>6 DEF Holds
    <3>3. QED
      BY <2>11, <3>1, <3>2 DEF Under
  <2>12. QED
    BY <2>8, <2>9, <2>10, <2>11 DEF Ordered, f
<1>4. CASE ~ (d.wire = << >> /\ Len(b) >= n)
  BY <1>4 DEF Processes!flush, Processes!test
<1>5. QED
  BY <1>3, <1>4

\* A line that follows all that is in a device is written at its end.
LEMMA WriteOrders ==
    ASSUME NEW S, NEW d \in DeviceOf(S), NEW line \in S, Ordered(d),
           \A x : Under(d, x) => Precedes(x, line)
    PROVE  /\ Ordered(Processes!write(d, line))
           /\ \A x : Under(Processes!write(d, line), x) => Under(d, x) \/ x = line
<1> DEFINE f == Processes!flush(d, BufferSize)
           w == [f EXCEPT !.buffer = Append(@, line)]
<1>1. BufferSize \in Nat
  BY BufferAssumption
<1>2. /\ f \in DeviceOf(S) /\ Ordered(f)
      /\ \A x : Under(f, x) => Under(d, x)
  BY <1>1, FlushKeeps, FlushOrders
<1> HIDE DEF f
<1>3. f.buffer \in Seq(S)
  BY <1>2 DEF DeviceOf
<1>4. /\ Append(f.buffer, line) \in Seq(S)
      /\ Len(Append(f.buffer, line)) = Len(f.buffer) + 1 /\ Len(f.buffer) \in Nat
      /\ \A i \in 1 .. Len(f.buffer) : Append(f.buffer, line)[i] = f.buffer[i]
      /\ Append(f.buffer, line)[Len(f.buffer) + 1] = line
  BY <1>3
<1>5. w.buffer = Append(f.buffer, line) /\ w.wire = f.wire /\ w \in DeviceOf(S)
  BY <1>2, <1>4 DEF DeviceOf
<1> HIDE DEF w
<1>6. \A i \in 1 .. Len(w.buffer) :
          \/ i \in 1 .. Len(f.buffer) /\ w.buffer[i] = f.buffer[i]
          \/ i = Len(f.buffer) + 1 /\ w.buffer[i] = line
  BY <1>4, <1>5
<1>7. \A x : Holds(w.buffer, x) => Holds(f.buffer, x) \/ x = line
  BY <1>6 DEF Holds
<1>8. \A x : Under(w, x) => Under(d, x) \/ x = line
  BY <1>2, <1>5, <1>7 DEF Under
<1>9. Ordered(w)
  <2>1. Rising(w.wire)
    BY <1>2, <1>5 DEF Ordered
  <2>2. Rising(w.buffer)
    <3> SUFFICES ASSUME NEW i \in 1 .. Len(w.buffer), NEW j \in 1 .. Len(w.buffer), i < j
                 PROVE  Precedes(w.buffer[i], w.buffer[j])
      BY DEF Rising
    <3>1. i \in 1 .. Len(f.buffer) /\ w.buffer[i] = f.buffer[i]
      BY <1>4, <1>5, <1>6
    <3>2. CASE j \in 1 .. Len(f.buffer) /\ w.buffer[j] = f.buffer[j]
      BY <1>2, <3>1, <3>2 DEF Ordered, Rising
    <3>3. CASE w.buffer[j] = line
      BY <1>2, <3>1, <3>3 DEF Under, Holds
    <3>4. QED
      BY <1>6, <3>2, <3>3
  <2>3. ASSUME NEW x, NEW y, Holds(w.wire, x), Holds(w.buffer, y) PROVE Precedes(x, y)
    BY <1>2, <1>5, <1>7, <2>3 DEF Ordered, Under
  <2>4. QED
    BY <2>1, <2>2, <2>3 DEF Ordered
<1>10. Processes!write(d, line) = Processes!flush(w, BufferSize)
  BY DEF Processes!write, f, w
<1>11. QED
  BY <1>1, <1>5, <1>8, <1>9, <1>10, FlushOrders

\* What is written follows all that its mapper has written before.
LEMMA WriteOrder ==
    ASSUME PInv, OrderInv, NEW m \in Mapper, Processes!Write(m)
    PROVE  OrderInv'
<1> DEFINE i == sent[m] + 1
           t == To[m][i]
           line == Item(m, i)
           written(r) == IF r = t THEN Processes!write(device[m][r], line) ELSE device[m][r]
           new(r) == Processes!flush(written(r), BufferSize)
<1>1. /\ sent[m] \in Nat /\ Len(To[m]) \in Nat /\ sent[m] < Len(To[m])
      /\ i \in 1 .. Len(To[m]) /\ sent[m] < i
  BY TargetType DEF PInv, ProcessType, Processes!Write
<1>2. t \in Reducer /\ line \in MessagesFor(m, t) /\ line.index = i /\ line.from = m
  <2>1. t \in Reducer
    BY <1>1, MapReduceAssumption, ElementOfSeq
  <2>2. QED
    BY <1>1, <2>1 DEF MessagesFor, Item
<1>3. ASSUME NEW r \in Reducer PROVE device[m][r] \in DeviceOf(Items) /\ line \in Items
  BY <1>2, MessageType DEF PInv, ProcessType
<1>4. ASSUME NEW r \in Reducer, NEW x, Read(r, x) \/ Under(device[m][r], x)
      PROVE  Precedes(x, line) /\ (x.from = m => x.index \in Nat /\ x.index < i)
  <2>1. CASE x.from = m
    <3>1. x.index <= sent[m]
      BY <1>1, <1>4, <2>1 DEF OrderInv, SentOrder
    <3>2. x \in popped[r] => x \in Items
      BY DEF PInv, ProcessType
    <3>3. Holds(queue[r], x) => x \in Items
      <4>1. queue[r] \in Seq(Items)
        BY DEF PInv, ProcessType
      <4>2. QED
        BY <4>1, ElementOfSeq DEF Holds
    <3>4. Under(device[m][r], x) => x \in Items
      <4>1. device[m][r].wire \in Seq(Items) /\ device[m][r].buffer \in Seq(Items)
        BY <1>3 DEF DeviceOf
      <4>2. QED
        BY <4>1, ElementOfSeq DEF Under, Holds
    <3>5. x.index \in Nat
      BY <1>4, <3>2, <3>3, <3>4 DEF Read, Items
    <3>6. x.index < i
      BY <1>1, <3>1, <3>5
    <3>7. QED
      BY <1>2, <3>5, <3>6 DEF Precedes
  <2>2. CASE x.from # m
    BY <1>2, <2>2 DEF Precedes
  <2>3. QED
    BY <2>1, <2>2
<1>5. ASSUME NEW r \in Reducer
      PROVE  /\ written(r) \in DeviceOf(Items)
             /\ Ordered(written(r))
             /\ \A x : Under(written(r), x) => Under(device[m][r], x) \/ x = line
  <2>1. Ordered(device[m][r])
    BY DEF OrderInv, DeviceOrder
  <2>2. QED
    BY <1>3, <1>4, <2>1, WriteKeeps, WriteOrders
<1> HIDE DEF written
<1>6. ASSUME NEW r \in Reducer
      PROVE  /\ Ordered(new(r))
             /\ \A x : Under(new(r), x) => Under(device[m][r], x) \/ x = line
  BY <1>5, BufferAssumption, FlushOrders
<1> HIDE DEF new
<1>7. /\ device' = [device EXCEPT ![m] = [r \in Reducer |-> new(r)]]
      /\ sent' = [sent EXCEPT ![m] = i]
      /\ UNCHANGED <<queue, popped>>
  BY DEF Processes!Write, Processes!Item, Item, Processes!Reducer, Reducer, new, written
<1>8. /\ \A n \in Mapper : sent'[n] = (IF n = m THEN i ELSE sent[n])
      /\ \A n \in Mapper : \A r \in Reducer :
            device'[n][r] = (IF n = m THEN new(r) ELSE device[n][r])
  BY <1>7 DEF PInv, ProcessType
<1> HIDE DEF line, t
<1>9. \A r \in Reducer : \A x : Read(r, x)' <=> Read(r, x)
  BY <1>7 DEF Read, Holds
<1>10. QueueOrder'
  BY <1>7 DEF OrderInv, QueueOrder, Rising, Holds, Precedes, IsEmpty
<1>11. DeviceOrder'
  <2> SUFFICES ASSUME NEW n \in Mapper, NEW r \in Reducer
               PROVE  /\ Ordered(device'[n][r])
                      /\ \A x, y : Read(r, x) /\ Under(device'[n][r], y) => Precedes(x, y)
    BY <1>9 DEF DeviceOrder
  <2>1. CASE n = m
    <3>1. device'[n][r] = new(r)
      BY <1>8, <2>1
    <3>2. \A x, y : Read(r, x) /\ Under(device[m][r], y) => Precedes(x, y)
      BY DEF OrderInv, DeviceOrder
    <3>3. QED
      BY <1>4, <1>6, <3>1, <3>2
  <2>2. CASE n # m
    <3>1. device'[n][r] = device[n][r]
      BY <1>8, <2>2
    <3>2. QED
      BY <3>1 DEF OrderInv, DeviceOrder
  <2>3. QED
    BY <2>1, <2>2
<1>12. SentOrder'
  <2> SUFFICES ASSUME NEW n \in Mapper, NEW r \in Reducer, NEW x,
                      Read(r, x) \/ Under(device'[n][r], x),
                      x.from = n, sent'[n] < Len(To[n])
               PROVE  x.index <= sent'[n]
    BY <1>9 DEF SentOrder, Under, Holds
  <2>1. CASE n = m
    <3>1. Read(r, x) \/ Under(device[m][r], x) \/ x = line
      BY <1>6, <1>8, <2>1
    <3>2. sent'[n] = i
      BY <1>8, <2>1
    <3>3. CASE x = line
      BY <1>1, <1>2, <3>2, <3>3
    <3>4. CASE Read(r, x) \/ Under(device[m][r], x)
      <4>1. x.index \in Nat /\ x.index < i
        BY <1>4, <2>1, <3>4
      <4>2. QED
        BY <1>1, <2>1, <3>2, <4>1
    <3>5. QED
      BY <3>1, <3>3, <3>4
  <2>2. CASE n # m
    <3>1. device'[n][r] = device[n][r] /\ sent'[n] = sent[n]
      BY <1>8, <2>2
    <3>2. QED
      BY <3>1 DEF OrderInv, SentOrder
  <2>3. QED
    BY <2>1, <2>2
<1>13. QED
  BY <1>10, <1>11, <1>12 DEF OrderInv

\* What is in a device is its mapper's.
LEMMA UnderFrom ==
    ASSUME PInv, NEW m \in Mapper, NEW r \in Reducer, NEW x, Under(device[m][r], x)
    PROVE  x.from = m
<1>1. CASE device[m][r].terminated
  <2>1. device[m][r].buffer = << >> /\ device[m][r].wire \in {<< >>, <<EndOf(m, r)>>}
    BY <1>1 DEF PInv, DeviceInv
  <2>2. x = EndOf(m, r)
    BY <2>1 DEF Under, Holds
  <2>3. QED
    BY <2>2, EndType
<1>2. CASE ~ device[m][r].terminated
  <2>1. /\ device[m][r].wire \in Seq(MessagesFor(m, r))
        /\ device[m][r].buffer \in Seq(MessagesFor(m, r))
    BY <1>2 DEF PInv, DeviceInv, DeviceOf
  <2>2. x \in MessagesFor(m, r)
    BY <2>1, ElementOfSeq DEF Under, Holds
  <2>3. QED
    BY <2>2, MessageType
<1>3. QED
  BY <1>1, <1>2

\* Sending what is left keeps the order.
LEMMA FlushRestOrder ==
    ASSUME PInv, OrderInv, NEW m \in Mapper, NEW t \in Reducer, Processes!FlushRest(m, t)
    PROVE  OrderInv'
<1> DEFINE new == Processes!flush(device[m][t], 1)
<1>1. /\ device' = [device EXCEPT ![m][t] = new]
      /\ UNCHANGED <<sent, queue, popped>>
  BY DEF Processes!FlushRest, Processes!vars
<1>2. device[m][t] \in DeviceOf(Items) /\ Ordered(device[m][t])
  BY DEF PInv, ProcessType, OrderInv, DeviceOrder
<1>3. /\ Ordered(new)
      /\ \A x : Under(new, x) => Under(device[m][t], x)
  BY <1>2, FlushOrders
<1> HIDE DEF new
<1>4. \A n \in Mapper : \A r \in Reducer :
          device'[n][r] = (IF n = m /\ r = t THEN new ELSE device[n][r])
  BY <1>1 DEF PInv, ProcessType
<1>5. \A n \in Mapper : \A r \in Reducer :
          /\ Ordered(device'[n][r])
          /\ \A x : Under(device'[n][r], x) => Under(device[n][r], x)
  BY <1>3, <1>4 DEF OrderInv, DeviceOrder
<1>6. \A r \in Reducer : \A x : Read(r, x)' <=> Read(r, x)
  BY <1>1 DEF Read
<1>7. QueueOrder'
  BY <1>1 DEF OrderInv, QueueOrder
<1>8. DeviceOrder'
  BY <1>5, <1>6 DEF OrderInv, DeviceOrder
<1>9. SentOrder'
  BY <1>1, <1>5, <1>6 DEF OrderInv, SentOrder
<1>10. QED
  BY <1>7, <1>8, <1>9 DEF OrderInv

\* An end is no message.
LEMMA TerminateOrder ==
    ASSUME PInv, OrderInv, NEW m \in Mapper, NEW t \in Reducer, Processes!Terminate(m, t)
    PROVE  OrderInv'
<1> DEFINE old == device[m][t]
           new == [old EXCEPT !.wire = <<EndOf(m, t)>>, !.terminated = TRUE]
<1>1. /\ device' = [device EXCEPT ![m][t].wire = <<Item(m, Len(To[m]) + t + 1)>>,
                                  ![m][t].terminated = TRUE]
      /\ sent' = [sent EXCEPT ![m] = @ + 1]
      /\ sent[m] >= Len(To[m])
      /\ old.wire = << >> /\ old.buffer = << >>
      /\ UNCHANGED <<queue, popped>>
  BY DEF Processes!Terminate, Processes!test, Processes!Item, Item
<1>2. /\ device \in [Mapper -> [Reducer -> DeviceOf(Items)]]
      /\ old \in DeviceOf(Items)
      /\ sent \in [Mapper -> Nat] /\ sent[m] \in Nat /\ Len(To[m]) \in Nat
  BY TargetType DEF PInv, ProcessType
<1>3. EndOf(m, t) = Item(m, Len(To[m]) + t + 1) /\ IsEmpty(EndOf(m, t))
  BY EndType
<1>4. new.wire = <<EndOf(m, t)>> /\ new.buffer = << >>
  BY <1>1, <1>2 DEF DeviceOf
<1>5. device' = [device EXCEPT ![m][t] = new]
  BY <1>1, <1>2, <1>3
<1> HIDE DEF new
<1>6. \A n \in Mapper : \A r \in Reducer :
          device'[n][r] = (IF n = m /\ r = t THEN new ELSE device[n][r])
  BY <1>2, <1>5
<1>7. \A n \in Mapper : sent'[n] = (IF n = m THEN sent[m] + 1 ELSE sent[n])
  BY <1>1, <1>2
<1>8. \A x : Under(new, x) => IsEmpty(x)
  BY <1>3, <1>4 DEF Under, Holds
<1>9. Ordered(new)
  <2>1. \A x, y : Holds(new.wire, y) \/ Holds(new.buffer, y) => Precedes(x, y)
    BY <1>8 DEF Under, Precedes
  <2>2. QED
    BY <2>1 DEF Ordered, Rising, Holds
<1>10. \A r \in Reducer : \A x : Read(r, x)' <=> Read(r, x)
  BY <1>1 DEF Read
<1>11. QueueOrder'
  BY <1>1 DEF OrderInv, QueueOrder
<1>12. DeviceOrder'
  <2> SUFFICES ASSUME NEW n \in Mapper, NEW r \in Reducer
               PROVE  /\ Ordered(device'[n][r])
                      /\ \A x, y : Read(r, x) /\ Under(device'[n][r], y) => Precedes(x, y)
    BY <1>10 DEF DeviceOrder
  <2>1. CASE n = m /\ r = t
    BY <1>6, <1>8, <1>9, <2>1 DEF Precedes
  <2>2. CASE ~ (n = m /\ r = t)
    <3>1. device'[n][r] = device[n][r]
      BY <1>6, <2>2
    <3>2. QED
      BY <3>1 DEF OrderInv, DeviceOrder
  <2>3. QED
    BY <2>1, <2>2
<1>13. SentOrder'
  <2> SUFFICES ASSUME NEW n \in Mapper, NEW r \in Reducer, NEW x,
                      Read(r, x) \/ Under(device'[n][r], x),
                      x.from = n, sent'[n] < Len(To[n])
               PROVE  x.index <= sent'[n]
    BY <1>10 DEF SentOrder
  <2>1. n # m
    BY <1>1, <1>2, <1>7
  <2>2. device'[n][r] = device[n][r] /\ sent'[n] = sent[n]
    BY <1>6, <1>7, <2>1
  <2>3. QED
    BY <2>2 DEF OrderInv, SentOrder
<1>14. QED
  BY <1>11, <1>12, <1>13 DEF OrderInv

\* What a reducer reads is what was sent first.
LEMMA ReceiveOrder ==
    ASSUME PInv, OrderInv, NEW m \in Mapper, NEW t \in Reducer, Processes!Receive(t, m)
    PROVE  OrderInv'
<1> DEFINE old == device[m][t]
           new == [old EXCEPT !.wire = << >>]
<1>1. /\ device' = [device EXCEPT ![m][t] = new]
      /\ queue' = [queue EXCEPT ![t] = old.wire]
      /\ UNCHANGED <<sent, popped>>
  BY DEF Processes!Receive, Processes!test
<1>2. /\ device \in [Mapper -> [Reducer -> DeviceOf(Items)]]
      /\ old \in DeviceOf(Items)
      /\ queue \in [Reducer -> Seq(Items)]
  BY DEF PInv, ProcessType
<1>3. new.wire = << >> /\ new.buffer = old.buffer
  BY <1>2 DEF DeviceOf
<1>4. Ordered(old)
  BY DEF OrderInv, DeviceOrder
<1> HIDE DEF new
<1>5. /\ \A n \in Mapper : \A r \in Reducer :
            device'[n][r] = (IF n = m /\ r = t THEN new ELSE device[n][r])
      /\ \A r \in Reducer : queue'[r] = (IF r = t THEN old.wire ELSE queue[r])
  BY <1>1, <1>2
<1>6. /\ \A x : Under(new, x) => Holds(old.buffer, x) /\ Under(old, x)
      /\ Ordered(new)
  BY <1>3, <1>4 DEF Under, Holds, Ordered, Rising
<1>7. /\ \A r \in Reducer : r # t => \A x : Read(r, x)' <=> Read(r, x)
      /\ \A x : Read(t, x)' <=> x \in popped[t] \/ Holds(old.wire, x)
  BY <1>1, <1>5 DEF Read
<1>8. \A x : Holds(old.wire, x) => Under(old, x) /\ x.from = m
  BY UnderFrom DEF Under
<1>9. QueueOrder'
  <2> SUFFICES ASSUME NEW r \in Reducer
               PROVE  /\ Rising(queue'[r])
                      /\ \A x, y : x \in popped[r] /\ Holds(queue'[r], y) => Precedes(x, y)
    BY <1>1 DEF QueueOrder
  <2>1. CASE r = t
    <3>1. Rising(old.wire)
      BY <1>4 DEF Ordered
    <3>2. \A x, y : x \in popped[t] /\ Holds(old.wire, y) => Precedes(x, y)
      BY <1>8 DEF OrderInv, DeviceOrder, Read
    <3>3. QED
      BY <1>5, <2>1, <3>1, <3>2
  <2>2. CASE r # t
    <3>1. queue'[r] = queue[r]
      BY <1>5, <2>2
    <3>2. QED
      BY <3>1 DEF OrderInv, QueueOrder
  <2>3. QED
    BY <2>1, <2>2
<1>10. DeviceOrder'
  <2> SUFFICES ASSUME NEW n \in Mapper, NEW r \in Reducer
               PROVE  /\ Ordered(device'[n][r])
                      /\ \A x, y : Read(r, x)' /\ Under(device'[n][r], y) => Precedes(x, y)
    BY DEF DeviceOrder
  <2>1. CASE r # t
    <3>1. device'[n][r] = device[n][r]
      BY <1>5, <2>1
    <3>2. QED
      BY <1>7, <2>1, <3>1 DEF OrderInv, DeviceOrder
  <2>2. CASE n = m /\ r = t
    <3>1. \A x, y : x \in popped[t] /\ Under(old, y) => Precedes(x, y)
      BY DEF OrderInv, DeviceOrder, Read
    <3>2. \A x, y : Holds(old.wire, x) /\ Holds(old.buffer, y) => Precedes(x, y)
      BY <1>4 DEF Ordered
    <3>3. QED
      BY <1>5, <1>6, <1>7, <2>2, <3>1, <3>2
  <2>3. CASE n # m /\ r = t
    <3>1. device'[n][r] = device[n][t]
      BY <1>5, <2>3
    <3>2. \A x, y : x \in popped[t] /\ Under(device[n][t], y) => Precedes(x, y)
      BY DEF OrderInv, DeviceOrder, Read
    <3>3. \A y : Under(device[n][t], y) => y.from = n
      BY UnderFrom
    <3>4. \A x, y : Holds(old.wire, x) /\ Under(device[n][t], y) => Precedes(x, y)
      BY <1>8, <2>3, <3>3 DEF Precedes
    <3>5. Ordered(device[n][t])
      BY DEF OrderInv, DeviceOrder
    <3>6. QED
      BY <1>7, <2>3, <3>1, <3>2, <3>4, <3>5
  <2>4. QED
    BY <2>1, <2>2, <2>3
<1>11. SentOrder'
  <2> SUFFICES ASSUME NEW n \in Mapper, NEW r \in Reducer, NEW x,
                      Read(r, x)' \/ Under(device'[n][r], x),
                      x.from = n, sent[n] < Len(To[n])
               PROVE  x.index <= sent[n]
    BY <1>1 DEF SentOrder
  <2>1. Under(device'[n][r], x) => Under(device[n][r], x)
    BY <1>5, <1>6
  <2>2. Read(r, x)' => Read(r, x) \/ Under(device[n][r], x)
    <3>1. CASE r # t
      BY <1>7, <3>1
    <3>2. CASE r = t
      BY <1>7, <1>8, <3>2 DEF Read
    <3>3. QED
      BY <3>1, <3>2
  <2>3. QED
    BY <2>1, <2>2 DEF OrderInv, SentOrder
<1>12. QED
  BY <1>9, <1>10, <1>11 DEF OrderInv

\* A reducer handles first what it has read first.
LEMMA PopOrder ==
    ASSUME PInv, OrderInv, NEW t \in Reducer, Pop(t), UNCHANGED device
    PROVE  OrderInv'
<1> DEFINE item == Head(queue[t])
           rest == Tail(queue[t])
<1>1. queue[t] \in Seq(Items) /\ queue[t] # << >>
  BY DEF PInv, ProcessType, Pop
<1>2. /\ item = queue[t][1] /\ 1 \in 1 .. Len(queue[t])
      /\ Len(rest) = Len(queue[t]) - 1 /\ Len(queue[t]) \in Nat
      /\ \A i \in 1 .. Len(rest) : rest[i] = queue[t][i + 1]
  BY <1>1
<1>3. /\ queue' = [queue EXCEPT ![t] = rest]
      /\ popped' = [popped EXCEPT ![t] = @ \union {item}]
      /\ UNCHANGED <<sent, device>>
  BY DEF Pop
<1> HIDE DEF item, rest
<1>4. /\ \A r \in Reducer : r # t => queue'[r] = queue[r] /\ popped'[r] = popped[r]
      /\ queue'[t] = rest
      /\ popped'[t] = popped[t] \union {item}
  BY <1>3 DEF PInv, ProcessType
<1>5. \A i \in 1 .. Len(rest) : i + 1 \in 1 .. Len(queue[t]) /\ 1 < i + 1
  BY <1>2
<1>6. /\ \A x : Holds(rest, x) => Holds(queue[t], x)
      /\ Holds(queue[t], item)
  BY <1>2, <1>5 DEF Holds
<1>7. \A i, j \in 1 .. Len(queue[t]) : i < j => Precedes(queue[t][i], queue[t][j])
  BY DEF OrderInv, QueueOrder, Rising
<1>8. \A y : Holds(rest, y) => Precedes(item, y)
  <2> SUFFICES ASSUME NEW i \in 1 .. Len(rest) PROVE Precedes(item, rest[i])
    BY DEF Holds
  <2>1. QED
    BY <1>2, <1>5, <1>7
<1>9. Rising(rest)
  <2> SUFFICES ASSUME NEW i \in 1 .. Len(rest), NEW j \in 1 .. Len(rest), i < j
               PROVE  Precedes(rest[i], rest[j])
    BY DEF Rising
  <2>1. i + 1 < j + 1
    OBVIOUS
  <2>2. QED
    BY <1>2, <1>5, <1>7, <2>1
<1>10. \A r \in Reducer : \A x : Read(r, x)' => Read(r, x)
  BY <1>4, <1>6 DEF Read
<1>11. QueueOrder'
  <2> SUFFICES ASSUME NEW r \in Reducer
               PROVE  /\ Rising(queue'[r])
                      /\ \A x, y : x \in popped'[r] /\ Holds(queue'[r], y) => Precedes(x, y)
    BY DEF QueueOrder
  <2>1. CASE r = t
    <3>1. \A x, y : x \in popped[t] /\ Holds(queue[t], y) => Precedes(x, y)
      BY DEF OrderInv, QueueOrder
    <3>2. QED
      BY <1>4, <1>6, <1>8, <1>9, <2>1, <3>1
  <2>2. CASE r # t
    BY <1>4, <2>2 DEF OrderInv, QueueOrder
  <2>3. QED
    BY <2>1, <2>2
<1>12. DeviceOrder'
  BY <1>3, <1>10 DEF OrderInv, DeviceOrder
<1>13. SentOrder'
  BY <1>3, <1>10 DEF OrderInv, SentOrder
<1>14. QED
  BY <1>11, <1>12, <1>13 DEF OrderInv

\* What leaves the messages alone leaves their order.
LEMMA StutterOrder ==
    ASSUME OrderInv, UNCHANGED <<sent, queue, popped, device>>
    PROVE  OrderInv'
<1>1. \A r, x : Read(r, x)' <=> Read(r, x)
  BY DEF Read
<1>2. QED
  BY <1>1 DEF OrderInv, QueueOrder, DeviceOrder, SentOrder

\* Nothing has an order while nothing is sent.
LEMMA SpawnOrder ==
    ASSUME IInv, \A m \in Mapper : sent[m] = 0, device = Processes!Devices
    PROVE  OrderInv
<1>1. \A r \in Reducer : queue[r] = << >> /\ popped[r] = {}
  BY NothingSent
<1>2. ASSUME NEW m \in Mapper, NEW r \in Reducer
      PROVE  device[m][r].buffer = << >> /\ device[m][r].wire = << >>
  <2>1. device[m][r] = [buffer |-> << >>, wire |-> << >>, terminated |-> FALSE]
    BY DEF Processes!Devices, Processes!Reducer, Processes!Opened, Reducer
  <2>2. QED
    BY <2>1
<1>3. \A x : ~ Holds(<< >>, x)
  BY DEF Holds
<1>4. Rising(<< >>)
  BY DEF Rising
<1>5. \A m \in Mapper : \A r \in Reducer : \A x : ~ Read(r, x) /\ ~ Under(device[m][r], x)
  BY <1>1, <1>2, <1>3 DEF Read, Under
<1>6. \A m \in Mapper : \A r \in Reducer : Ordered(device[m][r])
  BY <1>2, <1>3, <1>4 DEF Ordered
<1>7. QED
  BY <1>1, <1>4, <1>5, <1>6 DEF OrderInv, QueueOrder, DeviceOrder, SentOrder

\* What a mapper process does keeps the order.
LEMMA CarryOrder ==
    ASSUME PInv, OrderInv, NEW m \in Mapper, Processes!Carry(m)
    PROVE  OrderInv'
<1>1. Processes!Reducer = Reducer
  BY DEF Processes!Reducer, Reducer
<1>2. CASE Processes!Write(m)
  BY <1>2, WriteOrder
<1>3. CASE \E r \in Reducer : Processes!FlushRest(m, r)
  BY <1>3, FlushRestOrder
<1>4. CASE \E r \in Reducer : Processes!Terminate(m, r)
  BY <1>4, TerminateOrder
<1>5. CASE \E r \in Reducer : Processes!Receive(r, m)
  BY <1>5, ReceiveOrder
<1>6. QED
  BY <1>1, <1>2, <1>3, <1>4, <1>5 DEF Processes!Carry

\* The queues of threads have the order of MapReduce's invariant.
OrderMedium == medium # "threads" => OrderInv

\* There are threads first.
LEMMA OrderInit == ModifyMPIInit => OrderMedium
BY DEF ModifyMPIInit, OrderMedium

\* No step of the program changes the order, and starting the processes makes one.
LEMMA OrderStep ==
    MediumInv /\ OrderMedium /\ [ModifyMPINext]_<<allVars, modifyMPIVars>> => OrderMedium'
<1> SUFFICES ASSUME MediumInv, OrderMedium, [ModifyMPINext]_<<allVars, modifyMPIVars>>
             PROVE  OrderMedium'
  OBVIOUS
<1>1. Mapper = Shard /\ Reducer = Shard
  BY ThreadsAssumption, ReducerOfShard
<1>2. ASSUME UNCHANGED <<modifyVars, device>>, medium # "threads"
      PROVE  OrderMedium'
  BY <1>2, StutterOrder DEF OrderMedium, modifyVars, vars
<1>3. ASSUME medium = "threads", medium' = medium PROVE OrderMedium'
  BY <1>3 DEF OrderMedium
<1>4. CASE Spawn
  <2>1. /\ medium = "threads"
        /\ \A m \in Mapper : sent[m] = 0
        /\ UNCHANGED <<vars, device>>
    BY <1>1, <1>4 DEF Spawn, allVars, modifyVars
  <2>2. OrderInv
    BY <2>1, SpawnOrder DEF MediumInv
  <2>3. OrderInv'
    BY <2>1, <2>2, StutterOrder DEF vars
  <2>4. QED
    BY <2>3 DEF OrderMedium
<1>5. ASSUME NEW s \in Shard, medium = "processes", CarryCount(s)
      PROVE  OrderMedium'
  <2>1. Processes!Carry(s) /\ PInv /\ OrderInv
    BY <1>5 DEF CarryCount, MediumInv, OrderMedium
  <2>2. OrderInv'
    BY <1>1, <2>1, CarryOrder
  <2>3. QED
    BY <2>2 DEF OrderMedium
<1>6. ASSUME NEW s \in Shard, medium = "processes", AbortCount(s)
      PROVE  OrderMedium'
  BY <1>2, <1>6 DEF AbortCount, allVars
<1>7. ASSUME NEW s \in Shard, Modifying(ModifyReduce(s)), UNCHANGED modifyMPIVars
      PROVE  OrderMedium'
  <2>1. Pop(s) \/ Stop(s)
    BY <1>7, ReducerSteps DEF Modifying
  <2>2. UNCHANGED device /\ medium' = medium
    BY <1>7 DEF modifyMPIVars
  <2>3. CASE medium = "threads"
    BY <1>3, <2>2, <2>3
  <2>4. CASE medium # "threads"
    <3>1. PInv /\ OrderInv
      BY <2>4 DEF MediumInv, OrderMedium
    <3>2. Stop(s) => UNCHANGED <<sent, queue, popped, device>>
      BY <2>2 DEF Stop
    <3>3. OrderInv'
      BY <1>1, <2>1, <2>2, <3>1, <3>2, PopOrder, StutterOrder
    <3>4. QED
      BY <3>3 DEF OrderMedium
  <2>5. QED
    BY <2>3, <2>4
<1>8. ASSUME UNCHANGED modifyVars, UNCHANGED modifyMPIVars PROVE OrderMedium'
  <2>1. medium' = medium /\ device' = device
    BY <1>8 DEF modifyMPIVars
  <2>2. QED
    BY <1>2, <1>3, <1>8, <2>1
<1>9. CASE DumpingNext /\ UNCHANGED modifyMPIVars
  BY <1>8, <1>9, DumpingKeeps
<1>10. CASE UNCHANGED <<allVars, modifyMPIVars>>
  BY <1>8, <1>10 DEF allVars
<1>11. QED
  <2>1. CASE \E s \in Shard : medium = "processes" /\ (CarryCount(s) \/ AbortCount(s))
    BY <1>5, <1>6, <2>1
  <2>2. CASE \E s \in Shard : /\ medium = "threads"
                              /\ Modifying(ModifyMap(s))
                              /\ UNCHANGED modifyMPIVars
    BY <1>3, <2>2 DEF modifyMPIVars
  <2>3. CASE \E s \in Shard : /\ medium # "aborted" /\ MayReduce(s)
                              /\ Modifying(ModifyReduce(s))
                              /\ UNCHANGED modifyMPIVars
    BY <1>7, <2>3
  <2>4. QED
    BY <1>4, <1>9, <1>10, <2>1, <2>2, <2>3 DEF ModifyMPINext

\* What a process reads is always in the order in which it was written.
LEMMA OrderInvariance == ModifyMPISpec => []OrderMedium
  BY MediumInvariance, OrderInit, OrderStep, PTL DEF ModifyMPISpec

\* A message that a reducer is about to handle was not handled before.
LEMMA Fresh ==
    ASSUME MediumInv, OrderMedium, NEW s \in Shard, queue[s] # << >>,
           ~ IsEmpty(Head(queue[s]))
    PROVE  Head(queue[s]) \notin popped[s]
<1> DEFINE item == Head(queue[s])
<1>1. s \in Reducer
  BY ReducerOfShard
<1>2. queue[s] \in Seq(Items)
  BY <1>1 DEF MediumInv, IInv, TypeInv, PInv, ProcessType
<1>3. item = queue[s][1] /\ 1 \in 1 .. Len(queue[s]) /\ item \in Items
  BY <1>2, ElementOfSeq
<1>4. item.index \in Nat
  BY <1>3 DEF Items
<1>5. CASE medium = "threads"
  <2>1. \A x \in popped[s] : \A i \in 1 .. Len(queue[s]) :
            queue[s][i].from = x.from => x.index < queue[s][i].index
    BY <1>1, <1>5 DEF MediumInv, IInv, PoppedInv
  <2>2. QED
    BY <1>3, <1>4, <2>1
<1>6. CASE medium # "threads"
  <2>1. Holds(queue[s], item)
    BY <1>3 DEF Holds
  <2>2. item \in popped[s] => Precedes(item, item)
    BY <1>1, <1>6, <2>1 DEF OrderMedium, OrderInv, QueueOrder
  <2>3. QED
    BY <1>4, <2>2 DEF Precedes
<1>7. QED
  BY <1>5, <1>6

-----------------------------------------------------------------------------
(* The sums and what was popped.                                            *)

\* A message for a node adds as much to its load as it counts.
LEMMA LoadAdd ==
    ASSUME NEW s \in Shard, NEW p, NEW X, NEW item \in MessagesOf(s), item \notin X,
           Received(item).context = Ngram(s, p), IsFiniteSet(Load(s, p, X))
    PROVE  /\ IsFiniteSet(Load(s, p, X \union {item}))
           /\ Cardinality(Load(s, p, X \union {item})) =
                 Cardinality(Load(s, p, X)) + Received(item).count
<1> DEFINE n == Received(item).count
           L == Load(s, p, X)
           A == {item} \X (1 .. n)
           f == [k \in 1 .. n |-> <<item, k>>]
<1>1. n \in Nat
  BY ReceivedIs, SendableIs
<1>2. IsFiniteSet(1 .. n) /\ Cardinality(1 .. n) = n
  BY <1>1, Interval
<1>3. Load(s, p, X \union {item}) = L \union A
  <2>1. 1 .. n \subseteq Nat
    BY <1>1
  <2>2. (X \union {item}) \intersect MessagesOf(s) = (X \intersect MessagesOf(s)) \union {item}
    OBVIOUS
  <2> HIDE DEF n
  <2>3. \A x : x \in A <=> x \in {item} \X Nat /\ x[2] \in 1 .. n
    BY <2>1
  <2>4. \A x : x \in Load(s, p, X \union {item}) <=> x \in L \/ x \in A
    BY <2>1, <2>2, <2>3 DEF Load, n
  <2>5. QED
    BY <2>4
<1>4. L \intersect A = {}
  BY DEF Load
<1>5. f \in Bijection(1 .. n, A)
  <2> HIDE DEF n
  <2>1. f \in [1 .. n -> A]
    OBVIOUS
  <2>2. f \in Injection(1 .. n, A)
    BY <2>1 DEF Injection, IsInjective
  <2>3. f \in Surjection(1 .. n, A)
    BY <2>1 DEF Surjection
  <2>4. QED
    BY <2>2, <2>3 DEF Bijection
<1>6. IsFiniteSet(A) /\ Cardinality(A) = n
  <2>1. ExistsBijection(1 .. n, A)
    BY <1>5 DEF ExistsBijection
  <2> HIDE DEF A, f, n
  <2>2. QED
    BY <1>2, <2>1, FS_Bijection
<1> HIDE DEF A, L, n
<1>7. IsFiniteSet(L)
  BY DEF L
<1>8. /\ IsFiniteSet(L \union A)
      /\ Cardinality(L \union A) = Cardinality(L) + Cardinality(A) - Cardinality(L \intersect A)
  BY <1>6, <1>7, FS_Union
<1>9. Cardinality(L \intersect A) = 0
  BY <1>4, FS_EmptySet
<1>10. Cardinality(L) \in Nat
  BY <1>7, FS_CardinalityType
<1>11. Cardinality(L \union A) = Cardinality(L) + n
  BY <1>1, <1>6, <1>8, <1>9, <1>10
<1>12. QED
  BY <1>3, <1>8, <1>11 DEF L, n

\* What is not for a node adds nothing to its load.
LEMMA LoadSame ==
    ASSUME NEW s, NEW p, NEW X, NEW item,
           item \in MessagesOf(s) => Received(item).context # Ngram(s, p)
    PROVE  Load(s, p, X \union {item}) = Load(s, p, X)
<1>1. \A x \in ((X \union {item}) \intersect MessagesOf(s)) \X Nat :
          Received(x[1]).context = Ngram(s, p) => x \in (X \intersect MessagesOf(s)) \X Nat
  OBVIOUS
<1>2. \A x : x \in (X \intersect MessagesOf(s)) \X Nat =>
                 x \in ((X \union {item}) \intersect MessagesOf(s)) \X Nat
  OBVIOUS
<1>3. QED
  BY <1>1, <1>2 DEF Load

\* The nodes that a reducer keeps a sum for.
Summed(s) == CountsOffset(s) .. position_size(s) - 1

\* A sum is what the reducer has popped for its node.
LoadInv ==
    \A s \in Shard : \A p \in Summed(s) :
        /\ IsFiniteSet(Load(s, p, popped[s]))
        /\ Cardinality(Load(s, p, popped[s])) = counts_modified[s][p]

\* Nothing is counted first.
LEMMA LoadInit == ModifyMPIInit => LoadInv
<1> SUFFICES ASSUME ModifyMPIInit, NEW s \in Shard, NEW p \in Summed(s)
             PROVE  /\ IsFiniteSet(Load(s, p, popped[s]))
                    /\ Cardinality(Load(s, p, popped[s])) = counts_modified[s][p]
  BY DEF LoadInv
<1>1. /\ counts_modified = [q \in Shard |-> [i \in Summed(q) |-> 0]]
      /\ popped = [r \in Reducer |-> {}]
  BY DEF ModifyMPIInit, DumpInit, ModifyInit, Init, Summed
<1>2. counts_modified[s][p] = 0 /\ popped[s] = {}
  BY <1>1, ReducerOfShard
<1>3. Load(s, p, popped[s]) = {}
  BY <1>2 DEF Load
<1>4. QED
  BY <1>2, <1>3, FS_EmptySet

\* Nodes of a shard that a sum is kept for are nodes of it.
LEMMA SummedIs ==
    ASSUME NEW s \in Shard, NEW p \in Summed(s)
    PROVE  p \in Pos(s) /\ Has(s, Ngram(s, p)) /\ Find(s, Ngram(s, p)) = p
<1>1. /\ Size(s) \in Nat /\ Pos(s) = 0 .. Size(s) - 1
      /\ Offset(s, 1) \in 0 .. Size(s) /\ Offset(s, Order - 1) \in 0 .. Size(s)
  <2>1. Order \in Nat /\ Order >= 2
    BY IndexAssumption
  <2>2. Order - 1 \in Int /\ 1 \in Int
    BY <2>1
  <2>3. QED
    BY <2>1, <2>2, NodeType, OffsetBounds DEF Pos
<1>2. CountsOffset(s) \in 0 .. Size(s)
  BY <1>1 DEF CountsOffset
<1>3. p \in Pos(s)
  BY <1>1, <1>2 DEF Summed, position_size
<1>4. Has(s, Ngram(s, p))
  BY <1>3 DEF Has
<1>5. Find(s, Ngram(s, p)) \in Pos(s) /\ Ngram(s, Find(s, Ngram(s, p))) = Ngram(s, p)
  BY <1>4, FindHas
<1>6. QED
  BY <1>3, <1>4, <1>5, OneNode

\* Handling a message adds its count once, to the sum of its node.
LEMMA LoadPop ==
    ASSUME MediumInv, OrderMedium, SumsInv, LoadInv, NEW s \in Shard,
           PopEmpty(s) \/ PopKnown(s) \/ PopUnknown(s)
    PROVE  LoadInv'
<1> DEFINE item == Head(queue[s])
           g == Received(item).context
<1>1. /\ queue[s] # << >>
      /\ popped' = [popped EXCEPT ![s] = @ \union {item}]
  BY DEF PopEmpty, PopKnown, PopUnknown, Pop
<1>2. queue[s] \in Seq(Items) /\ popped \in [Reducer -> SUBSET Items]
  BY ReducerOfShard DEF MediumInv, IInv, TypeInv, PInv, ProcessType
<1>3. item = queue[s][1] /\ 1 \in 1 .. Len(queue[s])
  BY <1>1, <1>2
<1>4. ~ IsEmpty(item) => item \in MessagesOf(s) /\ item \notin popped[s]
  BY <1>1, <1>3, QueuedIs, Fresh
<1>5. IsEmpty(item) => item \notin MessagesOf(s)
  BY ReducerOfShard, MessageOf
<1> HIDE DEF item
<1>6. \A q \in Shard : popped'[q] = IF q = s THEN popped[s] \union {item} ELSE popped[q]
  BY <1>1, <1>2, ReducerOfShard
<1> SUFFICES ASSUME NEW q \in Shard, NEW p \in Summed(q)
             PROVE  /\ IsFiniteSet(Load(q, p, popped'[q]))
                    /\ Cardinality(Load(q, p, popped'[q])) = counts_modified'[q][p]
  BY DEF LoadInv
<1>7. /\ IsFiniteSet(Load(q, p, popped[q]))
      /\ Cardinality(Load(q, p, popped[q])) = counts_modified[q][p]
  BY DEF LoadInv
<1>8. p \in Pos(q) /\ Has(q, Ngram(q, p)) /\ Find(q, Ngram(q, p)) = p
  BY SummedIs
<1>9. CASE PopEmpty(s) \/ PopUnknown(s)
  <2>1. counts_modified' = counts_modified
    BY <1>9 DEF PopEmpty, PopUnknown
  <2>2. IsEmpty(item) \/ ~ Has(s, g)
    BY <1>9 DEF PopEmpty, PopUnknown, item
  <2>3. Load(q, p, popped'[q]) = Load(q, p, popped[q])
    <3>1. CASE q = s
      BY <1>5, <1>6, <1>8, <2>2, <3>1, LoadSame
    <3>2. CASE q # s
      BY <1>6, <3>2
    <3>3. QED
      BY <3>1, <3>2
  <2>4. QED
    BY <1>7, <2>1, <2>3
<1>10. CASE PopKnown(s)
  <2> DEFINE f == Find(s, g)
             n == Received(item).count
  <2>1. /\ ~ IsEmpty(item) /\ Has(s, g)
        /\ counts_modified' = [counts_modified EXCEPT ![s][f] = @ + n]
    BY <1>10 DEF PopKnown, Plus, item
  <2>2. item \in MessagesOf(s) /\ item \notin popped[s]
    BY <1>4, <2>1
  <2>3. f \in Summed(s) /\ Ngram(s, f) = g
    BY <2>1, <2>2, ReceivedInside, FindHas DEF Summed
  <2> HIDE DEF f, n
  <2>4. /\ counts_modified = [r \in Shard |-> counts_modified[r]]
        /\ counts_modified[s] \in [Summed(s) -> Nat]
    BY DEF SumsInv, Sums, Summed
  <2>5. counts_modified'[s] = [counts_modified[s] EXCEPT ![f] = @ + n]
    BY <2>1, <2>4
  <2>6. q # s => counts_modified'[q] = counts_modified[q]
    BY <2>1, <2>4
  <2>7. CASE q # s
    BY <1>6, <1>7, <2>6, <2>7
  <2>8. CASE q = s /\ p = f
    <3>1. counts_modified'[s][f] = counts_modified[s][f] + n
      BY <2>3, <2>4, <2>5
    <3>2. /\ IsFiniteSet(Load(s, f, popped[s] \union {item}))
          /\ Cardinality(Load(s, f, popped[s] \union {item})) =
                Cardinality(Load(s, f, popped[s])) + n
      BY <1>7, <2>2, <2>3, <2>8, LoadAdd DEF n
    <3>3. QED
      BY <1>6, <1>7, <2>8, <3>1, <3>2
  <2>9. CASE q = s /\ p # f
    <3>1. counts_modified'[s][p] = counts_modified[s][p]
      BY <2>3, <2>4, <2>5, <2>9
    <3>2. g # Ngram(s, p)
      BY <1>8, <2>9 DEF f
    <3>3. Load(s, p, popped[s] \union {item}) = Load(s, p, popped[s])
      BY <3>2, LoadSame
    <3>4. QED
      BY <1>6, <1>7, <2>9, <3>1, <3>3
  <2>10. QED
    BY <2>7, <2>8, <2>9
<1>11. QED
  BY <1>9, <1>10

\* Nothing but handling a message changes a sum.
LEMMA LoadStep ==
    /\ MediumInv /\ OrderMedium /\ SumsInv /\ LoadInv
    /\ [ModifyMPINext]_<<allVars, modifyMPIVars>>
    => LoadInv'
<1> SUFFICES ASSUME MediumInv, OrderMedium, SumsInv, LoadInv,
                    [ModifyMPINext]_<<allVars, modifyMPIVars>>
             PROVE  LoadInv'
  OBVIOUS
<1>1. ASSUME UNCHANGED <<counts_modified, popped>> PROVE LoadInv'
  BY <1>1 DEF LoadInv
<1>2. ASSUME NEW s \in Shard, ModifyReduce(s) PROVE LoadInv'
  <2>1. CASE PopEmpty(s) \/ PopKnown(s) \/ PopUnknown(s)
    BY <2>1, LoadPop
  <2>2. CASE Write(s)
    BY <1>1, <2>2 DEF Write, Stop
  <2>3. QED
    BY <1>2, <2>1, <2>2 DEF ModifyReduce
<1>3. CASE Spawn
  BY <1>1, <1>3 DEF Spawn, allVars, modifyVars, vars
<1>4. ASSUME NEW s \in Shard, CarryCount(s) PROVE LoadInv'
  <2>1. UNCHANGED popped
    BY <1>4 DEF CarryCount, Processes!Carry, Processes!Write, Processes!FlushRest,
                Processes!Terminate, Processes!Receive, Processes!vars
  <2>2. QED
    BY <1>1, <1>4, <2>1 DEF CarryCount
<1>5. ASSUME NEW s \in Shard, AbortCount(s) PROVE LoadInv'
  BY <1>1, <1>5 DEF AbortCount, allVars, modifyVars, vars
<1>6. ASSUME NEW s \in Shard, Modifying(ModifyMap(s)) PROVE LoadInv'
  BY <1>1, <1>6 DEF Modifying, ModifyMap, Map, Admit, Push, Count
<1>7. ASSUME NEW s \in Shard, Modifying(ModifyReduce(s)) PROVE LoadInv'
  BY <1>2, <1>7 DEF Modifying
<1>8. CASE DumpingNext
  BY <1>1, <1>8, DumpingKeeps DEF modifyVars, vars
<1>9. CASE UNCHANGED <<allVars, modifyMPIVars>>
  BY <1>1, <1>9 DEF allVars, modifyVars, vars
<1>10. QED
  BY <1>3, <1>4, <1>5, <1>6, <1>7, <1>8, <1>9 DEF ModifyMPINext

\* The sums are always those of the messages that were handled.
LEMMA LoadInvariance == ModifyMPISpec => []LoadInv
  BY MediumInvariance, OrderInvariance, SumsInvariance, LoadInit, LoadStep, PTL
     DEF ModifyMPISpec

\* A reducer, of threads or of processes, that has counted all ends has popped
\* every message for its shard.
LEMMA EndedMedium ==
    ASSUME MediumInv, NEW s \in Shard, AllEnded(s)
    PROVE  MessagesOf(s) \subseteq popped[s]
<1>1. s \in Reducer
  BY ReducerOfShard
<1>2. CASE medium = "threads"
  <2> SUFFICES ASSUME NEW item \in MessagesOf(s) PROVE item \in popped[s]
    OBVIOUS
  <2>1. PICK m \in Mapper : item \in MessagesFor(m, s)
    BY DEF MessagesOf
  <2>2. /\ item = Item(m, item.index) /\ item.index \in 1 .. Len(To[m])
        /\ To[m][item.index] = s /\ Len(To[m]) \in Nat
        /\ Total(m) = Len(To[m]) + Reducers /\ Reducers \in Nat
    BY <1>1, <2>1, MessageType, TargetType, MapReduceAssumption DEF Total
  <2>3. item.index \in 1 .. Total(m) /\ Target(m, item.index) = s
    BY <2>2 DEF Target
  <2>4. IInv
    BY <1>2 DEF MediumInv
  <2>5. QED
    BY <1>1, <2>2, <2>3, <2>4, EndedHasAll
<1>3. CASE medium # "threads"
  BY <1>1, <1>3, EndedPInv DEF MediumInv
<1>4. QED
  BY <1>2, <1>3

-----------------------------------------------------------------------------
(* What is written.                                                         *)

\* The counts that a reducer with these sums writes.
WrittenOf(s, sums) ==
    [p \in CountsOffset(s) .. Size(s) - 1 |->
        IF p < position_size(s) THEN sums[p] ELSE counts[s][p]]

\* What was written are the sums.
TypesInv ==
    /\ types = [s \in Shard |-> types[s]]
    /\ \A s \in stopped : types[s] = WrittenOf(s, counts_modified[s])

\* Nothing is written first.
LEMMA TypesInit == ModifyMPIInit => TypesInv
BY DEF ModifyMPIInit, DumpInit, ModifyInit, Init, TypesInv

\* A reducer that has written handles nothing more.
LEMMA TypesStep ==
    MediumInv /\ SumsInv /\ TypesInv /\ [ModifyMPINext]_<<allVars, modifyMPIVars>> => TypesInv'
<1> SUFFICES ASSUME MediumInv, SumsInv, TypesInv, [ModifyMPINext]_<<allVars, modifyMPIVars>>
             PROVE  TypesInv'
  OBVIOUS
<1>1. ASSUME UNCHANGED <<counts_modified, types, stopped>> PROVE TypesInv'
  BY <1>1 DEF TypesInv
<1>2. ASSUME NEW s \in Shard, ModifyReduce(s) PROVE TypesInv'
  <2>1. CASE PopEmpty(s) \/ PopUnknown(s)
    BY <1>1, <2>1 DEF PopEmpty, PopUnknown, Pop
  <2>2. CASE PopKnown(s)
    <3>1. /\ types' = types /\ stopped' = stopped /\ s \notin stopped
          /\ \E p, n : counts_modified' = [counts_modified EXCEPT ![s][p] = @ + n]
      BY <2>2 DEF PopKnown, Pop, Plus
    <3>2. \A q \in Shard : q # s => counts_modified'[q] = counts_modified[q]
      BY <3>1 DEF SumsInv
    <3>3. stopped \subseteq Shard
      BY ReducerOfShard DEF MediumInv, IInv, TypeInv, PInv, ProcessType
    <3>4. QED
      BY <3>1, <3>2, <3>3 DEF TypesInv
  <2>3. CASE Write(s)
    <3>1. /\ stopped' = stopped \union {s}
          /\ types' = [types EXCEPT ![s] = WrittenOf(s, counts_modified[s])]
          /\ counts_modified' = counts_modified
      BY <2>3 DEF Write, Stop, WrittenOf
    <3>2. types' = [q \in Shard |->
                       IF q = s THEN WrittenOf(s, counts_modified[s]) ELSE types[q]]
      BY <3>1 DEF TypesInv
    <3>3. stopped \subseteq Shard /\ s \notin stopped
      BY <2>3, ReducerOfShard DEF MediumInv, IInv, TypeInv, PInv, ProcessType, Write, Stop
    <3>4. types' = [q \in Shard |-> types'[q]]
      BY <3>2
    <3>5. \A q \in stopped' : types'[q] = WrittenOf(q, counts_modified[q])
      BY <3>1, <3>2, <3>3 DEF TypesInv
    <3>6. QED
      BY <3>1, <3>4, <3>5 DEF TypesInv
  <2>4. QED
    BY <1>2, <2>1, <2>2, <2>3 DEF ModifyReduce
<1>3. CASE Spawn
  BY <1>1, <1>3 DEF Spawn, allVars, modifyVars, vars
<1>4. ASSUME NEW s \in Shard, CarryCount(s) PROVE TypesInv'
  <2>1. UNCHANGED stopped
    BY <1>4 DEF CarryCount, Processes!Carry, Processes!Write, Processes!FlushRest,
                Processes!Terminate, Processes!Receive, Processes!vars
  <2>2. QED
    BY <1>1, <1>4, <2>1 DEF CarryCount
<1>5. ASSUME NEW s \in Shard, AbortCount(s) PROVE TypesInv'
  BY <1>1, <1>5 DEF AbortCount, allVars, modifyVars, vars
<1>6. ASSUME NEW s \in Shard, Modifying(ModifyMap(s)) PROVE TypesInv'
  BY <1>1, <1>6 DEF Modifying, ModifyMap, Map, Admit, Push, Count
<1>7. ASSUME NEW s \in Shard, Modifying(ModifyReduce(s)) PROVE TypesInv'
  BY <1>2, <1>7 DEF Modifying
<1>8. CASE DumpingNext
  BY <1>1, <1>8, DumpingKeeps DEF modifyVars, vars
<1>9. CASE UNCHANGED <<allVars, modifyMPIVars>>
  BY <1>1, <1>9 DEF allVars, modifyVars, vars
<1>10. QED
  BY <1>3, <1>4, <1>5, <1>6, <1>7, <1>8, <1>9 DEF ModifyMPINext

\* What is written stays what the sums are.
LEMMA TypesInvariance == ModifyMPISpec => []TypesInv
  BY MediumInvariance, SumsInvariance, TypesInit, TypesStep, PTL DEF ModifyMPISpec

\* The last order of n-grams keeps its counts.
LEMMA LastOrder ==
    ASSUME NEW s \in Shard, NEW p \in CountsOffset(s) .. Size(s) - 1, ~ (p < position_size(s))
    PROVE  Modified(s, p) = counts[s][p]
<1>1. /\ Order \in Nat /\ Size(s) \in Nat /\ Pos(s) = 0 .. Size(s) - 1
      /\ Offset(s, 1) \in 0 .. Size(s)
      /\ \A q \in Pos(s) : q < Offset(s, Order - 1) <=> Len(Ngram(s, q)) <= Order - 1
  <2>1. Order \in Nat /\ Order >= 2
    BY IndexAssumption
  <2>2. Order - 1 \in Int /\ 1 \in Int
    BY <2>1
  <2>3. QED
    BY <2>1, <2>2, NodeType, OffsetBounds DEF Pos
<1>2. CountsOffset(s) \in 0 .. Size(s)
  BY <1>1 DEF CountsOffset
<1>3. p \in Pos(s) /\ ~ (p < Offset(s, Order - 1))
  BY <1>1, <1>2 DEF position_size
<1>4. Len(Ngram(s, p)) \in 1 .. Order /\ ~ (Len(Ngram(s, p)) <= Order - 1)
  BY <1>1, <1>3, NodeType
<1>5. Len(Ngram(s, p)) = Order
  BY <1>1, <1>4
<1>6. QED
  BY <1>5 DEF Modified

\* The modified counts are what Kneser and Ney define them to be, for every
\* index, number of shards, capacity of the queues and size of the messages,
\* whether threads or processes compute them and however what they send mixes:
\* when a reducer of NGramCounts::modify or of expgram_counts_modify_mpi has
\* heard of the end of all mappers, each n-gram of a lower order of its shard
\* has the number of different words that precede it, over all shards, with its
\* own count if it starts a sentence.
THEOREM ModifiedCountsHolds == ModifyMPISpec => []ModifiedCounts
<1>1. ASSUME MediumInv, SumsInv, LoadInv, TypesInv PROVE ModifiedCounts
  <2>1. ASSUME NEW s \in Shard, AllEnded(s), NEW p \in Summed(s)
        PROVE  counts_modified[s][p] = Modified(s, p)
    <3>1. popped[s] \intersect MessagesOf(s) = MessagesOf(s) \intersect MessagesOf(s)
      BY <1>1, <2>1, EndedMedium
    <3>2. Load(s, p, popped[s]) = Load(s, p, MessagesOf(s))
      BY <3>1 DEF Load
    <3>3. Cardinality(Load(s, p, MessagesOf(s))) = Modified(s, p)
      BY LoadOfAll DEF Summed
    <3>4. QED
      BY <1>1, <3>2, <3>3 DEF LoadInv
  <2>2. ASSUME NEW s \in Shard PROVE DOMAIN counts_modified[s] = Summed(s)
    BY <1>1 DEF SumsInv, Sums, Summed
  <2>3. ASSUME NEW s \in stopped
        PROVE  types[s] = [p \in CountsOffset(s) .. Size(s) - 1 |-> Modified(s, p)]
    <3>1. s \in Shard /\ AllEnded(s)
      BY <1>1, ReducerOfShard
         DEF MediumInv, IInv, TypeInv, CountInv, PInv, ProcessType, HeardInv, AllEnded
    <3>2. types[s] = WrittenOf(s, counts_modified[s])
      BY <1>1 DEF TypesInv
    <3>3. ASSUME NEW p \in CountsOffset(s) .. Size(s) - 1
          PROVE  (IF p < position_size(s) THEN counts_modified[s][p] ELSE counts[s][p])
                    = Modified(s, p)
      <4>1. CASE p < position_size(s)
        <5>1. p \in Summed(s)
          <6>1. position_size(s) \in Nat /\ CountsOffset(s) \in Nat /\ Size(s) \in Nat
            <7>1. /\ Order - 1 \in Int /\ 1 \in Int
              BY IndexAssumption
            <7>2. QED
              BY <3>1, <7>1, NodeType, OffsetBounds DEF position_size, CountsOffset
          <6>2. QED
            BY <4>1, <6>1 DEF Summed
        <5>2. QED
          BY <2>1, <3>1, <4>1, <5>1
      <4>2. CASE ~ (p < position_size(s))
        BY <3>1, <4>2, LastOrder
      <4>3. QED
        BY <4>1, <4>2
    <3>4. QED
      BY <3>2, <3>3 DEF WrittenOf
  <2>4. QED
    BY <2>1, <2>2, <2>3 DEF ModifiedCounts
<1>2. QED
  BY <1>1, MediumInvariance, SumsInvariance, LoadInvariance, TypesInvariance, PTL
=============================================================================
