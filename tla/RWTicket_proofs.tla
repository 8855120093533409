-------------------------- MODULE RWTicket_proofs --------------------------
(* Writers exclude each other and readers, and get the lock in the order of *)
(* their tickets, for every set of threads smaller than the set of tickets: *)
(* the tickets that are out are the interval from ticket to users, each     *)
(* belongs to one thread, and there are never so many that it closes.       *)
EXTENDS RWTicket, FiniteSetTheorems, TLAPS

\* Where it is a thread's turn.
Served == {"draining", "trying_again", "withdrawing", "writing"}

PcType ==
    place \in [Locker -> {"idle", "queueing", "draining", "writing", "trying", "swapping",
                       "trying_again", "withdrawing", "checking",
                       "checking_once", "reading", "retreating", "failing",
                       "waiting", "announcing"}]

NumberType ==
    /\ ticket \in 0 .. Tickets - 1
    /\ users \in 0 .. Tickets - 1
    /\ me \in [Locker -> 0 .. Tickets - 1]

PendingCounts == pending_ = Cardinality(Announced)

UsersCount == Cardinality(Ticketed) = Distance(ticket, users)

InTheInterval == \A t \in Ticketed : Ahead(t) < Distance(ticket, users)

OneTicketEach == \A t, u \in Ticketed : me[t] = me[u] => t = u

ServedInTurn == \A t \in Locker : place[t] \in Served => me[t] = ticket

NoReaderBesideWriter ==
    \A w, t \in Locker : place[w] = "writing" => place[t] # "reading"

Inv ==
    /\ PcType
    /\ NumberType
    /\ PendingCounts
    /\ UsersCount
    /\ InTheInterval
    /\ OneTicketEach
    /\ ServedInTurn
    /\ NoReaderBesideWriter

-----------------------------------------------------------------------------
(* Arithmetic of the tickets.                                               *)

\* Distances are tickets, and zero between equal tickets only.
LEMMA DistanceRange ==
    ASSUME NEW tk \in 0 .. Tickets - 1, NEW n \in 0 .. Tickets - 1
    PROVE  /\ Distance(tk, n) \in 0 .. Tickets - 1
           /\ Distance(tk, n) = 0 <=> n = tk
BY TicketAssumption DEF Distance

\* Drawing a ticket lengthens the interval, unless it would close.
LEMMA DistanceDraw ==
    ASSUME NEW tk \in 0 .. Tickets - 1, NEW n \in 0 .. Tickets - 1,
           Distance(tk, n) < Tickets - 1
    PROVE  /\ Succ(n) \in 0 .. Tickets - 1
           /\ Distance(tk, Succ(n)) = Distance(tk, n) + 1
BY TicketAssumption DEF Distance, Succ

\* Returning a ticket brings every other one nearer.
LEMMA DistanceReturn ==
    ASSUME NEW tk \in 0 .. Tickets - 1, NEW n \in 0 .. Tickets - 1, n # tk
    PROVE  /\ Succ(tk) \in 0 .. Tickets - 1
           /\ Distance(Succ(tk), n) = Distance(tk, n) - 1
BY TicketAssumption DEF Distance, Succ

-----------------------------------------------------------------------------
(* What a thread's move does to the two sets.                               *)

\* The threads announced, and those with a ticket, are finitely many.
LEMMA Finite ==
    /\ IsFiniteSet(Announced)
    /\ IsFiniteSet(Ticketed)
    /\ Cardinality(Announced) \in Nat
    /\ Cardinality(Ticketed) \in Nat
    /\ Cardinality(Announced) = 0 => Announced = {}
    /\ \A t \in Locker \ Ticketed : Cardinality(Ticketed) + 1 < Tickets
<1>1. IsFiniteSet(Announced) /\ IsFiniteSet(Ticketed)
  BY FS_Subset, TicketAssumption DEF Announced, Ticketed
<1>2. Cardinality(Announced) \in Nat /\ Cardinality(Ticketed) \in Nat
  BY <1>1, FS_CardinalityType
<1>3. Cardinality(Announced) = 0 => Announced = {}
  BY <1>1, FS_EmptySet
<1>4. ASSUME NEW t \in Locker \ Ticketed PROVE Cardinality(Ticketed) + 1 < Tickets
  <2>1. Cardinality(Ticketed \union {t}) = Cardinality(Ticketed) + 1
    BY <1>1, FS_AddElement
  <2>2. Ticketed \union {t} \subseteq Locker
    BY DEF Ticketed
  <2>3. Cardinality(Ticketed \union {t}) <= Cardinality(Locker)
    BY <2>2, FS_Subset, TicketAssumption
  <2>4. Cardinality(Locker) \in Nat
    BY FS_CardinalityType, TicketAssumption
  <2> QED BY <1>2, <2>1, <2>3, <2>4, TicketAssumption
<1> QED BY <1>1, <1>2, <1>3, <1>4

\* Announced follows the thread that moves.
LEMMA AnnouncedMoves ==
    ASSUME PcType, NEW t \in Locker, NEW label, GoTo(t, label)
    PROVE  /\ label \in Counting /\ place[t] \in Counting => Announced' = Announced
           /\ label \notin Counting /\ place[t] \notin Counting => Announced' = Announced
           /\ label \in Counting /\ place[t] \notin Counting =>
                Cardinality(Announced') = Cardinality(Announced) + 1
           /\ label \notin Counting /\ place[t] \in Counting =>
                Cardinality(Announced') = Cardinality(Announced) - 1
<1>1. /\ place'[t] = label
      /\ \A u \in Locker : u # t => place'[u] = place[u]
  BY DEF PcType, GoTo
<1>2. CASE label \in Counting /\ place[t] \in Counting
  BY <1>1, <1>2 DEF Announced
<1>3. CASE label \notin Counting /\ place[t] \notin Counting
  BY <1>1, <1>3 DEF Announced
<1>4. CASE label \in Counting /\ place[t] \notin Counting
  <2>1. Announced' = Announced \union {t} /\ t \notin Announced
    BY <1>1, <1>4 DEF Announced
  <2> QED BY <1>4, <2>1, Finite, FS_AddElement
<1>5. CASE label \notin Counting /\ place[t] \in Counting
  <2>1. Announced' = Announced \ {t} /\ t \in Announced
    BY <1>1, <1>5 DEF Announced
  <2> QED BY <1>5, <2>1, Finite, FS_RemoveElement
<1> QED BY <1>2, <1>3, <1>4, <1>5

\* So does Ticketed.
LEMMA TicketedMoves ==
    ASSUME PcType, NEW t \in Locker, NEW label, GoTo(t, label)
    PROVE  /\ label \in Holding /\ place[t] \in Holding => Ticketed' = Ticketed
           /\ label \notin Holding /\ place[t] \notin Holding => Ticketed' = Ticketed
           /\ label \in Holding /\ place[t] \notin Holding =>
                /\ Ticketed' = Ticketed \union {t}
                /\ t \notin Ticketed
                /\ Cardinality(Ticketed') = Cardinality(Ticketed) + 1
           /\ label \notin Holding /\ place[t] \in Holding =>
                /\ Ticketed' = Ticketed \ {t}
                /\ t \in Ticketed
                /\ Cardinality(Ticketed') = Cardinality(Ticketed) - 1
<1>1. /\ place'[t] = label
      /\ \A u \in Locker : u # t => place'[u] = place[u]
  BY DEF PcType, GoTo
<1>2. CASE label \in Holding /\ place[t] \in Holding
  BY <1>1, <1>2 DEF Ticketed
<1>3. CASE label \notin Holding /\ place[t] \notin Holding
  BY <1>1, <1>3 DEF Ticketed
<1>4. CASE label \in Holding /\ place[t] \notin Holding
  <2>1. Ticketed' = Ticketed \union {t} /\ t \notin Ticketed
    BY <1>1, <1>4 DEF Ticketed
  <2> QED BY <1>4, <2>1, Finite, FS_AddElement
<1>5. CASE label \notin Holding /\ place[t] \in Holding
  <2>1. Ticketed' = Ticketed \ {t} /\ t \in Ticketed
    BY <1>1, <1>5 DEF Ticketed
  <2> QED BY <1>5, <2>1, Finite, FS_RemoveElement
<1> QED BY <1>2, <1>3, <1>4, <1>5

-----------------------------------------------------------------------------
(* The tickets.                                                             *)

Interval == NumberType /\ UsersCount /\ InTheInterval /\ OneTicketEach

\* A move without a ticket drawn or returned, in which at most a thread
\* without one notes a number, leaves the interval alone.
LEMMA IntervalStays ==
    ASSUME PcType, Interval, NEW t \in Locker, NEW label, GoTo(t, label),
           label \in Holding <=> place[t] \in Holding,
           UNCHANGED <<ticket, users>>,
           \/ UNCHANGED me
           \/ /\ place[t] \notin Holding
              /\ \E n \in 0 .. Tickets - 1 : me' = [me EXCEPT ![t] = n]
    PROVE  Interval'
<1>1. Ticketed' = Ticketed
  BY TicketedMoves
<1>2. NumberType' /\ \A u \in Ticketed : u \in Locker /\ me'[u] = me[u]
  BY DEF Interval, NumberType, Ticketed
<1>3. Cardinality(Ticketed') = Distance(ticket', users')
  BY <1>1 DEF Interval, UsersCount
<1>4. \A u \in Ticketed' : Distance(ticket', me'[u]) < Distance(ticket', users')
  BY <1>1, <1>2 DEF Interval, InTheInterval, Ahead
<1>5. \A u, v \in Ticketed' : me'[u] = me'[v] => u = v
  BY <1>1, <1>2 DEF Interval, OneTicketEach
<1> QED BY <1>2, <1>3, <1>4, <1>5 DEF Interval, UsersCount, InTheInterval, Ahead, OneTicketEach

\* The thread that draws takes the number after the interval.
LEMMA IntervalGrows ==
    ASSUME PcType, Interval, NEW t \in Locker, NEW label, GoTo(t, label),
           place[t] \notin Holding, label \in Holding,
           me' = [me EXCEPT ![t] = users],
           users' = Succ(users), UNCHANGED ticket
    PROVE  Interval'
<1>1. /\ Ticketed' = Ticketed \union {t}
      /\ t \in Locker \ Ticketed
      /\ Cardinality(Ticketed') = Cardinality(Ticketed) + 1
  BY TicketedMoves
<1>2. /\ ticket \in 0 .. Tickets - 1
      /\ users \in 0 .. Tickets - 1
      /\ me \in [Locker -> 0 .. Tickets - 1]
  BY DEF Interval, NumberType
<1>3. Distance(ticket, users) + 1 < Tickets
  BY <1>1, Finite DEF Interval, UsersCount
<1>4. Distance(ticket, users) \in 0 .. Tickets - 1
  BY <1>2, DistanceRange
<1>5. /\ users' \in 0 .. Tickets - 1
      /\ Distance(ticket', users') = Distance(ticket, users) + 1
  BY <1>2, <1>3, <1>4, DistanceDraw, TicketAssumption
<1>6. NumberType' /\ me'[t] = users /\ \A u \in Ticketed : u \in Locker /\ me'[u] = me[u]
  BY <1>1, <1>2, <1>5 DEF NumberType, Ticketed
<1>7. \A u \in Ticketed : /\ Distance(ticket, me[u]) < Distance(ticket, users)
                         /\ Distance(ticket, me[u]) \in 0 .. Tickets - 1
                         /\ me[u] # users
  BY <1>2, <1>4, <1>6, DistanceRange DEF Interval, InTheInterval, Ahead
<1>8. Cardinality(Ticketed') = Distance(ticket', users')
  BY <1>1, <1>5 DEF Interval, UsersCount
<1>9. \A u \in Ticketed' : Distance(ticket', me'[u]) < Distance(ticket', users')
  BY <1>1, <1>4, <1>5, <1>6, <1>7, TicketAssumption
<1>10. \A u, v \in Ticketed' : me'[u] = me'[v] => u = v
  BY <1>1, <1>6, <1>7 DEF Interval, OneTicketEach
<1> QED BY <1>6, <1>8, <1>9, <1>10 DEF Interval, UsersCount, InTheInterval, Ahead, OneTicketEach

\* The thread that returns gives up the first number of the interval.
LEMMA IntervalShrinks ==
    ASSUME PcType, Interval, NEW t \in Locker, NEW label, GoTo(t, label),
           place[t] \in Holding, label \notin Holding, me[t] = ticket,
           me' = [me EXCEPT ![t] = 0],
           ticket' = Succ(ticket), UNCHANGED users
    PROVE  /\ Interval'
           /\ \A u \in Ticketed \ {t} : /\ me[u] # ticket
                                       /\ Ahead(u)' = Ahead(u) - 1
<1>1. /\ Ticketed' = Ticketed \ {t}
      /\ t \in Ticketed
      /\ Cardinality(Ticketed') = Cardinality(Ticketed) - 1
  BY TicketedMoves
<1>2. /\ ticket \in 0 .. Tickets - 1
      /\ users \in 0 .. Tickets - 1
      /\ me \in [Locker -> 0 .. Tickets - 1]
  BY DEF Interval, NumberType
<1>3. \A u \in Ticketed : /\ me[u] \in 0 .. Tickets - 1
                         /\ Distance(ticket, me[u]) < Distance(ticket, users)
                         /\ Distance(ticket, me[u]) \in 0 .. Tickets - 1
  BY <1>2, DistanceRange DEF Interval, InTheInterval, Ahead, Ticketed
<1>4. Distance(ticket, users) \in 0 .. Tickets - 1 /\ users # ticket
  BY <1>1, <1>2, <1>3, DistanceRange
<1>5. /\ ticket' \in 0 .. Tickets - 1
      /\ Distance(ticket', users') = Distance(ticket, users) - 1
  BY <1>2, <1>4, DistanceReturn
<1>6. \A u \in Ticketed \ {t} : /\ u \in Locker
                               /\ me'[u] = me[u]
                               /\ me[u] # ticket
  BY <1>1, <1>2 DEF Interval, OneTicketEach, Ticketed
<1>7. \A u \in Ticketed \ {t} : Distance(ticket', me'[u]) = Distance(ticket, me[u]) - 1
  BY <1>2, <1>3, <1>6, DistanceReturn
<1>8. NumberType'
  BY <1>2, <1>5, TicketAssumption DEF NumberType
<1>9. Cardinality(Ticketed') = Distance(ticket', users')
  BY <1>1, <1>5 DEF Interval, UsersCount
<1>10. \A u \in Ticketed' : Distance(ticket', me'[u]) < Distance(ticket', users')
  BY <1>1, <1>3, <1>4, <1>5, <1>7
<1>11. \A u, v \in Ticketed' : me'[u] = me'[v] => u = v
  BY <1>1, <1>6 DEF Interval, OneTicketEach
<1> QED BY <1>6, <1>7, <1>8, <1>9, <1>10, <1>11
     DEF Interval, UsersCount, InTheInterval, Ahead, OneTicketEach

\* Where no ticket is out there is no writer.
LEMMA NotLocked ==
    ASSUME PcType, Interval, ~ locked
    PROVE  Ticketed = {}
<1>1. ASSUME NEW t \in Ticketed PROVE FALSE
  <2>1. Distance(ticket, users) = 0
    BY DistanceRange DEF Interval, NumberType, locked
  <2>2. me[t] \in 0 .. Tickets - 1 /\ ticket \in 0 .. Tickets - 1
    BY DEF Interval, NumberType, Ticketed
  <2>3. Distance(ticket, me[t]) \in 0 .. Tickets - 1
    BY <2>2, DistanceRange
  <2> QED BY <2>1, <2>3, TicketAssumption DEF Interval, InTheInterval, Ahead
<1> QED BY <1>1

-----------------------------------------------------------------------------
(* The invariant.                                                           *)

Labels == {"idle", "queueing", "draining", "writing", "trying", "swapping",
           "trying_again", "withdrawing", "checking", "checking_once",
           "reading", "retreating", "failing", "waiting", "announcing"}

\* A move that neither returns a ticket nor ends in the lock, and takes its turn
\* only with the ticket whose turn it is.
LEMMA QuietMove ==
    ASSUME Inv, NEW t \in Locker, NEW label \in Labels, GoTo(t, label), Interval',
           UNCHANGED ticket,
           \A u \in Locker \ {t} : me'[u] = me[u],
           label \in Served => me'[t] = ticket,
           label = "writing" => \A u \in Locker : place[u] # "reading",
           label = "reading" => \A u \in Locker : place[u] # "writing"
    PROVE  PcType' /\ ServedInTurn' /\ NoReaderBesideWriter'
<1>1. /\ place'[t] = label
      /\ \A u \in Locker : u # t => place'[u] = place[u]
  BY DEF Inv, PcType, GoTo
<1>2. PcType'
  BY DEF Inv, PcType, GoTo, Labels
<1>3. ServedInTurn'
  BY <1>1 DEF Inv, ServedInTurn
<1>4. NoReaderBesideWriter'
  BY <1>1 DEF Inv, NoReaderBesideWriter
<1> QED BY <1>2, <1>3, <1>4

\* The counter of readers follows a move that announces, withdraws or neither.
LEMMA PendingMove ==
    ASSUME Inv, NEW t \in Locker, NEW label, GoTo(t, label),
           \/ UNCHANGED pending_ /\ (label \in Counting <=> place[t] \in Counting)
           \/ pending_' = pending_ + 1 /\ label \in Counting /\ place[t] \notin Counting
           \/ pending_' = pending_ - 1 /\ label \notin Counting /\ place[t] \in Counting
    PROVE  PendingCounts'
BY AnnouncedMoves DEF Inv, PendingCounts

\* No reader is announced when the counter is zero.
LEMMA NobodyReads ==
    ASSUME Inv, pending_ = 0
    PROVE  \A u \in Locker : place[u] # "reading"
BY Finite DEF Inv, PendingCounts, Announced, Counting

\* The initial states satisfy the invariant.
LEMMA InitInv == LockInit => Inv
<1> SUFFICES ASSUME LockInit PROVE Inv
  OBVIOUS
<1>1. Cardinality(Locker) \in Nat
  BY FS_CardinalityType, TicketAssumption
<1>2. PcType /\ NumberType
  BY <1>1, TicketAssumption DEF LockInit, PcType, NumberType
<1>3. Announced = {} /\ Ticketed = {}
  BY DEF LockInit, Announced, Ticketed, Counting, Holding
<1>4. Cardinality({}) = 0
  BY FS_EmptySet
<1>5. PendingCounts /\ UsersCount
  BY <1>3, <1>4 DEF LockInit, PendingCounts, UsersCount, Distance
<1>6. InTheInterval /\ OneTicketEach
  BY <1>3 DEF InTheInterval, OneTicketEach
<1>7. ServedInTurn /\ NoReaderBesideWriter
  BY DEF LockInit, ServedInTurn, NoReaderBesideWriter, Served
<1> QED BY <1>2, <1>5, <1>6, <1>7 DEF Inv

\* So does every step.
LEMMA NextInv == Inv /\ [LockNext]_lockVars => Inv'
<1> SUFFICES ASSUME Inv, [LockNext]_lockVars PROVE Inv'
  OBVIOUS
<1> USE DEF Counting, Holding, Served, Labels
<1>0. Interval /\ PcType
  BY DEF Inv, Interval
<1>a. ASSUME NEW t \in Locker, DrawTicket(t) PROVE Inv'
  <2>1. Interval'
    BY <1>0, <1>a, IntervalGrows DEF DrawTicket
  <2>2. PcType' /\ ServedInTurn' /\ NoReaderBesideWriter'
    BY <2>1, <1>a, QuietMove DEF DrawTicket, Inv, NumberType
  <2>3. PendingCounts'
    BY <1>a, PendingMove DEF DrawTicket
  <2> QED BY <2>1, <2>2, <2>3 DEF Inv, Interval
<1>b. ASSUME NEW t \in Locker, TryTicket(t) PROVE Inv'
  <2>1. me' = [me EXCEPT ![t] = users]
    BY <1>b DEF TryTicket, Inv, NumberType
  <2>2. Interval'
    BY <1>0, <1>b, <2>1, IntervalGrows DEF TryTicket
  <2>3. PcType' /\ ServedInTurn' /\ NoReaderBesideWriter'
    BY <2>2, <1>b, QuietMove DEF TryTicket, Inv, NumberType
  <2>4. PendingCounts'
    BY <1>b, PendingMove DEF TryTicket
  <2> QED BY <2>2, <2>3, <2>4 DEF Inv, Interval
<1>c. ASSUME NEW t \in Locker, ReturnTicket(t) PROVE Inv'
  <2>1. me[t] = ticket
    BY <1>c DEF ReturnTicket, Inv, ServedInTurn
  <2>2. /\ Interval'
        /\ \A u \in Ticketed \ {t} : me[u] # ticket
    BY <1>0, <1>c, <2>1, IntervalShrinks DEF ReturnTicket
  <2>3. /\ place'[t] = "idle"
        /\ \A u \in Locker : u # t => place'[u] = place[u]
    BY <1>0, <1>c DEF ReturnTicket, GoTo, PcType
  <2>4. PcType'
    BY <1>0, <1>c DEF ReturnTicket, GoTo, PcType
  <2>5. \A u \in Locker \ {t} : place[u] \notin Served
    BY <2>2 DEF Inv, ServedInTurn, Ticketed
  <2>6. ServedInTurn'
    BY <2>3, <2>5 DEF ServedInTurn
  <2>7. NoReaderBesideWriter'
    BY <2>3 DEF Inv, NoReaderBesideWriter
  <2>8. PendingCounts'
    BY <1>c, PendingMove DEF ReturnTicket
  <2> QED BY <2>2, <2>4, <2>6, <2>7, <2>8 DEF Inv, Interval
<1>d. ASSUME NEW t \in Locker, Turn(t) PROVE Inv'
  <2>1. Interval'
    BY <1>0, <1>d, IntervalStays DEF Turn
  <2>2. PcType' /\ ServedInTurn' /\ NoReaderBesideWriter'
    BY <2>1, <1>d, QuietMove DEF Turn, MyTurn
  <2>3. PendingCounts'
    BY <1>d, PendingMove DEF Turn
  <2> QED BY <2>1, <2>2, <2>3 DEF Inv, Interval
<1>e. ASSUME NEW t \in Locker, Drained(t) PROVE Inv'
  <2>1. Interval'
    BY <1>0, <1>e, IntervalStays DEF Drained
  <2>2. PcType' /\ ServedInTurn' /\ NoReaderBesideWriter'
    BY <2>1, <1>e, QuietMove, NobodyReads DEF Drained, Inv, ServedInTurn
  <2>3. PendingCounts'
    BY <1>e, PendingMove DEF Drained
  <2> QED BY <2>1, <2>2, <2>3 DEF Inv, Interval
<1>f. ASSUME NEW t \in Locker, TryPending(t) PROVE Inv'
  <2>1. Interval'
    BY <1>0, <1>f, IntervalStays DEF TryPending
  <2>2. PcType' /\ ServedInTurn' /\ NoReaderBesideWriter'
    BY <2>1, <1>f, QuietMove, NobodyReads DEF TryPending, Inv, ServedInTurn
  <2>3. PendingCounts'
    BY <1>f, PendingMove DEF TryPending
  <2> QED BY <2>1, <2>2, <2>3 DEF Inv, Interval
<1>g. ASSUME NEW t \in Locker, TryWriter(t) PROVE Inv'
  <2>1. Interval'
    BY <1>0, <1>g, IntervalStays DEF TryWriter
  <2>2. PcType' /\ ServedInTurn' /\ NoReaderBesideWriter'
    BY <2>1, <1>g, QuietMove DEF TryWriter
  <2>3. PendingCounts'
    BY <1>g, PendingMove DEF TryWriter
  <2> QED BY <2>1, <2>2, <2>3 DEF Inv, Interval
<1>h. ASSUME NEW t \in Locker, TryRead(t) \/ TryFails(t) PROVE Inv'
  <2>1. PICK n \in 0 .. Tickets - 1 : me' = [me EXCEPT ![t] = n]
    BY <1>0, <1>h, TicketAssumption DEF TryRead, TryFails, Interval, NumberType
  <2>2. PICK label \in {"swapping", "idle"} : GoTo(t, label)
    BY <1>h DEF TryRead, TryFails
  <2>3. /\ UNCHANGED <<ticket, users, pending_>>
        /\ place[t] \in {"trying", "swapping"}
    BY <1>h DEF TryRead, TryFails
  <2>4. Interval'
    BY <1>0, <2>1, <2>2, <2>3, IntervalStays
  <2>5. \A u \in Locker \ {t} : me'[u] = me[u]
    BY <2>1 DEF Inv, NumberType
  <2>6. PcType' /\ ServedInTurn' /\ NoReaderBesideWriter'
    BY <2>2, <2>3, <2>4, <2>5, QuietMove
  <2>7. PendingCounts'
    BY <2>2, <2>3, PendingMove
  <2> QED BY <2>4, <2>6, <2>7 DEF Inv, Interval
<1>i. ASSUME NEW t \in Locker, EnterRead(t) PROVE Inv'
  <2>1. Interval'
    BY <1>0, <1>i, IntervalStays DEF EnterRead
  <2>2. \A u \in Locker : place[u] # "writing"
    BY <1>0, <1>i, NotLocked DEF EnterRead, Ticketed
  <2>3. PcType' /\ ServedInTurn' /\ NoReaderBesideWriter'
    BY <2>1, <2>2, <1>i, QuietMove DEF EnterRead
  <2>4. PendingCounts'
    BY <1>i, PendingMove DEF EnterRead
  <2> QED BY <2>1, <2>3, <2>4 DEF Inv, Interval
<1>j. ASSUME NEW t \in Locker, NEW label \in {"checking", "checking_once", "retreating",
                                            "failing", "waiting", "announcing", "idle"},
             GoTo(t, label), UNCHANGED <<ticket, users, me>>, place[t] \notin Holding,
             \/ UNCHANGED pending_ /\ (label \in Counting <=> place[t] \in Counting)
             \/ pending_' = pending_ + 1 /\ label \in Counting /\ place[t] \notin Counting
             \/ pending_' = pending_ - 1 /\ label \notin Counting /\ place[t] \in Counting
      PROVE  Inv'
  <2>1. Interval'
    BY <1>0, <1>j, IntervalStays
  <2>2. PcType' /\ ServedInTurn' /\ NoReaderBesideWriter'
    BY <2>1, <1>j, QuietMove
  <2>3. PendingCounts'
    BY <1>j, PendingMove
  <2> QED BY <2>1, <2>2, <2>3 DEF Inv, Interval
<1>k. ASSUME NEW t \in Locker, Announce(t) PROVE Inv'
  BY <1>j, <1>k DEF Announce
<1>l. ASSUME NEW t \in Locker, SeeWriter(t) PROVE Inv'
  <2>1. CASE place[t] = "checking"
    BY <1>j, <1>l, <2>1 DEF SeeWriter
  <2>2. CASE place[t] = "checking_once"
    BY <1>j, <1>l, <2>2 DEF SeeWriter
  <2> QED BY <1>l, <2>1, <2>2 DEF SeeWriter
<1>m. ASSUME NEW t \in Locker, Withdraw(t) PROVE Inv'
  <2>1. CASE place[t] = "retreating"
    BY <1>j, <1>m, <2>1 DEF Withdraw
  <2>2. CASE place[t] \in {"failing", "reading"}
    BY <1>j, <1>m, <2>2 DEF Withdraw
  <2> QED BY <1>m, <2>1, <2>2 DEF Withdraw
<1>n. ASSUME NEW t \in Locker, Again(t) PROVE Inv'
  BY <1>j, <1>n DEF Again
<1>o. ASSUME NEW t \in Locker, AnnounceAgain(t) PROVE Inv'
  BY <1>j, <1>o DEF AnnounceAgain
<1>p. CASE UNCHANGED lockVars
  BY <1>p DEF lockVars, Inv, PcType, NumberType, PendingCounts, UsersCount, InTheInterval,
     OneTicketEach, ServedInTurn, NoReaderBesideWriter, Announced, Ticketed, Ahead
<1> QED BY <1>a, <1>b, <1>c, <1>d, <1>e, <1>f, <1>g, <1>h, <1>i, <1>k, <1>l, <1>m, <1>n,
           <1>o, <1>p DEF LockNext, AskLock, Proceed

-----------------------------------------------------------------------------

\* The counters and tickets of the lock stay what they stand for, for every
\* number of threads and tickets.
THEOREM TypeCorrect == LockSpec => []LockTypeOK
<1>1. Inv => LockTypeOK
  BY DEF Inv, PcType, NumberType, PendingCounts, LockTypeOK
<1> QED BY <1>1, InitInv, NextInv, PTL DEF LockSpec

\* A writer is alone: two writers would have the same ticket, and a reader and a
\* writer would each have had to miss the other's announcement.
THEOREM WritersExclude == LockSpec => []Exclusion
<1>1. Inv => Exclusion
  <2> SUFFICES ASSUME Inv, NEW w \in Locker, place[w] = "writing", NEW t \in Locker \ {w}
               PROVE  place[t] \notin {"writing", "reading"}
    BY DEF Exclusion
  <2>1. place[t] # "reading"
    BY DEF Inv, NoReaderBesideWriter
  <2>2. ASSUME place[t] = "writing" PROVE FALSE
    BY <2>2 DEF Inv, ServedInTurn, OneTicketEach, Ticketed, Served, Holding
  <2> QED BY <2>1, <2>2
<1> QED BY <1>1, InitInv, NextInv, PTL DEF LockSpec

\* Nobody overtakes a writer that has its ticket, across the wrap of the tickets.
THEOREM InOrder == LockSpec => FirstComeFirstServed
<1>1. Inv /\ [LockNext]_lockVars =>
        [\A t \in Locker :
            place[t] = "queueing" /\ place'[t] = "queueing" => Ahead(t)' <= Ahead(t)]_lockVars
  <2> SUFFICES ASSUME Inv, LockNext, NEW t \in Locker, place[t] = "queueing", place'[t] = "queueing"
               PROVE  Ahead(t)' <= Ahead(t)
    BY DEF lockVars
  <2>0. /\ PcType /\ Interval
        /\ Ahead(t) \in 0 .. Tickets - 1
    BY DistanceRange DEF Inv, Interval, NumberType, Ahead
  <2>1. PICK u \in Locker : AskLock(u) \/ Proceed(u)
    BY DEF LockNext
  <2>2. u # t
    BY <2>0, <2>1 DEF PcType, AskLock, Proceed, DrawTicket, TryWriter, Announce, Turn, Drained,
       ReturnTicket, TryRead, TryTicket, TryFails, TryPending, EnterRead, SeeWriter, Withdraw,
       Again, AnnounceAgain, GoTo
  <2>3. CASE ReturnTicket(u)
    <3>1. me[u] = ticket
      BY <2>3 DEF ReturnTicket, Inv, ServedInTurn, Served
    <3>2. Ahead(t)' = Ahead(t) - 1
      BY <2>0, <2>2, <2>3, <3>1, IntervalShrinks DEF ReturnTicket, Holding, Ticketed
    <3> QED BY <2>0, <3>2
  <2>4. CASE ~ ReturnTicket(u)
    <3>1. ticket' = ticket /\ me'[t] = me[t]
      BY <2>0, <2>1, <2>2, <2>4 DEF Interval, NumberType, AskLock, Proceed, DrawTicket, TryWriter,
         Announce, Turn, Drained, TryRead, TryTicket, TryFails, TryPending, EnterRead,
         SeeWriter, Withdraw, Again, AnnounceAgain
    <3> QED BY <2>0, <3>1 DEF Ahead
  <2> QED BY <2>3, <2>4
<1> QED BY <1>1, InitInv, NextInv, PTL DEF LockSpec, FirstComeFirstServed
=============================================================================
