------------------------------ MODULE RWTicket ------------------------------
(* The readers-writer lock of utils/rwticket.hpp, which guards the table of *)
(* words.  Writers queue up with tickets of 16 bits that wrap.  A reader    *)
(* announces itself in pending_ before it looks whether a writer has a      *)
(* ticket, and withdraws if one has; a writer waits, when it is its turn,   *)
(* until no reader is announced.                                            *)
EXTENDS Naturals, FiniteSets

CONSTANTS
    Locker,     \* the threads
    Tickets     \* the number of different tickets, 2^16 in the code

\* There are fewer threads than tickets.
ASSUME TicketAssumption ==
    /\ IsFiniteSet(Locker)
    /\ Tickets \in Nat
    /\ Cardinality(Locker) < Tickets

VARIABLES
    ticket,     \* the ticket whose turn it is
    users,      \* the next ticket to be drawn
    pending_,   \* how many readers are announced
    me,         \* the ticket of a thread
    place       \* where a thread is

lockVars == <<ticket, users, pending_, me, place>>

-----------------------------------------------------------------------------

Succ(n) == IF n = Tickets - 1 THEN 0 ELSE n + 1

\* mutex_.locked(): some ticket is drawn and not yet returned.
locked == ticket # users

LockInit ==
    /\ ticket = 0
    /\ users = 0
    /\ pending_ = 0
    /\ me = [t \in Locker |-> 0]
    /\ place = [t \in Locker |-> "idle"]

GoTo(t, label) == place' = [place EXCEPT ![t] = label]

-----------------------------------------------------------------------------
(* Writers.                                                                 *)

\* lock_writer: mutex_.lock() draws a ticket.
DrawTicket(t) ==
    /\ place[t] = "idle"
    /\ me' = [me EXCEPT ![t] = users]
    /\ users' = Succ(users)
    /\ GoTo(t, "queueing")
    /\ UNCHANGED <<ticket, pending_>>

AnyTurn(t) == TRUE                                  \* faulty MyTurn

MyTurn(t) == ticket = me[t]

Turn(t) ==
    /\ place[t] = "queueing"
    /\ MyTurn(t)
    /\ GoTo(t, "draining")
    /\ UNCHANGED <<ticket, users, pending_, me>>

\* No reader is announced any more.
Drained(t) ==
    /\ place[t] = "draining"
    /\ pending_ = 0
    /\ GoTo(t, "writing")
    /\ UNCHANGED <<ticket, users, pending_, me>>

\* unlock_writer, and mutex_.unlock() of a trylock_writer that withdraws.
ReturnTicket(t) ==
    /\ place[t] \in {"writing", "withdrawing"}
    /\ ticket' = Succ(ticket)
    /\ me' = [me EXCEPT ![t] = 0]
    /\ GoTo(t, "idle")
    /\ UNCHANGED <<users, pending_>>

\* trylock_writer: no reader is announced ...
TryWriter(t) ==
    /\ place[t] = "idle"
    /\ pending_ = 0
    /\ GoTo(t, "trying")
    /\ UNCHANGED <<ticket, users, pending_, me>>

\* ... mutex_.try_lock(): users is read ...
TryRead(t) ==
    /\ place[t] = "trying"
    /\ me' = [me EXCEPT ![t] = users]
    /\ GoTo(t, "swapping")
    /\ UNCHANGED <<ticket, users, pending_>>

\* ... and both halves are compared with it and swapped in one step ...
TryTicket(t) ==
    /\ place[t] = "swapping"
    /\ ticket = me[t]
    /\ users = me[t]
    /\ users' = Succ(users)
    /\ GoTo(t, "trying_again")
    /\ UNCHANGED <<ticket, pending_, me>>

TryFails(t) ==
    /\ place[t] = "swapping"
    /\ <<ticket, users>> # <<me[t], me[t]>>
    /\ me' = [me EXCEPT ![t] = 0]
    /\ GoTo(t, "idle")
    /\ UNCHANGED <<ticket, users, pending_>>

\* faulty TryPending: readers are not looked for a second time
TryOnce(t) ==
    /\ place[t] = "trying_again"
    /\ GoTo(t, "writing")
    /\ UNCHANGED <<ticket, users, pending_, me>>

\* faulty TryPending: the ticket is not returned
TryAndKeep(t) ==
    /\ place[t] = "trying_again"
    /\ GoTo(t, IF pending_ = 0 THEN "writing" ELSE "idle")
    /\ UNCHANGED <<ticket, users, pending_, me>>

\* ... and still no reader.
TryPending(t) ==
    /\ place[t] = "trying_again"
    /\ GoTo(t, IF pending_ = 0 THEN "writing" ELSE "withdrawing")
    /\ UNCHANGED <<ticket, users, pending_, me>>

-----------------------------------------------------------------------------
(* Readers.                                                                 *)

\* lock_reader and trylock_reader.
Announce(t) ==
    /\ place[t] = "idle"
    /\ pending_' = pending_ + 1
    /\ \E label \in {"checking", "checking_once"} : GoTo(t, label)
    /\ UNCHANGED <<ticket, users, me>>

EnterRead(t) ==
    /\ place[t] \in {"checking", "checking_once"}
    /\ ~ locked
    /\ GoTo(t, "reading")
    /\ UNCHANGED <<ticket, users, pending_, me>>

SeeWriter(t) ==
    /\ place[t] \in {"checking", "checking_once"}
    /\ locked
    /\ GoTo(t, IF place[t] = "checking" THEN "retreating" ELSE "failing")
    /\ UNCHANGED <<ticket, users, pending_, me>>

Withdraw(t) ==
    /\ place[t] \in {"retreating", "failing", "reading"}
    /\ pending_' = pending_ - 1
    /\ GoTo(t, IF place[t] = "retreating" THEN "waiting" ELSE "idle")
    /\ UNCHANGED <<ticket, users, me>>

\* faulty Again: the ticket of a writer is not waited for
AgainAtOnce(t) ==
    /\ place[t] = "waiting"
    /\ GoTo(t, "announcing")
    /\ UNCHANGED <<ticket, users, pending_, me>>

\* No writer has a ticket: announce again.
Again(t) ==
    /\ place[t] = "waiting"
    /\ ~ locked
    /\ GoTo(t, "announcing")
    /\ UNCHANGED <<ticket, users, pending_, me>>

AnnounceAgain(t) ==
    /\ place[t] = "announcing"
    /\ pending_' = pending_ + 1
    /\ GoTo(t, "checking")
    /\ UNCHANGED <<ticket, users, me>>

-----------------------------------------------------------------------------

\* A thread outside of the lock may stay there.
AskLock(t) == DrawTicket(t) \/ TryWriter(t) \/ Announce(t)

Proceed(t) ==
    \/ Turn(t) \/ Drained(t) \/ ReturnTicket(t)
    \/ TryRead(t) \/ TryTicket(t) \/ TryFails(t) \/ TryPending(t)
    \/ EnterRead(t) \/ SeeWriter(t) \/ Withdraw(t) \/ Again(t) \/ AnnounceAgain(t)

LockNext == \E t \in Locker : AskLock(t) \/ Proceed(t)

LockSpec == LockInit /\ [][LockNext]_lockVars

LockFairSpec == LockSpec /\ \A t \in Locker : WF_lockVars(Proceed(t))

-----------------------------------------------------------------------------

\* Where a thread is counted in pending_, and where it holds a ticket.
Counting == {"checking", "checking_once", "retreating", "failing", "reading"}
Holding == {"queueing", "draining", "trying_again", "withdrawing", "writing"}

Announced == {t \in Locker : place[t] \in Counting}
Ticketed == {t \in Locker : place[t] \in Holding}

LockTypeOK ==
    /\ ticket \in 0 .. Tickets - 1
    /\ users \in 0 .. Tickets - 1
    /\ pending_ = Cardinality(Announced)
    /\ me \in [Locker -> 0 .. Tickets - 1]
    /\ place \in [Locker -> {"idle", "queueing", "draining", "writing", "trying", "swapping",
                          "trying_again", "withdrawing", "checking",
                          "checking_once", "reading", "retreating", "failing",
                          "waiting", "announcing"}]

\* A thread that writes is alone: there is neither another writer nor a
\* reader, in whatever order readers announced themselves and tickets wrapped.
Exclusion ==
    \A w \in Locker : place[w] = "writing" =>
        \A t \in Locker \ {w} : place[t] \notin {"writing", "reading"}

\* The number of tickets from tk to n, around the end of the numbers.
Distance(tk, n) == IF n >= tk THEN n - tk ELSE n + Tickets - tk

\* How many turns a thread has to wait for.
Ahead(t) == Distance(ticket, me[t])

\* Writers get the lock in the order of their tickets: nobody who came later
\* overtakes, and the number of those ahead only shrinks.
FirstComeFirstServed ==
    [][\A t \in Locker :
          place[t] = "queueing" /\ place'[t] = "queueing" => Ahead(t)' <= Ahead(t)]_lockVars

\* A writer gets the lock, however many readers come and go: a reader that sees
\* a ticket withdraws, and stays away until no ticket is out.  Readers that poll
\* trylock_reader do not stay away, and have to stop for this to hold.
WriterEnters ==
    <>[](\A t \in Locker : place[t] # "checking_once") =>
        \A t \in Locker : place[t] = "queueing" ~> place[t] = "writing"

\* So does a reader that waits, if the writers stop as well: no ticket stays out, not
\* even that of a trylock_writer that found a reader.
ReaderEnters ==
    <>[](\A t \in Locker : place[t] \notin {"queueing", "trying", "checking_once"}) =>
        \A t \in Locker : place[t] = "waiting" ~> place[t] = "reading"

\* Whoever waits in lock_writer or lock_reader (rwticket.hpp:95 and :123) gets in.
LockEntered == WriterEnters /\ ReaderEnters
=============================================================================
