----------------------------- MODULE CountTasks -----------------------------
(* Counting by tasks (TaskLine and TaskFile of                              *)
(* progs/expgram_counts_extract_impl.hpp and progs/expgram_vocab_impl.hpp,  *)
(* with accumulate_counts and accumulate_corpus of                          *)
(* progs/expgram_counts_extract.cpp and progs/expgram_vocab.cpp).           *)
(*                                                                          *)
(* The main thread pushes batches of lines, or whole files, to one queue    *)
(* that all tasks pop from, and then an empty item for each task.  A task   *)
(* counts the lines of what it pops.  When memory runs short, and at its    *)
(* end, an extracting task dumps its counts to new files.  With a filter    *)
(* (utils/subprocess.hpp) a thread of the task's own writes what it pops to *)
(* the standard input of a child process, and the task counts the lines     *)
(* that come from its standard output.  The children inherit the pipes of   *)
(* those that were started before them, so that a child reads the end of    *)
(* its input only when the later ones are gone.                             *)
(*                                                                          *)
(* A line is stood for by the bag of what is counted in it; the filter      *)
(* passes lines on as they are.  The two pipes of a child and what it holds *)
(* are one.                                                                 *)
EXTENDS Integers, SequencesExt, Bags

CONSTANTS
    Tasks,      \* the number of tasks: threads, or processes with one task each
    PipeSize,   \* how many lines are on their way through a child
    Spills      \* how often memory runs short, at most

Task == 0 .. Tasks - 1

VARIABLES
    job,        \* what is being counted: its items, and how
    unread,     \* the items that the main thread has yet to push
    items,      \* items[q]: the items pushed to queue q and not popped
    feed,       \* feed[t]: the lines popped for the child of t and not yet written
    pipe,       \* pipe[t]: the lines on their way through that child
    stage,      \* stage[t]: "counting"; "closed" and "exited" of its child; "ended"
    counts,     \* counts[t]: the counts that t holds
    dumped,     \* dumped[t]: the counts that it has dumped, one after the other
    spilt       \* how often memory has run short

taskVars == <<job, unread, items, feed, pipe, stage, counts, dumped, spilt>>

Empty == << >>      \* the item that ends a task

NoJob == [extracts |-> FALSE, medium |-> "threads", byline |-> FALSE,
          filtered |-> FALSE, room |-> 1]

ForAll(x) == [t \in Task |-> x]

TasksInit ==
    /\ job = NoJob
    /\ unread = << >>
    /\ items = ForAll(<< >>)
    /\ feed = ForAll(<< >>)
    /\ pipe = ForAll(<< >>)
    /\ stage = ForAll("ended")
    /\ counts = ForAll(EmptyBag)
    /\ dumped = ForAll(<< >>)
    /\ spilt = 0

\* Threads share a queue, and a process has its own.
QueueOf(t) == IF job.medium = "threads" THEN 0 ELSE t

-----------------------------------------------------------------------------
(* The main thread.                                                         *)

OneEnd(work) == Append(work, Empty)                 \* faulty Ends

\* One empty item for each task.
Ends(work) == work \o [i \in 1 .. Tasks |-> Empty]

StartTasks(what, work) ==
    /\ job' = what
    /\ unread' = work
    /\ items' = ForAll(<< >>)
    /\ stage' = ForAll("counting")
    /\ UNCHANGED <<feed, pipe, counts, spilt>>

HasRoom(q) == Len(items[q]) < job.room

PushItem ==
    /\ job.medium = "threads"
    /\ unread # << >>
    /\ HasRoom(0)
    /\ items' = [items EXCEPT ![0] = Append(@, Head(unread))]
    /\ unread' = Tail(unread)
    /\ UNCHANGED <<job, feed, pipe, stage, counts, dumped, spilt>>

-----------------------------------------------------------------------------
(* A task.                                                                  *)

Popped(t) == [items EXCEPT ![QueueOf(t)] = Tail(@)]

Oldest(t) == Head(items[QueueOf(t)])

Added(bag, lines) == FoldLeft(LAMBDA sum, line : sum (+) line, bag, lines)

KeepsDumped(t, lines) == counts[t]                  \* faulty AfterDump

\* counts.clear()
AfterDump(t, lines) == Added(EmptyBag, lines)

\* Memory may have run short when a line is counted.
CountLines(t, lines) ==
    \/ /\ counts' = [counts EXCEPT ![t] = Added(@, lines)]
       /\ UNCHANGED <<dumped, spilt>>
    \/ /\ job.extracts
       /\ spilt < Spills
       /\ spilt' = spilt + 1
       /\ \E i \in 1 .. Len(lines) :
             /\ dumped' = [dumped EXCEPT ![t] =
                    Append(@, Added(counts[t], SubSeq(lines, 1, i)))]
             /\ counts' = [counts EXCEPT ![t] =
                    AfterDump(t, SubSeq(lines, i + 1, Len(lines)))]

\* What is left is dumped at the end; a task for the vocabulary leaves its
\* counts to the main thread.
EndTask(t) ==
    /\ stage' = [stage EXCEPT ![t] = "ended"]
    /\ dumped' = IF counts[t] = EmptyBag THEN dumped
                   ELSE [dumped EXCEPT ![t] = Append(@, counts[t])]
    /\ counts' = [counts EXCEPT ![t] = EmptyBag]
    /\ UNCHANGED spilt

Take(t) ==
    /\ stage[t] = "counting"
    /\ ~ job.filtered
    /\ items[QueueOf(t)] # << >>
    /\ items' = Popped(t)
    /\ IF Oldest(t) = Empty THEN EndTask(t)
                           ELSE CountLines(t, Oldest(t)) /\ UNCHANGED stage
    /\ UNCHANGED <<job, unread, feed, pipe>>

\* The thread that writes to the child.
Feed(t) ==
    /\ stage[t] = "counting"
    /\ job.filtered
    /\ feed[t] = << >>
    /\ items[QueueOf(t)] # << >>
    /\ items' = Popped(t)
    /\ feed' = [feed EXCEPT ![t] = Oldest(t)]
    /\ stage' = [stage EXCEPT ![t] = IF Oldest(t) = Empty THEN "closed" ELSE @]
    /\ UNCHANGED <<job, unread, pipe, counts, dumped, spilt>>

WriteLine(t) ==
    /\ feed[t] # << >>
    /\ Len(pipe[t]) < PipeSize
    /\ pipe' = [pipe EXCEPT ![t] = Append(@, Head(feed[t]))]
    /\ feed' = [feed EXCEPT ![t] = Tail(@)]
    /\ UNCHANGED <<job, unread, items, stage, counts, dumped, spilt>>

\* The child ends: nobody can write to it any more.
Exit(t) ==
    /\ stage[t] = "closed"
    /\ job.medium = "threads" =>
          \A later \in t + 1 .. Tasks - 1 : stage[later] \in {"exited", "ended"}
    /\ stage' = [stage EXCEPT ![t] = "exited"]
    /\ UNCHANGED <<job, unread, items, feed, pipe, counts, dumped, spilt>>

ReadLine(t) ==
    /\ pipe[t] # << >>
    /\ pipe' = [pipe EXCEPT ![t] = Tail(@)]
    /\ CountLines(t, <<Head(pipe[t])>>)
    /\ UNCHANGED <<job, unread, items, feed, stage>>

ReadEnd(t) ==
    /\ stage[t] = "exited"
    /\ pipe[t] = << >>
    /\ EndTask(t)
    /\ UNCHANGED <<job, unread, items, feed, pipe>>

Work(t) ==
    \/ Take(t)
    \/ Feed(t)
    \/ WriteLine(t)
    \/ Exit(t)
    \/ ReadLine(t)
    \/ ReadEnd(t)

AllEnded == \A t \in Task : stage[t] = "ended"
=============================================================================
