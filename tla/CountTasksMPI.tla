--------------------------- MODULE CountTasksMPI ---------------------------
(* The same tasks in the processes of MPI (MapReduceLine and MapReduceFile  *)
(* of progs/expgram_counts_extract_mpi.cpp and progs/expgram_vocab_mpi.cpp):*)
(* one task in each process, with a queue of its own for one item.  Process *)
(* 0 reads the input and gives what the others are ready for to them, lines *)
(* by devices or names of files by streams, and what its own task is ready  *)
(* for to that.                                                             *)
(*                                                                          *)
(* A stream to another process has a buffer, of which any number of lines   *)
(* may have been made a message when the message before has arrived; a send *)
(* is complete, here, when its message is read.                             *)
EXTENDS CountTasks

CONSTANT Batch      \* max_lines

VARIABLES
    lines,      \* lines[p]: those that p has read and not pushed to its queue
    device,     \* device[p]: by lines, from process 0 to p
    stream,     \* stream[p]: by files, from process 0 to p, as of MPIStream
    ended,      \* the processes that have pushed the item that ends their task
    left        \* process 0 has left its last loop

processVars == <<lines, device, stream, ended, left>>

Stream == INSTANCE MPIStream

Other == Task \ {0}

\* end: whether the empty message after the last one has been sent, and read.
Device == [buffer |-> << >>, wire |-> << >>, end |-> "none"]

MapReduceInit ==
    /\ lines = ForAll(<< >>)
    /\ device = ForAll(Device)
    /\ stream = ForAll(Stream!Opened)
    /\ ended = {}
    /\ left = FALSE

StartMapReduce ==
    /\ lines' = ForAll(<< >>)
    /\ device' = ForAll(Device)
    /\ stream' = ForAll(Stream!Opened)
    /\ ended' = {}
    /\ left' = FALSE

\* What a process may push when its queue has room for an item.
PushTo(p, item) ==
    /\ HasRoom(p)
    /\ items' = [items EXCEPT ![p] = Append(@, item)]
    /\ UNCHANGED <<job, feed, pipe, stage, counts, dumped, spilt>>

-----------------------------------------------------------------------------
(* By lines.                                                                *)

test(p) == device[p].wire = << >> /\ device[p].end # "sent"

GiveLine(p) ==
    /\ job.byline
    /\ unread # << >>
    /\ test(p)
    /\ device' = [device EXCEPT ![p].buffer = Append(@, Head(unread))]
    /\ unread' = Tail(unread)
    /\ UNCHANGED <<job, items, feed, pipe, stage, counts, dumped, spilt,
                   lines, stream, ended, left>>

KeepLine ==
    /\ job.byline
    /\ unread # << >>
    /\ Len(lines[0]) < Batch
    /\ items[0] = << >>
    /\ lines' = [lines EXCEPT ![0] = Append(@, Head(unread))]
    /\ unread' = Tail(unread)
    /\ UNCHANGED <<job, items, feed, pipe, stage, counts, dumped, spilt,
                   device, stream, ended, left>>

\* A message of some lines; of all that are left, when the input is read.
SendLines(p) ==
    /\ test(p)
    /\ \E n \in 1 .. Len(device[p].buffer) :
          /\ unread = << >> => n = Len(device[p].buffer)
          /\ device' = [device EXCEPT ![p].wire = SubSeq(device[p].buffer, 1, n),
                                      ![p].buffer = SubSeq(@, n + 1, Len(@))]
    /\ UNCHANGED <<taskVars, lines, stream, ended, left>>

\* mpi_terminate_devices: an empty message after the last.
TerminateDevice(p) ==
    /\ job.byline
    /\ unread = << >>
    /\ device[p].buffer = << >>
    /\ device[p].wire = << >>
    /\ device[p].end = "none"
    /\ device' = [device EXCEPT ![p].end = "sent"]
    /\ UNCHANGED <<taskVars, lines, stream, ended, left>>

\* Another process reads on when it has pushed all the batches it has read.
ReceiveLines(p) ==
    /\ ~ test(p)
    /\ Len(lines[p]) < Batch
    /\ lines' = [lines EXCEPT ![p] = @ \o device[p].wire]
    /\ device' = [device EXCEPT ![p].wire = << >>,
                                ![p].end = IF @ = "sent" THEN "read" ELSE @]
    /\ UNCHANGED <<taskVars, stream, ended, left>>

\* The input of p has come to its end.
AtEnd(p) ==
    IF p = 0 THEN unread = << >>
             ELSE device[p].end = "read" \/ stream[p].in = "closed"

\* A full batch, or the rest of the lines.
Pushable(p) == lines[p] # << >> /\ (Len(lines[p]) >= Batch \/ AtEnd(p))

PushLines(p) ==
    LET n == IF Len(lines[p]) < Batch THEN Len(lines[p]) ELSE Batch
    IN  /\ job.byline
        /\ Pushable(p)
        /\ PushTo(p, SubSeq(lines[p], 1, n))
        /\ lines' = [lines EXCEPT ![p] = SubSeq(@, n + 1, Len(@))]
        /\ UNCHANGED <<unread, device, stream, ended, left>>

-----------------------------------------------------------------------------
(* By files.                                                                *)

GiveFile(p) ==
    /\ ~ job.byline
    /\ unread # << >>
    /\ Stream!Writable(stream[p])
    /\ stream' = [stream EXCEPT ![p] = Stream!Write(@, Head(unread))]
    /\ unread' = Tail(unread)
    /\ UNCHANGED <<job, items, feed, pipe, stage, counts, dumped, spilt,
                   lines, device, ended, left>>

KeepFile ==
    /\ ~ job.byline
    /\ unread # << >>
    /\ items[0] = << >>
    /\ PushTo(0, Head(unread))
    /\ unread' = Tail(unread)
    /\ UNCHANGED processVars

\* Another process pushes the file it has read, waits until its task has taken
\* it, and only then tells process 0 that it is ready.
ReadFile(p) ==
    /\ Stream!Readable(stream[p])
    /\ lines[p] = << >>
    /\ PushTo(p, stream[p].data)
    /\ lines' = [lines EXCEPT ![p] = stream[p].data]
    /\ UNCHANGED <<unread, device, stream, ended, left>>

Ready(p) ==
    /\ ~ job.byline
    /\ lines[p] # << >>
    /\ items[p] = << >>
    /\ lines' = [lines EXCEPT ![p] = << >>]
    /\ stream' = [stream EXCEPT ![p] = Stream!Read(@)]
    /\ UNCHANGED <<taskVars, device, ended, left>>

TerminateStream(p) ==
    /\ ~ job.byline
    /\ unread = << >>
    /\ Stream!Writable(stream[p])
    /\ stream' = [stream EXCEPT ![p] = Stream!Terminate(@)]
    /\ UNCHANGED <<taskVars, lines, device, ended, left>>

ReadLast(p) ==
    /\ Stream!Ended(stream[p])
    /\ stream' = [stream EXCEPT ![p] = Stream!Close(@)]
    /\ UNCHANGED <<taskVars, lines, device, ended, left>>

-----------------------------------------------------------------------------
(* The end.                                                                 *)

\* By lines, process 0 of the program that counts words does not remember that
\* it has pushed the end: it pushes it whenever there is room, until it leaves.
Forgets == job.byline /\ ~ job.extracts

PushEnd(p) ==
    /\ AtEnd(p)
    /\ lines[p] = << >>
    /\ IF p = 0 /\ Forgets THEN ~ left ELSE p \notin ended
    /\ PushTo(p, Empty)
    /\ ended' = ended \union {p}
    /\ UNCHANGED <<unread, lines, device, stream, left>>

\* The devices are gone; or the streams, when the other processes have told how
\* many files they had.
Gone(p) ==
    IF job.byline THEN device[p].end = "read"
                  ELSE stream[p].out = "terminated" /\ stage[p] = "ended"

\* Process 0 goes on to wait for its task; the program that counts words does
\* so even if there was no room for the end.
Leave ==
    /\ ~ left
    /\ AtEnd(0)
    /\ lines[0] = << >>
    /\ 0 \in ended \/ (Forgets /\ ~ HasRoom(0))
    /\ \A p \in Other : Gone(p)
    /\ left' = TRUE
    /\ UNCHANGED <<taskVars, lines, device, stream, ended>>

Distribute ==
    /\ job.medium = "processes"
    /\ \/ KeepLine \/ KeepFile \/ Leave
       \/ \E p \in Task : PushLines(p) \/ PushEnd(p)
       \/ \E p \in Other : \/ GiveLine(p) \/ SendLines(p) \/ TerminateDevice(p)
                           \/ ReceiveLines(p)
                           \/ GiveFile(p) \/ ReadFile(p) \/ Ready(p)
                           \/ TerminateStream(p) \/ ReadLast(p)
=============================================================================
