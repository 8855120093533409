---------------------------- MODULE MapReduceMPI ----------------------------
(* The same mappers and reducers as processes of MPI                        *)
(* (progs/expgram_bound_mpi.cpp, expgram_backward_mpi.cpp and               *)
(* expgram_counts_modify_mpi.cpp).  A device (utils/mpi_device.hpp) takes   *)
(* the place of every mapper's way to every reducer: what is written goes   *)
(* to a buffer without limit (overcommit), of which a piece is sent when it *)
(* fills a message and the message before has arrived, so that a mapper     *)
(* never waits.  At its end a mapper sends what is left and then a message  *)
(* of size zero; it is the empty context of the device's reducer.           *)
(*                                                                          *)
(* The queue of a reducer is what it has read and not handled.  It reads on *)
(* from one device until it has a whole line, and may come to wait there    *)
(* for a message.  The lines of a message are handled before another device *)
(* is read; the code leaves those it has not asked for in the stream until  *)
(* the device has its next message.  A send is complete, here, when its     *)
(* message is read; one that is complete earlier sends the next message     *)
(* earlier.  Compression is left out, as is how lines are cut into messages.*)
EXTENDS MapReduce, SequencesExt

CONSTANT BufferSize     \* how many lines fill a message

VARIABLES
    device,     \* device[m][r]: the device that m writes to and r reads from
    reading     \* reading[r]: the mapper in the midst of whose line r is, if any

mpiVars == <<device, reading>>

Opened == [buffer |-> << >>, wire |-> << >>, terminated |-> FALSE]

Devices == [m \in Mapper |-> [r \in Reducer |-> Opened]]

MPIInit ==
    /\ device = Devices
    /\ reading = [r \in Reducer |-> {}]

\* Is no message under way?
test(d) == d.wire = << >>

Smaller(i, j) == IF i < j THEN i ELSE j

\* Sends a message if there are enough lines.
flush(d, lines) ==
    IF test(d) /\ Len(d.buffer) >= lines
      THEN LET n == Smaller(BufferSize, Len(d.buffer))
           IN  [d EXCEPT !.wire = SubSeq(d.buffer, 1, n), !.buffer = SubSeq(@, n + 1, Len(@))]
      ELSE d

write(d, line) ==
    flush([flush(d, BufferSize) EXCEPT !.buffer = Append(@, line)], BufferSize)

\* The mapper writes a line, and mpi_flush_devices looks after all its devices.
Write(m) ==
    LET i == sent[m] + 1
        written(r) ==
            IF r = To[m][i] THEN write(device[m][r], Item(m, i)) ELSE device[m][r]
    IN  /\ sent[m] < Len(To[m])
        /\ sent' = [sent EXCEPT ![m] = i]
        /\ device' = [device EXCEPT ![m] =
               [r \in Reducer |-> flush(written(r), BufferSize)]]
        /\ UNCHANGED <<admitted, uncounted, queue, num_empty, stopped, popped, reading>>

FlushRest(m, r) ==
    /\ sent[m] >= Len(To[m])
    /\ test(device[m][r])
    /\ device[m][r].buffer # << >>
    /\ device' = [device EXCEPT ![m][r] = flush(@, 1)]
    /\ UNCHANGED <<vars, reading>>

TerminateFirst(m, r) ==                             \* faulty Terminate
    /\ sent[m] >= Len(To[m])
    /\ test(device[m][r])
    /\ ~ device[m][r].terminated
    /\ sent' = [sent EXCEPT ![m] = @ + 1]
    /\ device' = [device EXCEPT ![m][r].wire = <<Item(m, Len(To[m]) + r + 1)>>,
                                ![m][r].terminated = TRUE]
    /\ UNCHANGED <<admitted, uncounted, queue, num_empty, stopped, popped, reading>>

Terminate(m, r) ==
    /\ sent[m] >= Len(To[m])
    /\ test(device[m][r])
    /\ device[m][r].buffer = << >>
    /\ ~ device[m][r].terminated
    /\ sent' = [sent EXCEPT ![m] = @ + 1]
    /\ device' = [device EXCEPT ![m][r].wire = <<Item(m, Len(To[m]) + r + 1)>>,
                                ![m][r].terminated = TRUE]
    /\ UNCHANGED <<admitted, uncounted, queue, num_empty, stopped, popped, reading>>

\* The reducer turns to a device that has a message, or goes on where its line
\* was not complete.
Receive(r, m) ==
    /\ queue[r] = << >>
    /\ ~ test(device[m][r])
    /\ reading[r] \subseteq {m}
    /\ queue' = [queue EXCEPT ![r] = device[m][r].wire]
    /\ device' = [device EXCEPT ![m][r].wire = << >>]
    /\ \E rest \in IF device[m][r].terminated THEN {{}} ELSE {{}, {m}} :
          reading' = [reading EXCEPT ![r] = rest]
    /\ UNCHANGED <<sent, admitted, uncounted, num_empty, stopped, popped>>

Carry(m) ==
    \/ Write(m)
    \/ \E r \in Reducer : FlushRest(m, r) \/ Terminate(m, r) \/ Receive(r, m)

\* A reducer writes when all of them have come to their end.
Barrier == \A r \in Reducer : AllEnded(r)
=============================================================================
