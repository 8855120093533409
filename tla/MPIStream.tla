---------------------------- MODULE MPIStream ----------------------------
(* One direction between two processes: an mpi_ostream at one end and an    *)
(* mpi_istream at the other (utils/mpi_stream.hpp).  The size of the data,  *)
(* the data and an acknowledgement travel as messages of their own; the     *)
(* writer does not start a second write before the first is acknowledged,   *)
(* so that one write at most is under way, and a size of -1 is the end.     *)
(* The acknowledgement is sent by read(), and is counted here as received   *)
(* by then: a writer that learns of it later only writes later.             *)
EXTENDS Sequences

Opened == [out |-> "ready", in |-> "open", data |-> << >>]

\* ostream.test(): nothing is under way, and the stream is not terminated.
Writable(stream) == stream.out = "ready"

Write(stream, data) == [stream EXCEPT !.out = "unacknowledged", !.data = data]

\* terminate(); the writer only deletes the stream after that.
Terminate(stream) == [stream EXCEPT !.out = "terminated"]

\* istream.test() and read() with data.
Readable(stream) == stream.out = "unacknowledged"

Read(stream) == [stream EXCEPT !.out = "ready", !.data = << >>]

\* istream.test() and read() of the end, which closes the reader.
Ended(stream) == stream.out = "terminated" /\ stream.in = "open"

Close(stream) == [stream EXCEPT !.in = "closed"]
=============================================================================
