----------------------- MODULE NGramCountsModifyMPI -----------------------
(* Modified counts by MPI processes (progs/expgram_counts_modify_mpi.cpp).  *)
(* The processes send and add up what the threads of NGramCountsModify do;  *)
(* but a context that is not in the index stops all of them.                *)
EXTENDS NGramCountsDump

CONSTANT BufferSize

ASSUME BufferAssumption == BufferSize \in Nat \ {0}

VARIABLES
    medium,     \* "threads", "processes", or "aborted"
    device, reading     \* of MapReduceMPI

modifyMPIVars == <<medium, device, reading>>

Processes == INSTANCE MapReduceMPI

ModifyMPIInit ==
    /\ DumpInit
    /\ medium = "threads"
    /\ Processes!MPIInit

\* The processes are started in place of the threads.
Spawn ==
    /\ medium = "threads"
    /\ phase = "modify"
    /\ \A s \in Shard : sent[s] = 0
    /\ admitted = {}
    /\ medium' = "processes"
    /\ UNCHANGED <<allVars, device, reading>>

CarryCount(s) ==
    /\ Processes!Carry(s)
    /\ UNCHANGED <<counts_modified, types, phase, dumpVars, medium>>

Unknown(s) ==
    /\ queue[s] # << >>
    /\ ~ IsEmpty(Head(queue[s]))
    /\ ~ Has(s, Received(Head(queue[s])).context)

\* "no ngram?"
AbortCount(s) ==
    /\ Unknown(s)
    /\ medium' = "aborted"
    /\ UNCHANGED <<allVars, device, reading>>

\* A reducer process does what a thread does, but for unknown contexts, and
\* writes when all of them have come to their end.
MayReduce(s) ==
    medium = "processes" => /\ ~ Unknown(s)
                            /\ AllEnded(s) => Processes!Barrier

ModifyMPINext ==
    \/ Spawn
    \/ \E s \in Shard :
          /\ medium = "processes"
          /\ CarryCount(s) \/ AbortCount(s)
    \/ \E s \in Shard :
          /\ medium = "threads"
          /\ Modifying(ModifyMap(s))
          /\ UNCHANGED modifyMPIVars
    \/ \E s \in Shard :
          /\ medium # "aborted"
          /\ MayReduce(s)
          /\ Modifying(ModifyReduce(s))
          /\ UNCHANGED modifyMPIVars
    \/ DumpingNext /\ UNCHANGED modifyMPIVars
    \/ medium = "aborted" /\ UNCHANGED <<allVars, modifyMPIVars>>

ModifyMPISpec ==
    /\ ModifyMPIInit
    /\ [][ModifyMPINext]_<<allVars, modifyMPIVars>>

\* The mapper processes and the threads, the reducers, and the dump.
ModifyMPIFairSpec ==
    /\ ModifyMPISpec
    /\ \A s \in Shard :
          /\ WF_<<allVars, modifyMPIVars>>(medium = "processes" /\ CarryCount(s))
          /\ WF_<<allVars, modifyMPIVars>>(medium = "processes" /\ AbortCount(s))
          /\ WF_<<allVars, modifyMPIVars>>(
                medium = "threads" /\ Modifying(ModifyMap(s)) /\ UNCHANGED modifyMPIVars)
          /\ WF_<<allVars, modifyMPIVars>>(
                medium # "aborted" /\ MayReduce(s) /\ Modifying(ModifyReduce(s))
                    /\ UNCHANGED modifyMPIVars)
          /\ WF_<<allVars, modifyMPIVars>>(PushContext(s) /\ UNCHANGED modifyMPIVars)
    /\ WF_<<allVars, modifyMPIVars>>(
          (Open \/ PopContext \/ PrintContext) /\ UNCHANGED modifyMPIVars)

-----------------------------------------------------------------------------

\* Is an n-gram indexed without its suffix?
Pruned == \E g \in Ngrams : Len(g) > 2 /\ Tail(g) \notin Ngrams

\* All of it comes to its end: the threads of modify and of dump, which drop
\* what is pruned, or the processes, that only a pruned suffix stops early.
ModifyEnds ==
    <>(\/ Dumped /\ \A s \in Shard : dumped[s] = Len(Dump[s])
       \/ medium = "aborted" /\ Pruned)
=============================================================================
