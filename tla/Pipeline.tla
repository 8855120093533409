------------------------------ MODULE Pipeline ------------------------------
(* expgram.py: seven programs one after the other, each of which reads what  *)
(* the one before has written, from a first to a last step; programs that    *)
(* fail, with a shell, which stops, and under PBS, which does not look; and  *)
(* further invocations that go on with the files of earlier ones, whose      *)
(* corpus and options may be others.                                         *)
(*                                                                           *)
(* A file is what of the corpus it was made from, and whether it is whole.   *)
EXTENDS Integers, FiniteSets, Sequences

CONSTANTS
    Options,        \* first, last: steps; words: "all", "cutoff", "kbest", or
                    \* "given" by --vocab; counts: --counts is given; pbs; erase
    Editions,       \* bound: how many corpora there are, one after the other
    Invocations     \* bound

ASSUME PipelineAssumption ==
    /\ Options # {}
    /\ \A o \in Options : /\ o.first \in 1..7 /\ o.last \in 1..7
                          /\ o.words \in {"all", "cutoff", "kbest", "given"}
                          /\ {o.counts, o.pbs, o.erase} \subseteq BOOLEAN
    /\ Editions \in Nat /\ Invocations \in Nat

VARIABLES
    option,         \* of this invocation
    step,           \* the step that is next; 8: the end
    course,         \* "idle", "runs", "keeps" words, "stopped" or "ended"
    disk,           \* disk[f]: of, the corpora file f comes from; whole
    edition,        \* the corpus there is
    invoked,        \* how many invocations there were
    origin          \* what the first step of this one found: of, whole

pipelineVars == <<option, step, course, disk, edition, invoked, origin>>

-----------------------------------------------------------------------------
(* The steps: what they read, and what they write.                           *)

Kept(o) == IF o.words = "kbest" THEN "best words" ELSE "frequent words"

LimitsWords(o) == o.words \in {"cutoff", "kbest"}

VocabStep == [reads |-> {"corpus"}, writes |-> "words"]

ExtractStep(o) ==
    [reads |-> {"corpus"} \cup (IF LimitsWords(o) THEN {Kept(o)} ELSE {}), writes |-> "counts"]

IndexStep(o) == [reads |-> {IF o.counts THEN "corpus" ELSE "counts"}, writes |-> "index"]

ModifyStep == [reads |-> {"index"}, writes |-> "modified"]

EstimateStep == [reads |-> {"modified"}, writes |-> "estimated"]

BackwardStep == [reads |-> {"estimated"}, writes |-> "lm"]

QuantizeStep == [reads |-> {"lm"}, writes |-> "quantized"]

StepOf(o) == <<VocabStep, ExtractStep(o), IndexStep(o), ModifyStep, EstimateStep,
               BackwardStep, QuantizeStep>>

\* What a later step reads of a step.
Result(o, n) == IF n = 1 THEN Kept(o) ELSE StepOf(o)[n].writes

Within(o, n) == o.first <= n /\ n <= o.last

Runs(o, n) ==
    /\ Within(o, n)
    /\ n = 1 => ~ o.counts /\ LimitsWords(o)
    /\ n = 2 => ~ o.counts

Found(files) ==
    [of |-> UNION {disk[f].of : f \in files}, whole |-> \A f \in files : disk[f].whole]

Missing == [of |-> {}, whole |-> FALSE]

Saved(f, file) == [g \in DOMAIN disk \cup {f} |-> IF g = f THEN file ELSE disk[g]]

-----------------------------------------------------------------------------

PipelineInit ==
    /\ option = CHOOSE o \in Options : TRUE
    /\ step = 8
    /\ course = "idle"
    /\ disk = [f \in {"corpus"} |-> [of |-> {1}, whole |-> TRUE]]
    /\ edition = 1
    /\ invoked = 0
    /\ origin = Missing

Resting == course \in {"idle", "stopped", "ended"}

\* Somebody changes the corpus, or the counts that are given.
Edit ==
    /\ Resting /\ edition < Editions
    /\ edition' = edition + 1
    /\ disk' = [disk EXCEPT !["corpus"].of = {edition'}]
    /\ UNCHANGED <<option, step, course, invoked, origin>>

\* --vocab alone is passed on as the variable that is assigned, which is None yet,
\* and ends the invocation before its first step.
Invoke(o) ==
    /\ Resting /\ invoked < Invocations
    /\ option' = o
    /\ invoked' = invoked + 1
    /\ LET ran == {n \in 1..7 : Runs(o, n)}
           reads == IF ran = {} THEN {}
                    ELSE StepOf(o)[CHOOSE n \in ran : \A m \in ran : n <= m].reads
       IN origin' = IF reads \subseteq DOMAIN disk THEN Found(reads) ELSE Missing
    /\ step' = 1
    /\ course' = IF o.words = "given" /\ ~ o.counts THEN "stopped" ELSE "runs"
    /\ UNCHANGED <<disk, edition>>

Skip ==
    /\ course = "runs" /\ step < 8 /\ ~ Runs(option, step)
    /\ step' = step + 1
    /\ UNCHANGED <<option, course, disk, edition, invoked, origin>>

Behind == IF step = 1 THEN course' = "keeps" /\ UNCHANGED step
          ELSE step' = step + 1 /\ UNCHANGED course

Succeed ==
    LET program == StepOf(option)[step]
    IN /\ course = "runs" /\ step < 8 /\ Runs(option, step)
       /\ program.reads \subseteq DOMAIN disk
       /\ disk' = Saved(program.writes, Found(program.reads))
       /\ Behind
       /\ UNCHANGED <<option, edition, invoked, origin>>

\* The status of a program is looked at by run_command, not by PBS.
NeverStops == FALSE                                 \* faulty Stops

Stops == ~ option.pbs

\* A program that fails has written nothing or a part.
Fail ==
    /\ course = "runs" /\ step < 8 /\ Runs(option, step)
    /\ \/ UNCHANGED disk
       \/ disk' = Saved(StepOf(option)[step].writes, Missing)
    /\ IF Stops THEN course' = "stopped" /\ UNCHANGED step ELSE Behind
    /\ UNCHANGED <<option, edition, invoked, origin>>

\* The words that are frequent enough.
Keep ==
    /\ course = "keeps"
    /\ IF "words" \in DOMAIN disk
       THEN /\ disk' = Saved(Kept(option), disk["words"])
            /\ course' = "runs" /\ step' = step + 1
       ELSE course' = "stopped" /\ UNCHANGED <<disk, step>>
    /\ UNCHANGED <<option, edition, invoked, origin>>

\* --erase-temporary removes three directories in this order; one that is not
\* there ends it.
EndPipeline ==
    LET erased == <<"index", "estimated", "modified">>
        n == IF \A i \in 1..3 : erased[i] \in DOMAIN disk THEN 3
             ELSE (CHOOSE i \in 1..3 : /\ erased[i] \notin DOMAIN disk
                                       /\ \A j \in 1..i - 1 : erased[j] \in DOMAIN disk) - 1
        gone == IF option.erase THEN {erased[i] : i \in 1..n} ELSE {}
    IN /\ course = "runs" /\ step = 8
       /\ disk' = [f \in DOMAIN disk \ gone |-> disk[f]]
       /\ course' = IF option.erase /\ n < 3 THEN "stopped" ELSE "ended"
       /\ UNCHANGED <<option, step, edition, invoked, origin>>

PipelineNext ==
    \/ \E o \in Options : Invoke(o)
    \/ Edit \/ Skip \/ Succeed \/ Fail \/ Keep \/ EndPipeline

PipelineStays == Resting /\ UNCHANGED pipelineVars

PipelineSpec == PipelineInit /\ [][PipelineNext]_pipelineVars

-----------------------------------------------------------------------------

\* An invocation without PBS whose first step finds whole files leaves behind it
\* whole files only, all of them made from what that step has found, wherever it
\* stops; so it can be taken up again at the step that failed, and files of an
\* earlier invocation are never taken for its own (expgram.py:118).
PipelineRight ==
    ~ option.pbs /\ origin.whole =>
      \A n \in {m \in 1..7 : m < step /\ Runs(option, m)} :
        IF Result(option, n) \in DOMAIN disk THEN disk[Result(option, n)] = origin
        ELSE step = 8 /\ option.erase
=============================================================================
