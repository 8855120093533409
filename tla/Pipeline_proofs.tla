-------------------------- MODULE Pipeline_proofs --------------------------
(* What expgram.py promises of a series of invocations, proved for every set *)
(* of options, any number of invocations and of editions of the corpus.      *)
EXTENDS Pipeline, TLAPS

File == [of : SUBSET Nat, whole : BOOLEAN]

Files(d) == d = [f \in DOMAIN d |-> d[f]] /\ \A f \in DOMAIN d : d[f] \in File

\* The invocation is one that PipelineRight is about.
Honest == ~ option.pbs /\ origin.whole

\* Step k reads what the first step of the invocation has found.
Fed(k) ==
    /\ StepOf(option)[k].reads \subseteq DOMAIN disk
    /\ Found(StepOf(option)[k].reads) = origin

\* Step k is the next one with a program.
Upcoming(k) == Runs(option, k) /\ \A m \in step .. k - 1 : ~ Runs(option, m)

PipelineTyping ==
    /\ option \in Options
    /\ step \in 1 .. 8
    /\ course \in {"idle", "runs", "keeps", "stopped", "ended"}
    /\ Files(disk)
    /\ edition \in Nat
    /\ origin \in File

\* The next program reads what the first one has found.
FedInv == Honest /\ course = "runs" => \A k \in step .. 7 : Upcoming(k) => Fed(k)

\* Between the first program and what is kept of its words.
KeepInv ==
    course = "keeps" =>
        /\ step = 1 /\ Runs(option, 1)
        /\ Honest => /\ {"words", "corpus"} \subseteq DOMAIN disk
                     /\ disk["words"] = origin /\ disk["corpus"] = origin

PipelineInv == PipelineTyping /\ FedInv /\ KeepInv /\ PipelineRight

-----------------------------------------------------------------------------
(* The seven steps.                                                          *)

LEMMA Steps ==
    ASSUME NEW o
    PROVE  /\ StepOf(o)[1] = VocabStep
           /\ StepOf(o)[2] = ExtractStep(o)
           /\ StepOf(o)[3] = IndexStep(o)
           /\ StepOf(o)[4] = ModifyStep
           /\ StepOf(o)[5] = EstimateStep
           /\ StepOf(o)[6] = BackwardStep
           /\ StepOf(o)[7] = QuantizeStep
BY DEF StepOf

LEMMA Writes ==
    ASSUME NEW o
    PROVE  /\ StepOf(o)[1].writes = "words"
           /\ StepOf(o)[2].writes = "counts"
           /\ StepOf(o)[3].writes = "index"
           /\ StepOf(o)[4].writes = "modified"
           /\ StepOf(o)[5].writes = "estimated"
           /\ StepOf(o)[6].writes = "lm"
           /\ StepOf(o)[7].writes = "quantized"
<1>1. StepOf(o)[1].writes = "words"
  BY Steps DEF VocabStep
<1>2. StepOf(o)[2].writes = "counts"
  <2>1. StepOf(o)[2] = ExtractStep(o)
    BY Steps
  <2>2. QED
    BY <2>1 DEF ExtractStep
<1>3. StepOf(o)[3].writes = "index"
  <2>1. StepOf(o)[3] = IndexStep(o)
    BY Steps
  <2>2. QED
    BY <2>1 DEF IndexStep
<1>4. StepOf(o)[4].writes = "modified"
  BY Steps DEF ModifyStep
<1>5. StepOf(o)[5].writes = "estimated"
  BY Steps DEF EstimateStep
<1>6. StepOf(o)[6].writes = "lm"
  BY Steps DEF BackwardStep
<1>7. StepOf(o)[7].writes = "quantized"
  BY Steps DEF QuantizeStep
<1>8. QED
  BY <1>1, <1>2, <1>3, <1>4, <1>5, <1>6, <1>7

LEMMA Reads ==
    ASSUME NEW o
    PROVE  /\ StepOf(o)[1].reads = {"corpus"}
           /\ StepOf(o)[2].reads = {"corpus"} \cup (IF LimitsWords(o) THEN {Kept(o)} ELSE {})
           /\ StepOf(o)[3].reads = {IF o.counts THEN "corpus" ELSE "counts"}
           /\ StepOf(o)[4].reads = {"index"}
           /\ StepOf(o)[5].reads = {"modified"}
           /\ StepOf(o)[6].reads = {"estimated"}
           /\ StepOf(o)[7].reads = {"lm"}
<1>1. StepOf(o)[1].reads = {"corpus"}
  BY Steps DEF VocabStep
<1>2. StepOf(o)[2].reads = {"corpus"} \cup (IF LimitsWords(o) THEN {Kept(o)} ELSE {})
  <2>1. StepOf(o)[2] = ExtractStep(o)
    BY Steps
  <2>2. QED
    BY <2>1 DEF ExtractStep
<1>3. StepOf(o)[3].reads = {IF o.counts THEN "corpus" ELSE "counts"}
  <2>1. StepOf(o)[3] = IndexStep(o)
    BY Steps
  <2>2. QED
    BY <2>1 DEF IndexStep
<1>4. StepOf(o)[4].reads = {"index"}
  BY Steps DEF ModifyStep
<1>5. StepOf(o)[5].reads = {"modified"}
  BY Steps DEF EstimateStep
<1>6. StepOf(o)[6].reads = {"estimated"}
  BY Steps DEF BackwardStep
<1>7. StepOf(o)[7].reads = {"lm"}
  BY Steps DEF QuantizeStep
<1>8. QED
  BY <1>1, <1>2, <1>3, <1>4, <1>5, <1>6, <1>7

LEMMA KeptIs ==
    ASSUME NEW o
    PROVE  Kept(o) \in {"best words", "frequent words"}
BY DEF Kept

\* No step writes over the result of an earlier one.
LEMMA WritesApart ==
    ASSUME NEW o, NEW n \in 1 .. 7, NEW m \in 1 .. n - 1
    PROVE  Result(o, m) # StepOf(o)[n].writes
<1>1. CASE m = 1
  <2>1. Result(o, m) \in {"best words", "frequent words"}
    BY <1>1, KeptIs DEF Result
  <2>2. n \in {2, 3, 4, 5, 6, 7}
    OBVIOUS
  <2>3. StepOf(o)[n].writes \in {"counts", "index", "modified", "estimated", "lm", "quantized"}
    BY <2>2, Writes
  <2>4. QED
    BY <2>1, <2>3
<1>2. CASE m # 1
  <2>1. Result(o, m) = StepOf(o)[m].writes
    BY <1>2 DEF Result
  <2>2. /\ m \in {2, 3, 4, 5, 6} /\ n \in {3, 4, 5, 6, 7} /\ m # n
    BY <1>2
  <2>3. QED
    BY <2>1, <2>2, Writes
<1>3. QED
  BY <1>1, <1>2

\* Behind the second step each program reads what the one before has written.
LEMMA ReadsResult ==
    ASSUME NEW o, NEW n \in 2 .. 6, Runs(o, n), Runs(o, n + 1)
    PROVE  StepOf(o)[n + 1].reads = {StepOf(o)[n].writes}
<1>1. n = 2 => ~ o.counts
  BY DEF Runs
<1>2. n \in {2, 3, 4, 5, 6}
  OBVIOUS
<1>3. QED
  BY <1>1, <1>2, Reads, Writes

\* No step is left out between two programs.
LEMMA RunsOn ==
    ASSUME PipelineAssumption, NEW o \in Options, NEW n \in 1 .. 7, Runs(o, n),
           NEW k \in n + 1 .. 7, Runs(o, k)
    PROVE  Runs(o, n + 1)
<1>1. o.first <= n /\ k <= o.last /\ o.first \in Int /\ o.last \in Int
  BY DEF PipelineAssumption, Runs, Within
<1>2. Within(o, n + 1)
  BY <1>1 DEF Within
<1>3. n + 1 # 1
  OBVIOUS
<1>4. n + 1 = 2 => ~ o.counts
  <2>1. n + 1 = 2 => n = 1
    OBVIOUS
  <2>2. QED
    BY <2>1 DEF Runs
<1>5. QED
  BY <1>2, <1>3, <1>4 DEF Runs

-----------------------------------------------------------------------------
(* Files.                                                                    *)

MadeOf(d, files) == [of |-> UNION {d[f].of : f \in files}, whole |-> \A f \in files : d[f].whole]

\* What a program makes of one file.
LEMMA FoundOne ==
    ASSUME NEW d, NEW f, d[f] \in File
    PROVE  MadeOf(d, {f}) = d[f]
<1>1. PICK a \in SUBSET Nat, b \in BOOLEAN : d[f] = [of |-> a, whole |-> b]
  BY DEF File
<1>2. UNION {d[g].of : g \in {f}} = a
  BY <1>1
<1>3. (\A g \in {f} : d[g].whole) = b
  <2>1. d[f].whole = b
    BY <1>1
  <2>2. CASE b = TRUE
    BY <2>1, <2>2
  <2>3. CASE b = FALSE
    BY <2>1, <2>3
  <2>4. QED
    BY <2>2, <2>3
<1>4. QED
  BY <1>1, <1>2, <1>3 DEF MadeOf

\* What a program makes of two files that have come from the same.
LEMMA FoundTwo ==
    ASSUME NEW d, NEW f, NEW g, d[f] \in File, d[f] = d[g]
    PROVE  MadeOf(d, {f} \cup {g}) = d[f]
<1>1. PICK a \in SUBSET Nat, b \in BOOLEAN : d[f] = [of |-> a, whole |-> b]
  BY DEF File
<1>4. \A h \in {f} \cup {g} : d[h] = d[f]
  OBVIOUS
<1>2. UNION {d[h].of : h \in {f} \cup {g}} = a
  <2>1. \A h \in {f} \cup {g} : d[h].of = a
    BY <1>1, <1>4
  <2>2. QED
    BY <2>1
<1>3. (\A h \in {f} \cup {g} : d[h].whole) = b
  <2>1. \A h \in {f} \cup {g} : d[h].whole = b
    BY <1>1, <1>4
  <2>2. CASE b = TRUE
    BY <2>1, <2>2
  <2>3. CASE b = FALSE
    BY <2>1, <2>3
  <2>4. QED
    BY <2>2, <2>3
<1>5. QED
  BY <1>1, <1>2, <1>3 DEF MadeOf

LEMMA FoundType ==
    ASSUME NEW files, files \subseteq DOMAIN disk, \A f \in DOMAIN disk : disk[f] \in File
    PROVE  Found(files) \in File
<1>1. \A f \in files : disk[f].of \in SUBSET Nat
  BY DEF File
<1>2. UNION {disk[f].of : f \in files} \in SUBSET Nat
  BY <1>1
<1>3. (\A f \in files : disk[f].whole) \in BOOLEAN
  OBVIOUS
<1>4. QED
  BY <1>2, <1>3 DEF Found, File

LEMMA MissingType == Missing \in File
BY DEF Missing, File

-----------------------------------------------------------------------------
(* The steps of the script.                                                  *)

LEMMA PipelineStarts ==
    ASSUME PipelineAssumption, PipelineInit
    PROVE  PipelineInv
<1>1. option \in Options
  BY DEF PipelineInit, PipelineAssumption
<1>2. PipelineTyping
  <2>1. [of |-> {1}, whole |-> TRUE] \in File /\ origin \in File
    BY MissingType DEF PipelineInit, File
  <2>2. DOMAIN disk = {"corpus"} /\ disk["corpus"] = [of |-> {1}, whole |-> TRUE]
    BY DEF PipelineInit
  <2>3. disk = [f \in DOMAIN disk |-> disk[f]]
    BY <2>2 DEF PipelineInit
  <2>4. \A f \in DOMAIN disk : disk[f] \in File
    BY <2>1, <2>2
  <2>5. QED
    BY <1>1, <2>1, <2>3, <2>4 DEF PipelineInit, PipelineTyping, Files
<1>3. ~ Honest
  BY DEF PipelineInit, Missing, Honest
<1>4. course = "idle"
  BY DEF PipelineInit
<1>5. QED
  BY <1>2, <1>3, <1>4 DEF PipelineInv, FedInv, KeepInv, PipelineRight, Honest

LEMMA EditKeeps ==
    ASSUME PipelineInv, Edit
    PROVE  PipelineInv'
<1>1. PipelineTyping
  BY DEF PipelineInv
<1>2. /\ course' \in {"idle", "stopped", "ended"}
      /\ DOMAIN disk' = DOMAIN disk
      /\ disk' = [disk EXCEPT !["corpus"].of = {edition'}]
      /\ edition' \in Nat
      /\ UNCHANGED <<option, step, course, origin>>
  BY <1>1 DEF Edit, Resting, PipelineTyping
<1>3. \A f \in DOMAIN disk' : f # "corpus" => disk'[f] = disk[f]
  BY <1>1, <1>2 DEF PipelineTyping, Files
<1>4. "corpus" \in DOMAIN disk' => disk'["corpus"] \in File
  <2> HAVE "corpus" \in DOMAIN disk'
  <2>1. PICK a \in SUBSET Nat, b \in BOOLEAN : disk["corpus"] = [of |-> a, whole |-> b]
    BY <1>1, <1>2 DEF PipelineTyping, Files, File
  <2>2. disk'["corpus"] = [of |-> {edition'}, whole |-> b]
    BY <1>1, <1>2, <2>1 DEF PipelineTyping, Files
  <2>3. QED
    BY <1>2, <2>2 DEF File
<1>5. PipelineTyping'
  <2>1. disk' = [f \in DOMAIN disk' |-> disk'[f]]
    BY <1>1, <1>2 DEF PipelineTyping, Files
  <2>2. \A f \in DOMAIN disk' : disk'[f] \in File
    BY <1>1, <1>2, <1>3, <1>4 DEF PipelineTyping, Files
  <2>3. QED
    BY <1>1, <1>2, <2>1, <2>2 DEF PipelineTyping, Files
<1>6. PipelineRight'
  <2>1. \A n \in 1 .. 7 : Result(option, n) # "corpus"
    <3> TAKE n \in 1 .. 7
    <3>1. CASE n = 1
      BY <3>1, KeptIs DEF Result
    <3>2. CASE n # 1
      <4>1. n \in {2, 3, 4, 5, 6, 7} /\ Result(option, n) = StepOf(option)[n].writes
        BY <3>2 DEF Result
      <4>2. QED
        BY <4>1, Writes
    <3>3. QED
      BY <3>1, <3>2
  <2>2. SUFFICES ASSUME ~ option.pbs, origin.whole,
                        NEW n \in {m \in 1 .. 7 : m < step /\ Runs(option, m)}
                 PROVE  IF Result(option, n) \in DOMAIN disk
                          THEN disk'[Result(option, n)] = origin
                          ELSE step = 8 /\ option.erase
    BY <1>2 DEF PipelineRight, Runs, Within, Result, Kept, StepOf, LimitsWords, VocabStep,
                ExtractStep, IndexStep, ModifyStep, EstimateStep, BackwardStep, QuantizeStep
  <2>3. IF Result(option, n) \in DOMAIN disk THEN disk[Result(option, n)] = origin
                                             ELSE step = 8 /\ option.erase
    BY <2>2 DEF PipelineInv, PipelineRight
  <2>4. QED
    BY <1>2, <1>3, <2>1, <2>2, <2>3
<1>7. FedInv' /\ KeepInv'
  BY <1>2 DEF FedInv, KeepInv
<1>8. QED
  BY <1>5, <1>6, <1>7 DEF PipelineInv

LEMMA InvokeKeeps ==
    ASSUME PipelineInv, NEW o \in Options, Invoke(o)
    PROVE  PipelineInv'
<1> DEFINE ran == {n \in 1 .. 7 : Runs(o, n)}
           reads == IF ran = {} THEN {}
                    ELSE StepOf(o)[CHOOSE n \in ran : \A m \in ran : n <= m].reads
<1>1. /\ option' = o /\ step' = 1 /\ course' \in {"stopped", "runs"}
      /\ origin' = IF reads \subseteq DOMAIN disk THEN Found(reads) ELSE Missing
      /\ UNCHANGED <<disk, edition>>
  BY DEF Invoke
<1>2. PipelineTyping
  BY DEF PipelineInv
<1>3. PipelineTyping'
  <2>1. origin' \in File
    <3>1. CASE reads \subseteq DOMAIN disk
      <4> HIDE DEF reads
      <4>1. origin' = Found(reads)
        BY <1>1, <3>1
      <4>2. \A f \in DOMAIN disk : disk[f] \in File
        BY <1>2 DEF PipelineTyping, Files
      <4>3. QED
        BY <3>1, <4>1, <4>2, FoundType
    <3>2. CASE ~ (reads \subseteq DOMAIN disk)
      <4> HIDE DEF reads
      <4>1. QED
        BY <1>1, <3>2, MissingType
    <3>3. QED
      BY <3>1, <3>2
  <2> HIDE DEF reads, ran
  <2>2. QED
    BY <1>1, <1>2, <2>1 DEF PipelineTyping, Files
<1>4. FedInv'
  <2>1. SUFFICES ASSUME origin'.whole, NEW k \in 1 .. 7, Runs(o, k),
                        \A m \in 1 .. k - 1 : ~ Runs(o, m)
                 PROVE  Fed(k)'
    BY <1>1 DEF FedInv, Honest, Upcoming, Runs, Within, LimitsWords
  <2>2. k \in ran /\ \A m \in ran : k <= m
    <3>1. \A m \in ran : m \in 1 .. 7 /\ Runs(o, m)
      OBVIOUS
    <3>2. \A m \in 1 .. 7 : m < k => m \in 1 .. k - 1
      OBVIOUS
    <3>3. \A m \in 1 .. 7 : m < k \/ k <= m
      OBVIOUS
    <3>4. QED
      BY <2>1, <3>1, <3>2, <3>3
  <2>3. (CHOOSE n \in ran : \A m \in ran : n <= m) = k
    <3>1. \A n \in ran : (\A m \in ran : n <= m) => n = k
      <4>1. \A n \in ran : n \in Int
        OBVIOUS
      <4>2. QED
        BY <2>2, <4>1
    <3> HIDE DEF ran
    <3>2. QED
      BY <2>2, <3>1
  <2>4. reads = StepOf(o)[k].reads
    BY <2>2, <2>3
  <2> HIDE DEF ran, reads
  <2>5. reads \subseteq DOMAIN disk
    BY <1>1, <2>1 DEF Missing
  <2>6. origin' = Found(StepOf(o)[k].reads)
    BY <1>1, <2>4, <2>5
  <2>7. StepOf(option)' = StepOf(o)
    BY <1>1 DEF StepOf, VocabStep, ExtractStep, IndexStep, ModifyStep, EstimateStep,
                BackwardStep, QuantizeStep, LimitsWords, Kept
  <2>8. StepOf(option')[k] = StepOf(o)[k]
    BY <1>1
  <2>9. QED
    BY <1>1, <2>4, <2>5, <2>6, <2>8 DEF Fed, Found
<1>5. PipelineRight' /\ KeepInv'
  BY <1>1 DEF PipelineRight, KeepInv
<1>6. QED
  BY <1>3, <1>4, <1>5 DEF PipelineInv

LEMMA SkipKeeps ==
    ASSUME PipelineInv, Skip
    PROVE  PipelineInv'
<1>1. /\ course = "runs" /\ step \in 1 .. 7 /\ ~ Runs(option, step)
      /\ step' = step + 1
      /\ UNCHANGED <<option, course, disk, edition, invoked, origin>>
  BY DEF Skip, PipelineInv, PipelineTyping
<1>2. PipelineTyping'
  <2>1. step' \in 1 .. 8
    BY <1>1
  <2>2. QED
    BY <1>1, <2>1 DEF PipelineInv, PipelineTyping, Files
<1>3. FedInv'
  <2>1. SUFFICES ASSUME Honest, NEW k \in step + 1 .. 7, Runs(option, k),
                        \A m \in step + 1 .. k - 1 : ~ Runs(option, m)
                 PROVE  Fed(k)
    BY <1>1 DEF FedInv, Honest, Upcoming, Fed, Found
  <2>2. \A m \in step .. k - 1 : m = step \/ m \in step + 1 .. k - 1
    BY <1>1
  <2>3. k \in step .. 7 /\ Upcoming(k)
    BY <1>1, <2>1, <2>2 DEF Upcoming
  <2>4. QED
    BY <1>1, <2>1, <2>3 DEF PipelineInv, FedInv
<1>4. KeepInv'
  BY <1>1 DEF KeepInv
<1>5. PipelineRight'
  <2>1. SUFFICES ASSUME ~ option.pbs, origin.whole,
                        NEW n \in 1 .. 7, n < step + 1, Runs(option, n)
                 PROVE  Result(option, n) \in DOMAIN disk /\ disk[Result(option, n)] = origin
    BY <1>1 DEF PipelineRight
  <2>2. n # step
    BY <1>1, <2>1
  <2>3. n < step /\ step # 8
    BY <1>1, <2>1, <2>2
  <2>4. QED
    BY <2>1, <2>3 DEF PipelineInv, PipelineRight
<1>6. QED
  BY <1>2, <1>3, <1>4, <1>5 DEF PipelineInv

LEMMA SucceedKeeps ==
    ASSUME PipelineAssumption, PipelineInv, Succeed
    PROVE  PipelineInv'
<1> DEFINE w == StepOf(option)[step].writes
           reads == StepOf(option)[step].reads
<1>1. /\ course = "runs" /\ step \in 1 .. 7 /\ Runs(option, step)
      /\ reads \subseteq DOMAIN disk
      /\ disk' = Saved(w, Found(reads))
      /\ Behind
      /\ UNCHANGED <<option, edition, invoked, origin>>
  BY DEF Succeed, PipelineInv, PipelineTyping
<1>2. /\ option \in Options /\ origin \in File
      /\ \A f \in DOMAIN disk : disk[f] \in File
  BY DEF PipelineInv, PipelineTyping, Files
<1>3. Honest => Found(reads) = origin
  <2>1. step \in step .. 7 /\ Upcoming(step)
    BY <1>1 DEF Upcoming
  <2>2. QED
    BY <1>1, <2>1 DEF PipelineInv, FedInv, Fed
<1>4. Found(reads) \in File
  BY <1>1, <1>2, FoundType
<1> HIDE DEF w, reads
<1>5. /\ DOMAIN disk' = DOMAIN disk \cup {w}
      /\ Files(disk')
      /\ disk'[w] = Found(reads)
      /\ \A g \in DOMAIN disk : g # w => disk'[g] = disk[g]
  <2>1. Files(disk)
    BY DEF PipelineInv, PipelineTyping
  <2>2. PICK f : f = w
    OBVIOUS
  <2>3. PICK file \in File : file = Found(reads)
    BY <1>4
  <2>4. /\ DOMAIN Saved(f, file) = DOMAIN disk \cup {f}
        /\ Files(Saved(f, file))
        /\ Saved(f, file)[f] = file
        /\ \A g \in DOMAIN disk : g # f => Saved(f, file)[g] = disk[g]
    BY <2>1 DEF Saved, Files
  <2>5. QED
    BY <1>1, <2>2, <2>3, <2>4
<1>6. CASE step = 1
  <2>1. course' = "keeps" /\ step' = 1
    BY <1>1, <1>6 DEF Behind
  <2>2. PipelineTyping'
    BY <1>1, <1>5, <2>1 DEF PipelineInv, PipelineTyping, Files
  <2>3. FedInv' /\ PipelineRight'
    BY <2>1 DEF FedInv, PipelineRight
  <2>4. KeepInv'
    <3>1. Runs(option, 1)
      BY <1>1, <1>6
    <3>2. reads = {"corpus"} /\ w = "words"
      BY <1>6, Reads, Writes DEF reads, w
    <3>3. Found(reads) = disk["corpus"] /\ "corpus" \in DOMAIN disk
      <4>1. Found({"corpus"}) = MadeOf(disk, {"corpus"})
        BY DEF Found, MadeOf
      <4>2. "corpus" \in DOMAIN disk
        BY <1>1, <3>2
      <4>3. QED
        BY <1>2, <3>2, <4>1, <4>2, FoundOne
    <3>4. Honest => /\ {"words", "corpus"} \subseteq DOMAIN disk'
                    /\ disk'["words"] = origin /\ disk'["corpus"] = origin
      BY <1>3, <1>5, <3>2, <3>3
    <3>5. QED
      BY <1>1, <2>1, <3>1, <3>4 DEF KeepInv, Honest
  <2>5. QED
    BY <2>2, <2>3, <2>4 DEF PipelineInv
<1>7. CASE step # 1
  <2>1. course' = "runs" /\ step' = step + 1
    BY <1>1, <1>7 DEF Behind
  <2>2. PipelineTyping'
    <3>1. step' \in 1 .. 8
      BY <1>1, <2>1
    <3>2. QED
      BY <1>1, <1>5, <2>1, <3>1 DEF PipelineInv, PipelineTyping, Files
  <2>3. KeepInv'
    BY <2>1 DEF KeepInv
  <2>4. FedInv'
    <3>1. SUFFICES ASSUME Honest, NEW k \in step + 1 .. 7, Runs(option, k),
                          \A m \in step + 1 .. k - 1 : ~ Runs(option, m)
                   PROVE  Fed(k)'
      BY <1>1, <2>1 DEF FedInv, Honest, Upcoming
    <3>2. Runs(option, step + 1)
      BY <1>1, <1>2, <3>1, RunsOn
    <3>3. k = step + 1
      <4>1. k # step + 1 => step + 1 \in step + 1 .. k - 1
        BY <1>1
      <4>2. QED
        BY <3>1, <3>2, <4>1
    <3>4. step \in 2 .. 6
      BY <1>1, <1>7, <3>1
    <3>5. StepOf(option)[k].reads = {w}
      BY <1>1, <3>2, <3>3, <3>4, ReadsResult DEF w
    <3>6. w \in DOMAIN disk' /\ disk'[w] = origin
      BY <1>3, <1>5, <3>1
    <3>7. PICK f : f = w
      OBVIOUS
    <3>8. Found({f})' = origin
      <4>1. Found({f})' = MadeOf(disk', {f})
        BY DEF Found, MadeOf
      <4>2. disk'[f] \in File
        BY <1>2, <3>6, <3>7
      <4>3. QED
        BY <3>6, <3>7, <4>1, <4>2, FoundOne
    <3>9. (StepOf(option)[k].reads)' = {f}
      BY <1>1, <3>5, <3>7 DEF StepOf, VocabStep, ExtractStep, IndexStep, ModifyStep, EstimateStep,
                BackwardStep, QuantizeStep, LimitsWords, Kept
    <3>10. QED
      BY <1>1, <3>6, <3>7, <3>8, <3>9 DEF Fed
  <2>5. PipelineRight'
    <3>1. SUFFICES ASSUME ~ option.pbs, origin.whole,
                          NEW n \in 1 .. 7, n < step + 1, Runs(option, n)
                   PROVE  /\ Result(option, n) \in DOMAIN disk'
                          /\ disk'[Result(option, n)] = origin
      BY <1>1, <2>1 DEF PipelineRight
    <3>2. CASE n = step
      <4>1. Result(option, n) = w
        BY <1>7, <3>2 DEF Result, w
      <4>2. QED
        BY <1>3, <1>5, <3>1, <4>1 DEF Honest
    <3>3. CASE n # step
      <4>1. n < step /\ n \in 1 .. step - 1 /\ step # 8
        BY <1>1, <3>1, <3>3
      <4>2. Result(option, n) # w
        BY <1>1, <4>1, WritesApart DEF w
      <4>3. Result(option, n) \in DOMAIN disk /\ disk[Result(option, n)] = origin
        BY <3>1, <4>1 DEF PipelineInv, PipelineRight
      <4>4. QED
        BY <1>5, <4>2, <4>3
    <3>4. QED
      BY <3>2, <3>3
  <2>6. QED
    BY <2>2, <2>3, <2>4, <2>5 DEF PipelineInv
<1>8. QED
  BY <1>6, <1>7

LEMMA FailKeeps ==
    ASSUME PipelineInv, Fail
    PROVE  PipelineInv'
<1> DEFINE w == StepOf(option)[step].writes
<1>1. /\ course = "runs" /\ step \in 1 .. 7 /\ Runs(option, step)
      /\ disk' = disk \/ disk' = Saved(w, Missing)
      /\ IF Stops THEN course' = "stopped" /\ UNCHANGED step ELSE Behind
      /\ UNCHANGED <<option, edition, invoked, origin>>
  BY DEF Fail, PipelineInv, PipelineTyping
<1>2. Files(disk)
  BY DEF PipelineInv, PipelineTyping
<1> HIDE DEF w
<1>3. /\ Files(disk')
      /\ DOMAIN disk \subseteq DOMAIN disk'
      /\ \A g \in DOMAIN disk : g # w => disk'[g] = disk[g]
  <2>1. CASE disk' = disk
    BY <1>2, <2>1
  <2>2. CASE disk' = Saved(w, Missing)
    <3>1. PICK file \in File : file = Missing
      BY MissingType
    <3>4. PICK f : f = w
      OBVIOUS
    <3>2. /\ DOMAIN Saved(f, file) = DOMAIN disk \cup {f}
          /\ Files(Saved(f, file))
          /\ \A g \in DOMAIN disk : g # f => Saved(f, file)[g] = disk[g]
      BY <1>2 DEF Saved, Files
    <3>3. QED
      BY <2>2, <3>1, <3>2, <3>4
  <2>3. QED
    BY <1>1, <2>1, <2>2
<1>4. /\ step' \in 1 .. 8
      /\ course' \in {"runs", "keeps", "stopped"}
      /\ course' = "keeps" => step' = 1 /\ step = 1
      /\ ~ option.pbs => course' = "stopped" /\ step' = step
  BY <1>1 DEF Behind, Stops
<1>5. PipelineTyping'
  BY <1>1, <1>3, <1>4 DEF PipelineInv, PipelineTyping
<1>6. FedInv'
  BY <1>1, <1>4 DEF FedInv, Honest
<1>7. KeepInv'
  <2>1. course' = "keeps" => Runs(option, 1) /\ option.pbs
    BY <1>1, <1>4
  <2>2. QED
    BY <1>1, <1>4, <2>1 DEF KeepInv, Honest
<1>8. PipelineRight'
  <2>1. SUFFICES ASSUME ~ option.pbs, origin.whole,
                        NEW n \in 1 .. 7, n < step, Runs(option, n)
                 PROVE  /\ Result(option, n) \in DOMAIN disk'
                        /\ disk'[Result(option, n)] = origin
    BY <1>1, <1>4 DEF PipelineRight
  <2>2. n \in 1 .. step - 1 /\ step # 8
    BY <1>1, <2>1
  <2>3. Result(option, n) # w
    BY <1>1, <2>2, WritesApart DEF w
  <2>4. Result(option, n) \in DOMAIN disk /\ disk[Result(option, n)] = origin
    BY <2>1, <2>2 DEF PipelineInv, PipelineRight
  <2>5. QED
    BY <1>3, <2>3, <2>4
<1>9. QED
  BY <1>5, <1>6, <1>7, <1>8 DEF PipelineInv

LEMMA KeepKeeps ==
    ASSUME PipelineAssumption, PipelineInv, Keep
    PROVE  PipelineInv'
<1>1. /\ course = "keeps" /\ step = 1 /\ Runs(option, 1)
      /\ UNCHANGED <<option, edition, invoked, origin>>
      /\ Honest => /\ {"words", "corpus"} \subseteq DOMAIN disk
                   /\ disk["words"] = origin /\ disk["corpus"] = origin
  BY DEF Keep, PipelineInv, KeepInv
<1>2. Files(disk) /\ option \in Options /\ origin \in File
  BY DEF PipelineInv, PipelineTyping
<1>3. CASE "words" \notin DOMAIN disk
  <2>1. course' = "stopped" /\ UNCHANGED <<disk, step>>
    BY <1>3 DEF Keep
  <2>2. PipelineTyping'
    BY <1>1, <1>2, <2>1 DEF PipelineInv, PipelineTyping
  <2>3. FedInv' /\ KeepInv' /\ PipelineRight'
    BY <1>1, <2>1 DEF FedInv, KeepInv, PipelineRight
  <2>4. QED
    BY <2>2, <2>3 DEF PipelineInv
<1>4. CASE "words" \in DOMAIN disk
  <2>1. PICK f : f = Kept(option)
    OBVIOUS
  <2>2. /\ disk' = Saved(f, disk["words"])
        /\ course' = "runs" /\ step' = 2
    BY <1>1, <1>4, <2>1 DEF Keep
  <2>3. f # "corpus"
    BY <2>1, KeptIs
  <2>4. \A g \in DOMAIN disk : disk[g] \in File
    BY <1>2 DEF Files
  <2>5. /\ DOMAIN disk' = DOMAIN disk \cup {f}
        /\ Files(disk')
        /\ disk'[f] = disk["words"]
        /\ \A g \in DOMAIN disk : g # f => disk'[g] = disk[g]
    <3>1. PICK file \in File : file = disk["words"]
      BY <1>4, <2>4
    <3>2. /\ DOMAIN Saved(f, file) = DOMAIN disk \cup {f}
          /\ Files(Saved(f, file))
          /\ Saved(f, file)[f] = file
          /\ \A g \in DOMAIN disk : g # f => Saved(f, file)[g] = disk[g]
      BY <1>2 DEF Saved, Files
    <3>3. QED
      BY <2>2, <3>1, <3>2
  <2>6. PipelineTyping'
    BY <1>1, <2>2, <2>5 DEF PipelineInv, PipelineTyping
  <2>7. KeepInv'
    BY <2>2 DEF KeepInv
  <2>8. FedInv'
    <3>1. SUFFICES ASSUME Honest, NEW k \in 2 .. 7, Runs(option, k),
                          \A m \in 2 .. k - 1 : ~ Runs(option, m)
                   PROVE  Fed(k)'
      BY <1>1, <2>2 DEF FedInv, Honest, Upcoming
    <3>2. Runs(option, 1 + 1)
      BY <1>1, <1>2, <3>1, RunsOn
    <3>3. k = 2
      <4>1. k # 2 => 2 \in 2 .. k - 1
        OBVIOUS
      <4>2. QED
        BY <3>1, <3>2, <4>1
    <3>4. LimitsWords(option)
      BY <1>1 DEF Runs
    <3>5. StepOf(option)[2].reads = {"corpus"} \cup {f}
      BY <2>1, <3>4, Reads
    <3>6. disk'["corpus"] = origin /\ disk'[f] = origin /\ {"corpus", f} \subseteq DOMAIN disk'
      BY <1>1, <2>3, <2>5, <3>1
    <3>7. Found({"corpus"} \cup {f})' = origin
      <4>1. Found({"corpus"} \cup {f})' = MadeOf(disk', {"corpus"} \cup {f})
        BY DEF Found, MadeOf
      <4>2. QED
        BY <1>2, <3>6, <4>1, FoundTwo
    <3>8. (StepOf(option)[2].reads)' = {"corpus"} \cup {f}
      BY <1>1, <3>5 DEF StepOf, VocabStep, ExtractStep, IndexStep, ModifyStep, EstimateStep,
                BackwardStep, QuantizeStep, LimitsWords, Kept
    <3>9. QED
      BY <1>1, <3>3, <3>6, <3>7, <3>8 DEF Fed
  <2>9. PipelineRight'
    <3>1. SUFFICES ASSUME ~ option.pbs, origin.whole
                   PROVE  Result(option, 1) \in DOMAIN disk' /\ disk'[Result(option, 1)] = origin
      <4>1. \A n \in 1 .. 7 : n < 2 => n = 1
        OBVIOUS
      <4>2. QED
        BY <1>1, <2>2, <4>1 DEF PipelineRight
    <3>2. Result(option, 1) = f
      BY <2>1 DEF Result
    <3>3. QED
      BY <1>1, <2>5, <3>1, <3>2 DEF Honest
  <2>10. QED
    BY <2>6, <2>7, <2>8, <2>9 DEF PipelineInv
<1>5. QED
  BY <1>3, <1>4

LEMMA EndKeeps ==
    ASSUME PipelineInv, EndPipeline
    PROVE  PipelineInv'
<1>1. PICK gone :
        /\ course = "runs" /\ step = 8
        /\ ~ option.erase => gone = {}
        /\ disk' = [f \in DOMAIN disk \ gone |-> disk[f]]
        /\ course' \in {"stopped", "ended"}
        /\ UNCHANGED <<option, step, edition, invoked, origin>>
  <2> DEFINE erased == <<"index", "estimated", "modified">>
             n == IF \A i \in 1 .. 3 : erased[i] \in DOMAIN disk THEN 3
                  ELSE (CHOOSE i \in 1 .. 3 :
                          /\ erased[i] \notin DOMAIN disk
                          /\ \A j \in 1 .. i - 1 : erased[j] \in DOMAIN disk) - 1
             some == {erased[i] : i \in 1 .. n}
             all == IF option.erase THEN some ELSE {}
  <2>1. /\ course = "runs" /\ step = 8
        /\ disk' = [f \in DOMAIN disk \ all |-> disk[f]]
        /\ course' = IF option.erase /\ n < 3 THEN "stopped" ELSE "ended"
        /\ UNCHANGED <<option, step, edition, invoked, origin>>
    BY DEF EndPipeline
  <2> HIDE DEF n, some
  <2>2. ~ option.erase => all = {}
    OBVIOUS
  <2>3. course' \in {"stopped", "ended"}
    BY <2>1
  <2> HIDE DEF all
  <2>4. QED
    BY <2>1, <2>2, <2>3
<1>2. Files(disk)
  BY DEF PipelineInv, PipelineTyping
<1>3. /\ DOMAIN disk' = DOMAIN disk \ gone
      /\ \A f \in DOMAIN disk' : disk'[f] = disk[f]
      /\ Files(disk')
  BY <1>1, <1>2 DEF Files
<1>4. PipelineTyping'
  BY <1>1, <1>3 DEF PipelineInv, PipelineTyping
<1>5. FedInv' /\ KeepInv'
  BY <1>1 DEF FedInv, KeepInv
<1>6. PipelineRight'
  <2>1. SUFFICES ASSUME ~ option.pbs, origin.whole,
                        NEW n \in 1 .. 7, n < step, Runs(option, n)
                 PROVE  IF Result(option, n) \in DOMAIN disk'
                          THEN disk'[Result(option, n)] = origin
                          ELSE option.erase
    BY <1>1 DEF PipelineRight
  <2>2. IF Result(option, n) \in DOMAIN disk THEN disk[Result(option, n)] = origin
                                             ELSE option.erase
    BY <2>1 DEF PipelineInv, PipelineRight
  <2>3. QED
    BY <1>1, <1>3, <2>2
<1>7. QED
  BY <1>4, <1>5, <1>6 DEF PipelineInv

LEMMA StutterKeeps ==
    ASSUME PipelineInv, UNCHANGED pipelineVars
    PROVE  PipelineInv'
BY DEF pipelineVars, PipelineInv, PipelineTyping, Files, FedInv, KeepInv, PipelineRight, Honest,
       Upcoming, Fed, Found

\* However often expgram.py is invoked, with whatever options, and wherever it
\* stops: an invocation without PBS whose first step finds whole files leaves
\* files that were all made from what that step has found.
THEOREM PipelineRightHolds == PipelineSpec => []PipelineRight
<1>1. PipelineInit => PipelineInv
  BY PipelineAssumption, PipelineStarts
<1>2. PipelineInv /\ [PipelineNext]_pipelineVars => PipelineInv'
  <2> SUFFICES ASSUME PipelineInv, [PipelineNext]_pipelineVars
               PROVE  PipelineInv'
    OBVIOUS
  <2>1. CASE \E o \in Options : Invoke(o)
    BY <2>1, InvokeKeeps
  <2>2. CASE Edit
    BY <2>2, EditKeeps
  <2>3. CASE Skip
    BY <2>3, SkipKeeps
  <2>4. CASE Succeed
    BY <2>4, PipelineAssumption, SucceedKeeps
  <2>5. CASE Fail
    BY <2>5, FailKeeps
  <2>6. CASE Keep
    BY <2>6, PipelineAssumption, KeepKeeps
  <2>7. CASE EndPipeline
    BY <2>7, EndKeeps
  <2>8. CASE UNCHANGED pipelineVars
    BY <2>8, StutterKeeps
  <2>9. QED
    BY <2>1, <2>2, <2>3, <2>4, <2>5, <2>6, <2>7, <2>8 DEF PipelineNext
<1>3. PipelineInv => PipelineRight
  BY DEF PipelineInv
<1>4. QED
  BY <1>1, <1>2, <1>3, PTL DEF PipelineSpec
=============================================================================
