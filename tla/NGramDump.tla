----------------------------- MODULE NGramDump -----------------------------
(* Printing a model in the ARPA format (NGram::dump and its mapper in       *)
(* expgram/NGram.cpp), here a backward index that was read from such a      *)
(* file.  A thread for each shard pushes the contexts of its nodes, with    *)
(* the words behind them, to a queue of its own; the program prints the     *)
(* unigrams, merges the queues and prints context by context.               *)
(*                                                                          *)
(* The queue of s holds the messages that are pushed and not yet taken, and *)
(* has one producer, so that a push is one step.  The headings with the     *)
(* numbers of n-grams are left out.                                         *)
EXTENDS NGramArpa

CONSTANT logprob_srilm_min      \* what is printed for "<s>", -99

VARIABLES
    lower,      \* are the bounds printed?
    dumped,     \* dumped[s]: how many messages the thread of s has pushed
    taken,      \* taken[s]: how many of them the program has popped
    awaited,    \* the shards whose next message the program waits for, in order
    pqueue,     \* the shards whose last message waits to be printed
    lines       \* what is printed

dump == <<lower, dumped, taken, awaited, pqueue, lines>>
dumpVars == <<arpaVars, dump>>

-----------------------------------------------------------------------------
(* The threads of the shards.                                               *)

Shortest(s, p) == Len(Ngram(s, p)) < Order

\* A word with its values; the last order has neither bounds nor weights.
Entry(s, p) ==
    [word |-> LastWord(Ngram(s, p)), logprob |-> logprobs[s][p],
     logbound |-> IF Shortest(s, p) THEN logbounds[s][p] ELSE logprobs[s][p],
     backoff |-> IF Shortest(s, p) THEN backoffs[s][p] ELSE 0]

AnyEntry(entry) == TRUE                             \* faulty HasLogprob

\* Pseudo contexts are not printed.
HasLogprob(entry) == entry.logprob # logprob_min

Positions(first, size) == [i \in 1 .. size |-> first + i - 1]

Entries(s, positions) ==
    SelectSeq([i \in DOMAIN positions |-> Entry(s, positions[i])], HasLogprob)

\* The messages of a thread: its nodes with children, order by order, and an
\* empty context.
Contexts(s) ==
    LET Parental(p) == Children(s, p) # {}
        parents == SelectSeq(Positions(0, position_size(s)), Parental)
        Followed(p) ==
            [context |-> Ngram(s, p),
             words |-> Entries(s, Positions(ChildrenFirst(s, p), Cardinality(Children(s, p))))]
    IN  Append([i \in DOMAIN parents |-> Followed(parents[i])],
               [context |-> << >>, words |-> << >>])

PushContext(s) ==
    /\ phase = "dump"
    /\ dumped[s] < Len(Contexts(s))
    /\ dumped[s] - taken[s] < Capacity
    /\ dumped' = [dumped EXCEPT ![s] = @ + 1]
    /\ UNCHANGED <<arpaVars, lower, taken, awaited, pqueue, lines>>

-----------------------------------------------------------------------------
(* The program.                                                             *)

\* A line of the words in the order of the text.
Line(words, logprob, logbound, backoff) ==
    [words |-> words, logprob |-> logprob, logbound |-> logbound, backoff |-> backoff]

\* A bound is printed if it is asked for and the n-gram has one.
Printed(words, entry, low) ==
    Line(words, entry.logprob,
         IF low /\ Len(words) < Order THEN {entry.logbound} ELSE {}, entry.backoff)

UnknownLine(low) ==
    IF Unk \in Word THEN << >>
    ELSE <<Line(<<Unk>>, smooth, IF low THEN {smooth} ELSE {}, 0)>>

\* The start of a sentence is printed although it cannot be predicted.
Escaped(entry, value) ==
    IF value = logprob_min /\ entry.word = Bos THEN logprob_srilm_min ELSE value

UnigramLines(low) ==
    LET escaped(entry) == [entry EXCEPT !.logprob = Escaped(entry, @),
                                        !.logbound = Escaped(entry, @)]
        entries == SelectSeq([p \in 1 .. Offset(0, 1) |-> escaped(Entry(0, p - 1))], HasLogprob)
    IN  [i \in DOMAIN entries |-> Printed(<<entries[i].word>>, entries[i], low)]

\* The last word of a node is the first one of the text.
InTextOrder(context, word) == Reverse(Append(context, word))

ContextLines(message) ==
    [i \in DOMAIN message.words |->
        Printed(InTextOrder(message.context, message.words[i].word),
              message.words[i], lower)]

\* The next message of the queue that is awaited; an empty context ends it.
PopContext ==
    /\ awaited # << >>
    /\ LET s == Head(awaited)
       IN  /\ taken[s] < dumped[s]
           /\ taken' = [taken EXCEPT ![s] = @ + 1]
           /\ pqueue' = IF taken'[s] = Len(Contexts(s)) THEN pqueue ELSE pqueue \union {s}
    /\ awaited' = Tail(awaited)
    /\ UNCHANGED <<arpaVars, lower, dumped, lines>>

Top(s) == Contexts(s)[taken[s]]

\* The shorter context first, and contexts of one length by identifiers.
Sooner(g, h) == Len(g) < Len(h) \/ (Len(g) = Len(h) /\ Before(g, h))

\* Of equal contexts from different shards either one may be the first.
PrintContext ==
    /\ awaited = << >>
    /\ \E top \in pqueue :
          /\ \A other \in pqueue : ~ Sooner(Top(other).context, Top(top).context)
          /\ pqueue' = pqueue \ {top}
          /\ lines' = lines \o ContextLines(Top(top))
          /\ awaited' = <<top>>
    /\ UNCHANGED <<arpaVars, lower, dumped, taken>>

-----------------------------------------------------------------------------

DumpInit ==
    /\ ReadInit
    /\ lower = FALSE
    /\ dumped = [s \in Shard |-> 0]
    /\ taken = [s \in Shard |-> 0]
    /\ awaited = << >>
    /\ pqueue = {}
    /\ lines = << >>

\* Threads are started and the unigrams printed; then the first message of
\* each queue is awaited, one queue after the other.
StartDump ==
    /\ phase = "bounds"
    /\ Threads!Joined
    /\ phase' = "dump"
    /\ lower' \in BOOLEAN
    /\ lines' = UnknownLine(lower') \o UnigramLines(lower')
    /\ awaited' = Positions(0, Cardinality(Shard))
    /\ UNCHANGED <<vars, order, nodes, values, dumped, taken, pqueue>>

\* The heap is empty and the threads are joined.
Dumped ==
    /\ phase = "dump"
    /\ awaited = << >>
    /\ pqueue = {}
    /\ \A s \in Shard : dumped[s] = Len(Contexts(s))

DumpNext ==
    \/ ArpaNext /\ UNCHANGED dump
    \/ StartDump
    \/ \E s \in Shard : PushContext(s)
    \/ PopContext
    \/ PrintContext

-----------------------------------------------------------------------------

\* The file's lines as they were read, with that of the unknown words and the
\* bounds if they are asked for.
Expected ==
    {Line(line.words, line.prob,
          IF lower /\ Len(line.words) < Order
            THEN LET s == shard_index(Reverse(line.words))
                 IN  {logbounds[s][Find(s, Reverse(line.words))]}
            ELSE {},
          IF Len(line.words) < Order THEN line.backoff ELSE 0) : line \in Range(Arpa)}
    \union Range(UnknownLine(lower))

\* Reading a model and printing it gives the model: although the index keeps
\* the n-grams reversed, in several shards and with contexts that the file does
\* not have, every line is printed once, with its values and the bound of its
\* own n-gram; shorter n-grams come first, as a reader expects that takes the
\* words' identifiers from them.
ArpaDumped ==
    phase = "dump" =>
        /\ IsInjective(lines)
        /\ \A i, j \in DOMAIN lines : i < j => Len(lines[i].words) <= Len(lines[j].words)
        /\ Dumped => Range(lines) = Expected
=============================================================================
