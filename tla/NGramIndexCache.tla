-------------------------- MODULE NGramIndexCache --------------------------
(* The cache in front of the search for a child (Shard::find in             *)
(* expgram/NGramIndex.hpp).  All the threads that look up n-grams share it. *)
(* An entry is two words of 64 bits, lo and hi, each with half of the       *)
(* identifier.  An entry is replaced by a compare-and-swap of both words,   *)
(* but it is read one word after the other.                                 *)
(*                                                                          *)
(* One entry is modelled, and the questions that hash to it; the search     *)
(* itself, __find, is a function of the index.                              *)
EXTENDS Naturals

CONSTANTS
    Thread,     \* the threads that look up children
    Questions,  \* the pairs of a node and an identifier, as records
    Child,      \* Child[q]: the answer of __find, a node or NoChild
    NoChild     \* size_type(-1)

\* pos and an identifier with all bits set stand for size_type(-1) and
\* id_type(-1), which find answers before it looks at the cache.
AllOnes == 2^16 - 1

\* pos is the node, high and low are the halves of the identifier.
ASSUME CacheAssumption ==
    /\ \A q \in Questions : /\ DOMAIN q = {"pos", "high", "low"}
                             /\ q.pos # AllOnes
    /\ DOMAIN Child = Questions

VARIABLES
    cache,      \* the entry: its words lo and hi
    fetched,    \* cache_fetch of a thread
    asked,      \* the question of a thread
    pc,         \* where it is
    answer      \* what find returned to it last

vars == <<cache, fetched, asked, pc, answer>>

\* A new entry has all its bits set, and no question matches it.
Unset == [lo |-> [pos |-> AllOnes, high |-> AllOnes],
          hi |-> [next |-> NoChild, low |-> AllOnes]]

Entry(q) == [lo |-> [pos |-> q.pos, high |-> q.high],
             hi |-> [next |-> Child[q], low |-> q.low]]

Init ==
    /\ cache = Unset
    /\ fetched = [t \in Thread |-> Unset]
    /\ asked \in [Thread -> Questions]
    /\ pc = [t \in Thread |-> "done"]
    /\ answer = [t \in Thread |-> Child[asked[t]]]

Goto(t, label) == pc' = [pc EXCEPT ![t] = label]

Ask(t, q) ==
    /\ pc[t] = "done"
    /\ asked' = [asked EXCEPT ![t] = q]
    /\ Goto(t, "fetch_lo")
    /\ UNCHANGED <<cache, fetched, answer>>

FetchLo(t) ==
    /\ pc[t] = "fetch_lo"
    /\ fetched' = [fetched EXCEPT ![t].lo = cache.lo]
    /\ Goto(t, "fetch_hi")
    /\ UNCHANGED <<cache, asked, answer>>

FetchHi(t) ==
    /\ pc[t] = "fetch_hi"
    /\ fetched' = [fetched EXCEPT ![t].hi = cache.hi]
    /\ Goto(t, "compare")
    /\ UNCHANGED <<cache, asked, answer>>

NodeOnly(entry, q) == entry.lo = [pos |-> q.pos, high |-> q.high]   \* faulty Matches

Matches(entry, q) ==
    /\ entry.lo = [pos |-> q.pos, high |-> q.high]
    /\ entry.hi.low = q.low

Hit(t) ==
    /\ pc[t] = "compare"
    /\ Matches(fetched[t], asked[t])
    /\ answer' = [answer EXCEPT ![t] = fetched[t].hi.next]
    /\ Goto(t, "done")
    /\ UNCHANGED <<cache, fetched, asked>>

LoOnly(new) == [cache EXCEPT !.lo = new.lo]         \* faulty Swapped

\* Both words are replaced at once.
Swapped(new) == new

\* The search, then the compare-and-swap, which may fail.
Miss(t) ==
    /\ pc[t] = "compare"
    /\ ~ Matches(fetched[t], asked[t])
    /\ cache' = IF cache = fetched[t] THEN Swapped(Entry(asked[t])) ELSE cache
    /\ answer' = [answer EXCEPT ![t] = Child[asked[t]]]
    /\ Goto(t, "done")
    /\ UNCHANGED <<fetched, asked>>

Find(t) ==
    \/ \E q \in Questions : Ask(t, q)
    \/ FetchLo(t)
    \/ FetchHi(t)
    \/ Hit(t)
    \/ Miss(t)

Next == \E t \in Thread : Find(t)

Spec == Init /\ [][Next]_vars

-----------------------------------------------------------------------------

\* Although threads fetch entries that never existed and offer them to the
\* compare-and-swap, what the cache holds is always a right answer.
CacheRight == cache = Unset \/ \E q \in Questions : cache = Entry(q)

\* Two words that belong to different entries never look like an entry for the
\* question r, unless they answer it.  So it is if r's node is the only one, or r's
\* identifier, among the questions that hash to this entry.
Unmixable(r) ==
    \A p, q \in Questions :
        p.pos = r.pos /\ p.high = r.high /\ q.low = r.low => Child[q] = Child[r]

\* The answer to a question that no two entries can be mixed into is the one that
\* the search would have given, whatever other questions the cache served, and
\* however many of its entries were read torn.
UnmixableAnswersRight ==
    \A t \in Thread :
        pc[t] = "done" /\ Unmixable(asked[t]) => answer[t] = Child[asked[t]]

\* Whatever the cache did, find returns what the search would have: the child
\* of this node with this identifier, and none if there is none.
AnswersRight == \A t \in Thread : pc[t] = "done" => answer[t] = Child[asked[t]]
=============================================================================
