------------------------------- MODULE Vocab -------------------------------
(* Words and vocabularies (expgram/Word.hpp, expgram/Vocab.hpp).  All the   *)
(* threads number the spellings they meet in one table of the process, and  *)
(* a vocabulary gives its words identifiers: those of the index.  Lookups   *)
(* in both directions go through two caches that the threads share.  An     *)
(* entry is one word of memory, a number and an identifier, which is loaded *)
(* at once, compared, and replaced by a compare-and-swap.                   *)
(*                                                                          *)
(* The table is guarded by a readers-writer lock (RWTicket), here a lock    *)
(* with one holder: writers exclude all others.  Each thread also remembers *)
(* where the spellings of numbers are, and then reads them without a lock,  *)
(* while the table grows.                                                   *)
EXTENDS Integers, SequencesExt

CONSTANTS
    Reader,         \* the threads
    Vocabulary,     \* the words that were inserted, the identifiers in order
    EMPTY, UNK,     \* the empty word, and the word for the unknown ones
    Spellings,      \* the words that threads ask for
    Identifiers,    \* the identifiers that they ask for
    Slots,          \* the number of entries of each cache
    Bins,           \* the number of bins of the vocabulary
    Bin,            \* Bin[k]: the hash of a word modulo Bins
    WordHash,       \* WordHash[k]: its hash in the table of the process
    FirstBins,      \* the number of bins that the table starts with: 8
    ChunkSize       \* the number of strings in one piece of its memory: 128

VARIABLES
    table,          \* the spellings and their index
    word_maps,      \* word_maps[t][n]: where t remembers the spelling of number n
    holder,         \* the threads inside the table's lock
    cache_word,     \* cache_word[n % Slots]: the identifier of word n
    cache_id,       \* cache_id[i % Slots]: the word with identifier i
    wanted,         \* what a thread asks for: a spelling or an identifier
    at,             \* where it is
    number,         \* the number of its word
    loaded,         \* the entry that it has loaded
    found           \* what it was answered last

vocabVars == <<table, word_maps, holder, cache_word, cache_id, wanted, at, number, loaded, found>>

ASSUME VocabAssumption ==
    /\ Identifiers \subseteq Nat
    /\ Slots \in Nat \ {0}
    /\ Bins \in Nat \ {0}
    /\ Bin \in [Spellings \union Range(Vocabulary) \union {UNK} -> 0 .. Bins - 1]
    /\ WordHash \in [Spellings \union Range(Vocabulary) \union {EMPTY, UNK} -> Nat]
    /\ Vocabulary \in Seq(Range(Vocabulary))
    /\ EMPTY # UNK
    /\ FirstBins \in Nat \ {0}
    /\ ChunkSize \in Nat \ {0}

-----------------------------------------------------------------------------
(* The words of a vocabulary (succinct_db/succinct_hash.hpp), written once   *)
(* by succinct_hash_stream and read by succinct_hash_mapped.  A bin holds    *)
(* the number of the key that was inserted last, from one; a table holds for *)
(* each key the number of the one before it in its bin, and zero ends a      *)
(* chain.  How keys and numbers are packed in files is left out (PackedData).*)

Empty == [bins |-> [b \in 0 .. Bins - 1 |-> 0], nexts |-> << >>, keys |-> << >>]

Unchained(hash, key) == 0                            \* faulty NextOf

\* The new key's successor is the one that its bin held.
NextOf(hash, key) == hash.bins[Bin[key]]

\* A key that is already there is inserted again.
Insert(hash, key) ==
    [bins |-> [hash.bins EXCEPT ![Bin[key]] = Len(hash.keys) + 1],
     nexts |-> Append(hash.nexts, NextOf(hash, key)),
     keys |-> Append(hash.keys, key)]

Built(keys) ==
    LET built[n \in 0 .. Len(keys)] ==
            IF n = 0 THEN Empty ELSE Insert(built[n - 1], keys[n])
    IN  built[Len(keys)]

\* The position of a key, or npos, which is -1.
Lookup(hash, key) ==
    LET first[i \in 0 .. Len(hash.keys)] ==
            IF i = 0 \/ hash.keys[i] = key THEN i ELSE first[hash.nexts[i]]
    IN  first[hash.bins[Bin[key]]] - 1

npos == -1

-----------------------------------------------------------------------------
(* The table of the process: the strings in a utils::chunk_vector, pieces of *)
(* memory whose addresses are in a list, and an index of pointers to them,   *)
(* a utils::indexed_hashtable, with chains like those above and bins that    *)
(* double.                                                                   *)

Zeros(n) == [b \in 1 .. n |-> 0]

\* A function that has the value y at x as well.
With(f, x, y) == [z \in DOMAIN f \union {x} |-> IF z = x THEN y ELSE f[z]]

NoWords ==
    [bins |-> Zeros(FirstBins), nexts |-> << >>, keys |-> << >>,
     chunks |-> <<1>>, size |-> 0, strings |-> << >>]

\* Where number n is.
Place(t, n) == <<t.chunks[n \div ChunkSize + 1], n % ChunkSize>>

\* The strings move to new pieces, as those of a vector would.
ReallocateAll(t, size) ==                           \* faulty Reallocate
    IF size \div ChunkSize + 1 = Len(t.chunks) THEN [t EXCEPT !.size = size]
    ELSE LET moved(p) == <<p[1] + Len(t.chunks), p[2]>>
         IN  [t EXCEPT
                 !.chunks = [i \in 1 .. size \div ChunkSize + 1 |-> Last(@) + i],
                 !.keys = [i \in DOMAIN @ |-> moved(@[i])],
                 !.strings = [p \in {moved(q) : q \in DOMAIN @} |->
                                 @[<<p[1] - Len(t.chunks), p[2]>>]],
                 !.size = size]

\* The list of the pieces is copied and gets more of them; they stay.
Reallocate(t, size) ==
    [t EXCEPT !.chunks = @ \o [i \in 1 .. size \div ChunkSize + 1 - Len(@) |-> Last(@) + i],
              !.size = size]

PushBack(t, spelling) ==
    LET grown == Reallocate(t, t.size + 1)
    IN  [grown EXCEPT !.strings = With(@, Place(grown, t.size), spelling)]

WordBin(t, spelling) == (WordHash[spelling] % Len(t.bins)) + 1

\* The position in the index from one, or zero.
FindWord(t, spelling) ==
    LET first[i \in 0 .. Len(t.keys)] ==
            IF i = 0 \/ t.strings[t.keys[i]] = spelling THEN i ELSE first[t.nexts[i]]
    IN  first[t.bins[WordBin(t, spelling)]]

\* The string at a place of the index is put at the front of its chain.
Link(t, i) ==
    LET b == WordBin(t, t.strings[t.keys[i]])
    IN  [t EXCEPT !.nexts[i] = t.bins[b], !.bins[b] = i]

\* All the chains are made again.
Rebin(t, n) ==
    LET linked[i \in 0 .. Len(t.keys)] ==
            IF i = 0 THEN [t EXCEPT !.bins = Zeros(n)] ELSE Link(linked[i - 1], i)
    IN  linked[Len(t.keys)]

Crowded(t) == Len(t.keys) > Len(t.bins) + Len(t.bins) \div 4

\* A new key is put at the front of its chain and made to point to the string
\* in the table.
InsertWord(t, spelling) ==
    LET roomy == IF Crowded(t) THEN Rebin(t, 2 * Len(t.bins)) ELSE t
        b == WordBin(roomy, spelling)
        pushed == PushBack(roomy, spelling)
    IN  [pushed EXCEPT !.keys = Append(@, Place(pushed, t.size)),
                       !.nexts = Append(@, roomy.bins[b]),
                       !.bins[b] = Len(t.keys) + 1]

\* word(): its string, where t remembers it to be.
Recalled(t, n) == table.strings[word_maps[t][n]]

-----------------------------------------------------------------------------

\* A new entry has all its bits set.
Fresh == [word |-> -1, id |-> -1]

Pair(word, id) == [word |-> word, id |-> id]

mapped == Built(Vocabulary)

\* The words that the program numbers first; the number of UNK.
Predefined == <<EMPTY, UNK>>

unk == 1

\* A vocabulary was opened; the threads have met UNK before, with another one.
VocabInit ==
    /\ table = InsertWord(InsertWord(NoWords, Predefined[1]), Predefined[2])
    /\ word_maps = [t \in Reader |-> [n \in {unk} |-> Place(table, n)]]
    /\ holder = {}
    /\ cache_word = [i \in 0 .. Slots - 1 |-> Fresh]
    /\ cache_id = [i \in 0 .. Slots - 1 |-> Fresh]
    /\ wanted = [t \in Reader |-> [spelling |-> UNK]]
    /\ at = [t \in Reader |-> "done"]
    /\ number = [t \in Reader |-> unk]
    /\ loaded = [t \in Reader |-> Fresh]
    /\ found = [t \in Reader |-> Lookup(mapped, UNK)]

ByWord(t) == "spelling" \in DOMAIN wanted[t]

Move(t, label) == at' = [at EXCEPT ![t] = label]

\* The spelling of which t needs the number.
Spelled(t) == IF ByWord(t) THEN wanted[t].spelling ELSE mapped.keys[wanted[t].id + 1]

AskWord(t, spelling) ==
    /\ at[t] = "done"
    /\ wanted' = [wanted EXCEPT ![t] = [spelling |-> spelling]]
    /\ Move(t, "enter")
    /\ found' = [found EXCEPT ![t] = npos]
    /\ UNCHANGED <<table, word_maps, holder, cache_word, cache_id, number, loaded>>

AskId(t, id) ==
    /\ at[t] = "done"
    /\ id < Len(mapped.keys)
    /\ wanted' = [wanted EXCEPT ![t] = [id |-> id]]
    /\ Move(t, "load")
    /\ found' = [found EXCEPT ![t] = npos]
    /\ UNCHANGED <<table, word_maps, holder, cache_word, cache_id, number, loaded>>

\* An identifier that the vocabulary does not have.
AskUnknownId(t, id) ==
    /\ at[t] = "done"
    /\ id >= Len(mapped.keys)
    /\ wanted' = [wanted EXCEPT ![t] = [id |-> id]]
    /\ found' = [found EXCEPT ![t] = unk]
    /\ UNCHANGED <<table, word_maps, holder, cache_word, cache_id, at, number, loaded>>

-----------------------------------------------------------------------------
(* Word::__allocate.                                                        *)

Unlocked == TRUE                                    \* faulty Free

Free == holder = {}

\* The writer's lock is entered, and the spelling is looked for; -1 is none.
Enter(t) ==
    /\ at[t] = "enter"
    /\ Free
    /\ holder' = holder \union {t}
    /\ number' = [number EXCEPT ![t] = FindWord(table, Spelled(t)) - 1]
    /\ Move(t, "allocate")
    /\ UNCHANGED <<table, word_maps, cache_word, cache_id, wanted, loaded, found>>

\* A new spelling is appended; the lock is left.
AllocateWord(t) ==
    /\ at[t] = "allocate"
    /\ table' = IF number[t] = -1 THEN InsertWord(table, Spelled(t)) ELSE table
    /\ number' = [number EXCEPT ![t] = IF @ = -1 THEN table.size ELSE @]
    /\ holder' = holder \ {t}
    /\ Move(t, IF ByWord(t) THEN "load" ELSE "swap")
    /\ UNCHANGED <<word_maps, cache_word, cache_id, wanted, loaded, found>>

-----------------------------------------------------------------------------
(* The two functions __find of the vocabulary.                              *)

Load(t) ==
    /\ at[t] = "load"
    /\ loaded' = [loaded EXCEPT ![t] =
          IF ByWord(t) THEN cache_word[number[t] % Slots] ELSE cache_id[wanted[t].id % Slots]]
    /\ Move(t, "compare")
    /\ UNCHANGED <<table, word_maps, holder, cache_word, cache_id, wanted, number, found>>

Matched(t) == IF ByWord(t) THEN loaded[t].word = number[t] ELSE loaded[t].id = wanted[t].id

SecondTry(t) == "for" \in DOMAIN wanted[t]

\* A word that the vocabulary lacks is looked for again as UNK.
Answered(t, answer) ==
    LET again == answer = npos /\ ByWord(t) /\ ~ SecondTry(t)
    IN  /\ wanted' = IF again
              THEN [wanted EXCEPT ![t] = [spelling |-> UNK, for |-> Spelled(t)]]
              ELSE wanted
        /\ found' = [found EXCEPT ![t] = answer]
        /\ number' = [number EXCEPT ![t] = unk]
        /\ loaded' = [loaded EXCEPT ![t] = Fresh]
        /\ Move(t, IF again THEN "load" ELSE "done")

HitEntry(t) ==
    /\ at[t] = "compare"
    /\ Matched(t)
    /\ Answered(t, IF ByWord(t) THEN loaded[t].id ELSE loaded[t].word)
    /\ UNCHANGED <<table, word_maps, holder, cache_word, cache_id>>

\* The place of a word that the thread has not read before is taken under the
\* reader's lock, before its spelling is read without one.
RecallWord(t) ==
    /\ number[t] \notin DOMAIN word_maps[t] => Free
    /\ word_maps' = [word_maps EXCEPT ![t] =
          IF number[t] \in DOMAIN @ THEN @ ELSE With(@, number[t], Place(table, number[t]))]
    /\ Move(t, "swap")

\* The word of an identifier may be new to the process.
MissEntry(t) ==
    /\ at[t] = "compare"
    /\ ~ Matched(t)
    /\ IF ByWord(t) THEN RecallWord(t) ELSE Move(t, "enter") /\ UNCHANGED word_maps
    /\ UNCHANGED <<table, holder, cache_word, cache_id, wanted, number, loaded, found>>

CompareAndSwap(entry, expected, new) == IF entry = expected THEN new ELSE entry

\* The search in the hash table by the spelling of the word's number, or the
\* number that was allocated; then the compare-and-swap, which may fail.
SwapEntry(t) ==
    /\ at[t] = "swap"
    /\ IF ByWord(t)
         THEN LET id == Lookup(mapped, Recalled(t, number[t]))
              IN  /\ cache_word' = [cache_word EXCEPT ![number[t] % Slots] =
                         CompareAndSwap(@, loaded[t], Pair(number[t], id))]
                  /\ Answered(t, id)
                  /\ UNCHANGED cache_id
         ELSE /\ cache_id' = [cache_id EXCEPT ![wanted[t].id % Slots] =
                     CompareAndSwap(@, loaded[t], Pair(number[t], wanted[t].id))]
              /\ Answered(t, number[t])
              /\ UNCHANGED cache_word
    /\ UNCHANGED <<table, word_maps, holder>>

LookUp(t) ==
    \/ \E spelling \in Spellings : AskWord(t, spelling)
    \/ \E id \in Identifiers : AskId(t, id) \/ AskUnknownId(t, id)
    \/ Enter(t)
    \/ AllocateWord(t)
    \/ Load(t)
    \/ HitEntry(t)
    \/ MissEntry(t)
    \/ SwapEntry(t)

VocabNext == \E t \in Reader : LookUp(t)

VocabSpec == VocabInit /\ [][VocabNext]_vocabVars

-----------------------------------------------------------------------------

\* What a word's identifier is: where it was inserted last.
Inserted(spelling) ==
    {i \in DOMAIN Vocabulary : Vocabulary[i] = spelling /\
        \A j \in DOMAIN Vocabulary : Vocabulary[j] = spelling => j <= i}

AskedFor(t) == IF SecondTry(t) THEN wanted[t].for ELSE wanted[t].spelling

TableWord(n) == table.strings[Place(table, n)]

\* Whatever the threads ask at the same time and whatever collides in the
\* caches and in the bins of the hash tables, a spelling has one number, which
\* the index of the table finds; what a thread remembers of a number still
\* holds its spelling, however the table has grown meanwhile; and a lookup is
\* answered with the identifier that the word was inserted with last, or that of
\* UNK if it was not, and an identifier with the word inserted there, or UNK if
\* there is none.
VocabRight ==
    /\ \A n \in 0 .. table.size - 1 : FindWord(table, TableWord(n)) = n + 1
    /\ \A t \in Reader : \A n \in DOMAIN word_maps[t] :
          word_maps[t][n] \in DOMAIN table.strings /\ Recalled(t, n) = TableWord(n)
    /\ \A t \in Reader : at[t] = "done" =>
          IF ByWord(t)
            THEN LET known == Inserted(AskedFor(t)) \union
                                IF Inserted(AskedFor(t)) = {} THEN Inserted(UNK) ELSE {}
                 IN  found[t] + 1 \in (IF known = {} THEN {0} ELSE known)
            ELSE TableWord(found[t]) =
                    IF wanted[t].id < Len(Vocabulary) THEN Vocabulary[wanted[t].id + 1] ELSE UNK
=============================================================================
