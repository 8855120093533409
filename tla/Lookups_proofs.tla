--------------------------- MODULE Lookups_proofs ---------------------------
(* What threads that look up through shared caches are answered, proved for *)
(* any threads and questions: what the cache of Shard::find guarantees, and *)
(* a condition under which its torn reads do no harm; and that lookups of   *)
(* words and identifiers are answered right, for any vocabulary, hashes and *)
(* caches, while the table of words grows.                                  *)
EXTENDS NGramIndexCache, Vocab, WellFoundedInduction, SequenceTheorems, TLAPS

(* The cache of an index.                                                    *)

Halves == [lo : [pos : {q.pos : q \in Questions} \union {AllOnes},
                high : {q.high : q \in Questions} \union {AllOnes}],
          hi : [next : {Child[q] : q \in Questions} \union {NoChild},
                low : {q.low : q \in Questions} \union {AllOnes}]]

TypeInv ==
    /\ fetched \in [Thread -> Halves]
    /\ asked \in [Thread -> Questions]
    /\ pc \in [Thread -> {"done", "fetch_lo", "fetch_hi", "compare"}]
    /\ DOMAIN answer = Thread

\* A thread that read lo of an entry reads hi of an entry: no entry is ever
\* unset again.
FetchInv ==
    \A t \in Thread :
        /\ pc[t] = "fetch_hi" /\ fetched[t].lo.pos # AllOnes => cache # Unset
        /\ pc[t] = "compare" /\ fetched[t].lo.pos # AllOnes =>
              /\ \E q \in Questions : fetched[t].lo = Entry(q).lo
              /\ \E q \in Questions : fetched[t].hi = Entry(q).hi
        /\ pc[t] = "fetch_hi" /\ fetched[t].lo.pos # AllOnes =>
              \E q \in Questions : fetched[t].lo = Entry(q).lo

IInv == TypeInv /\ CacheRight /\ FetchInv

-----------------------------------------------------------------------------

\* The words of the entry, whoever wrote it.
LEMMA EntryWords ==
    ASSUME CacheRight
    PROVE  cache \in Halves
<1>1. Unset \in Halves
  BY DEF Unset, Halves
<1>2. ASSUME NEW q \in Questions PROVE Entry(q) \in Halves
  BY DEF Entry, Halves
<1>3. QED
  BY <1>1, <1>2 DEF CacheRight

\* The cache is unset and nobody looks anything up.
LEMMA CacheStarts == Init => IInv
<1>1. Unset \in Halves
  BY DEF Unset, Halves
<1>2. QED
  BY <1>1 DEF Init, IInv, TypeInv, CacheRight, FetchInv

\* A step of a lookup keeps what is fetched and what is cached whole enough.
LEMMA FindInv == ASSUME IInv, NEW t \in Thread, Find(t) PROVE IInv'
<1>a. TypeInv /\ CacheRight /\ FetchInv
  BY DEF IInv
<1>b. fetched[t] \in Halves /\ cache \in Halves /\ asked[t] \in Questions
  BY <1>a, EntryWords DEF TypeInv
<1>1. ASSUME NEW q \in Questions, Ask(t, q) PROVE IInv'
  <2>1. TypeInv'
    BY <1>a, <1>1 DEF Ask, Goto, TypeInv
  <2>2. CacheRight'
    BY <1>a, <1>1 DEF Ask, CacheRight
  <2>3. FetchInv'
    BY <1>a, <1>1 DEF Ask, Goto, FetchInv, TypeInv
  <2>4. QED
    BY <2>1, <2>2, <2>3 DEF IInv
<1>2. CASE FetchLo(t)
  <2>1. fetched'[t].lo = cache.lo /\ fetched'[t] \in Halves
        /\ \A u \in Thread : u # t => fetched'[u] = fetched[u]
    BY <1>a, <1>b, <1>2 DEF FetchLo, TypeInv, Halves
  <2>2. TypeInv'
    BY <1>a, <1>b, <1>2 DEF FetchLo, Goto, TypeInv, Halves
  <2>3. CacheRight'
    BY <1>a, <1>2 DEF FetchLo, CacheRight
  <2>4. cache.lo.pos # AllOnes => cache # Unset /\ \E q \in Questions : cache = Entry(q)
    BY <1>a DEF CacheRight, Unset
  <2>5. pc'[t] = "fetch_hi" /\ \A u \in Thread : u # t => pc'[u] = pc[u]
    BY <1>a, <1>2 DEF FetchLo, Goto, TypeInv
  <2>6. FetchInv'
    BY <1>a, <1>2, <2>1, <2>4, <2>5 DEF FetchLo, FetchInv
  <2>7. QED
    BY <2>2, <2>3, <2>6 DEF IInv
<1>3. CASE FetchHi(t)
  <2>1. fetched'[t].hi = cache.hi /\ fetched'[t].lo = fetched[t].lo
        /\ \A u \in Thread : u # t => fetched'[u] = fetched[u]
    BY <1>a, <1>b, <1>3 DEF FetchHi, TypeInv, Halves
  <2>2. TypeInv'
    BY <1>a, <1>b, <1>3 DEF FetchHi, Goto, TypeInv, Halves
  <2>3. CacheRight'
    BY <1>a, <1>3 DEF FetchHi, CacheRight
  <2>4. pc[t] = "fetch_hi" /\ pc'[t] = "compare" /\ \A u \in Thread : u # t => pc'[u] = pc[u]
    BY <1>a, <1>3 DEF FetchHi, Goto, TypeInv
  <2>5. fetched[t].lo.pos # AllOnes =>
           /\ \E q \in Questions : cache = Entry(q)
           /\ \E q \in Questions : fetched[t].lo = Entry(q).lo
    BY <1>a, <2>4 DEF FetchInv, CacheRight
  <2>6. FetchInv'
    BY <1>a, <1>3, <2>1, <2>4, <2>5 DEF FetchHi, FetchInv
  <2>7. QED
    BY <2>2, <2>3, <2>6 DEF IInv
<1>4. CASE Hit(t)
  <2>1. TypeInv'
    BY <1>a, <1>4 DEF Hit, Goto, TypeInv
  <2>2. CacheRight'
    BY <1>a, <1>4 DEF Hit, CacheRight
  <2>3. FetchInv'
    BY <1>a, <1>4 DEF Hit, Goto, FetchInv, TypeInv
  <2>4. QED
    BY <2>1, <2>2, <2>3 DEF IInv
<1>5. CASE Miss(t)
  <2>1. TypeInv'
    BY <1>a, <1>5 DEF Miss, Goto, TypeInv
  <2>2. cache' = cache \/ cache' = Entry(asked[t])
    BY <1>5 DEF Miss, Swapped
  <2>3. CacheRight'
    BY <1>a, <1>b, <2>2 DEF CacheRight
  <2>4. Entry(asked[t]) # Unset
    BY <1>b, CacheAssumption DEF Entry, Unset
  <2>5. \A u \in Thread : pc'[u] = pc[u] \/ pc'[u] = "done"
    BY <1>a, <1>5 DEF Miss, Goto, TypeInv
  <2>6. FetchInv'
    BY <1>a, <1>5, <2>2, <2>4, <2>5 DEF Miss, FetchInv
  <2>7. QED
    BY <2>1, <2>3, <2>6 DEF IInv
<1>6. QED
  BY <1>1, <1>2, <1>3, <1>4, <1>5 DEF Find

\* The invariant holds in every state.
LEMMA Invariance == Spec => []IInv
<1>1. IInv /\ [Next]_vars => IInv'
  <2>1. IInv /\ UNCHANGED vars => IInv'
    BY DEF vars, IInv, TypeInv, CacheRight, FetchInv
  <2>2. QED
    BY <2>1, FindInv DEF Next
<1>2. QED
  BY <1>1, CacheStarts, PTL DEF Spec

-----------------------------------------------------------------------------

\* The compare-and-swap of Shard::find keeps the cache right, although what it
\* compares with may be put together from two entries.
THEOREM CacheStaysRight == Spec => []CacheRight
<1>1. IInv => CacheRight
  BY DEF IInv
<1>2. QED
  BY <1>1, Invariance, PTL

\* Shard::find answers a question as its search would, for any threads, if no two
\* entries mix into one that seems to answer it.
THEOREM UnmixableAnswers == Spec => []UnmixableAnswersRight
<1>1. Init => UnmixableAnswersRight
  BY DEF Init, UnmixableAnswersRight
<1>2. ASSUME IInv, UnmixableAnswersRight, NEW t \in Thread, Find(t) PROVE UnmixableAnswersRight'
  <2>a. asked[t] \in Questions /\ TypeInv
    BY <1>2 DEF IInv, TypeInv
  <2>1. CASE \E q \in Questions : Ask(t, q)
    BY <1>2, <2>a, <2>1 DEF Ask, Goto, UnmixableAnswersRight, TypeInv
  <2>2. CASE FetchLo(t)
    BY <1>2, <2>a, <2>2 DEF FetchLo, Goto, UnmixableAnswersRight, TypeInv
  <2>3. CASE FetchHi(t)
    BY <1>2, <2>a, <2>3 DEF FetchHi, Goto, UnmixableAnswersRight, TypeInv
  <2>4. CASE Hit(t)
    <3>0. CASE ~ Unmixable(asked[t])
      BY <1>2, <2>4, <2>a, <3>0 DEF Hit, Goto, UnmixableAnswersRight, TypeInv
    <3>1. fetched[t].lo = [pos |-> asked[t].pos, high |-> asked[t].high]
          /\ fetched[t].hi.low = asked[t].low /\ pc[t] = "compare"
      BY <2>4 DEF Hit, Matches
    <3>2. fetched[t].lo.pos # AllOnes
      BY <2>a, <3>1, CacheAssumption
    <3>3. PICK p \in Questions, q \in Questions :
             fetched[t].lo = Entry(p).lo /\ fetched[t].hi = Entry(q).hi
      BY <1>2, <3>1, <3>2 DEF IInv, FetchInv
    <3>4. p.pos = asked[t].pos /\ p.high = asked[t].high
      BY <3>1, <3>3 DEF Entry
    <3>5. q.low = asked[t].low /\ fetched[t].hi.next = Child[q]
      BY <3>1, <3>3 DEF Entry
    <3>6. Unmixable(asked[t]) => fetched[t].hi.next = Child[asked[t]]
      BY <2>a, <3>4, <3>5 DEF Unmixable
    <3>7. QED
      BY <3>0, <1>2, <2>4, <2>a, <3>6 DEF Hit, Goto, UnmixableAnswersRight, TypeInv
  <2>5. CASE Miss(t)
    BY <1>2, <2>a, <2>5 DEF Miss, Goto, UnmixableAnswersRight, TypeInv
  <2>6. QED
    BY <1>2, <2>1, <2>2, <2>3, <2>4, <2>5 DEF Find
<1>3. IInv /\ UnmixableAnswersRight /\ [Next]_vars => UnmixableAnswersRight'
  <2>1. UnmixableAnswersRight /\ UNCHANGED vars => UnmixableAnswersRight'
    BY DEF vars, UnmixableAnswersRight
  <2>2. QED
    BY <1>2, <2>1 DEF Next
<1>4. QED
  BY <1>1, <1>3, Invariance, PTL DEF Spec

-----------------------------------------------------------------------------
(* Words and identifiers.                                                    *)

\* A non-empty set of numbers has a least one.
LEMMA LeastNumber ==
    ASSUME NEW S \in SUBSET Nat, S # {}
    PROVE  \E x \in S : \A y \in S : x <= y
<1> DEFINE R == OpToRel(<, Nat)
<1>1. IsWellFoundedOn(R, Nat)
  BY NatLessThanWellFounded
<1>2. \E x \in S : \A y \in S : ~ (<<y, x>> \in R)
  <2> HIDE DEF R
  <2>1. QED
    BY <1>1, WFMin
<1>3. PICK x \in S : \A y \in S : ~ (<<y, x>> \in R)
  BY <1>2
<1>4. ASSUME NEW y \in S PROVE x <= y
  <2>1. x \in Nat /\ y \in Nat
    OBVIOUS
  <2>2. ~ (y < x)
    BY <1>3, <2>1 DEF OpToRel
  <2>3. QED
    BY <2>1, <2>2
<1>5. QED
  BY <1>4

\* What holds of a number if it holds of the smaller ones holds up to n.
LEMMA UpTo ==
    ASSUME NEW n \in Nat, NEW S,
           \A m \in 0 .. n : (\A k \in 0 .. n : k < m => k \in S) => m \in S
    PROVE  \A m \in 0 .. n : m \in S
<1> DEFINE W == {m \in 0 .. n : m \notin S}
<1>1. SUFFICES ASSUME W # {} PROVE FALSE
  OBVIOUS
<1>2. W \in SUBSET Nat
  OBVIOUS
<1>3. PICK m \in W : \A k \in W : m <= k
  <2> HIDE DEF W
  <2>1. QED
    BY <1>1, <1>2, LeastNumber
<1>4. m \in 0 .. n /\ m \notin S
  OBVIOUS
<1>5. ASSUME NEW k \in 0 .. n, k < m PROVE k \in S
  BY <1>3, <1>5
<1>6. QED
  BY <1>4, <1>5

-----------------------------------------------------------------------------
(* Chains of a hash table.                                                  *)

\* Each bin has the last of its keys, and each key the one before it in its bin;
\* bin[i] is the bin of the key with number i.
Chained(n, bin, bins, nexts) ==
    /\ \A b \in DOMAIN bins :
          /\ bins[b] \in 0 .. n
          /\ bins[b] # 0 => bin[bins[b]] = b
          /\ \A i \in 1 .. n : bin[i] = b => i <= bins[b]
    /\ \A i \in 1 .. n :
          /\ nexts[i] \in 0 .. i - 1
          /\ nexts[i] # 0 => bin[nexts[i]] = bin[i]
          /\ \A j \in 1 .. i - 1 : bin[j] = bin[i] => j <= nexts[i]

\* A key is put at the front of its chain.
LEMMA ChainPush ==
    ASSUME NEW n \in Nat, NEW bin, NEW bins, NEW nexts, Chained(n, bin, bins, nexts),
           NEW b \in DOMAIN bins, NEW bin2, NEW nexts2,
           \A i \in 1 .. n : bin2[i] = bin[i] /\ nexts2[i] = nexts[i],
           bin2[n + 1] = b, nexts2[n + 1] = bins[b]
    PROVE  Chained(n + 1, bin2, [bins EXCEPT ![b] = n + 1], nexts2)
<1>1. bins[b] \in 0 .. n
  BY DEF Chained
<1>2. ASSUME NEW c \in DOMAIN bins
      PROVE  LET now == [bins EXCEPT ![b] = n + 1][c]
             IN  /\ now \in 0 .. n + 1
                 /\ now # 0 => bin2[now] = c
                 /\ \A i \in 1 .. n + 1 : bin2[i] = c => i <= now
  <2>0. /\ bins[c] \in 0 .. n
        /\ bins[c] # 0 => bin[bins[c]] = c
        /\ \A i \in 1 .. n : bin[i] = c => i <= bins[c]
    BY DEF Chained
  <2>1. CASE c = b
    BY <2>1
  <2>2. CASE c # b
    <3>1. [bins EXCEPT ![b] = n + 1][c] = bins[c]
      BY <2>2
    <3>2. bins[c] # 0 => bin2[bins[c]] = c
      BY <2>0
    <3>3. ASSUME NEW i \in 1 .. n + 1, bin2[i] = c PROVE i <= bins[c]
      <4>1. i # n + 1
        BY <2>2, <3>3
      <4>2. i \in 1 .. n
        BY <4>1
      <4>3. QED
        BY <2>0, <3>3, <4>2
    <3>4. QED
      BY <2>0, <3>1, <3>2, <3>3
  <2>3. QED
    BY <2>1, <2>2
<1>3. ASSUME NEW i \in 1 .. n + 1
      PROVE  /\ nexts2[i] \in 0 .. i - 1
             /\ nexts2[i] # 0 => bin2[nexts2[i]] = bin2[i]
             /\ \A j \in 1 .. i - 1 : bin2[j] = bin2[i] => j <= nexts2[i]
  <2>1. CASE i = n + 1
    <3>1. nexts2[i] = bins[b] /\ bin2[i] = b
      BY <2>1
    <3>2. bins[b] # 0 => bin2[bins[b]] = b
      BY <1>1 DEF Chained
    <3>3. ASSUME NEW j \in 1 .. n, bin2[j] = b PROVE j <= bins[b]
      BY <3>3 DEF Chained
    <3>4. QED
      BY <1>1, <2>1, <3>1, <3>2, <3>3
  <2>2. CASE i # n + 1
    <3>1. i \in 1 .. n /\ \A j \in 1 .. i - 1 : j \in 1 .. n
      BY <2>2
    <3>2. /\ nexts[i] \in 0 .. i - 1
          /\ nexts[i] # 0 => bin[nexts[i]] = bin[i]
          /\ \A j \in 1 .. i - 1 : bin[j] = bin[i] => j <= nexts[i]
      BY <3>1 DEF Chained
    <3>3. nexts[i] # 0 => nexts[i] \in 1 .. n
      BY <3>1, <3>2
    <3>4. QED
      BY <3>1, <3>2, <3>3
  <2>3. QED
    BY <2>1, <2>2
<1>4. QED
  BY <1>2, <1>3 DEF Chained

\* f finds the first key with the value v from each key on.
Searches(n, vals, v, nexts, f) ==
    f = [i \in 0 .. n |-> IF i = 0 \/ vals[i] = v THEN i ELSE f[nexts[i]]]

\* r is the last key with the value v, or zero.
LastWith(n, vals, v, r) ==
    /\ r \in 0 .. n
    /\ r # 0 => vals[r] = v
    /\ \A i \in 1 .. n : vals[i] = v => i <= r

\* The search along chains is well founded.
LEMMA SearchDefined ==
    ASSUME NEW n \in Nat, NEW vals, NEW v, NEW nexts,
           \A i \in 1 .. n : nexts[i] \in 0 .. i - 1
    PROVE  \E f : Searches(n, vals, v, nexts, f)
<1> DEFINE Found(m) == \E f : /\ DOMAIN f = 0 .. m
                              /\ \A i \in 0 .. m :
                                   f[i] = IF i = 0 \/ vals[i] = v THEN i ELSE f[nexts[i]]
           S == {m \in 0 .. n : Found(m)}
<1>1. ASSUME NEW m \in 0 .. n, \A k \in 0 .. n : k < m => k \in S PROVE m \in S
  <2>1. CASE m = 0
    <3>1. \A i \in 0 .. m : [i2 \in 0 .. 0 |-> 0][i] = i /\ i = 0
      BY <2>1
    <3>2. Found(m)
      BY <2>1, <3>1
    <3>3. QED
      BY <3>2
  <2>2. CASE m # 0
    <3>1. m - 1 \in 0 .. n /\ m - 1 < m /\ m \in 1 .. n /\ nexts[m] \in 0 .. m - 1
      BY <2>2
    <3>2. PICK f : /\ DOMAIN f = 0 .. m - 1
                   /\ \A i \in 0 .. m - 1 :
                        f[i] = IF i = 0 \/ vals[i] = v THEN i ELSE f[nexts[i]]
      BY <1>1, <3>1
    <3>3. PICK last : last = IF vals[m] = v THEN m ELSE f[nexts[m]]
      OBVIOUS
    <3>4. PICK g : g = [i \in 0 .. m |-> IF i = m THEN last ELSE f[i]]
      OBVIOUS
    <3>5. ASSUME NEW i \in 0 .. m
          PROVE  g[i] = IF i = 0 \/ vals[i] = v THEN i ELSE g[nexts[i]]
      <4>1. CASE i = m
        <5>1. g[nexts[m]] = f[nexts[m]] /\ g[m] = last
          BY <3>1, <3>4
        <5>2. QED
          BY <3>3, <4>1, <5>1, <2>2
      <4>2. CASE i # m
        <5>1. i \in 0 .. m - 1 /\ g[i] = f[i]
          BY <3>4, <4>2
        <5>2. CASE i = 0
          BY <3>2, <5>1, <5>2
        <5>3. CASE i # 0
          <6>1. i \in 1 .. n /\ nexts[i] \in 0 .. i - 1
            BY <5>3
          <6>2. nexts[i] \in 0 .. m - 1 /\ nexts[i] \in 0 .. m /\ nexts[i] # m
            BY <5>1, <6>1
          <6>3. g[nexts[i]] = f[nexts[i]]
            BY <3>4, <6>2
          <6>4. QED
            BY <3>2, <5>1, <6>3
        <5>4. QED
          BY <5>2, <5>3
      <4>3. QED
        BY <4>1, <4>2
    <3>6. DOMAIN g = 0 .. m
      BY <3>4
    <3>7. QED
      BY <3>5, <3>6
  <2>3. QED
    BY <2>1, <2>2
<1>2. n \in S
  <2> HIDE DEF S
  <2>1. \A m \in 0 .. n : m \in S
    BY <1>1, UpTo
  <2>2. QED
    BY <2>1
<1>3. PICK f : /\ DOMAIN f = 0 .. n
               /\ \A i \in 0 .. n :
                    f[i] = IF i = 0 \/ vals[i] = v THEN i ELSE f[nexts[i]]
  BY <1>2
<1>4. \A i \in 0 .. n :
        [j \in 0 .. n |-> IF j = 0 \/ vals[j] = v THEN j ELSE f[nexts[j]]][i] = f[i]
  BY <1>3
<1>5. PICK g : g = [j \in 0 .. n |-> IF j = 0 \/ vals[j] = v THEN j ELSE f[nexts[j]]]
  OBVIOUS
<1>6. PICK h : h = [j \in 0 .. n |-> f[j]]
  OBVIOUS
<1>7. g = h
  BY <1>4, <1>5, <1>6
<1>8. \A i \in 1 .. n : nexts[i] \in 0 .. n
  OBVIOUS
<1>9. h = [j \in 0 .. n |-> IF j = 0 \/ vals[j] = v THEN j ELSE h[nexts[j]]]
  <2>1. \A j \in 0 .. n : j # 0 => h[nexts[j]] = f[nexts[j]]
    BY <1>6, <1>8
  <2>2. QED
    BY <1>5, <1>7, <2>1
<1>10. QED
  BY <1>9 DEF Searches

\* The search in the chain of a value's bin finds the last key with that value.
LEMMA SearchFinds ==
    ASSUME NEW n \in Nat, NEW bin, NEW bins, NEW nexts, Chained(n, bin, bins, nexts),
           NEW vals, NEW v, NEW b \in DOMAIN bins,
           \A i \in 1 .. n : vals[i] = v => bin[i] = b,
           NEW f, Searches(n, vals, v, nexts, f)
    PROVE  LastWith(n, vals, v, f[bins[b]])
<1> DEFINE Right(m) == /\ f[m] \in 0 .. m
                       /\ f[m] # 0 => vals[f[m]] = v
                       /\ \A j \in 1 .. m : vals[j] = v => j <= f[m]
           S == {m \in 0 .. n : m = 0 \/ bin[m] = b => Right(m)}
<1>0. \A i \in 0 .. n : f[i] = IF i = 0 \/ vals[i] = v THEN i ELSE f[nexts[i]]
  BY DEF Searches
<1>1. ASSUME NEW m \in 0 .. n, \A k \in 0 .. n : k < m => k \in S PROVE m \in S
  <2>1. CASE m = 0
    BY <1>0, <2>1
  <2>2. CASE m # 0 /\ bin[m] # b
    BY <2>2
  <2>3. CASE m # 0 /\ bin[m] = b
    <3>1. m \in 1 .. n
      BY <2>3
    <3>2. CASE vals[m] = v
      BY <1>0, <3>1, <3>2
    <3>3. CASE vals[m] # v
      <4>1. /\ nexts[m] \in 0 .. m - 1
            /\ nexts[m] # 0 => bin[nexts[m]] = b
            /\ \A j \in 1 .. m - 1 : bin[j] = b => j <= nexts[m]
        BY <2>3, <3>1 DEF Chained
      <4>2. nexts[m] \in 0 .. n /\ nexts[m] < m
        BY <3>1, <4>1
      <4>3. Right(nexts[m])
        BY <1>1, <4>1, <4>2
      <4>4. f[m] = f[nexts[m]]
        BY <1>0, <2>3, <3>3
      <4>5. ASSUME NEW j \in 1 .. m, vals[j] = v PROVE j <= f[nexts[m]]
        <5>1. j # m /\ j \in 1 .. m - 1 /\ j \in 1 .. n
          BY <3>1, <3>3, <4>5
        <5>2. j <= nexts[m]
          BY <4>1, <4>5, <5>1
        <5>3. j \in 1 .. nexts[m]
          BY <4>1, <5>1, <5>2
        <5>4. QED
          BY <4>3, <4>5, <5>3
      <4>6. f[nexts[m]] \in 0 .. m
        BY <3>1, <4>1, <4>3
      <4>7. Right(m)
        BY <4>3, <4>4, <4>5, <4>6
      <4>8. QED
        BY <4>7
    <3>4. QED
      BY <3>2, <3>3
  <2>4. QED
    BY <2>1, <2>2, <2>3
<1>2. \A m \in 0 .. n : m \in S
  <2> HIDE DEF S
  <2>1. QED
    BY <1>1, UpTo
<1>3. /\ bins[b] \in 0 .. n
      /\ bins[b] # 0 => bin[bins[b]] = b
      /\ \A i \in 1 .. n : bin[i] = b => i <= bins[b]
  BY DEF Chained
<1>4. Right(bins[b])
  BY <1>2, <1>3
<1>5. f[bins[b]] \in 0 .. n
  BY <1>3, <1>4
<1>6. ASSUME NEW i \in 1 .. n, vals[i] = v PROVE i <= f[bins[b]]
  <2>1. i <= bins[b]
    BY <1>3, <1>6
  <2>2. i \in 1 .. bins[b]
    BY <1>3, <2>1
  <2>3. QED
    BY <1>4, <1>6, <2>2
<1>7. QED
  BY <1>4, <1>5, <1>6 DEF LastWith

-----------------------------------------------------------------------------
(* The words of the vocabulary.                                             *)

\* Keys are inserted one after the other.
LEMMA BuiltSteps ==
    ASSUME NEW keys, Len(keys) \in Nat
    PROVE  \E g : /\ g[0] = Empty
                  /\ \A i \in 1 .. Len(keys) : g[i] = Insert(g[i - 1], keys[i])
                  /\ Built(keys) = g[Len(keys)]
<1> DEFINE N == Len(keys)
           Steps(m, f) == \A i \in 0 .. m : f[i] = IF i = 0 THEN Empty ELSE Insert(f[i - 1], keys[i])
           S == {m \in 0 .. N : \E f : Steps(m, f)}
<1>1. ASSUME NEW m \in 0 .. N, \A k \in 0 .. N : k < m => k \in S PROVE m \in S
  <2>1. CASE m = 0
    <3>1. Steps(m, [i \in 0 .. 0 |-> Empty])
      BY <2>1
    <3>2. QED
      BY <3>1
  <2>2. CASE m # 0
    <3>1. m - 1 \in 0 .. N /\ m - 1 < m
      BY <2>2
    <3>2. PICK f : Steps(m - 1, f)
      BY <1>1, <3>1
    <3>3. PICK g : g = [i \in 0 .. m |-> IF i = m THEN Insert(f[m - 1], keys[m]) ELSE f[i]]
      OBVIOUS
    <3>4. ASSUME NEW i \in 0 .. m
          PROVE  g[i] = IF i = 0 THEN Empty ELSE Insert(g[i - 1], keys[i])
      <4>1. CASE i = m
        <5>1. g[m - 1] = f[m - 1] /\ g[m] = Insert(f[m - 1], keys[m])
          BY <3>1, <3>3
        <5>2. QED
          BY <2>2, <4>1, <5>1
      <4>2. CASE i # m
        <5>1. i \in 0 .. m - 1 /\ g[i] = f[i]
          BY <3>3, <4>2
        <5>2. i # 0 => g[i - 1] = f[i - 1]
          BY <3>3, <5>1
        <5>3. QED
          BY <3>2, <5>1, <5>2
      <4>3. QED
        BY <4>1, <4>2
    <3>5. QED
      BY <3>4
  <2>3. QED
    BY <2>1, <2>2
<1>2. N \in S
  <2> HIDE DEF S
  <2>1. \A m \in 0 .. N : m \in S
    BY <1>1, UpTo
  <2>2. QED
    BY <2>1
<1>3. PICK f : Steps(N, f)
  BY <1>2
<1>4. PICK h : h = [i \in 0 .. N |-> f[i]]
  OBVIOUS
<1>5. h = [i \in 0 .. N |-> IF i = 0 THEN Empty ELSE Insert(h[i - 1], keys[i])]
  <2>1. \A i \in 0 .. N : i # 0 => h[i - 1] = f[i - 1]
    BY <1>4
  <2>2. \A i \in 0 .. N : h[i] = IF i = 0 THEN Empty ELSE Insert(h[i - 1], keys[i])
    BY <1>3, <1>4, <2>1
  <2>3. QED
    BY <1>4, <2>2
<1>6. PICK g : g = CHOOSE u : u = [i \in 0 .. N |-> IF i = 0 THEN Empty ELSE Insert(u[i - 1], keys[i])]
  OBVIOUS
<1>7. g = [i \in 0 .. N |-> IF i = 0 THEN Empty ELSE Insert(g[i - 1], keys[i])]
  BY <1>5, <1>6
<1>8. Built(keys) = g[N]
  BY <1>6 DEF Built
<1>9. g[0] = Empty
  BY <1>7
<1>10. ASSUME NEW i \in 1 .. N PROVE g[i] = Insert(g[i - 1], keys[i])
  <2>1. i \in 0 .. N /\ i # 0
    OBVIOUS
  <2>2. QED
    BY <1>7, <2>1
<1>11. QED
  BY <1>8, <1>9, <1>10

\* What is known of the hash table of some keys.
Hashed(hash, keys, n) ==
    /\ hash = [bins |-> hash.bins, nexts |-> hash.nexts, keys |-> hash.keys]
    /\ DOMAIN hash.bins = 0 .. Bins - 1
    /\ hash.nexts \in Seq(Nat) /\ Len(hash.nexts) = n
    /\ hash.keys \in Seq(Range(keys)) /\ Len(hash.keys) = n
    /\ \A i \in 1 .. n : hash.keys[i] = keys[i]
    /\ Chained(n, [i \in 1 .. n |-> Bin[keys[i]]], hash.bins, hash.nexts)

\* One more key keeps the chains right.
LEMMA InsertHashed ==
    ASSUME NEW keys, keys \in Seq(Range(keys)), NEW i \in 1 .. Len(keys),
           NEW hash, Hashed(hash, keys, i - 1), \A k \in 1 .. Len(keys) : Bin[keys[k]] \in 0 .. Bins - 1
    PROVE  Hashed(Insert(hash, keys[i]), keys, i)
<1> DEFINE n == i - 1
           b == Bin[keys[i]]
           new == Insert(hash, keys[i])
<1>1. n \in Nat /\ i = n + 1 /\ b \in 0 .. Bins - 1 /\ keys[i] \in Range(keys)
  BY DEF Range
<1>2. /\ DOMAIN hash.bins = 0 .. Bins - 1
      /\ hash.nexts \in Seq(Nat) /\ Len(hash.nexts) = n
      /\ hash.keys \in Seq(Range(keys)) /\ Len(hash.keys) = n
      /\ \A k \in 1 .. n : hash.keys[k] = keys[k]
      /\ Chained(n, [k \in 1 .. n |-> Bin[keys[k]]], hash.bins, hash.nexts)
  BY DEF Hashed
<1>3. /\ new = [bins |-> new.bins, nexts |-> new.nexts, keys |-> new.keys]
      /\ new.bins = [hash.bins EXCEPT ![b] = n + 1]
      /\ new.nexts = Append(hash.nexts, hash.bins[b])
      /\ new.keys = Append(hash.keys, keys[i])
  BY <1>2 DEF Insert, NextOf
<1>4. hash.bins[b] \in Nat
  <2> HIDE DEF n, b, new
  <2>1. PICK bin : bin = [k \in 1 .. n |-> Bin[keys[k]]]
    OBVIOUS
  <2>2. Chained(n, bin, hash.bins, hash.nexts) /\ b \in DOMAIN hash.bins
    BY <1>1, <1>2, <2>1
  <2>3. hash.bins[b] \in 0 .. n
    BY <2>2 DEF Chained
  <2>4. QED
    BY <1>1, <2>3
<1>5. /\ new.nexts \in Seq(Nat) /\ Len(new.nexts) = i /\ new.nexts[n + 1] = hash.bins[b]
      /\ \A k \in 1 .. n : new.nexts[k] = hash.nexts[k]
  <2> HIDE DEF n, b, new
  <2>1. QED
    BY <1>1, <1>2, <1>3, <1>4
<1>6. /\ new.keys \in Seq(Range(keys)) /\ Len(new.keys) = i
      /\ \A k \in 1 .. i : new.keys[k] = keys[k]
  <2> HIDE DEF n, b, new
  <2>1. QED
    BY <1>1, <1>2, <1>3
<1>7. PICK bin : bin = [k \in 1 .. n |-> Bin[keys[k]]]
  OBVIOUS
<1>8. PICK bin2 : bin2 = [k \in 1 .. i |-> Bin[keys[k]]]
  OBVIOUS
<1>9. (\A k \in 1 .. n : bin2[k] = bin[k]) /\ bin2[n + 1] = b
  BY <1>1, <1>7, <1>8
<1>10. Chained(n, bin, hash.bins, hash.nexts) /\ b \in DOMAIN hash.bins
  BY <1>1, <1>2, <1>7
<1>11. Chained(n + 1, bin2, [hash.bins EXCEPT ![b] = n + 1], new.nexts)
  <2> HIDE DEF n, b, new
  <2>1. PICK bins, nexts, nexts2 : /\ bins = hash.bins /\ nexts = hash.nexts
                                   /\ nexts2 = new.nexts
    OBVIOUS
  <2>2. /\ n \in Nat /\ Chained(n, bin, bins, nexts) /\ b \in DOMAIN bins
        /\ \A k \in 1 .. n : bin2[k] = bin[k] /\ nexts2[k] = nexts[k]
        /\ bin2[n + 1] = b /\ nexts2[n + 1] = bins[b]
    BY <1>1, <1>5, <1>9, <1>10, <2>1
  <2>3. Chained(n + 1, bin2, [bins EXCEPT ![b] = n + 1], nexts2)
    BY <2>2, ChainPush
  <2>4. QED
    BY <2>1, <2>3
<1>12. DOMAIN new.bins = 0 .. Bins - 1
  BY <1>2, <1>3
<1>13. QED
  <2> HIDE DEF n, b, new
  <2>1. Chained(i, [k \in 1 .. i |-> Bin[keys[k]]], new.bins, new.nexts)
    BY <1>1, <1>3, <1>8, <1>11
  <2>2. Hashed(new, keys, i)
    BY <1>3, <1>5, <1>6, <1>12, <2>1 DEF Hashed
  <2>3. QED
    BY <2>2 DEF new

\* The hash table of the vocabulary.
LEMMA MappedHashed == Hashed(mapped, Vocabulary, Len(Vocabulary))
<1>1. /\ Vocabulary \in Seq(Range(Vocabulary)) /\ Len(Vocabulary) \in Nat
      /\ \A k \in 1 .. Len(Vocabulary) : Bin[Vocabulary[k]] \in 0 .. Bins - 1
  <2>1. Vocabulary \in Seq(Range(Vocabulary))
    BY VocabAssumption
  <2>2. \A k \in 1 .. Len(Vocabulary) : Vocabulary[k] \in Range(Vocabulary)
    BY <2>1
  <2>3. QED
    BY <2>1, <2>2, VocabAssumption
<1>2. PICK g : /\ g[0] = Empty
               /\ \A i \in 1 .. Len(Vocabulary) : g[i] = Insert(g[i - 1], Vocabulary[i])
               /\ mapped = g[Len(Vocabulary)]
  BY <1>1, BuiltSteps DEF mapped
<1> DEFINE S == {m \in 0 .. Len(Vocabulary) : Hashed(g[m], Vocabulary, m)}
<1>3. ASSUME NEW m \in 0 .. Len(Vocabulary), \A k \in 0 .. Len(Vocabulary) : k < m => k \in S
      PROVE  m \in S
  <2>1. CASE m = 0
    <3>1. Hashed(Empty, Vocabulary, 0)
      BY VocabAssumption DEF Hashed, Empty, Chained
    <3>2. QED
      BY <1>2, <2>1, <3>1
  <2>2. CASE m # 0
    <3>1. m \in 1 .. Len(Vocabulary) /\ m - 1 \in 0 .. Len(Vocabulary) /\ m - 1 < m
      BY <2>2
    <3>2. Hashed(g[m - 1], Vocabulary, m - 1)
      BY <1>3, <3>1
    <3>3. Hashed(Insert(g[m - 1], Vocabulary[m]), Vocabulary, m)
      <4> HIDE DEF S
      <4>1. QED
        BY <1>1, <3>1, <3>2, InsertHashed
    <3>4. QED
      BY <1>2, <3>1, <3>3
  <2>3. QED
    BY <2>1, <2>2
<1>4. Len(Vocabulary) \in S
  <2> HIDE DEF S
  <2>1. \A m \in 0 .. Len(Vocabulary) : m \in S
    BY <1>1, <1>3, UpTo
  <2>2. QED
    BY <1>1, <2>1
<1>5. QED
  BY <1>2, <1>4

\* The words of the vocabulary are the ones that were inserted.
LEMMA MappedKeys ==
    /\ Len(Vocabulary) \in Nat /\ Len(mapped.keys) = Len(Vocabulary)
    /\ DOMAIN Vocabulary = 1 .. Len(Vocabulary)
    /\ \A i \in 1 .. Len(Vocabulary) :
         mapped.keys[i] = Vocabulary[i] /\ Vocabulary[i] \in Range(Vocabulary)
<1>1. Vocabulary \in Seq(Range(Vocabulary))
  BY VocabAssumption
<1>2. Hashed(mapped, Vocabulary, Len(Vocabulary))
  BY MappedHashed
<1>3. QED
  BY <1>1, <1>2 DEF Hashed

\* A lookup finds where a word was inserted last, and npos if it was not.
LEMMA LookupRight ==
    ASSUME NEW k \in Spellings \union Range(Vocabulary) \union {UNK}
    PROVE  /\ Lookup(mapped, k) \in Int
           /\ Inserted(k) = {} => Lookup(mapped, k) = npos
           /\ Inserted(k) # {} => Lookup(mapped, k) # npos /\ Lookup(mapped, k) + 1 \in Inserted(k)
<1>0. PICK n : n = Len(Vocabulary)
  OBVIOUS
<1>1. PICK bin : bin = [i \in 1 .. n |-> Bin[Vocabulary[i]]]
  OBVIOUS
<1>2. PICK bins, nexts, keys : bins = mapped.bins /\ nexts = mapped.nexts /\ keys = mapped.keys
  OBVIOUS
<1>3. /\ n \in Nat /\ Len(keys) = n /\ DOMAIN Vocabulary = 1 .. n
      /\ \A i \in 1 .. n : keys[i] = Vocabulary[i]
  BY <1>0, <1>2, MappedKeys
<1>4. Chained(n, bin, bins, nexts) /\ DOMAIN bins = 0 .. Bins - 1
  BY <1>0, <1>1, <1>2, MappedHashed DEF Hashed
<1>5. PICK b : b = Bin[k] /\ b \in DOMAIN bins
  BY <1>4, VocabAssumption
<1>6. \A i \in 1 .. n : nexts[i] \in 0 .. i - 1
  BY <1>4 DEF Chained
<1>7. PICK f : f = CHOOSE u : u = [i \in 0 .. n |-> IF i = 0 \/ keys[i] = k THEN i ELSE u[nexts[i]]]
  OBVIOUS
<1>8. \E u : u = [i \in 0 .. n |-> IF i = 0 \/ keys[i] = k THEN i ELSE u[nexts[i]]]
  <2>1. PICK u : Searches(n, keys, k, nexts, u)
    BY <1>3, <1>6, SearchDefined
  <2>2. QED
    BY <2>1 DEF Searches
<1>9. f = [i \in 0 .. n |-> IF i = 0 \/ keys[i] = k THEN i ELSE f[nexts[i]]]
  BY <1>7, <1>8
<1>10. Searches(n, keys, k, nexts, f)
  BY <1>9 DEF Searches
<1>11. \A i \in 1 .. n : keys[i] = k => bin[i] = b
  BY <1>1, <1>3, <1>5
<1>12. LastWith(n, keys, k, f[bins[b]])
  <2>1. /\ n \in Nat /\ Chained(n, bin, bins, nexts) /\ b \in DOMAIN bins
        /\ \A i \in 1 .. n : keys[i] = k => bin[i] = b
        /\ Searches(n, keys, k, nexts, f)
    BY <1>3, <1>4, <1>5, <1>10, <1>11
  <2>2. QED
    BY <2>1, SearchFinds
<1>13. Lookup(mapped, k) = f[bins[b]] - 1
  BY <1>2, <1>3, <1>5, <1>7 DEF Lookup
<1>14. PICK r : r = f[bins[b]] /\ r \in 0 .. n /\ Lookup(mapped, k) = r - 1
  BY <1>12, <1>13 DEF LastWith
<1>15. r # 0 => r \in Inserted(k)
  BY <1>3, <1>12, <1>14 DEF Inserted, LastWith
<1>16. r = 0 => Inserted(k) = {}
  <2> SUFFICES ASSUME r = 0, NEW i \in Inserted(k) PROVE FALSE
    OBVIOUS
  <2>1. i \in 1 .. n /\ keys[i] = k
    BY <1>3 DEF Inserted
  <2>2. QED
    BY <1>12, <1>14, <2>1 DEF LastWith
<1>17. QED
  BY <1>3, <1>14, <1>15, <1>16 DEF npos

-----------------------------------------------------------------------------
(* The table of the process.                                                *)

Words == Spellings \union Range(Vocabulary) \union {EMPTY, UNK}

Strings == UNION {[D -> Words] : D \in SUBSET (Nat \X Nat)}

Tables == [bins : Seq(Nat), nexts : Seq(Nat), keys : Seq(Nat \X Nat),
           chunks : Seq(Nat), size : Nat, strings : Strings]

\* The bin of each key, when there are n bins.
BinsOf(t, n) == [i \in 1 .. t.size |-> (WordHash[t.strings[t.keys[i]]] % n) + 1]

\* The strings are where their numbers say, in pieces that differ, the key of
\* the index with number i is the string with number i - 1, and no two strings
\* are the same.
StringsOk(t) ==
    /\ Len(t.chunks) = t.size \div ChunkSize + 1
    /\ \A i, j \in 1 .. Len(t.chunks) : i < j => t.chunks[i] < t.chunks[j]
    /\ DOMAIN t.strings = {Place(t, n) : n \in 0 .. t.size - 1}
    /\ Len(t.keys) = t.size
    /\ \A i \in 1 .. t.size : t.keys[i] = Place(t, i - 1)
    /\ \A i, j \in 1 .. t.size : t.strings[t.keys[i]] = t.strings[t.keys[j]] => i = j

IndexOk(t) ==
    /\ Len(t.bins) # 0
    /\ Len(t.nexts) = t.size
    /\ Chained(t.size, BinsOf(t, Len(t.bins)), t.bins, t.nexts)

TableOk(t) == t \in Tables /\ StringsOk(t) /\ IndexOk(t)

\* Pieces and places in them.
LEMMA Pieces ==
    ASSUME NEW n \in Nat
    PROVE  /\ n \div ChunkSize \in Nat /\ n % ChunkSize \in Nat
           /\ n % ChunkSize < ChunkSize
           /\ n = ChunkSize * (n \div ChunkSize) + (n % ChunkSize)
<1>1. PICK c \in Nat : c = ChunkSize /\ c > 0
  BY VocabAssumption
<1>2. n \div c \in Nat
  BY <1>1
<1>3. n % c \in Nat /\ n % c < c
  BY <1>1
<1>4. n = c * (n \div c) + (n % c)
  BY <1>1
<1>5. QED
  BY <1>1, <1>2, <1>3, <1>4

LEMMA PiecesGrow ==
    ASSUME NEW n \in Nat, NEW m \in Nat, m <= n
    PROVE  m \div ChunkSize <= n \div ChunkSize
<1>1. PICK c : c = ChunkSize /\ c \in Nat \ {0}
  BY VocabAssumption
<1>2. PICK a, x : a = m \div c /\ x = m % c /\ a \in Nat /\ x \in Nat /\ x < c /\ m = c * a + x
  BY <1>1, Pieces
<1>3. PICK b, y : b = n \div c /\ y = n % c /\ b \in Nat /\ y \in Nat /\ y < c /\ n = c * b + y
  BY <1>1, Pieces
<1>4. SUFFICES ASSUME a > b PROVE FALSE
  BY <1>1, <1>2, <1>3
<1>5. PICK d \in Nat : a = b + 1 + d
  <2>1. a - b - 1 \in Nat /\ a = b + 1 + (a - b - 1)
    BY <1>2, <1>3, <1>4
  <2>2. QED
    BY <2>1
<1>6. c * a = c * b + c + c * d
  BY <1>1, <1>2, <1>3, <1>5
<1>7. c * d \in Nat /\ c * a \in Nat /\ c * b \in Nat
  BY <1>1, <1>2, <1>3
<1>8. QED
  BY <1>1, <1>2, <1>3, <1>6, <1>7

\* The number of a string decides its place, and the place the number.
LEMMA Places ==
    ASSUME NEW t, t \in Tables, StringsOk(t), NEW n \in 0 .. t.size
    PROVE  /\ n \div ChunkSize + 1 \in 1 .. Len(t.chunks)
           /\ Place(t, n) \in Nat \X Nat
           /\ \A m \in 0 .. t.size : Place(t, m) = Place(t, n) => m = n
<1>1. t.size \in Nat /\ t.chunks \in Seq(Nat) /\ n \in Nat
  BY DEF Tables
<1>2. ASSUME NEW m \in 0 .. t.size
      PROVE  /\ m \in Nat /\ m \div ChunkSize \in Nat
             /\ m \div ChunkSize + 1 \in 1 .. Len(t.chunks)
  <2>1. m \in Nat /\ m <= t.size
    BY <1>1
  <2>2. m \div ChunkSize \in Nat /\ t.size \div ChunkSize \in Nat
        /\ m \div ChunkSize <= t.size \div ChunkSize
    BY <1>1, <2>1, Pieces, PiecesGrow
  <2>3. Len(t.chunks) = t.size \div ChunkSize + 1
    BY DEF StringsOk
  <2>4. QED
    BY <2>1, <2>2, <2>3
<1>3. Place(t, n) \in Nat \X Nat
  <2>1. t.chunks[n \div ChunkSize + 1] \in Nat
    BY <1>1, <1>2
  <2>2. n % ChunkSize \in Nat
    BY <1>1, Pieces
  <2>3. QED
    BY <2>1, <2>2 DEF Place
<1>4. ASSUME NEW m \in 0 .. t.size, Place(t, m) = Place(t, n) PROVE m = n
  <2>1. t.chunks[m \div ChunkSize + 1] = t.chunks[n \div ChunkSize + 1] /\ m % ChunkSize = n % ChunkSize
    BY <1>4 DEF Place
  <2>2. m \div ChunkSize + 1 = n \div ChunkSize + 1
    <3>1. PICK i, j : /\ i = m \div ChunkSize + 1 /\ j = n \div ChunkSize + 1
                      /\ i \in 1 .. Len(t.chunks) /\ j \in 1 .. Len(t.chunks)
      BY <1>2
    <3>2. i < j => t.chunks[i] < t.chunks[j]
      BY <3>1 DEF StringsOk
    <3>3. j < i => t.chunks[j] < t.chunks[i]
      BY <3>1 DEF StringsOk
    <3>4. t.chunks[i] \in Nat /\ t.chunks[j] \in Nat /\ t.chunks[i] = t.chunks[j]
      BY <1>1, <2>1, <3>1
    <3>5. QED
      BY <3>1, <3>2, <3>3, <3>4
  <2>3. m \div ChunkSize = n \div ChunkSize
    BY <1>1, <1>2, <2>2
  <2>4. m = ChunkSize * (m \div ChunkSize) + (m % ChunkSize)
       /\ n = ChunkSize * (n \div ChunkSize) + (n % ChunkSize)
    BY <1>1, <1>2, Pieces
  <2>5. QED
    BY <2>1, <2>3, <2>4
<1>5. QED
  BY <1>2, <1>3, <1>4

\* The string of a number is a word.
LEMMA StringsOfWords ==
    ASSUME NEW t, t \in Tables, StringsOk(t)
    PROVE  /\ t.size \in Nat
           /\ \A n \in 0 .. t.size - 1 : /\ Place(t, n) \in DOMAIN t.strings
                                         /\ t.strings[Place(t, n)] \in Words
           /\ \A i \in 1 .. t.size : /\ t.keys[i] \in DOMAIN t.strings
                                     /\ t.strings[t.keys[i]] \in Words
<1>1. t.size \in Nat /\ t.strings \in Strings
  BY DEF Tables
<1>2. \A p \in DOMAIN t.strings : t.strings[p] \in Words
  BY <1>1 DEF Strings
<1>3. \A n \in 0 .. t.size - 1 : Place(t, n) \in DOMAIN t.strings
  BY DEF StringsOk
<1>4. ASSUME NEW i \in 1 .. t.size PROVE t.keys[i] \in DOMAIN t.strings
  <2>1. i - 1 \in 0 .. t.size - 1 /\ t.keys[i] = Place(t, i - 1)
    BY <1>1 DEF StringsOk
  <2>2. QED
    BY <1>3, <2>1
<1>5. QED
  BY <1>1, <1>2, <1>3, <1>4

\* A word has a bin.
LEMMA BinOfWord ==
    ASSUME NEW w \in Words, NEW n \in Nat, n # 0
    PROVE  (WordHash[w] % n) + 1 \in 1 .. n
<1>1. WordHash[w] \in Nat
  BY VocabAssumption DEF Words
<1>2. PICK h \in Nat : h = WordHash[w]
  BY <1>1
<1>3. h % n \in 0 .. n - 1
  OBVIOUS
<1>4. QED
  BY <1>2, <1>3

\* The index finds a spelling in the table where it is, and no other.
LEMMA FindWordRight ==
    ASSUME NEW t, TableOk(t), NEW w \in Words
    PROVE  LastWith(t.size, [i \in 1 .. t.size |-> t.strings[t.keys[i]]], w, FindWord(t, w))
<1>0. t \in Tables /\ StringsOk(t) /\ IndexOk(t)
  BY DEF TableOk
<1>1. PICK n, vals, bins, nexts, bin :
         /\ n = t.size /\ vals = [i \in 1 .. t.size |-> t.strings[t.keys[i]]]
         /\ bins = t.bins /\ nexts = t.nexts /\ bin = BinsOf(t, Len(t.bins))
  OBVIOUS
<1>2. n \in Nat /\ Chained(n, bin, bins, nexts) /\ Len(t.keys) = n /\ t.bins \in Seq(Nat)
  BY <1>0, <1>1 DEF IndexOk, StringsOk, Tables
<1>3. PICK b : b = WordBin(t, w) /\ b \in DOMAIN bins
  BY <1>0, <1>1, <1>2, BinOfWord DEF WordBin, IndexOk
<1>4. \A i \in 1 .. n : vals[i] = w => bin[i] = b
  BY <1>1, <1>3 DEF BinsOf, WordBin
<1>5. \A i \in 1 .. n : nexts[i] \in 0 .. i - 1
  BY <1>2 DEF Chained
<1>6. PICK f : f = CHOOSE u : u = [i \in 0 .. Len(t.keys) |->
                         IF i = 0 \/ t.strings[t.keys[i]] = w THEN i ELSE u[t.nexts[i]]]
  OBVIOUS
<1>7. ASSUME NEW u
      PROVE  Searches(n, vals, w, nexts, u) <=>
               u = [i \in 0 .. Len(t.keys) |->
                         IF i = 0 \/ t.strings[t.keys[i]] = w THEN i ELSE u[t.nexts[i]]]
  <2>1. \A i \in 0 .. n : i = 0 \/ vals[i] = t.strings[t.keys[i]]
    BY <1>1, <1>2
  <2>2. [i \in 0 .. n |-> IF i = 0 \/ vals[i] = w THEN i ELSE u[nexts[i]]]
         = [i \in 0 .. Len(t.keys) |->
                         IF i = 0 \/ t.strings[t.keys[i]] = w THEN i ELSE u[t.nexts[i]]]
    BY <1>1, <1>2, <2>1
  <2>3. QED
    BY <2>2 DEF Searches
<1>8. \E u : Searches(n, vals, w, nexts, u)
  BY <1>2, <1>5, SearchDefined
<1>9. Searches(n, vals, w, nexts, f)
  BY <1>6, <1>7, <1>8
<1>10. LastWith(n, vals, w, f[bins[b]])
  <2>1. /\ n \in Nat /\ Chained(n, bin, bins, nexts) /\ b \in DOMAIN bins
        /\ \A i \in 1 .. n : vals[i] = w => bin[i] = b
        /\ Searches(n, vals, w, nexts, f)
    BY <1>2, <1>3, <1>4, <1>9
  <2>2. QED
    BY <2>1, SearchFinds
<1>11. FindWord(t, w) = f[bins[b]]
  BY <1>1, <1>3, <1>6 DEF FindWord
<1>12. QED
  BY <1>1, <1>10, <1>11

\* The same in terms of numbers: what Enter finds out.
LEMMA FindWordNumber ==
    ASSUME NEW t, TableOk(t), NEW w \in Words
    PROVE  LET n == FindWord(t, w) - 1
           IN  /\ n \in -1 .. t.size - 1
               /\ n # -1 => t.strings[Place(t, n)] = w
               /\ n = -1 => \A m \in 0 .. t.size - 1 : t.strings[Place(t, m)] # w
<1>0. t \in Tables /\ StringsOk(t) /\ t.size \in Nat
  BY DEF TableOk, Tables
<1>1. PICK r : r = FindWord(t, w)
  OBVIOUS
<1>2. PICK vals : vals = [i \in 1 .. t.size |-> t.strings[t.keys[i]]]
  OBVIOUS
<1>3. LastWith(t.size, vals, w, r)
  BY <1>1, <1>2, FindWordRight
<1>4. r \in 0 .. t.size
  BY <1>3 DEF LastWith
<1>5. \A i \in 1 .. t.size : vals[i] = t.strings[Place(t, i - 1)]
  BY <1>0, <1>2 DEF StringsOk
<1>6. r # 0 => t.strings[Place(t, r - 1)] = w
  BY <1>3, <1>4, <1>5 DEF LastWith
<1>7. ASSUME r = 0, NEW m \in 0 .. t.size - 1 PROVE t.strings[Place(t, m)] # w
  <2>1. m + 1 \in 1 .. t.size /\ m + 1 - 1 = m /\ ~ (m + 1 <= r)
    BY <1>0, <1>7
  <2>2. vals[m + 1] # w
    BY <1>3, <2>1 DEF LastWith
  <2>3. vals[m + 1] = t.strings[Place(t, m + 1 - 1)]
    BY <1>5, <2>1
  <2>4. QED
    BY <2>1, <2>2, <2>3
<1>8. QED
  BY <1>0, <1>1, <1>4, <1>6, <1>7

\* Each word of the table is found.
LEMMA FindOwn ==
    ASSUME NEW t, TableOk(t), NEW n \in 0 .. t.size - 1
    PROVE  FindWord(t, t.strings[Place(t, n)]) = n + 1
<1>0. t \in Tables /\ StringsOk(t) /\ t.size \in Nat
  BY DEF TableOk, Tables
<1>1. PICK w \in Words : w = t.strings[Place(t, n)]
  BY <1>0, StringsOfWords
<1>2. PICK vals : vals = [i \in 1 .. t.size |-> t.strings[t.keys[i]]]
  OBVIOUS
<1>3. LastWith(t.size, vals, w, FindWord(t, w))
  BY <1>2, FindWordRight
<1>4. n + 1 \in 1 .. t.size /\ t.keys[n + 1] = Place(t, n + 1 - 1) /\ n + 1 - 1 = n
  BY <1>0 DEF StringsOk
<1>5. vals[n + 1] = w
  BY <1>1, <1>2, <1>4
<1>6. PICK r : r = FindWord(t, w) /\ r \in 0 .. t.size /\ n + 1 <= r /\ (r # 0 => vals[r] = w)
  BY <1>3, <1>4, <1>5 DEF LastWith
<1>7. r \in 1 .. t.size
  BY <1>0, <1>4, <1>6
<1>8. vals[r] = vals[n + 1]
  BY <1>5, <1>6, <1>7
<1>9. r = n + 1
  BY <1>0, <1>2, <1>4, <1>7, <1>8 DEF StringsOk
<1>10. QED
  BY <1>1, <1>6, <1>9

-----------------------------------------------------------------------------
(* The table grows.                                                         *)

\* What u has more than t leaves the places and strings of t alone.
Grown(t, u) ==
    /\ t.size <= u.size
    /\ \A n \in 0 .. t.size - 1 : /\ Place(u, n) = Place(t, n)
                                  /\ u.strings[Place(u, n)] = t.strings[Place(t, n)]

\* The chains are made one key after the other.
LEMMA LinkedSteps ==
    ASSUME NEW t, NEW n, Len(t.keys) \in Nat
    PROVE  \E g : /\ g[0] = [t EXCEPT !.bins = Zeros(n)]
                  /\ \A i \in 1 .. Len(t.keys) : g[i] = Link(g[i - 1], i)
                  /\ Rebin(t, n) = g[Len(t.keys)]
<1>0. PICK N, none : N = Len(t.keys) /\ N \in Nat /\ none = [t EXCEPT !.bins = Zeros(n)]
  OBVIOUS
<1> DEFINE Steps(m, f) == \A i \in 0 .. m : f[i] = IF i = 0 THEN none ELSE Link(f[i - 1], i)
           S == {m \in 0 .. N : \E f : Steps(m, f)}
<1>1. ASSUME NEW m \in 0 .. N, \A k \in 0 .. N : k < m => k \in S PROVE m \in S
  <2>1. CASE m = 0
    <3>1. Steps(m, [i \in 0 .. 0 |-> none])
      BY <2>1
    <3>2. QED
      BY <3>1
  <2>2. CASE m # 0
    <3>1. m - 1 \in 0 .. N /\ m - 1 < m
      BY <1>0, <2>2
    <3>2. PICK f : Steps(m - 1, f)
      BY <1>1, <3>1
    <3>3. PICK g : g = [i \in 0 .. m |-> IF i = m THEN Link(f[m - 1], m) ELSE f[i]]
      OBVIOUS
    <3>4. ASSUME NEW i \in 0 .. m
          PROVE  g[i] = IF i = 0 THEN none ELSE Link(g[i - 1], i)
      <4>1. CASE i = m
        <5>1. g[m - 1] = f[m - 1] /\ g[m] = Link(f[m - 1], m)
          BY <1>0, <3>1, <3>3
        <5>2. QED
          BY <2>2, <4>1, <5>1
      <4>2. CASE i # m
        <5>1. i \in 0 .. m - 1 /\ g[i] = f[i]
          BY <1>0, <3>3, <4>2
        <5>2. i # 0 => g[i - 1] = f[i - 1]
          BY <1>0, <3>3, <5>1
        <5>3. QED
          BY <3>2, <5>1, <5>2
      <4>3. QED
        BY <4>1, <4>2
    <3>5. QED
      BY <3>4
  <2>3. QED
    BY <2>1, <2>2
<1>2. N \in S
  <2> HIDE DEF S
  <2>1. \A m \in 0 .. N : m \in S
    BY <1>0, <1>1, UpTo
  <2>2. QED
    BY <1>0, <2>1
<1>3. PICK f : Steps(N, f)
  BY <1>2
<1>4. PICK h : h = [i \in 0 .. N |-> f[i]]
  OBVIOUS
<1>5. h = [i \in 0 .. N |-> IF i = 0 THEN none ELSE Link(h[i - 1], i)]
  <2>1. \A i \in 0 .. N : i # 0 => h[i - 1] = f[i - 1]
    BY <1>0, <1>4
  <2>2. \A i \in 0 .. N : h[i] = IF i = 0 THEN none ELSE Link(h[i - 1], i)
    BY <1>3, <1>4, <2>1
  <2>3. QED
    BY <1>4, <2>2
<1>6. PICK g : g = CHOOSE u : u = [i \in 0 .. N |-> IF i = 0 THEN none ELSE Link(u[i - 1], i)]
  OBVIOUS
<1>7. g = [i \in 0 .. N |-> IF i = 0 THEN none ELSE Link(g[i - 1], i)]
  BY <1>5, <1>6
<1>8. Rebin(t, n) = g[N]
  BY <1>0, <1>6 DEF Rebin
<1>9. g[0] = none
  BY <1>0, <1>7
<1>10. ASSUME NEW i \in 1 .. N PROVE g[i] = Link(g[i - 1], i)
  <2>1. i \in 0 .. N /\ i # 0
    BY <1>0
  <2>2. QED
    BY <1>7, <2>1
<1>11. QED
  BY <1>0, <1>8, <1>9, <1>10

\* u is t with n bins, and chains of the first m keys.
Linked(t, n, u, m) ==
    /\ u \in Tables
    /\ u.keys = t.keys /\ u.strings = t.strings /\ u.chunks = t.chunks /\ u.size = t.size
    /\ Len(u.bins) = n /\ Len(u.nexts) = t.size
    /\ Chained(m, BinsOf(t, n), u.bins, u.nexts)

LEMMA LinkStep ==
    ASSUME NEW t, TableOk(t), NEW n \in Nat, n # 0, NEW i \in 1 .. t.size,
           NEW u, Linked(t, n, u, i - 1)
    PROVE  Linked(t, n, Link(u, i), i)
<1>0. t \in Tables /\ StringsOk(t) /\ t.size \in Nat /\ i - 1 \in Nat /\ i - 1 + 1 = i /\ i \in Nat
  BY DEF TableOk, Tables
<1>1. t.strings[t.keys[i]] \in Words
  BY <1>0, StringsOfWords
<1>2. PICK b : b = (WordHash[t.strings[t.keys[i]]] % n) + 1 /\ b \in 1 .. n
  BY <1>1, BinOfWord
<1>3. /\ u \in Tables /\ u.keys = t.keys /\ u.strings = t.strings /\ u.chunks = t.chunks
      /\ u.size = t.size /\ Len(u.bins) = n /\ Len(u.nexts) = t.size
      /\ u.bins \in Seq(Nat) /\ u.nexts \in Seq(Nat)
  BY DEF Linked, Tables
<1>4. PICK bins, nexts, bin : bins = u.bins /\ nexts = u.nexts /\ bin = BinsOf(t, n)
  OBVIOUS
<1>5. Chained(i - 1, bin, bins, nexts) /\ b \in DOMAIN bins /\ i \in DOMAIN nexts
  BY <1>0, <1>2, <1>3, <1>4 DEF Linked
<1>6. bins[b] \in 0 .. i - 1
  BY <1>5 DEF Chained
<1>7. PICK nexts2, bins2 : nexts2 = [nexts EXCEPT ![i] = bins[b]] /\ bins2 = [bins EXCEPT ![b] = i]
  OBVIOUS
<1>8. bin[i] = b
  BY <1>2, <1>4 DEF BinsOf
<1>9. /\ \A k \in 1 .. i - 1 : bin[k] = bin[k] /\ nexts2[k] = nexts[k]
      /\ bin[i - 1 + 1] = b /\ nexts2[i - 1 + 1] = bins[b]
  BY <1>0, <1>5, <1>7, <1>8
<1>10. Chained(i - 1 + 1, bin, [bins EXCEPT ![b] = i - 1 + 1], nexts2)
  BY <1>0, <1>5, <1>9, ChainPush
<1>11. Chained(i, bin, bins2, nexts2)
  BY <1>0, <1>7, <1>10
<1>12. Link(u, i) = [u EXCEPT !.nexts = nexts2, !.bins = bins2]
  BY <1>2, <1>3, <1>4, <1>7 DEF Link, WordBin
<1>13. nexts2 \in Seq(Nat) /\ Len(nexts2) = t.size
  BY <1>3, <1>4, <1>5, <1>6, <1>7
<1>14. bins2 \in Seq(Nat) /\ Len(bins2) = n
  BY <1>0, <1>3, <1>4, <1>5, <1>7
<1>15. PICK v : v = Link(u, i)
  OBVIOUS
<1>16. /\ v.nexts = nexts2 /\ v.bins = bins2 /\ v.keys = u.keys /\ v.strings = u.strings
       /\ v.chunks = u.chunks /\ v.size = u.size /\ v \in Tables
  BY <1>3, <1>12, <1>13, <1>14, <1>15 DEF Tables
<1>17. QED
  BY <1>3, <1>4, <1>11, <1>13, <1>14, <1>15, <1>16 DEF Linked

\* More bins: the same words, with other chains.
LEMMA RebinOk ==
    ASSUME NEW t, TableOk(t), NEW n \in Nat, n # 0
    PROVE  LET u == Rebin(t, n)
           IN  /\ TableOk(u) /\ u.keys = t.keys /\ u.strings = t.strings /\ u.chunks = t.chunks
               /\ u.size = t.size
<1>0. t \in Tables /\ StringsOk(t) /\ IndexOk(t)
  BY DEF TableOk
<1>1. PICK N : N = t.size /\ N \in Nat /\ Len(t.keys) = N
  BY <1>0 DEF Tables, StringsOk
<1>2. PICK g : /\ g[0] = [t EXCEPT !.bins = Zeros(n)]
               /\ \A i \in 1 .. Len(t.keys) : g[i] = Link(g[i - 1], i)
               /\ Rebin(t, n) = g[Len(t.keys)]
  BY <1>1, LinkedSteps
<1> DEFINE S == {m \in 0 .. N : Linked(t, n, g[m], m)}
<1>3. ASSUME NEW m \in 0 .. N, \A k \in 0 .. N : k < m => k \in S PROVE m \in S
  <2>1. CASE m = 0
    <3>1. PICK u, z : u = g[0] /\ z = Zeros(n)
      OBVIOUS
    <3>2. z \in Seq(Nat) /\ Len(z) = n /\ DOMAIN z = 1 .. n /\ \A b \in 1 .. n : z[b] = 0
      BY <3>1 DEF Zeros
    <3>3. u = [t EXCEPT !.bins = z]
      BY <1>2, <3>1
    <3>4. /\ u \in Tables /\ u.bins = z /\ u.nexts = t.nexts
          /\ u.keys = t.keys /\ u.strings = t.strings /\ u.chunks = t.chunks /\ u.size = t.size
      BY <1>0, <3>2, <3>3 DEF Tables
    <3>5. Chained(0, BinsOf(t, n), u.bins, u.nexts)
      BY <3>2, <3>4 DEF Chained
    <3>6. Len(u.nexts) = t.size
      BY <1>0, <3>4 DEF IndexOk
    <3>7. Linked(t, n, u, 0)
      BY <3>2, <3>4, <3>5, <3>6 DEF Linked
    <3>8. QED
      BY <2>1, <3>1, <3>7
  <2>2. CASE m # 0
    <3>1. m \in 1 .. N /\ m - 1 \in 0 .. N /\ m - 1 < m
      BY <1>1, <2>2
    <3>2. Linked(t, n, g[m - 1], m - 1)
      BY <1>3, <3>1
    <3>3. Linked(t, n, Link(g[m - 1], m), m)
      <4> HIDE DEF S
      <4>1. QED
        BY <1>1, <3>1, <3>2, LinkStep
    <3>4. QED
      BY <1>1, <1>2, <3>1, <3>3
  <2>3. QED
    BY <2>1, <2>2
<1>4. Linked(t, n, g[N], N)
  <2> HIDE DEF S
  <2>1. \A m \in 0 .. N : m \in S
    BY <1>1, <1>3, UpTo
  <2>2. N \in S
    BY <1>1, <2>1
  <2>3. QED
    BY <2>2 DEF S
<1>5. PICK u : u = Rebin(t, n) /\ Linked(t, n, u, N)
  BY <1>1, <1>2, <1>4
<1>6. /\ u \in Tables /\ u.keys = t.keys /\ u.strings = t.strings /\ u.chunks = t.chunks
      /\ u.size = t.size /\ Len(u.bins) = n /\ Len(u.nexts) = t.size
      /\ Chained(N, BinsOf(t, n), u.bins, u.nexts)
  BY <1>5 DEF Linked
<1>7. StringsOk(u)
  <2>1. \A k : Place(u, k) = Place(t, k)
    BY <1>6 DEF Place
  <2>2. QED
    BY <1>0, <1>6, <2>1 DEF StringsOk
<1>8. BinsOf(u, n) = BinsOf(t, n)
  BY <1>6 DEF BinsOf
<1>9. IndexOk(u)
  BY <1>1, <1>6, <1>8 DEF IndexOk
<1>10. QED
  BY <1>5, <1>6, <1>7, <1>9 DEF TableOk

\* More pieces: those there are stay.
LEMMA MoreChunks ==
    ASSUME NEW t, t \in Tables, StringsOk(t), NEW u, u = Reallocate(t, t.size + 1)
    PROVE  /\ u \in Tables /\ u.size = t.size + 1
           /\ u.bins = t.bins /\ u.nexts = t.nexts /\ u.keys = t.keys /\ u.strings = t.strings
           /\ Len(u.chunks) = (t.size + 1) \div ChunkSize + 1
           /\ \A i \in 1 .. Len(t.chunks) : u.chunks[i] = t.chunks[i]
           /\ \A i, j \in 1 .. Len(u.chunks) : i < j => u.chunks[i] < u.chunks[j]
<1>1. t.size \in Nat /\ t.chunks \in Seq(Nat) /\ t.size + 1 \in Nat
  BY DEF Tables
<1>2. /\ t.size \div ChunkSize \in Nat /\ (t.size + 1) \div ChunkSize \in Nat
      /\ t.size \div ChunkSize <= (t.size + 1) \div ChunkSize
  <2>1. t.size <= t.size + 1
    BY <1>1
  <2>2. QED
    BY <1>1, <2>1, Pieces, PiecesGrow
<1>3. PICK c, n, m : /\ c = t.chunks /\ n = Len(c) /\ m = (t.size + 1) \div ChunkSize + 1
                     /\ c \in Seq(Nat) /\ n \in Nat /\ m \in Nat /\ n <= m /\ n # 0
  <2>1. Len(t.chunks) = t.size \div ChunkSize + 1
    BY DEF StringsOk
  <2>2. QED
    BY <1>1, <1>2, <2>1
<1>4. PICK l : l = Last(c) /\ l \in Nat /\ l = c[n]
  <2>1. Last(c) = c[n]
    BY <1>3 DEF Last
  <2>2. QED
    BY <1>3, <2>1
<1>a. PICK k \in Nat : k = m - n /\ m = n + k
  <2>1. n \in Nat /\ m \in Nat /\ n <= m
    BY <1>3
  <2>2. m - n \in Nat /\ m = n + (m - n)
    BY <2>1
  <2>3. QED
    BY <2>2
<1>5. PICK more : more = [i \in 1 .. k |-> l + i]
  OBVIOUS
<1>6. more \in Seq(Nat) /\ Len(more) = k /\ \A i \in 1 .. k : more[i] = l + i
  <2>1. \A i \in 1 .. k : l + i \in Nat
    BY <1>4
  <2>2. QED
    BY <1>5, <2>1
<1>7. PICK d : d = c \o more
  OBVIOUS
<1>8. /\ d \in Seq(Nat) /\ Len(d) = m
      /\ \A i \in 1 .. n : d[i] = c[i]
      /\ \A i \in n + 1 .. m : d[i] = l + (i - n)
  <2>1. d \in Seq(Nat) /\ Len(d) = n + k
    <3>1. d \in Seq(Nat) /\ Len(d) = Len(c) + Len(more)
      BY <1>3, <1>6, <1>7, ConcatProperties
    <3>2. n = Len(c)
      BY <1>3
    <3>3. QED
      BY <1>6, <3>1, <3>2
  <2>2. \A i \in 1 .. n : d[i] = c[i]
    BY <1>3, <1>6, <1>7
  <2>3. ASSUME NEW i \in n + 1 .. m PROVE d[i] = l + (i - n)
    <3>1. i - n \in 1 .. k /\ i \in 1 .. n + k /\ ~ (i <= n)
      BY <1>3, <1>a
    <3>2. d[i] = more[i - n]
      BY <1>3, <1>6, <1>7, <3>1
    <3>3. QED
      BY <1>6, <3>1, <3>2
  <2>4. QED
    BY <1>3, <1>a, <2>1, <2>2, <2>3
<1>9. \A i, j \in 1 .. n : i < j => c[i] < c[j]
  BY <1>3 DEF StringsOk
<1>10. ASSUME NEW i \in 1 .. m, NEW j \in 1 .. m, i < j PROVE d[i] < d[j]
  <2>1. CASE j <= n
    <3>1. i \in 1 .. n /\ j \in 1 .. n
      BY <1>3, <1>10, <2>1
    <3>2. QED
      BY <1>8, <1>9, <1>10, <3>1
  <2>2. CASE i <= n /\ ~ (j <= n)
    <3>1. i \in 1 .. n /\ j \in n + 1 .. m /\ n \in 1 .. n
      BY <1>3, <2>2
    <3>2. c[i] <= l /\ c[i] \in Nat
      BY <1>3, <1>4, <1>9, <3>1
    <3>3. d[i] = c[i] /\ d[j] = l + (j - n)
      BY <1>8, <3>1
    <3>4. QED
      BY <1>3, <1>4, <3>1, <3>2, <3>3
  <2>3. CASE ~ (i <= n)
    <3>1. i \in n + 1 .. m /\ j \in n + 1 .. m
      BY <1>3, <1>10, <2>3
    <3>2. d[i] = l + (i - n) /\ d[j] = l + (j - n)
      BY <1>8, <3>1
    <3>3. QED
      BY <1>3, <1>4, <1>10, <3>1, <3>2
  <2>4. QED
    BY <1>3, <2>1, <2>2, <2>3
<1>11. u = [t EXCEPT !.chunks = d, !.size = t.size + 1]
  <2>1. (t.size + 1) \div ChunkSize + 1 - Len(t.chunks) = k
    <3>1. PICK x, y : x = (t.size + 1) \div ChunkSize /\ y = Len(t.chunks)
      OBVIOUS
    <3>2. x + 1 = m /\ y = n /\ x \in Nat /\ n \in Nat
      BY <1>2, <1>3, <3>1
    <3>3. x + 1 - y = k
      <4> HIDE <3>1
      <4>1. QED
        BY <1>a, <3>2
    <3>4. QED
      BY <3>1, <3>3
  <2>2. c \o [i \in 1 .. k |-> Last(c) + i] = d
    BY <1>4, <1>5, <1>7
  <2>3. QED
    BY <1>3, <2>1, <2>2 DEF Reallocate
<1>12. u.chunks = d /\ u.size = t.size + 1
  BY <1>11 DEF Tables
<1>13. u \in Tables /\ u.bins = t.bins /\ u.nexts = t.nexts /\ u.keys = t.keys /\ u.strings = t.strings
  BY <1>1, <1>8, <1>11 DEF Tables
<1>14. QED
  BY <1>3, <1>8, <1>10, <1>12, <1>13

\* A string is put behind the others.
LEMMA PushBackOk ==
    ASSUME NEW t, t \in Tables, StringsOk(t), NEW w \in Words, NEW u, u = PushBack(t, w)
    PROVE  /\ u \in Tables /\ u.size = t.size + 1
           /\ u.bins = t.bins /\ u.nexts = t.nexts /\ u.keys = t.keys
           /\ Len(u.chunks) = u.size \div ChunkSize + 1
           /\ \A i, j \in 1 .. Len(u.chunks) : i < j => u.chunks[i] < u.chunks[j]
           /\ \A n \in 0 .. t.size : Place(u, n) = Place(t, n)
           /\ DOMAIN u.strings = {Place(u, n) : n \in 0 .. t.size}
           /\ u.strings[Place(u, t.size)] = w
           /\ \A n \in 0 .. t.size - 1 : u.strings[Place(u, n)] = t.strings[Place(t, n)]
<1>1. PICK g : g = Reallocate(t, t.size + 1)
  OBVIOUS
<1>2. /\ g \in Tables /\ g.size = t.size + 1
      /\ g.bins = t.bins /\ g.nexts = t.nexts /\ g.keys = t.keys /\ g.strings = t.strings
      /\ Len(g.chunks) = (t.size + 1) \div ChunkSize + 1
      /\ \A i \in 1 .. Len(t.chunks) : g.chunks[i] = t.chunks[i]
      /\ \A i, j \in 1 .. Len(g.chunks) : i < j => g.chunks[i] < g.chunks[j]
  BY <1>1, MoreChunks
<1>3. \A n \in 0 .. t.size : Place(g, n) = Place(t, n)
  BY <1>2, Places DEF Place
<1>4. t.size \in Nat /\ t.strings \in Strings /\ t.size \in 0 .. t.size
  BY DEF Tables
<1>5. PICK p, s : p = Place(g, t.size) /\ s = With(t.strings, p, w) /\ p \in Nat \X Nat /\ p = Place(t, t.size)
  BY <1>3, <1>4, Places
<1>6. u = [g EXCEPT !.strings = s]
  BY <1>1, <1>2, <1>5 DEF PushBack
<1>7. PICK D \in SUBSET (Nat \X Nat) : t.strings \in [D -> Words]
  BY <1>4 DEF Strings
<1>8. s \in [D \union {p} -> Words]
  BY <1>5, <1>7 DEF With
<1>9. D \union {p} \in SUBSET (Nat \X Nat)
  BY <1>5, <1>7
<1>10. s \in Strings
  BY <1>8, <1>9 DEF Strings
<1>11. /\ u \in Tables /\ u.size = g.size /\ u.chunks = g.chunks /\ u.strings = s
       /\ u.bins = g.bins /\ u.nexts = g.nexts /\ u.keys = g.keys
  BY <1>2, <1>6, <1>10 DEF Tables
<1>12. \A n : Place(u, n) = Place(g, n)
  BY <1>11 DEF Place
<1>13. D = {Place(t, n) : n \in 0 .. t.size - 1}
  BY <1>7 DEF StringsOk
<1>14. s[p] = w
  BY <1>5 DEF With
<1>15. ASSUME NEW n \in 0 .. t.size - 1
       PROVE  s[Place(t, n)] = t.strings[Place(t, n)]
  <2>1. n \in 0 .. t.size /\ n # t.size
    BY <1>4
  <2>2. Place(t, n) # p
    BY <1>4, <1>5, <2>1, Places
  <2>3. Place(t, n) \in D
    BY <1>13
  <2>4. QED
    BY <1>5, <1>7, <2>2, <2>3 DEF With
<1>16. DOMAIN u.strings = {Place(u, n) : n \in 0 .. t.size}
  <2>1. DOMAIN u.strings = D \union {p}
    BY <1>8, <1>11
  <2>2. \A n \in 0 .. t.size : Place(u, n) = Place(t, n)
    BY <1>3, <1>12
  <2>3. ASSUME NEW n \in 0 .. t.size PROVE Place(u, n) \in D \union {p}
    <3>1. n = t.size \/ n \in 0 .. t.size - 1
      BY <1>4
    <3>2. QED
      BY <1>5, <1>13, <2>2, <3>1
  <2>4. ASSUME NEW q \in D \union {p} PROVE \E n \in 0 .. t.size : q = Place(u, n)
    <3>1. CASE q = p
      BY <1>4, <1>5, <2>2, <3>1
    <3>2. CASE q \in D
      <4>1. PICK n \in 0 .. t.size - 1 : q = Place(t, n)
        BY <1>13, <3>2
      <4>2. n \in 0 .. t.size
        BY <1>4
      <4>3. QED
        BY <2>2, <4>1, <4>2
    <3>3. QED
      BY <3>1, <3>2
  <2>5. QED
    BY <2>1, <2>3, <2>4
<1>17. \A n \in 0 .. t.size - 1 : n \in 0 .. t.size
  BY <1>4
<1>18. QED
  BY <1>2, <1>3, <1>4, <1>5, <1>11, <1>12, <1>14, <1>15, <1>16, <1>17

\* A new word is put into the index.
Indexed(t, w) ==
    [PushBack(t, w) EXCEPT
        !.keys = Append(t.keys, Place(PushBack(t, w), t.size)),
        !.nexts = Append(t.nexts, t.bins[WordBin(t, w)]),
        !.bins = [t.bins EXCEPT ![WordBin(t, w)] = t.size + 1]]

LEMMA InsertInto ==
    ASSUME NEW t, TableOk(t), NEW w \in Words,
           \A n \in 0 .. t.size - 1 : t.strings[Place(t, n)] # w,
           NEW u, u = Indexed(t, w)
    PROVE  /\ TableOk(u) /\ u.size = t.size + 1 /\ Grown(t, u)
           /\ u.strings[Place(u, t.size)] = w
<1>0. t \in Tables /\ StringsOk(t) /\ IndexOk(t)
  BY DEF TableOk
<1>a. PICK p, b, N : p = PushBack(t, w) /\ b = WordBin(t, w) /\ N = t.size + 1
  OBVIOUS
<1>b. u = [p EXCEPT !.keys = Append(t.keys, Place(p, t.size)),
                    !.nexts = Append(t.nexts, t.bins[b]),
                    !.bins = [t.bins EXCEPT ![b] = N]]
  BY <1>a DEF Indexed
<1>1. /\ p \in Tables /\ p.size = t.size + 1
      /\ p.bins = t.bins /\ p.nexts = t.nexts /\ p.keys = t.keys
      /\ Len(p.chunks) = p.size \div ChunkSize + 1
      /\ \A i, j \in 1 .. Len(p.chunks) : i < j => p.chunks[i] < p.chunks[j]
      /\ \A n \in 0 .. t.size : Place(p, n) = Place(t, n)
      /\ DOMAIN p.strings = {Place(p, n) : n \in 0 .. t.size}
      /\ p.strings[Place(p, t.size)] = w
      /\ \A n \in 0 .. t.size - 1 : p.strings[Place(p, n)] = t.strings[Place(t, n)]
  BY <1>0, <1>a, PushBackOk
<1>2. /\ t.size \in Nat /\ t.bins \in Seq(Nat) /\ t.nexts \in Seq(Nat) /\ t.keys \in Seq(Nat \X Nat)
      /\ Len(t.keys) = t.size /\ Len(t.nexts) = t.size /\ Len(t.bins) \in Nat /\ Len(t.bins) # 0
  BY <1>0 DEF Tables, StringsOk, IndexOk
<1>3. b \in 1 .. Len(t.bins) /\ b = (WordHash[w] % Len(t.bins)) + 1
  BY <1>2, <1>a, BinOfWord DEF WordBin
<1>4. PICK keys, nexts, bins : /\ keys = Append(t.keys, Place(p, t.size))
                               /\ nexts = Append(t.nexts, t.bins[b])
                               /\ bins = [t.bins EXCEPT ![b] = N]
  OBVIOUS
<1>5. N \in Nat /\ t.size \in 0 .. t.size /\ t.bins[b] \in Nat
  BY <1>2, <1>3, <1>a
<1>6. Place(p, t.size) \in Nat \X Nat
  BY <1>0, <1>1, <1>5, Places
<1>7. /\ keys \in Seq(Nat \X Nat) /\ Len(keys) = N /\ keys[N] = Place(p, t.size)
      /\ \A i \in 1 .. t.size : keys[i] = t.keys[i]
  <2>1. PICK q \in Nat \X Nat : q = Place(p, t.size)
    BY <1>6
  <2>2. keys = Append(t.keys, q)
    BY <1>4, <2>1
  <2>3. QED
    BY <1>2, <1>a, <2>1, <2>2
<1>8. /\ nexts \in Seq(Nat) /\ Len(nexts) = N /\ nexts[N] = t.bins[b]
      /\ \A i \in 1 .. t.size : nexts[i] = t.nexts[i]
  BY <1>2, <1>a, <1>4, <1>5
<1>9. bins \in Seq(Nat) /\ Len(bins) = Len(t.bins)
  BY <1>2, <1>3, <1>4, <1>5
<1>10. /\ u \in Tables /\ u.keys = keys /\ u.nexts = nexts /\ u.bins = bins
       /\ u.size = N /\ u.chunks = p.chunks /\ u.strings = p.strings
  BY <1>1, <1>a, <1>b, <1>4, <1>7, <1>8, <1>9 DEF Tables
<1>11. \A n : Place(u, n) = Place(p, n)
  BY <1>10 DEF Place
<1>12. \A i \in 1 .. N : i - 1 \in 0 .. t.size /\ (i = N \/ i \in 1 .. t.size)
  BY <1>2, <1>a
<1>13. ASSUME NEW i \in 1 .. N PROVE keys[i] = Place(u, i - 1)
  <2>1. CASE i = N
    BY <1>2, <1>a, <1>7, <1>11, <2>1
  <2>2. CASE i \in 1 .. t.size
    <3>1. i - 1 \in 0 .. t.size
      BY <1>12
    <3>2. keys[i] = t.keys[i] /\ t.keys[i] = Place(t, i - 1)
      BY <1>0, <1>7, <2>2 DEF StringsOk
    <3>3. Place(t, i - 1) = Place(p, i - 1)
      BY <1>1, <3>1
    <3>4. QED
      BY <1>11, <3>2, <3>3
  <2>3. QED
    BY <1>12, <2>1, <2>2
<1>14. \A i \in 1 .. t.size : u.strings[keys[i]] = t.strings[t.keys[i]] /\ u.strings[keys[i]] # w
  <2>1. ASSUME NEW i \in 1 .. t.size PROVE u.strings[keys[i]] = t.strings[t.keys[i]] /\ u.strings[keys[i]] # w
    <3>1. i - 1 \in 0 .. t.size - 1 /\ i \in 1 .. N
      BY <1>2, <1>a
    <3>2. keys[i] = Place(p, i - 1) /\ t.keys[i] = Place(t, i - 1)
      BY <1>0, <1>11, <1>13, <3>1 DEF StringsOk
    <3>3. QED
      BY <1>1, <1>10, <3>1, <3>2
  <2>2. QED
    BY <2>1
<1>15. u.strings[keys[N]] = w
  BY <1>1, <1>7, <1>10
<1>c. 0 .. u.size - 1 = 0 .. t.size /\ u.size = t.size + 1
  BY <1>2, <1>a, <1>10
<1>16. ASSUME NEW i \in 1 .. N, NEW j \in 1 .. N, u.strings[keys[i]] = u.strings[keys[j]] PROVE i = j
  <2>1. CASE i \in 1 .. t.size /\ j \in 1 .. t.size
    BY <1>0, <1>14, <1>16, <2>1 DEF StringsOk
  <2>2. CASE i = N \/ j = N
    BY <1>12, <1>14, <1>15, <1>16, <2>2
  <2>3. QED
    BY <1>12, <2>1, <2>2
<1>17. StringsOk(u)
  <2>1. {Place(p, n) : n \in 0 .. t.size} = {Place(u, n) : n \in 0 .. t.size}
    BY <1>11
  <2>2. DOMAIN u.strings = {Place(u, n) : n \in 0 .. u.size - 1}
    BY <1>1, <1>10, <1>c, <2>1
  <2>3. Len(u.chunks) = u.size \div ChunkSize + 1
    BY <1>1, <1>10, <1>c
  <2>4. \A i, j \in 1 .. Len(u.chunks) : i < j => u.chunks[i] < u.chunks[j]
    BY <1>1, <1>10
  <2>5. Len(u.keys) = u.size /\ \A i \in 1 .. u.size : u.keys[i] = Place(u, i - 1)
    BY <1>7, <1>10, <1>13
  <2>6. \A i, j \in 1 .. u.size : u.strings[u.keys[i]] = u.strings[u.keys[j]] => i = j
    BY <1>10, <1>16
  <2>7. QED
    BY <2>2, <2>3, <2>4, <2>5, <2>6 DEF StringsOk
<1>18. Chained(N, BinsOf(u, Len(u.bins)), u.bins, u.nexts)
  <2>1. PICK bin, bin2, old, links : /\ bin = BinsOf(t, Len(t.bins)) /\ bin2 = BinsOf(u, Len(u.bins))
                                     /\ old = t.bins /\ links = t.nexts
    OBVIOUS
  <2>2. Chained(t.size, bin, old, links) /\ b \in DOMAIN old
    BY <1>0, <1>2, <1>3, <2>1 DEF IndexOk
  <2>3. \A i \in 1 .. t.size : bin2[i] = bin[i] /\ nexts[i] = links[i]
    <3>1. ASSUME NEW i \in 1 .. t.size PROVE bin2[i] = bin[i]
      <4>1. i \in 1 .. u.size
        BY <1>2, <1>c
      <4>2. u.strings[u.keys[i]] = t.strings[t.keys[i]] /\ Len(u.bins) = Len(t.bins)
        BY <1>9, <1>10, <1>14
      <4>3. bin[i] = (WordHash[t.strings[t.keys[i]]] % Len(t.bins)) + 1
        BY <2>1 DEF BinsOf
      <4>4. bin2[i] = (WordHash[u.strings[u.keys[i]]] % Len(u.bins)) + 1
        BY <2>1, <4>1 DEF BinsOf
      <4>5. QED
        BY <4>2, <4>3, <4>4
    <3>2. QED
      BY <1>8, <2>1, <3>1
  <2>4. bin2[t.size + 1] = b /\ nexts[t.size + 1] = old[b]
    <3>1. N \in 1 .. u.size
      BY <1>2, <1>a, <1>c, <1>5, <1>10
    <3>2. bin2[N] = b
      BY <1>3, <1>9, <1>10, <1>15, <2>1, <3>1 DEF BinsOf
    <3>3. QED
      BY <1>a, <1>8, <2>1, <3>2
  <2>5. PICK m : m = t.size
    OBVIOUS
  <2>6. /\ m \in Nat /\ Chained(m, bin, old, links) /\ b \in DOMAIN old
        /\ \A i \in 1 .. m : bin2[i] = bin[i] /\ nexts[i] = links[i]
        /\ bin2[m + 1] = b /\ nexts[m + 1] = old[b]
    BY <1>2, <2>2, <2>3, <2>4, <2>5
  <2>7. Chained(m + 1, bin2, [old EXCEPT ![b] = m + 1], nexts)
    BY <2>6, ChainPush
  <2>8. QED
    BY <1>a, <1>4, <1>10, <2>1, <2>5, <2>7
<1>19. IndexOk(u)
  BY <1>2, <1>8, <1>9, <1>10, <1>18 DEF IndexOk
<1>20. Grown(t, u)
  <2>1. \A n \in 0 .. t.size - 1 : n \in 0 .. t.size
    BY <1>2
  <2>2. QED
    BY <1>1, <1>2, <1>c, <1>10, <1>11, <2>1 DEF Grown
<1>21. QED
  BY <1>1, <1>c, <1>10, <1>11, <1>17, <1>19, <1>20 DEF TableOk

\* A word that the table lacks is appended, and the table stays right.
LEMMA InsertWordOk ==
    ASSUME NEW t, TableOk(t), NEW w \in Words,
           \A n \in 0 .. t.size - 1 : t.strings[Place(t, n)] # w
    PROVE  LET u == InsertWord(t, w)
           IN  /\ TableOk(u) /\ u.size = t.size + 1 /\ Grown(t, u)
               /\ u.strings[Place(u, t.size)] = w
<1>0. t \in Tables /\ StringsOk(t) /\ IndexOk(t) /\ Len(t.bins) \in Nat /\ Len(t.bins) # 0
      /\ Len(t.keys) = t.size
  BY DEF TableOk, Tables, IndexOk, StringsOk
<1>1. PICK r : r = IF Crowded(t) THEN Rebin(t, 2 * Len(t.bins)) ELSE t
  OBVIOUS
<1>2. /\ TableOk(r) /\ r.keys = t.keys /\ r.strings = t.strings /\ r.chunks = t.chunks
      /\ r.size = t.size
  <2>1. CASE Crowded(t)
    <3>1. 2 * Len(t.bins) \in Nat /\ 2 * Len(t.bins) # 0
      BY <1>0
    <3>2. QED
      BY <1>1, <2>1, <3>1, RebinOk
  <2>2. CASE ~ Crowded(t)
    BY <1>1, <2>2
  <2>3. QED
    BY <2>1, <2>2
<1>3. \A n : Place(r, n) = Place(t, n)
  BY <1>2 DEF Place
<1>4. \A n \in 0 .. r.size - 1 : r.strings[Place(r, n)] # w
  BY <1>2, <1>3
<1>5. PICK p, b, N : p = PushBack(r, w) /\ b = WordBin(r, w) /\ N = r.size + 1
  OBVIOUS
<1>6. r \in Tables /\ StringsOk(r)
  BY <1>2 DEF TableOk
<1>7. p \in Tables /\ p.bins = r.bins /\ p.nexts = r.nexts /\ p.keys = r.keys
  BY <1>5, <1>6, PushBackOk
<1>8. PICK u : u = Indexed(r, w)
  OBVIOUS
<1>9. /\ TableOk(u) /\ u.size = r.size + 1 /\ Grown(r, u)
      /\ u.strings[Place(u, r.size)] = w
  BY <1>2, <1>4, <1>8, InsertInto
<1>10. InsertWord(t, w) = u
  BY <1>0, <1>1, <1>2, <1>5, <1>7, <1>8 DEF InsertWord, Indexed, Tables
<1>11. Grown(t, u)
  BY <1>2, <1>3, <1>9 DEF Grown
<1>12. QED
  BY <1>2, <1>9, <1>10, <1>11

\* The table starts with two words.
LEMMA FirstTable ==
    LET u == InsertWord(InsertWord(NoWords, Predefined[1]), Predefined[2])
    IN  /\ TableOk(u) /\ u.size = 2
        /\ u.strings[Place(u, unk)] = UNK
<1>1. TableOk(NoWords) /\ NoWords.size = 0
  <2>1. PICK z : z = Zeros(FirstBins)
    OBVIOUS
  <2>2. z \in Seq(Nat) /\ Len(z) = FirstBins /\ FirstBins # 0 /\ \A i \in DOMAIN z : z[i] = 0
    BY <2>1, VocabAssumption DEF Zeros
  <2>3. PICK t : t = NoWords
    OBVIOUS
  <2>4. /\ t.bins = z /\ t.nexts = << >> /\ t.keys = << >> /\ t.chunks = <<1>> /\ t.size = 0
        /\ t.strings = << >>
        /\ t = [bins |-> t.bins, nexts |-> t.nexts, keys |-> t.keys,
                chunks |-> t.chunks, size |-> t.size, strings |-> t.strings]
    BY <2>1, <2>3 DEF NoWords
  <2>5. t.strings \in Strings
    <3>1. << >> \in [{} -> Words] /\ {} \in SUBSET (Nat \X Nat)
      OBVIOUS
    <3>2. QED
      BY <2>4, <3>1 DEF Strings
  <2>6. t \in Tables
    <3>1. << >> \in Seq(Nat) /\ << >> \in Seq(Nat \X Nat) /\ <<1>> \in Seq(Nat) /\ 0 \in Nat
      OBVIOUS
    <3>2. /\ t.bins \in Seq(Nat) /\ t.nexts \in Seq(Nat) /\ t.keys \in Seq(Nat \X Nat)
          /\ t.chunks \in Seq(Nat) /\ t.size \in Nat
      BY <2>2, <2>4, <3>1
    <3>3. QED
      BY <2>4, <2>5, <3>2, Zenon DEF Tables
  <2>7. 0 \div ChunkSize = 0
    BY VocabAssumption
  <2>8. StringsOk(t)
    <3>1. Len(t.chunks) = 0 + 1 /\ Len(t.keys) = 0 /\ DOMAIN t.strings = {}
      BY <2>4
    <3>2. QED
      BY <2>4, <2>7, <3>1 DEF StringsOk
  <2>9. IndexOk(t)
    BY <2>2, <2>4 DEF IndexOk, Chained
  <2>10. QED
    BY <2>3, <2>4, <2>6, <2>8, <2>9 DEF TableOk
<1>2. EMPTY \in Words /\ UNK \in Words /\ EMPTY # UNK
  BY VocabAssumption DEF Words
<1>3. PICK t : t = InsertWord(NoWords, EMPTY)
  OBVIOUS
<1>4. TableOk(t) /\ t.size = 1 /\ t.strings[Place(t, 0)] = EMPTY
  BY <1>1, <1>2, <1>3, InsertWordOk
<1>5. \A n \in 0 .. t.size - 1 : t.strings[Place(t, n)] # UNK
  BY <1>2, <1>4
<1>6. PICK u : u = InsertWord(t, UNK)
  OBVIOUS
<1>7. TableOk(u) /\ u.size = 2 /\ u.strings[Place(u, 1)] = UNK
  BY <1>2, <1>4, <1>5, <1>6, InsertWordOk
<1>8. QED
  BY <1>3, <1>6, <1>7 DEF Predefined, unk

-----------------------------------------------------------------------------
(* What the threads know: an inductive invariant.                           *)

\* What a thread can ask for.
Wanted ==
    {[spelling |-> s] : s \in Spellings \union {UNK}} \union
    {[spelling |-> UNK, for |-> s] : s \in {k \in Spellings \union {UNK} : Inserted(k) = {}}} \union
    {[id |-> i] : i \in Nat}

OfWord(w) == "spelling" \in DOMAIN w

Numbered(u, n, w) == n \in 0 .. u.size - 1 /\ u.strings[Place(u, n)] = w

\* The spelling whose number is needed.
Needed(w) == IF OfWord(w) THEN w.spelling ELSE Vocabulary[w.id + 1]

\* Entries of the caches: right, whoever wrote them.
WordEntry(u, e) ==
    \/ e = Fresh
    \/ \E n \in 0 .. u.size - 1 : e = Pair(n, Lookup(mapped, u.strings[Place(u, n)]))

IdEntry(u, e) ==
    \/ e = Fresh
    \/ \E i \in 0 .. Len(Vocabulary) - 1 :
         \E n \in 0 .. u.size - 1 : e = Pair(n, i) /\ u.strings[Place(u, n)] = Vocabulary[i + 1]

AnswerOk(u, w, f) ==
    IF OfWord(w)
      THEN LET sought == IF "for" \in DOMAIN w THEN w.for ELSE w.spelling
               known == Inserted(sought) \union
                            IF Inserted(sought) = {} THEN Inserted(UNK) ELSE {}
           IN  f + 1 \in (IF known = {} THEN {0} ELSE known)
      ELSE Numbered(u, f, IF w.id < Len(Vocabulary) THEN Vocabulary[w.id + 1] ELSE UNK)

MapsOk(u, m) == \A k \in DOMAIN m : k \in 0 .. u.size - 1 /\ m[k] = Place(u, k)

\* A thread at l that wants w, with the number n, the loaded entry e and the
\* answer f, and the places m that it remembers.
ThreadOk(u, l, w, n, e, f, m) ==
    /\ w \in Wanted
    /\ l \in {"done", "enter", "allocate", "load", "compare", "swap"}
    /\ l # "done" /\ ~ OfWord(w) => w.id < Len(Vocabulary)
    /\ l = "allocate" => n = FindWord(u, Needed(w)) - 1
    /\ l \in {"load", "compare", "swap"} /\ OfWord(w) => Numbered(u, n, w.spelling)
    /\ l = "swap" => Numbered(u, n, Needed(w))
    /\ l = "swap" /\ OfWord(w) => n \in DOMAIN m
    /\ l = "compare" => IF OfWord(w) THEN WordEntry(u, e) ELSE IdEntry(u, e)
    /\ l = "done" => AnswerOk(u, w, f)
    /\ MapsOk(u, m)

CachesOk(u, words, ids) ==
    /\ DOMAIN words = 0 .. Slots - 1 /\ DOMAIN ids = 0 .. Slots - 1
    /\ \A i \in 0 .. Slots - 1 : WordEntry(u, words[i]) /\ IdEntry(u, ids[i])

\* One thread at most is between looking for a spelling and appending it.
HolderOk ==
    /\ \A t \in Reader : at[t] = "allocate" => t \in holder
    /\ \A t, r \in Reader : at[t] = "allocate" /\ at[r] = "allocate" => t = r

ThreadRight(t) == ThreadOk(table, at[t], wanted[t], number[t], loaded[t], found[t], word_maps[t])

Domains ==
    /\ DOMAIN at = Reader /\ DOMAIN wanted = Reader /\ DOMAIN number = Reader
    /\ DOMAIN loaded = Reader /\ DOMAIN found = Reader /\ DOMAIN word_maps = Reader

VocabInv ==
    /\ Domains
    /\ TableOk(table) /\ Numbered(table, unk, UNK)
    /\ CachesOk(table, cache_word, cache_id)
    /\ \A t \in Reader : ThreadRight(t)
    /\ HolderOk

\* The three shapes of what is sought for.
LEMMA Shapes ==
    ASSUME NEW w \in Wanted
    PROVE  \/ /\ OfWord(w) /\ "for" \notin DOMAIN w /\ w.spelling \in Spellings \union {UNK}
              /\ w = [spelling |-> w.spelling]
           \/ /\ OfWord(w) /\ "for" \in DOMAIN w /\ w.spelling = UNK
              /\ w.for \in Spellings \union {UNK} /\ Inserted(w.for) = {}
           \/ ~ OfWord(w) /\ "for" \notin DOMAIN w /\ w.id \in Nat
BY DEF Wanted, OfWord

LEMMA WordShape ==
    ASSUME NEW s \in Spellings \union {UNK}, NEW w, w = [spelling |-> s]
    PROVE  w \in Wanted /\ OfWord(w) /\ "for" \notin DOMAIN w /\ w.spelling = s /\ Needed(w) = s
BY DEF Wanted, OfWord, Needed

LEMMA AgainShape ==
    ASSUME NEW s \in Spellings \union {UNK}, Inserted(s) = {},
           NEW w, w = [spelling |-> UNK, for |-> s]
    PROVE  /\ w \in Wanted /\ OfWord(w) /\ "for" \in DOMAIN w /\ w.spelling = UNK /\ w.for = s
           /\ Needed(w) = UNK
BY DEF Wanted, OfWord, Needed

LEMMA IdShape ==
    ASSUME NEW i \in Nat, NEW w, w = [id |-> i]
    PROVE  w \in Wanted /\ ~ OfWord(w) /\ w.id = i /\ Needed(w) = Vocabulary[i + 1]
BY DEF Wanted, OfWord, Needed

\* What is needed is a word.
LEMMA NeededWord ==
    ASSUME NEW w \in Wanted, ~ OfWord(w) => w.id < Len(Vocabulary)
    PROVE  /\ Needed(w) \in Words /\ Needed(w) \in Spellings \union Range(Vocabulary) \union {UNK}
           /\ ~ OfWord(w) => Needed(w) = mapped.keys[w.id + 1]
<1>1. CASE OfWord(w)
  <2>1. w.spelling \in Spellings \union {UNK}
    BY <1>1, Shapes
  <2>2. QED
    BY <1>1, <2>1 DEF Needed, Words
<1>2. CASE ~ OfWord(w)
  <2>1. w.id \in Nat /\ w.id < Len(Vocabulary) /\ Len(Vocabulary) \in Nat
    BY <1>2, Shapes, MappedKeys
  <2>2. w.id + 1 \in 1 .. Len(Vocabulary)
    BY <2>1
  <2>3. QED
    BY <1>2, <2>2, MappedKeys DEF Needed, Words
<1>3. QED
  BY <1>1, <1>2

\* What was right of a table is right of the table that it has grown to.
LEMMA EntriesStay ==
    ASSUME NEW u, u.size \in Nat, NEW v, v.size \in Nat, Grown(u, v)
    PROVE  /\ \A n, w : Numbered(u, n, w) => Numbered(v, n, w)
           /\ \A e : WordEntry(u, e) => WordEntry(v, e)
           /\ \A e : IdEntry(u, e) => IdEntry(v, e)
           /\ \A m : MapsOk(u, m) => MapsOk(v, m)
<1>1. \A n \in 0 .. u.size - 1 : /\ n \in 0 .. v.size - 1 /\ Place(v, n) = Place(u, n)
                                 /\ v.strings[Place(v, n)] = u.strings[Place(u, n)]
  BY DEF Grown
<1>2. ASSUME NEW n, NEW w, Numbered(u, n, w) PROVE Numbered(v, n, w)
  BY <1>1, <1>2 DEF Numbered
<1>3. ASSUME NEW e, WordEntry(u, e) PROVE WordEntry(v, e)
  BY <1>1, <1>3 DEF WordEntry
<1>4. ASSUME NEW e, IdEntry(u, e) PROVE IdEntry(v, e)
  BY <1>1, <1>4 DEF IdEntry
<1>5. ASSUME NEW m, MapsOk(u, m) PROVE MapsOk(v, m)
  BY <1>1, <1>5 DEF MapsOk
<1>6. QED
  BY <1>2, <1>3, <1>4, <1>5

LEMMA ThreadStays ==
    ASSUME NEW u, u.size \in Nat, NEW v, v.size \in Nat, Grown(u, v),
           NEW l, NEW w, NEW n, NEW e, NEW f, NEW m, ThreadOk(u, l, w, n, e, f, m), l # "allocate"
    PROVE  ThreadOk(v, l, w, n, e, f, m)
<1>1. AnswerOk(u, w, f) => AnswerOk(v, w, f)
  BY EntriesStay DEF AnswerOk
<1>2. QED
  BY <1>1, EntriesStay DEF ThreadOk

\* A step of one thread that leaves the table alone.
LEMMA OneThread ==
    ASSUME VocabInv, NEW t \in Reader, table' = table, Domains',
           \A r \in Reader \ {t} :
              /\ at'[r] = at[r] /\ wanted'[r] = wanted[r] /\ number'[r] = number[r]
              /\ loaded'[r] = loaded[r] /\ found'[r] = found[r] /\ word_maps'[r] = word_maps[r],
           ThreadOk(table, at'[t], wanted'[t], number'[t], loaded'[t], found'[t], word_maps'[t]),
           CachesOk(table, cache_word', cache_id'),
           at'[t] = "allocate" => holder = {} /\ t \in holder',
           holder \subseteq holder'
    PROVE  VocabInv'
<1>1. TableOk(table') /\ Numbered(table', unk, UNK) /\ CachesOk(table', cache_word', cache_id')
  BY DEF VocabInv
<1>2. ASSUME NEW r \in Reader PROVE ThreadRight(r)'
  <2>1. CASE r = t
    BY <2>1 DEF ThreadRight
  <2>2. CASE r # t
    BY <2>2 DEF VocabInv, ThreadRight
  <2>3. QED
    BY <2>1, <2>2
<1>3. HolderOk'
  BY DEF VocabInv, HolderOk
<1>4. QED
  BY <1>1, <1>2, <1>3 DEF VocabInv

\* The invariant's parts for one thread.
LEMMA OfThread ==
    ASSUME VocabInv, NEW t \in Reader
    PROVE  /\ ThreadOk(table, at[t], wanted[t], number[t], loaded[t], found[t], word_maps[t])
           /\ TableOk(table) /\ table.size \in Nat /\ Numbered(table, unk, UNK)
           /\ CachesOk(table, cache_word, cache_id)
           /\ (ByWord(t) <=> OfWord(wanted[t])) /\ wanted[t] \in Wanted
           /\ at[t] # "done" => /\ Spelled(t) = Needed(wanted[t]) /\ Spelled(t) \in Words
                                /\ Spelled(t) \in Spellings \union Range(Vocabulary) \union {UNK}
<1>1. ThreadOk(table, at[t], wanted[t], number[t], loaded[t], found[t], word_maps[t])
  BY DEF VocabInv, ThreadRight
<1>2. TableOk(table) /\ Numbered(table, unk, UNK) /\ CachesOk(table, cache_word, cache_id)
  BY DEF VocabInv
<1>3. table.size \in Nat
  BY <1>2 DEF TableOk, Tables
<1>4. (ByWord(t) <=> OfWord(wanted[t])) /\ wanted[t] \in Wanted
  BY <1>1 DEF ByWord, OfWord, ThreadOk
<1>5. ASSUME at[t] # "done"
      PROVE  /\ Spelled(t) = Needed(wanted[t]) /\ Spelled(t) \in Words
             /\ Spelled(t) \in Spellings \union Range(Vocabulary) \union {UNK}
  <2>1. ~ OfWord(wanted[t]) => wanted[t].id < Len(Vocabulary)
    BY <1>1, <1>5 DEF ThreadOk
  <2>2. Spelled(t) = Needed(wanted[t])
    BY <1>4, <2>1, NeededWord DEF Spelled, Needed
  <2>3. QED
    BY <1>4, <2>1, <2>2, NeededWord
<1>6. QED
  BY <1>1, <1>2, <1>3, <1>4, <1>5

\* An answer that is right for what was needed.
LEMMA RightAnswer ==
    ASSUME NEW u, NEW w \in Wanted, OfWord(w), NEW f, f = Lookup(mapped, w.spelling),
           f # npos \/ "for" \in DOMAIN w
    PROVE  AnswerOk(u, w, f)
<1>1. w.spelling \in Spellings \union {UNK}
  BY Shapes
<1>2. /\ f \in Int /\ (Inserted(w.spelling) = {} => f = npos)
      /\ Inserted(w.spelling) # {} => f # npos /\ f + 1 \in Inserted(w.spelling)
  BY <1>1, LookupRight
<1>3. CASE "for" \in DOMAIN w
  <2>1. w.spelling = UNK /\ Inserted(w.for) = {}
    BY <1>3, Shapes
  <2>2. QED
    BY <1>2, <1>3, <2>1 DEF AnswerOk, npos
<1>4. CASE "for" \notin DOMAIN w
  BY <1>2, <1>4 DEF AnswerOk
<1>5. QED
  BY <1>3, <1>4

-----------------------------------------------------------------------------
(* The invariant holds.                                                     *)

LEMMA InitInv == VocabInit => VocabInv
<1> SUFFICES ASSUME VocabInit PROVE VocabInv
  OBVIOUS
<1>1. TableOk(table) /\ table.size = 2 /\ Numbered(table, unk, UNK)
  BY FirstTable DEF VocabInit, Numbered, unk
<1>2. Domains /\ HolderOk
  BY DEF VocabInit, Domains, HolderOk
<1>3. CachesOk(table, cache_word, cache_id)
  BY DEF VocabInit, CachesOk, WordEntry, IdEntry
<1>4. ASSUME NEW t \in Reader PROVE ThreadRight(t)
  <2>1. /\ at[t] = "done" /\ wanted[t] = [spelling |-> UNK] /\ found[t] = Lookup(mapped, UNK)
        /\ word_maps[t] = [n \in {unk} |-> Place(table, n)]
    BY DEF VocabInit
  <2>2. PICK w : w = wanted[t] /\ w = [spelling |-> UNK]
    BY <2>1
  <2>3. /\ w \in Wanted /\ OfWord(w) /\ "for" \notin DOMAIN w /\ w.spelling = UNK
    BY <2>2, WordShape
  <2>4. PICK f : f = Lookup(mapped, UNK)
    OBVIOUS
  <2>5. /\ f \in Int /\ (Inserted(UNK) = {} => f = npos)
        /\ Inserted(UNK) # {} => f # npos /\ f + 1 \in Inserted(UNK)
    BY <2>4, LookupRight
  <2>6. AnswerOk(table, w, f)
    BY <2>3, <2>5 DEF AnswerOk, npos
  <2>7. MapsOk(table, word_maps[t])
    BY <1>1, <2>1 DEF MapsOk, unk
  <2>8. QED
    BY <2>1, <2>2, <2>3, <2>4, <2>6, <2>7 DEF ThreadRight, ThreadOk
<1>5. QED
  BY <1>1, <1>2, <1>3, <1>4 DEF VocabInv

LEMMA AskWordInv ==
    ASSUME VocabInv, NEW t \in Reader, NEW s \in Spellings, AskWord(t, s) PROVE VocabInv'
<1>1. PICK w : w = [spelling |-> s]
  OBVIOUS
<1>2. w \in Wanted /\ OfWord(w)
  BY <1>1, WordShape
<1>3. Domains' /\ wanted'[t] = w /\ at'[t] = "enter"
  BY <1>1 DEF AskWord, Move, VocabInv, Domains
<1>4. MapsOk(table, word_maps[t])
  BY OfThread DEF ThreadOk
<1>5. ThreadOk(table, at'[t], wanted'[t], number'[t], loaded'[t], found'[t], word_maps'[t])
  BY <1>2, <1>3, <1>4 DEF ThreadOk, AskWord
<1>6. CachesOk(table, cache_word', cache_id')
  BY OfThread DEF AskWord
<1>7. QED
  BY <1>3, <1>5, <1>6, OneThread DEF AskWord, Move

LEMMA AskIdInv ==
    ASSUME VocabInv, NEW t \in Reader, NEW i \in Identifiers, AskId(t, i) PROVE VocabInv'
<1>1. PICK w : w = [id |-> i]
  OBVIOUS
<1>2. w \in Wanted /\ ~ OfWord(w) /\ w.id = i /\ i < Len(Vocabulary)
  BY <1>1, IdShape, MappedKeys, VocabAssumption DEF AskId
<1>3. Domains' /\ wanted'[t] = w /\ at'[t] = "load"
  BY <1>1 DEF AskId, Move, VocabInv, Domains
<1>4. MapsOk(table, word_maps[t])
  BY OfThread DEF ThreadOk
<1>5. ThreadOk(table, at'[t], wanted'[t], number'[t], loaded'[t], found'[t], word_maps'[t])
  BY <1>2, <1>3, <1>4 DEF ThreadOk, AskId
<1>6. CachesOk(table, cache_word', cache_id')
  BY OfThread DEF AskId
<1>7. QED
  BY <1>3, <1>5, <1>6, OneThread DEF AskId, Move

LEMMA AskUnknownIdInv ==
    ASSUME VocabInv, NEW t \in Reader, NEW i \in Identifiers, AskUnknownId(t, i) PROVE VocabInv'
<1>1. PICK w : w = [id |-> i]
  OBVIOUS
<1>2. i \in Nat /\ w \in Wanted /\ ~ OfWord(w) /\ w.id = i /\ ~ (w.id < Len(Vocabulary))
  BY <1>1, IdShape, MappedKeys, VocabAssumption DEF AskUnknownId
<1>3. Domains' /\ wanted'[t] = w /\ at'[t] = "done" /\ found'[t] = unk
  BY <1>1 DEF AskUnknownId, Move, VocabInv, Domains
<1>4. MapsOk(table, word_maps[t]) /\ Numbered(table, unk, UNK)
  BY OfThread DEF ThreadOk
<1>a. AnswerOk(table, w, unk)
  BY <1>2, <1>4 DEF AnswerOk
<1>5. ThreadOk(table, at'[t], wanted'[t], number'[t], loaded'[t], found'[t], word_maps'[t])
  BY <1>2, <1>3, <1>4, <1>a DEF ThreadOk, AskUnknownId
<1>6. CachesOk(table, cache_word', cache_id')
  BY OfThread DEF AskUnknownId
<1>7. QED
  BY <1>3, <1>5, <1>6, OneThread DEF AskUnknownId, Move

LEMMA EnterInv ==
    ASSUME VocabInv, NEW t \in Reader, Enter(t) PROVE VocabInv'
<1>1. at[t] = "enter" /\ holder = {} /\ holder' = {t}
  BY DEF Enter, Free
<1>2. /\ Domains' /\ at'[t] = "allocate" /\ number'[t] = FindWord(table, Spelled(t)) - 1
      /\ wanted'[t] = wanted[t] /\ word_maps'[t] = word_maps[t]
  BY DEF Enter, Move, VocabInv, Domains
<1>3. ThreadOk(table, at[t], wanted[t], number[t], loaded[t], found[t], word_maps[t])
      /\ Spelled(t) = Needed(wanted[t])
  BY <1>1, OfThread
<1>5. ThreadOk(table, at'[t], wanted'[t], number'[t], loaded'[t], found'[t], word_maps'[t])
  BY <1>1, <1>2, <1>3 DEF ThreadOk
<1>6. CachesOk(table, cache_word', cache_id')
  BY OfThread DEF Enter
<1>7. QED
  BY <1>1, <1>2, <1>5, <1>6, OneThread DEF Enter, Move

\* The only step that changes the table: no other thread is between looking for
\* its spelling and appending it.
LEMMA AllocateWordInv ==
    ASSUME VocabInv, NEW t \in Reader, AllocateWord(t) PROVE VocabInv'
<1>1. at[t] = "allocate"
  BY DEF AllocateWord
<1>2. PICK w, s, n : w = wanted[t] /\ s = Needed(w) /\ n = number[t]
  OBVIOUS
<1>3. /\ ThreadOk(table, "allocate", w, n, loaded[t], found[t], word_maps[t])
      /\ TableOk(table) /\ table.size \in Nat /\ Numbered(table, unk, UNK)
      /\ CachesOk(table, cache_word, cache_id)
      /\ (ByWord(t) <=> OfWord(w)) /\ w \in Wanted /\ Spelled(t) = s /\ s \in Words
  BY <1>1, <1>2, OfThread
<1>4. n = FindWord(table, s) - 1
  BY <1>2, <1>3 DEF ThreadOk
<1>5. /\ n \in -1 .. table.size - 1
      /\ n # -1 => table.strings[Place(table, n)] = s
      /\ n = -1 => \A m \in 0 .. table.size - 1 : table.strings[Place(table, m)] # s
  BY <1>3, <1>4, FindWordNumber
<1>6. PICK u : u = table'
  OBVIOUS
<1>7. PICK k : k = number'[t] /\ k = (IF n = -1 THEN table.size ELSE n)
  BY <1>2 DEF AllocateWord, VocabInv, Domains
<1>8. TableOk(u) /\ u.size \in Nat /\ Grown(table, u) /\ Numbered(u, k, s)
  <2>1. CASE n = -1
    <3>1. u = InsertWord(table, s)
      BY <1>2, <1>3, <1>6, <2>1 DEF AllocateWord
    <3>2. TableOk(u) /\ u.size = table.size + 1 /\ Grown(table, u) /\ u.strings[Place(u, table.size)] = s
      BY <1>3, <1>5, <2>1, <3>1, InsertWordOk
    <3>3. QED
      BY <1>3, <1>7, <2>1, <3>2 DEF Numbered
  <2>2. CASE n # -1
    <3>1. u = table
      BY <1>2, <1>6, <2>2 DEF AllocateWord
    <3>2. Grown(table, table)
      BY <1>3 DEF Grown
    <3>3. n \in 0 .. table.size - 1
      BY <1>3, <1>5, <2>2
    <3>4. QED
      BY <1>3, <1>5, <1>7, <2>2, <3>1, <3>2, <3>3 DEF Numbered
  <2>3. QED
    BY <2>1, <2>2
<1>9. /\ \A m, x : Numbered(table, m, x) => Numbered(u, m, x)
      /\ \A e : WordEntry(table, e) => WordEntry(u, e)
      /\ \A e : IdEntry(table, e) => IdEntry(u, e)
      /\ \A m : MapsOk(table, m) => MapsOk(u, m)
  BY <1>3, <1>8, EntriesStay
<1>10. Numbered(u, unk, UNK) /\ CachesOk(u, cache_word', cache_id')
  BY <1>3, <1>9 DEF CachesOk, AllocateWord
<1>11. Domains'
  BY DEF AllocateWord, Move, VocabInv, Domains
<1>12. ASSUME NEW r \in Reader PROVE ThreadRight(r)'
  <2>1. CASE r = t
    <3>1. /\ at'[r] = IF OfWord(w) THEN "load" ELSE "swap"
          /\ wanted'[r] = w /\ number'[r] = k /\ word_maps'[r] = word_maps[t]
      BY <1>2, <1>3, <1>7, <2>1 DEF AllocateWord, Move, VocabInv, Domains
    <3>2. MapsOk(u, word_maps[t]) /\ (~ OfWord(w) => w.id < Len(Vocabulary))
      BY <1>3, <1>9 DEF ThreadOk
    <3>3. OfWord(w) => s = w.spelling
      BY <1>2 DEF Needed
    <3>4. ThreadOk(u, at'[r], w, k, loaded'[r], found'[r], word_maps'[r])
      BY <1>2, <1>3, <1>8, <3>1, <3>2, <3>3 DEF ThreadOk
    <3>5. QED
      BY <1>6, <3>1, <3>4 DEF ThreadRight
  <2>2. CASE r # t
    <3>1. at[r] # "allocate"
      BY <1>1, <2>2 DEF VocabInv, HolderOk
    <3>2. ThreadOk(table, at[r], wanted[r], number[r], loaded[r], found[r], word_maps[r])
      BY OfThread
    <3>3. ThreadOk(u, at[r], wanted[r], number[r], loaded[r], found[r], word_maps[r])
      BY <1>3, <1>8, <3>1, <3>2, ThreadStays
    <3>4. /\ at'[r] = at[r] /\ wanted'[r] = wanted[r] /\ number'[r] = number[r]
          /\ loaded'[r] = loaded[r] /\ found'[r] = found[r] /\ word_maps'[r] = word_maps[r]
      BY <2>2 DEF AllocateWord, Move
    <3>5. QED
      BY <1>6, <3>3, <3>4 DEF ThreadRight
  <2>3. QED
    BY <2>1, <2>2
<1>13. HolderOk'
  <2>1. \A r \in Reader : at'[r] # "allocate"
    <3>1. ASSUME NEW r \in Reader PROVE at'[r] # "allocate"
      <4>1. CASE r = t
        BY <1>3, <4>1 DEF AllocateWord, Move, VocabInv, Domains
      <4>2. CASE r # t
        BY <1>1, <4>2 DEF AllocateWord, Move, VocabInv, HolderOk
      <4>3. QED
        BY <4>1, <4>2
    <3>2. QED
      BY <3>1
  <2>2. QED
    BY <2>1 DEF HolderOk
<1>14. QED
  BY <1>6, <1>8, <1>10, <1>11, <1>12, <1>13 DEF VocabInv

\* The entry of a cache for a word or an identifier.
LEMMA LoadInv ==
    ASSUME VocabInv, NEW t \in Reader, Load(t) PROVE VocabInv'
<1>1. at[t] = "load"
  BY DEF Load
<1>2. PICK w, n : w = wanted[t] /\ n = number[t]
  OBVIOUS
<1>3. /\ ThreadOk(table, "load", w, n, loaded[t], found[t], word_maps[t])
      /\ TableOk(table) /\ table.size \in Nat
      /\ CachesOk(table, cache_word, cache_id)
      /\ (ByWord(t) <=> OfWord(w)) /\ w \in Wanted
  BY <1>1, <1>2, OfThread
<1>4. /\ Domains' /\ at'[t] = "compare" /\ wanted'[t] = w /\ number'[t] = n
      /\ word_maps'[t] = word_maps[t]
      /\ loaded'[t] = IF OfWord(w) THEN cache_word[n % Slots] ELSE cache_id[w.id % Slots]
  BY <1>2, <1>3 DEF Load, Move, VocabInv, Domains
<1>5. \A i \in Nat : i % Slots \in 0 .. Slots - 1
  BY VocabAssumption
<1>6. IF OfWord(w) THEN WordEntry(table, loaded'[t]) ELSE IdEntry(table, loaded'[t])
  <2>1. CASE OfWord(w)
    <3>1. n \in Nat
      BY <1>3, <2>1 DEF ThreadOk, Numbered
    <3>2. QED
      BY <1>3, <1>4, <1>5, <2>1, <3>1 DEF CachesOk
  <2>2. CASE ~ OfWord(w)
    <3>1. w.id \in Nat
      BY <1>3, <2>2, Shapes
    <3>2. QED
      BY <1>3, <1>4, <1>5, <2>2, <3>1 DEF CachesOk
  <2>3. QED
    BY <2>1, <2>2
<1>7. ThreadOk(table, at'[t], wanted'[t], number'[t], loaded'[t], found'[t], word_maps'[t])
  BY <1>3, <1>4, <1>6 DEF ThreadOk
<1>8. CachesOk(table, cache_word', cache_id')
  BY <1>3 DEF Load
<1>9. QED
  BY <1>4, <1>7, <1>8, OneThread DEF Load, Move

\* What a thread is answered is right, or it asks again for the unknown word.
LEMMA AnsweredOk ==
    ASSUME VocabInv, NEW t \in Reader, at[t] \in {"compare", "swap"}, NEW a, Answered(t, a),
           word_maps' = word_maps,
           IF OfWord(wanted[t]) THEN a = Lookup(mapped, wanted[t].spelling)
           ELSE Numbered(table, a, Needed(wanted[t]))
    PROVE  /\ Domains' /\ at'[t] # "allocate"
           /\ \A r \in Reader \ {t} :
                /\ at'[r] = at[r] /\ wanted'[r] = wanted[r] /\ number'[r] = number[r]
                /\ loaded'[r] = loaded[r] /\ found'[r] = found[r]
           /\ ThreadOk(table, at'[t], wanted'[t], number'[t], loaded'[t], found'[t], word_maps'[t])
<1>1. PICK w : w = wanted[t]
  OBVIOUS
<1>2. /\ ThreadOk(table, at[t], w, number[t], loaded[t], found[t], word_maps[t])
      /\ Numbered(table, unk, UNK) /\ (ByWord(t) <=> OfWord(w)) /\ w \in Wanted
      /\ Spelled(t) = Needed(w)
  BY <1>1, OfThread
<1>3. PICK again \in BOOLEAN : again <=> a = npos /\ OfWord(w) /\ "for" \notin DOMAIN w
  OBVIOUS
<1>4. /\ wanted' = (IF again THEN [wanted EXCEPT ![t] = [spelling |-> UNK, for |-> Spelled(t)]]
                    ELSE wanted)
      /\ found' = [found EXCEPT ![t] = a] /\ number' = [number EXCEPT ![t] = unk]
      /\ loaded' = [loaded EXCEPT ![t] = Fresh]
      /\ at' = [at EXCEPT ![t] = IF again THEN "load" ELSE "done"]
  BY <1>1, <1>2, <1>3 DEF Answered, SecondTry, Move
<1>5. Domains'
  BY <1>4 DEF VocabInv, Domains
<1>6. \A r \in Reader \ {t} :
         /\ at'[r] = at[r] /\ wanted'[r] = wanted[r] /\ number'[r] = number[r]
         /\ loaded'[r] = loaded[r] /\ found'[r] = found[r]
  BY <1>4
<1>7. /\ found'[t] = a /\ number'[t] = unk /\ at'[t] = (IF again THEN "load" ELSE "done")
      /\ MapsOk(table, word_maps'[t])
  BY <1>2, <1>4 DEF VocabInv, Domains, ThreadOk
<1>8. CASE again
  <2>1. OfWord(w) /\ "for" \notin DOMAIN w /\ a = npos
    BY <1>3, <1>8
  <2>2. w.spelling \in Spellings \union {UNK} /\ Needed(w) = w.spelling
    BY <1>2, <2>1, Shapes DEF Needed
  <2>3. Inserted(w.spelling) = {}
    BY <1>1, <2>1, <2>2, LookupRight
  <2>4. PICK x : x = [spelling |-> UNK, for |-> w.spelling]
    OBVIOUS
  <2>5. x \in Wanted /\ OfWord(x) /\ x.spelling = UNK
    BY <2>2, <2>3, <2>4, AgainShape
  <2>6. wanted'[t] = x
    BY <1>2, <1>4, <1>8, <2>2, <2>4 DEF VocabInv, Domains
  <2>7. QED
    BY <1>2, <1>5, <1>6, <1>7, <1>8, <2>5, <2>6 DEF ThreadOk
<1>9. CASE ~ again
  <2>1. AnswerOk(table, w, a)
    <3>1. CASE OfWord(w)
      BY <1>1, <1>2, <1>3, <1>9, <3>1, RightAnswer
    <3>2. CASE ~ OfWord(w)
      <4>1. w.id < Len(Vocabulary)
        BY <1>2, <3>2 DEF ThreadOk
      <4>2. QED
        BY <1>1, <3>2, <4>1 DEF AnswerOk, Needed
    <3>3. QED
      BY <3>1, <3>2
  <2>2. wanted'[t] = w
    BY <1>1, <1>4, <1>9
  <2>3. QED
    BY <1>2, <1>5, <1>6, <1>7, <1>9, <2>1, <2>2 DEF ThreadOk
<1>10. QED
  BY <1>8, <1>9

\* An entry that is about what is sought for answers it.
LEMMA HitEntryInv ==
    ASSUME VocabInv, NEW t \in Reader, HitEntry(t) PROVE VocabInv'
<1>1. at[t] = "compare" /\ Matched(t)
  BY DEF HitEntry
<1>2. PICK w, n, e : w = wanted[t] /\ n = number[t] /\ e = loaded[t]
  OBVIOUS
<1>3. /\ ThreadOk(table, "compare", w, n, e, found[t], word_maps[t])
      /\ CachesOk(table, cache_word, cache_id) /\ table.size \in Nat
      /\ (ByWord(t) <=> OfWord(w)) /\ w \in Wanted
  BY <1>1, <1>2, OfThread
<1>4. PICK a : a = (IF OfWord(w) THEN e.id ELSE e.word) /\ Answered(t, a)
  BY <1>2, <1>3 DEF HitEntry
<1>5. IF OfWord(w) THEN a = Lookup(mapped, w.spelling) ELSE Numbered(table, a, Needed(w))
  <2>1. CASE OfWord(w)
    <3>1. e.word = n /\ Numbered(table, n, w.spelling) /\ WordEntry(table, e)
      BY <1>1, <1>2, <1>3, <2>1 DEF Matched, ThreadOk
    <3>2. n \in Nat
      BY <3>1 DEF Numbered
    <3>3. e # Fresh
      BY <3>1, <3>2 DEF Fresh
    <3>4. PICK m \in 0 .. table.size - 1 : e = Pair(m, Lookup(mapped, table.strings[Place(table, m)]))
      BY <3>1, <3>3 DEF WordEntry
    <3>5. m = n /\ e.id = Lookup(mapped, table.strings[Place(table, m)])
      BY <3>1, <3>4 DEF Pair
    <3>6. QED
      BY <1>4, <2>1, <3>1, <3>5 DEF Numbered
  <2>2. CASE ~ OfWord(w)
    <3>1. e.id = w.id /\ IdEntry(table, e) /\ w.id \in Nat
      BY <1>1, <1>2, <1>3, <2>2, Shapes DEF Matched, ThreadOk
    <3>2. e # Fresh
      BY <3>1 DEF Fresh
    <3>3. PICK i \in 0 .. Len(Vocabulary) - 1, m \in 0 .. table.size - 1 :
             e = Pair(m, i) /\ table.strings[Place(table, m)] = Vocabulary[i + 1]
      BY <3>1, <3>2 DEF IdEntry
    <3>4. e.id = i /\ e.word = m
      BY <3>3 DEF Pair
    <3>5. QED
      BY <1>4, <2>2, <3>1, <3>3, <3>4 DEF Numbered, Needed
  <2>3. QED
    BY <2>1, <2>2
<1>6. /\ table' = table /\ word_maps' = word_maps /\ holder' = holder
      /\ cache_word' = cache_word /\ cache_id' = cache_id
  BY DEF HitEntry
<1>7. /\ Domains' /\ at'[t] # "allocate"
      /\ \A r \in Reader \ {t} :
           /\ at'[r] = at[r] /\ wanted'[r] = wanted[r] /\ number'[r] = number[r]
           /\ loaded'[r] = loaded[r] /\ found'[r] = found[r]
      /\ ThreadOk(table, at'[t], wanted'[t], number'[t], loaded'[t], found'[t], word_maps'[t])
  BY <1>1, <1>2, <1>4, <1>5, <1>6, AnsweredOk
<1>8. QED
  BY <1>3, <1>6, <1>7, OneThread

\* Where a word's string is, or that the word of an identifier must be found.
LEMMA MissEntryInv ==
    ASSUME VocabInv, NEW t \in Reader, MissEntry(t) PROVE VocabInv'
<1>1. at[t] = "compare"
  BY DEF MissEntry
<1>2. PICK w, n, m : w = wanted[t] /\ n = number[t] /\ m = word_maps[t]
  OBVIOUS
<1>3. /\ ThreadOk(table, "compare", w, n, loaded[t], found[t], m)
      /\ CachesOk(table, cache_word, cache_id) /\ table.size \in Nat
      /\ (ByWord(t) <=> OfWord(w)) /\ w \in Wanted
  BY <1>1, <1>2, OfThread
<1>4. /\ table' = table /\ holder' = holder /\ cache_word' = cache_word /\ cache_id' = cache_id
      /\ wanted' = wanted /\ number' = number /\ loaded' = loaded /\ found' = found
  BY DEF MissEntry
<1>5. CASE OfWord(w)
  <2>1. PICK x : x = IF n \in DOMAIN m THEN m ELSE With(m, n, Place(table, n))
    OBVIOUS
  <2>2. word_maps' = [word_maps EXCEPT ![t] = x] /\ at' = [at EXCEPT ![t] = "swap"]
    BY <1>2, <1>3, <1>5, <2>1 DEF MissEntry, RecallWord, Move
  <2>3. Numbered(table, n, w.spelling) /\ MapsOk(table, m)
    BY <1>3, <1>5 DEF ThreadOk
  <2>4. MapsOk(table, x) /\ n \in DOMAIN x
    <3>1. CASE n \in DOMAIN m
      BY <2>1, <2>3, <3>1
    <3>2. CASE n \notin DOMAIN m
      BY <2>1, <2>3, <3>2 DEF MapsOk, With, Numbered
    <3>3. QED
      BY <3>1, <3>2
  <2>5. Domains' /\ at'[t] = "swap" /\ word_maps'[t] = x
    BY <1>4, <2>2 DEF VocabInv, Domains
  <2>6. Needed(w) = w.spelling
    BY <1>5 DEF Needed
  <2>7. ThreadOk(table, at'[t], wanted'[t], number'[t], loaded'[t], found'[t], word_maps'[t])
    BY <1>2, <1>3, <1>4, <1>5, <2>3, <2>4, <2>5, <2>6 DEF ThreadOk
  <2>8. \A r \in Reader \ {t} : at'[r] = at[r] /\ word_maps'[r] = word_maps[r]
    BY <2>2
  <2>9. QED
    BY <1>3, <1>4, <2>5, <2>7, <2>8, OneThread
<1>6. CASE ~ OfWord(w)
  <2>1. word_maps' = word_maps /\ at' = [at EXCEPT ![t] = "enter"]
    BY <1>3, <1>6 DEF MissEntry, Move
  <2>2. Domains' /\ at'[t] = "enter"
    BY <1>4, <2>1 DEF VocabInv, Domains
  <2>3. ThreadOk(table, at'[t], wanted'[t], number'[t], loaded'[t], found'[t], word_maps'[t])
    BY <1>2, <1>3, <1>4, <1>6, <2>1, <2>2 DEF ThreadOk
  <2>4. \A r \in Reader \ {t} : at'[r] = at[r] /\ word_maps'[r] = word_maps[r]
    BY <2>1
  <2>5. QED
    BY <1>3, <1>4, <2>2, <2>3, <2>4, OneThread
<1>7. QED
  BY <1>5, <1>6

\* The entry that is written is right, whatever is there meanwhile.
LEMMA SwapEntryInv ==
    ASSUME VocabInv, NEW t \in Reader, SwapEntry(t) PROVE VocabInv'
<1>1. at[t] = "swap"
  BY DEF SwapEntry
<1>2. PICK w, n : w = wanted[t] /\ n = number[t]
  OBVIOUS
<1>3. /\ ThreadOk(table, "swap", w, n, loaded[t], found[t], word_maps[t])
      /\ CachesOk(table, cache_word, cache_id) /\ table.size \in Nat
      /\ (ByWord(t) <=> OfWord(w)) /\ w \in Wanted
  BY <1>1, <1>2, OfThread
<1>4. table' = table /\ holder' = holder /\ word_maps' = word_maps
  BY DEF SwapEntry
<1>5. Numbered(table, n, Needed(w)) /\ n \in Nat
  BY <1>3 DEF ThreadOk, Numbered
<1>6. \A i \in Nat : i % Slots \in 0 .. Slots - 1
  BY VocabAssumption
<1>7. \E a : /\ Answered(t, a) /\ CachesOk(table, cache_word', cache_id')
             /\ IF OfWord(w) THEN a = Lookup(mapped, w.spelling) ELSE Numbered(table, a, Needed(w))
  <2>1. CASE OfWord(w)
    <3>1. Recalled(t, n) = table.strings[Place(table, n)] /\ Needed(w) = w.spelling
      BY <1>2, <1>3, <2>1 DEF Recalled, ThreadOk, MapsOk, Needed
    <3>2. PICK a : a = Lookup(mapped, w.spelling) /\ a = Lookup(mapped, Recalled(t, n))
      BY <1>5, <3>1 DEF Numbered
    <3>3. PICK new : new = Pair(n, a)
      OBVIOUS
    <3>4. /\ cache_word' = [cache_word EXCEPT ![n % Slots] =
                               CompareAndSwap(cache_word[n % Slots], loaded[t], new)]
          /\ cache_id' = cache_id /\ Answered(t, a)
      BY <1>2, <1>3, <2>1, <3>2, <3>3 DEF SwapEntry
    <3>5. WordEntry(table, new)
      BY <1>5, <3>1, <3>2, <3>3 DEF WordEntry, Numbered
    <3>6. WordEntry(table, CompareAndSwap(cache_word[n % Slots], loaded[t], new))
      BY <1>3, <1>5, <1>6, <3>5 DEF CompareAndSwap, CachesOk
    <3>7. CachesOk(table, cache_word', cache_id')
      BY <1>3, <3>4, <3>6 DEF CachesOk
    <3>8. QED
      BY <2>1, <3>2, <3>4, <3>7
  <2>2. CASE ~ OfWord(w)
    <3>1. w.id \in Nat /\ w.id < Len(Vocabulary) /\ Needed(w) = Vocabulary[w.id + 1]
      BY <1>3, <2>2, Shapes DEF ThreadOk, Needed
    <3>2. PICK new : new = Pair(n, w.id)
      OBVIOUS
    <3>3. /\ cache_id' = [cache_id EXCEPT ![w.id % Slots] =
                             CompareAndSwap(cache_id[w.id % Slots], loaded[t], new)]
          /\ cache_word' = cache_word /\ Answered(t, n)
      BY <1>2, <1>3, <2>2, <3>2 DEF SwapEntry
    <3>4. w.id \in 0 .. Len(Vocabulary) - 1
      BY <3>1, MappedKeys
    <3>5. IdEntry(table, new)
      BY <1>5, <3>1, <3>2, <3>4 DEF IdEntry, Numbered
    <3>6. IdEntry(table, CompareAndSwap(cache_id[w.id % Slots], loaded[t], new))
      BY <1>3, <1>6, <3>1, <3>5 DEF CompareAndSwap, CachesOk
    <3>7. CachesOk(table, cache_word', cache_id')
      BY <1>3, <3>3, <3>6 DEF CachesOk
    <3>8. QED
      BY <1>5, <2>2, <3>3, <3>7
  <2>3. QED
    BY <2>1, <2>2
<1>8. PICK a : /\ Answered(t, a) /\ CachesOk(table, cache_word', cache_id')
               /\ IF OfWord(w) THEN a = Lookup(mapped, w.spelling) ELSE Numbered(table, a, Needed(w))
  BY <1>7
<1>9. /\ Domains' /\ at'[t] # "allocate"
      /\ \A r \in Reader \ {t} :
           /\ at'[r] = at[r] /\ wanted'[r] = wanted[r] /\ number'[r] = number[r]
           /\ loaded'[r] = loaded[r] /\ found'[r] = found[r]
      /\ ThreadOk(table, at'[t], wanted'[t], number'[t], loaded'[t], found'[t], word_maps'[t])
  BY <1>1, <1>2, <1>4, <1>8, AnsweredOk
<1>10. QED
  BY <1>4, <1>8, <1>9, OneThread

\* Every step of every thread keeps the invariant.
LEMMA NextInv == VocabInv /\ [VocabNext]_vocabVars => VocabInv'
<1> SUFFICES ASSUME VocabInv, [VocabNext]_vocabVars PROVE VocabInv'
  OBVIOUS
<1>1. ASSUME NEW t \in Reader, LookUp(t) PROVE VocabInv'
  BY <1>1, AskWordInv, AskIdInv, AskUnknownIdInv, EnterInv, AllocateWordInv, LoadInv,
     HitEntryInv, MissEntryInv, SwapEntryInv DEF LookUp
<1>2. ASSUME UNCHANGED vocabVars PROVE VocabInv'
  BY <1>2 DEF vocabVars, VocabInv, Domains, ThreadRight, HolderOk
<1>3. QED
  BY <1>1, <1>2 DEF VocabNext

\* What the invariant says of what was sought.
LEMMA InvRight == VocabInv => VocabRight
<1> SUFFICES ASSUME VocabInv PROVE VocabRight
  OBVIOUS
<1>1. ASSUME NEW n \in 0 .. table.size - 1 PROVE FindWord(table, TableWord(n)) = n + 1
  BY FindOwn DEF VocabInv, TableWord
<1>2. ASSUME NEW t \in Reader, NEW n \in DOMAIN word_maps[t]
      PROVE  word_maps[t][n] \in DOMAIN table.strings /\ Recalled(t, n) = TableWord(n)
  <2>1. n \in 0 .. table.size - 1 /\ word_maps[t][n] = Place(table, n)
    BY OfThread DEF ThreadOk, MapsOk
  <2>2. table \in Tables /\ StringsOk(table)
    BY OfThread DEF TableOk
  <2>3. QED
    BY <2>1, <2>2, StringsOfWords DEF Recalled, TableWord
<1>3. ASSUME NEW t \in Reader, at[t] = "done"
      PROVE  IF ByWord(t)
             THEN LET known == Inserted(AskedFor(t)) \union
                                 IF Inserted(AskedFor(t)) = {} THEN Inserted(UNK) ELSE {}
                  IN  found[t] + 1 \in (IF known = {} THEN {0} ELSE known)
             ELSE TableWord(found[t]) =
                    IF wanted[t].id < Len(Vocabulary) THEN Vocabulary[wanted[t].id + 1] ELSE UNK
  <2>1. AnswerOk(table, wanted[t], found[t]) /\ (ByWord(t) <=> OfWord(wanted[t]))
    BY <1>3, OfThread DEF ThreadOk
  <2>2. CASE ByWord(t)
    BY <2>1, <2>2 DEF AnswerOk, AskedFor, SecondTry
  <2>3. CASE ~ ByWord(t)
    BY <2>1, <2>3 DEF AnswerOk, Numbered, TableWord
  <2>4. QED
    BY <2>2, <2>3
<1>4. QED
  BY <1>1, <1>2, <1>3 DEF VocabRight

\* Any threads may ask for any words and identifiers at the same time: a
\* spelling has one number, remembered places stay right while the table grows,
\* and each answer is the right one.
THEOREM VocabRightHolds == VocabSpec => []VocabRight
<1>1. VocabSpec => []VocabInv
  BY InitInv, NextInv, PTL DEF VocabSpec
<1>2. QED
  BY <1>1, InvRight, PTL
=============================================================================
