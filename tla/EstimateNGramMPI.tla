------------------------- MODULE EstimateNGramMPI -------------------------
(* Estimation of the n-grams of three and more words by MPI processes       *)
(* (estimate_ngram in progs/expgram_counts_estimate_mpi.cpp).  A process    *)
(* has the probabilities of its shard only.  Its mapper walks the contexts  *)
(* and asks, for every child, the process of the child's suffix for the     *)
(* lower-order probability; its reducer walks the same contexts, waits for  *)
(* the answers and estimates; its server answers what it is asked, keeps a  *)
(* request waiting while the reducer has not come so far, and passes it on  *)
(* when the rest of the back-off lies with another process.  The main       *)
(* thread carries requests and answers.                                     *)
(*                                                                          *)
(* Answers have no name: those of a process come in the order of the        *)
(* requests to it.                                                          *)
(*                                                                          *)
(* An Event, the cell that an answer is added up in, is named <<r, p, n>>:  *)
(* node p of process r is the child that it is for, and n the length of the *)
(* n-gram it was made for: Len of the child with the mapper of r, less with *)
(* a process that receives a request.  The value of an event is the set of  *)
(* what was added to it, with the state it was read in.                     *)
EXTENDS EstimateBigramMPI

CONSTANTS
    QueueMax    \* 1024: how many contexts a mapper may be ahead of its reducer

ASSUME QueueAssumption == QueueMax \in Nat \ {0}

VARIABLES
    offset,     \* [r]: shard_data.offset, the frontier of the reducer
    child,      \* [r]: the child that the mapper is at
    mpc,        \* [r]: "ask", or "list" when the children of a context are asked
    lists,      \* [r]: how many contexts are queued from the mapper to the reducer
    rctx,       \* [r]: the context that the reducer is at
    rpc,        \* [r]: where it is
    value,      \* what was added to each event
    notified,   \* the events that are complete
    requests,   \* [r][q]: queue_ngram, what r asks q; with q = r, its own server
    received,   \* [r][q]: queue_logprob, what the server of r is asked by q
    owed,       \* [r][q]: pending_logprob, the events to answer q with
    awaited,    \* [r][q]: pending_ngram, the events that q is to answer
    hand,       \* [r]: the request the server works on, if any
    pendings,   \* [r]: the requests that wait for the frontier
    served,     \* [r]: the end marks that the server has taken; -1 when it is gone
    sent,       \* [r]: terminated_send
    got,        \* [r]: terminated_recv
    net         \* [tag][r][q]: the streams of requests and of answers

mapVars == <<child, mpc>>
reduceVars == <<offset, rctx, rpc>>
serveVars == <<hand, pendings, served>>
mainVars == <<owed, awaited, sent, got, net>>
ngramVars == <<mapVars, reduceVars, serveVars, mainVars, lists, value, notified,
               requests, received>>

vars == <<tables, bigramVars, stage, ngramVars>>

\* No words are the end mark.
EndRequest == [gram |-> << >>, event |-> << >>]

NetTags == {"ngram", "logprob"}

Suffix(g, n) == SubSeq(g, Len(g) - n + 1, Len(g))

Events ==
    UNION {UNION {{<<r, p, n>> : n \in 1 .. Len(Ngram(r, p))} : p \in Pos(r)} : r \in Shard}

\* The event of the mapper for child p, and the one a process makes on receipt
\* of what is left of the request.
OwnEvent(r, p) == <<r, p, Len(Ngram(r, p))>>

EventFor(request) == <<request.event[1], request.event[2], Len(request.gram)>>

Everywhere(x) == [r \in Shard |-> [q \in Shard |-> x]]

InitNGram ==
    /\ Init
    /\ offset = [r \in Shard |-> Offset(r, 2)]
    /\ child = [r \in Shard |-> Offset(r, 2)]
    /\ mpc = [r \in Shard |-> "ask"]
    /\ lists = [r \in Shard |-> 0]
    /\ rctx = [r \in Shard |-> Offset(r, 1)]
    /\ rpc = [r \in Shard |-> "enter"]
    /\ value = [e \in Events |-> {}]
    /\ notified = {}
    /\ requests = Everywhere(<< >>)
    /\ received = Everywhere(<< >>)
    /\ owed = Everywhere(<< >>)
    /\ awaited = Everywhere(<< >>)
    /\ hand = [r \in Shard |-> << >>]
    /\ pendings = [r \in Shard |-> {}]
    /\ served = [r \in Shard |-> 0]
    /\ sent = [r \in Shard |-> 0]
    /\ got = [r \in Shard |-> 0]
    /\ net = [tag \in NetTags |-> [r \in Shard |-> [q \in Shard \ {r} |-> Stream!Opened]]]

-----------------------------------------------------------------------------
(* The mapper.                                                              *)

LastOfContext(r, p) == p + 1 = ChildrenLast(r, Parent(r, p))

\* Ask for the lower order of the next child.
Ask(r) ==
    LET lower == Tail(Ngram(r, child[r]))
    IN  /\ mpc[r] = "ask"
        /\ child[r] < Offset(r, Order)
        /\ requests' = IF ~ Kept(r, child[r]) THEN requests
             ELSE [requests EXCEPT ![r][shard_index(lower)] =
                     Append(@, [gram |-> lower, event |-> OwnEvent(r, child[r])])]
        /\ IF LastOfContext(r, child[r])
             THEN mpc' = [mpc EXCEPT ![r] = "list"] /\ UNCHANGED child
             ELSE child' = [child EXCEPT ![r] = @ + 1] /\ UNCHANGED mpc
        /\ UNCHANGED <<tables, bigramVars, stage, reduceVars, serveVars, mainVars,
                       lists, value, notified, received>>

\* push_swap(lowers): the events of one context.
List(r) ==
    /\ mpc[r] = "list"
    /\ lists[r] < QueueMax
    /\ lists' = [lists EXCEPT ![r] = @ + 1]
    /\ mpc' = [mpc EXCEPT ![r] = "ask"]
    /\ child' = [child EXCEPT ![r] = @ + 1]
    /\ UNCHANGED <<tables, bigramVars, stage, reduceVars, serveVars, mainVars,
                   value, notified, requests, received>>

-----------------------------------------------------------------------------
(* The reducer.                                                             *)

Goto(r, label) == rpc' = [rpc EXCEPT ![r] = label]

NextContext(r) ==
    /\ rctx' = [rctx EXCEPT ![r] = @ + 1]
    /\ Goto(r, "enter")

Counted(r, p) == Kept(r, p) /\ Ngram(r, p) \notin Unseen

CountedChildren(r, c) == {p \in Children(r, c) : Counted(r, p)}

EnterOneMore(r) == ChildrenFirst(r, rctx[r]) + 1    \* faulty EnterOffset

\* What the frontier is set to on entering a context: its first child is next.
EnterOffset(r) == ChildrenFirst(r, rctx[r])

Enter(r) ==
    /\ rpc[r] = "enter"
    /\ rctx[r] < Offset(r, Order - 1)
    /\ offset' = [offset EXCEPT ![r] = EnterOffset(r)]
    /\ IF Children(r, rctx[r]) = {}
         THEN NextContext(r)
         ELSE Goto(r, "pop") /\ UNCHANGED rctx
    /\ UNCHANGED <<tables, bigramVars, stage, mapVars, serveVars, mainVars, lists,
                   value, notified, requests, received>>

PopList(r) ==
    /\ rpc[r] = "pop"
    /\ lists[r] > 0
    /\ lists' = [lists EXCEPT ![r] = @ - 1]
    /\ Goto(r, "wait")
    /\ UNCHANGED <<tables, bigramVars, stage, mapVars, offset, rctx, serveVars,
                   mainVars, value, notified, requests, received>>

\* Wait for all the answers, compute the bounds, and the probabilities until
\* they sum up to less than one.  Without counts the context is left as it is.
Estimate3(r) ==
    LET children == Children(r, rctx[r])
        counted == CountedChildren(r, rctx[r])
    IN  /\ rpc[r] = "wait"
        /\ \A p \in children : Kept(r, p) => OwnEvent(r, p) \in notified
        /\ logbounds' = [logbounds EXCEPT ![r] = [p \in Pos(r) |->
              IF /\ p \in children
                 /\ Kept(r, p)
                 /\ Len(Ngram(r, p)) < Order
                 /\ Ngram(r, p) \notin Rawless THEN Final ELSE @[p]]]
        /\ logprobs' = [logprobs EXCEPT ![r] = [p \in Pos(r) |->
              IF p \in counted THEN Partial ELSE @[p]]]
        /\ IF counted = {} THEN NextContext(r) ELSE Goto(r, "settle") /\ UNCHANGED rctx
        /\ UNCHANGED <<backoffs, bigramVars, stage, mapVars, offset, serveVars,
                       mainVars, lists, value, notified, requests, received>>

\* The weight of the context, or the probabilities once more.
Settle(r) ==
    /\ rpc[r] = "settle"
    /\ logprobs' = [logprobs EXCEPT ![r] = [p \in Pos(r) |->
          IF p \in CountedChildren(r, rctx[r]) THEN Final ELSE @[p]]]
    /\ backoffs' = [backoffs EXCEPT ![r][rctx[r]] = Final]
    /\ Goto(r, "publish")
    /\ UNCHANGED <<logbounds, bigramVars, stage, mapVars, offset, rctx, serveVars,
                   mainVars, lists, value, notified, requests, received>>

Publish(r) ==
    /\ rpc[r] = "publish"
    /\ offset' = [offset EXCEPT ![r] = ChildrenLast(r, rctx[r])]
    /\ NextContext(r)
    /\ UNCHANGED <<tables, bigramVars, stage, mapVars, serveVars, mainVars, lists,
                   value, notified, requests, received>>

\* An end mark to every process, behind all that was asked.
ReduceEnd(r) ==
    /\ rpc[r] = "enter"
    /\ rctx[r] >= Offset(r, Order - 1)
    /\ Goto(r, "done")
    /\ requests' = [requests EXCEPT ![r] = [q \in Shard |-> Append(@[q], EndRequest)]]
    /\ UNCHANGED <<tables, bigramVars, stage, mapVars, offset, rctx, serveVars,
                   mainVars, lists, value, notified, received>>

-----------------------------------------------------------------------------
(* The server.                                                              *)

\* Take the next request of process q, or its end mark.
Take(r, q, asked) ==
    /\ served[r] >= 0
    /\ hand[r] = << >>
    /\ asked # << >>
    /\ IF Head(asked) = EndRequest
         THEN served' = [served EXCEPT ![r] = @ + 1] /\ UNCHANGED hand
         ELSE hand' = [hand EXCEPT ![r] = <<Head(asked)>>] /\ UNCHANGED served
    /\ UNCHANGED <<tables, bigramVars, stage, mapVars, reduceVars, pendings, mainVars,
                   lists, value, notified>>

TakeOwn(r) ==
    /\ Take(r, r, requests[r][r])
    /\ requests' = [requests EXCEPT ![r][r] = Tail(@)]
    /\ UNCHANGED received

TakeReceived(r, q) ==
    /\ Take(r, q, received[r][q])
    /\ received' = [received EXCEPT ![r][q] = Tail(@)]
    /\ UNCHANGED requests

Resume(r) ==
    /\ served[r] >= 0
    /\ hand[r] = << >>
    /\ \E request \in pendings[r] :
          /\ Find(r, request.gram) < offset[r]
          /\ \A other \in pendings[r] :
                Find(r, request.gram) <= Find(r, other.gram)
          /\ hand' = [hand EXCEPT ![r] = <<request>>]
          /\ pendings' = [pendings EXCEPT ![r] = @ \ {request}]
    /\ UNCHANGED <<tables, bigramVars, stage, mapVars, reduceVars, served, mainVars,
                   lists, value, notified, requests, received>>

SomeServed(r) == served[r] >= Ranks - 1             \* faulty AllServed

\* The reducers of all the processes have ended.
AllServed(r) == served[r] >= Ranks

ServeEnd(r) ==
    /\ hand[r] = << >>
    /\ pendings[r] = {}
    /\ AllServed(r)
    /\ served' = [served EXCEPT ![r] = -1]
    /\ UNCHANGED <<tables, bigramVars, stage, mapVars, reduceVars, hand, pendings,
                   mainVars, lists, value, notified, requests, received>>

Term(table, gram, state) == [table |-> table, gram |-> gram, state |-> state]

Add(event, term) == value' = [value EXCEPT ![event] = @ \union {term}]

PutDown(r) == hand' = [hand EXCEPT ![r] = << >>]

Shorten(r) == hand' = [hand EXCEPT ![r] = <<[@[1] EXCEPT !.gram = Tail(@)]>>]

\* One round of logprob(), for the suffix that is left.
PassOn(r) ==
    LET request == hand[r][1]
        home == shard_index(request.gram)
    IN  /\ hand[r] # << >>
        /\ request.gram # << >>
        /\ home # r
        /\ requests' = [requests EXCEPT ![r][home] = Append(@, request)]
        /\ PutDown(r)
        /\ UNCHANGED <<tables, bigramVars, stage, mapVars, reduceVars, pendings,
                       served, mainVars, lists, value, notified, received>>

SpinsOneLess(p, frontier) == p > frontier           \* faulty Early

\* The reducer has not come to node p.
Early(p, frontier) == p >= frontier

LookUp(r) ==
    LET request == hand[r][1]
        gram == request.gram
        p == Find(r, gram)
    IN  /\ hand[r] # << >>
        /\ gram # << >>
        /\ shard_index(gram) = r
        /\ \/ /\ Has(r, gram) /\ Early(p, offset[r])
              /\ pendings' = [pendings EXCEPT ![r] = @ \union {request}]
              /\ PutDown(r)
              /\ UNCHANGED <<value, notified>>
           \/ /\ Has(r, gram) /\ ~ Early(p, offset[r]) /\ logprobs[r][p] # Unset
              /\ Add(request.event, Term("logprob", gram, logprobs[r][p]))
              /\ notified' = notified \union {request.event}
              /\ PutDown(r)
              /\ UNCHANGED pendings
           \/ /\ Has(r, gram) /\ ~ Early(p, offset[r]) /\ logprobs[r][p] = Unset
              /\ IF Parent(r, p) = -1 THEN UNCHANGED value
                   ELSE Add(request.event,
                            Term("backoff", Context(gram), backoffs[r][Parent(r, p)]))
              /\ Shorten(r)
              /\ UNCHANGED <<notified, pendings>>
           \/ /\ ~ Has(r, gram)
              /\ IF Has(r, Context(gram))
                   THEN Add(request.event, Term("backoff", Context(gram),
                                             backoffs[r][Find(r, Context(gram))]))
                   ELSE UNCHANGED value
              /\ Shorten(r)
              /\ UNCHANGED <<notified, pendings>>
        /\ UNCHANGED <<tables, bigramVars, stage, mapVars, reduceVars, served,
                       mainVars, lists, requests, received>>

-----------------------------------------------------------------------------
(* The main thread.                                                         *)

Marks(data) == Len(SelectSeq(data, LAMBDA x : x = EndRequest))

Unmarked(data) == SelectSeq(data, LAMBDA x : x # EndRequest)

SendRequests(r, q) ==
    LET data == requests[r][q]
    IN  /\ Stream!Writable(net["ngram"][r][q])
        /\ data # << >>
        /\ net' = [net EXCEPT !["ngram"][r][q] = Stream!Write(@, data)]
        /\ requests' = [requests EXCEPT ![r][q] = << >>]
        /\ awaited' = [awaited EXCEPT ![r][q] =
              @ \o [i \in DOMAIN Unmarked(data) |-> Unmarked(data)[i].event]]
        /\ sent' = [sent EXCEPT ![r] = @ + Marks(data)]
        /\ UNCHANGED <<tables, bigramVars, stage, mapVars, reduceVars, serveVars,
                       owed, got, lists, value, notified, received>>

\* Every request gets a new event here.
ReceiveRequests(r, q) ==
    LET data == net["ngram"][q][r].data
        renamed == [i \in DOMAIN data |->
            IF data[i] = EndRequest THEN EndRequest
            ELSE [data[i] EXCEPT !.event = EventFor(data[i])]]
    IN  /\ Stream!Readable(net["ngram"][q][r])
        /\ net' = [net EXCEPT !["ngram"][q][r] = Stream!Read(@)]
        /\ received' = [received EXCEPT ![r][q] = @ \o renamed]
        /\ owed' = [owed EXCEPT ![r][q] =
              @ \o [i \in DOMAIN Unmarked(renamed) |-> Unmarked(renamed)[i].event]]
        /\ got' = [got EXCEPT ![r] = @ + Marks(data)]
        /\ UNCHANGED <<tables, bigramVars, stage, mapVars, reduceVars, serveVars,
                       awaited, sent, lists, value, notified, requests>>

AllReady(answers) == SelectSeq(answers, LAMBDA e : e \in notified)  \* faulty Ready

\* Answers go out in the order of the requests, as far as they are complete.
Ready(answers) ==
    LET stop == SelectInSeq(answers, LAMBDA e : e \notin notified)
    IN  IF stop = 0 THEN answers ELSE SubSeq(answers, 1, stop - 1)

SendAnswers(r, q) ==
    LET ready == Ready(owed[r][q])
    IN  /\ Stream!Writable(net["logprob"][r][q])
        /\ ready # << >>
        /\ net' = [net EXCEPT !["logprob"][r][q] =
              Stream!Write(@, [i \in DOMAIN ready |-> value[ready[i]]])]
        /\ owed' = [owed EXCEPT ![r][q] =
              SelectSeq(@, LAMBDA e : e \notin ToSet(ready))]
        /\ UNCHANGED <<tables, bigramVars, stage, mapVars, reduceVars, serveVars,
                       awaited, sent, got, lists, value, notified, requests, received>>

\* Each answer is added to the event that has waited longest, and completes it.
ReceiveAnswers(r, q) ==
    LET data == net["logprob"][q][r].data
        served_ == SubSeq(awaited[r][q], 1, Len(data))
    IN  /\ Stream!Readable(net["logprob"][q][r])
        /\ net' = [net EXCEPT !["logprob"][q][r] = Stream!Read(@)]
        /\ awaited' = [awaited EXCEPT ![r][q] = SubSeq(@, Len(data) + 1, Len(@))]
        /\ value' = [e \in Events |->
              IF e \in ToSet(served_)
                THEN value[e] \union data[SelectInSeq(served_, LAMBDA x : x = e)]
                ELSE value[e]]
        /\ notified' = notified \union ToSet(served_)
        /\ UNCHANGED <<tables, bigramVars, stage, mapVars, reduceVars, serveVars,
                       owed, sent, got, lists, requests, received>>

\* The end of a stream of requests or answers.
CloseStream(tag, r, q) ==
    /\ Stream!Ended(net[tag][q][r])
    /\ net' = [net EXCEPT ![tag][q][r] = Stream!Close(@)]
    /\ UNCHANGED <<tables, bigramVars, stage, mapVars, reduceVars, serveVars, owed,
                   awaited, sent, got, lists, value, notified, requests, received>>

\* "terminated_send >= mpi_size - 1 implies that the shard mpi_rank finished
\* estimation, terminated_recv ... that other shards finished estimation".
AllEnded(r) == got[r] >= Ranks - 1 /\ sent[r] >= Ranks - 1

EndNet(tag, r, q) ==
    /\ AllEnded(r)
    /\ Stream!Writable(net[tag][r][q])
    /\ net' = [net EXCEPT ![tag][r][q] = Stream!Terminate(@)]
    /\ UNCHANGED <<tables, bigramVars, stage, mapVars, reduceVars, serveVars, owed,
                   awaited, sent, got, lists, value, notified, requests, received>>

\* The streams are gone and the threads joined.
Finish(r) ==
    /\ AllEnded(r)
    /\ \A tag \in NetTags, q \in Shard \ {r} :
          net[tag][r][q].out = "terminated" /\ net[tag][q][r].in = "closed"
    /\ child[r] = Offset(r, Order) /\ mpc[r] = "ask"
    /\ rpc[r] = "done"
    /\ served[r] = -1
    /\ stage' = [stage EXCEPT ![r] = "done"]
    /\ UNCHANGED <<tables, bigramVars, ngramVars>>

NGramThread(r) ==
    \/ Ask(r) \/ List(r)
    \/ Enter(r) \/ PopList(r) \/ Estimate3(r) \/ Settle(r) \/ Publish(r) \/ ReduceEnd(r)
    \/ TakeOwn(r) \/ Resume(r) \/ PassOn(r) \/ LookUp(r) \/ ServeEnd(r)
    \/ \E q \in Shard \ {r} :
          \/ TakeReceived(r, q)
          \/ SendRequests(r, q) \/ ReceiveRequests(r, q)
          \/ SendAnswers(r, q) \/ ReceiveAnswers(r, q)
          \/ \E tag \in NetTags : CloseStream(tag, r, q) \/ EndNet(tag, r, q)
    \/ Finish(r)

Done == \A r \in Shard : stage[r] = "done"

Process(r) ==
    \/ stage[r] = "bigram" /\ BigramThread(r) /\ UNCHANGED ngramVars
    \/ stage[r] = "ngram" /\ NGramThread(r)

Next ==
    \/ \E r \in Shard : Process(r)
    \/ Broadcast /\ UNCHANGED ngramVars
    \/ Done /\ UNCHANGED vars

Spec == InitNGram /\ [][Next]_vars

\* Some thread that can go on does: nothing is asked of any one of them, as no
\* thread takes steps for ever.
FairSpec == Spec /\ WF_vars(Next)

-----------------------------------------------------------------------------

\* The suffix that the back-off of g stops at: the longest one, g included,
\* that was counted.
Stop(g) ==
    LET stops == {n \in 1 .. Len(g) :
            \/ n = 1
            \/ LET h == Suffix(g, n)
                   s == shard_index(h)
               IN  Has(s, h) /\ Counted(s, Find(s, h))}
    IN  Suffix(g, CHOOSE n \in stops : \A m \in stops : m <= n)

Weighted(c) ==
    \E s \in Shard : \E p \in Pos(s) :
        Len(Ngram(s, p)) > 1 /\ Context(Ngram(s, p)) = c /\ Counted(s, p)

\* What the sequential definition of Kneser-Ney back-off adds up for g: the
\* weights of the contexts passed and the probability where it stops.
Lower(g) ==
    LET stop == Stop(g)
        passed == {Context(Suffix(g, n)) : n \in Len(stop) + 1 .. Len(g)}
    IN  {Term("logprob", stop, Final)} \union
        {Term("backoff", c, IF Weighted(c) THEN Final ELSE Unset) :
            c \in {c \in passed : Has(shard_index(c), c)}}

\* The right answer for every event: a table, which TLC computes once.
RightAnswer ==
    [e \in Events |->
        LET g == Ngram(e[1], e[2])
        IN  Lower(IF e[3] = Len(g) THEN Tail(g) ELSE Suffix(g, e[3]))]

\* Whatever the processes interleave, an answer is that of the sequential
\* definition: it was not computed from a probability that is not there yet or
\* is still being normalised, nor is it the answer to another request.
AnswersSequential == \A e \in notified : value[e] = RightAnswer[e]

\* At the end the values are those of the sequential definition: a bigram's are
\* computed from all the counts of its context, although they come from several
\* processes, and a context has its weight with every process that has it.
EstimateComplete ==
    Done => \A r \in Shard : \A p \in Pos(r) :
        LET g == Ngram(r, p)
        IN  /\ Len(g) > 1 =>
                 /\ logprobs[r][p] = IF Counted(r, p) THEN Final ELSE Unset
                 /\ logbounds[r][p] = IF /\ Kept(r, p)
                                         /\ g \notin Rawless
                                         /\ Len(g) < Order THEN Final ELSE Unset
            /\ backoffs[r][p] = IF Weighted(g) THEN Final ELSE Unset

\* Every process comes to its end: neither the answers that are sent in the
\* order of the requests nor the servers that outlive their reducers keep one
\* from it.
Termination == <>Done
=============================================================================
