---------------------------- MODULE BackendGroup ----------------------------
(***************************************************************************)
(* One request, or one batch, on its way through a backend group           *)
(* (BackendGroup.Forward, Backend.Forward and doForward of backend.go),    *)
(* while the consensus poller of the group publishes new rounds.           *)
(*                                                                         *)
(* The handler orders the backends, reads the tracker to rewrite the block *)
(* tags and only then calls backends, one after another, each up to        *)
(* MaxRetries + 1 times.  The poller sets the tracker and the consensus    *)
(* group in two separate steps, which interleave with those.               *)
(*                                                                         *)
(* A request is its id, its method and the block it asks for.  The same    *)
(* *RPCReq is handed to every attempt on every backend, so what one of     *)
(* them writes into it the next one sees.                                  *)
(***************************************************************************)
EXTENDS Integers, Sequences, FiniteSets, Functions

CONSTANTS
    BackendList,        \* bg.Backends, in the order of the configuration
    Strategies,         \* the ways a group may be configured: "plain", "weighted",
                        \* "consensus" or "multicall"
    MaxRetries,         \* Backend.maxRetries
    ReceiptsTarget,     \* consensus_receipts_target of each backend
    Height,             \* the highest block that each backend holds
    Methods,            \* the methods clients call
    MaxBatch,           \* bound: requests in one batch
    NoGroup

AllBackends == Range(BackendList)

\* Methods by what becomes of them: eth_blockNumber and a request for a block
\* out of range are answered by proxyd, "receipts" is consensus_getReceipts, and
\* "transaction" is eth_sendRawTransaction or eth_sendBundle.
Answered == {"eth_blockNumber", "out_of_range"}
Targets == {"debug", "alchemy"}
Proxyd == "proxyd"
NoBlock == -1       \* a request whose tag is not rewritten

VARIABLES
    strategy,    \* how the group is configured; never changes
    tip,         \* what tracker.GetLatestBlockNumber() returns
    group,       \* consensusGroup
    pending,     \* the group of a round whose tip is published already
    pc,          \* where the handler is
    isBatch,
    asked,       \* the requests as the client sent them
    reqs,        \* the requests as they are now, rewritten and translated
    overridden,  \* the responses proxyd gives itself, with their positions
    order,       \* the backends in the order in which they are tried
    preferred,   \* the backends that were put first in it
    next,        \* index in order of the backend being tried
    tries,       \* calls of doForward, per backend
    res, err

round == <<tip, group, pending>>
vars == <<strategy, tip, group, pending, pc, isBatch, asked, reqs, overridden, order,
          preferred, next, tries, res, err>>

Consensus == strategy = "consensus"         \* bg.Consensus is set
WeightedRouting == strategy = "weighted"    \* bg.WeightedRouting

Request(i, m) == [id |-> i, method |-> m, at |-> NoBlock]

\* A single request is not a batch; a batch may have a single element.
Init ==
    /\ strategy \in Strategies
    /\ tip = 0 /\ group = {} /\ pending = NoGroup
    /\ isBatch \in BOOLEAN
    /\ \E n \in 1..(IF isBatch THEN MaxBatch ELSE 1), m \in [1..MaxBatch -> Methods] :
          asked = [i \in 1..n |-> Request(i, m[i])]
    /\ reqs = asked
    /\ pc = "order"
    /\ overridden = <<>> /\ order = <<>> /\ preferred = {}
    /\ next = 1
    /\ tries = [b \in AllBackends |-> 0]
    /\ res = <<>> /\ err = "none"

-----------------------------------------------------------------------------
(* The poller: a round sets the tracker, and the group afterwards *)

SharedTip(G) == IF G = {} THEN 0
                ELSE CHOOSE n \in {Height[b] : b \in G} : \A b \in G : n <= Height[b]

SetLatest ==
    /\ Consensus /\ pending = NoGroup
    /\ \E G \in SUBSET AllBackends : tip' = SharedTip(G) /\ pending' = G
    /\ UNCHANGED <<group, pc, isBatch, asked, reqs, overridden, order, preferred,
                   next, tries, res, err>>

SetGroup ==
    /\ pending # NoGroup
    /\ group' = pending /\ pending' = NoGroup
    /\ UNCHANGED <<tip, pc, isBatch, asked, reqs, overridden, order, preferred,
                   next, tries, res, err>>

-----------------------------------------------------------------------------
(* The order in which backends are tried *)

\* The sequences that have every element of S once.
Orders(S) == Injection(1..Cardinality(S), S)

\* Of two backends the one that is configured first comes first.
AsConfigured(s) ==
    \A i, j \in DOMAIN s : i < j =>
        \E k, l \in DOMAIN BackendList : k < l /\ s[i] = BackendList[k] /\ s[j] = BackendList[l]

Shuffles(S) == {s \in Orders(S) : Consensus \/ WeightedRouting \/ AsConfigured(s)}

MutantTiers(healthy, degraded) ==
    IF Consensus
    THEN [first |-> group \intersect healthy \intersect degraded,
          last  |-> (group \intersect healthy) \ degraded]
    ELSE [first |-> AllBackends, last |-> {}]

\* Healthy backends first; the unhealthy ones after them, or not at all in a
\* consensus group, where the degraded ones come after the others.
Tiers(healthy, degraded) ==
    IF Consensus
    THEN [first |-> (group \intersect healthy) \ degraded,
          last  |-> group \intersect healthy \intersect degraded]
    ELSE [first |-> healthy, last |-> AllBackends \ healthy]

OrderBackends ==
    /\ pc = "order"
    /\ \E healthy, degraded \in SUBSET AllBackends :
          LET tiers == Tiers(healthy, degraded) IN
          /\ \E s \in Shuffles(tiers.first), t \in Shuffles(tiers.last) : order' = s \o t
          /\ preferred' = IF Consensus THEN group \intersect (healthy \ degraded) ELSE healthy
    /\ pc' = IF Consensus THEN "rewrite" ELSE "forward"
    /\ UNCHANGED <<round, isBatch, asked, reqs, overridden, next, tries, res, err>>

-----------------------------------------------------------------------------
(* The rewriting of the requests with the tracker's numbers *)

\* What RewriteTags makes of a request that it does not answer: the tag in it
\* becomes a number.
Rewrite(r) == [r EXCEPT !.at = tip]

Ascending(P) == CHOOSE s \in Orders(P) : \A i, j \in DOMAIN s : i < j => s[i] < s[j]

\* The positions of the requests that are forwarded, and of those proxyd answers.
Kept == Ascending({i \in DOMAIN asked : asked[i].method \notin Answered})
Own  == Ascending({i \in DOMAIN asked : asked[i].method \in Answered})

OverwriteConsensusResponses ==
    /\ pc = "rewrite"
    /\ overridden' = [k \in DOMAIN Own |->
                         [index |-> Own[k],
                          res |-> [id |-> asked[Own[k]].id, by |-> Proxyd,
                                   method |-> asked[Own[k]].method, enriched |-> FALSE]]]
    /\ reqs' = [k \in DOMAIN Kept |-> Rewrite(asked[Kept[k]])]
    /\ pc' = "forward"
    /\ UNCHANGED <<round, isBatch, asked, order, preferred, next, tries, res, err>>

-----------------------------------------------------------------------------
(* One attempt on one backend *)

At(b) == pc = "forward" /\ reqs # <<>> /\ next <= Len(order) /\ order[next] = b

HasReceipts == \E i \in DOMAIN reqs : reqs[i].method = "receipts"

\* doForward puts the method of the backend into the request itself.
Translate(b) ==
    [i \in DOMAIN reqs |->
        IF reqs[i].method = "receipts" THEN [reqs[i] EXCEPT !.method = ReceiptsTarget[b]]
        ELSE reqs[i]]

Reaches(b) == /\ At(b)
              /\ isBatch => ~HasReceipts
              /\ reqs' = Translate(b)
              /\ tries' = [tries EXCEPT ![b] = @ + 1]

CanSend(b) == HasReceipts => ReceiptsTarget[b] \in Targets

\* Every answer carries the id of its request; the answers to a batch come in
\* any order.
Answers(b) ==
    {[i \in DOMAIN reqs |-> [id |-> reqs[p[i]].id, by |-> b, method |-> Translate(b)[p[i]].method,
                             enriched |-> reqs[p[i]].method = "receipts"]] :
        p \in Orders(DOMAIN reqs)}

MutantUnsorted(rs) == rs

SortBatchRPCResponse(rs) ==
    LET pos(r) == CHOOSE i \in DOMAIN reqs : reqs[i].id = r.id
        permuted == {[i \in DOMAIN rs |-> rs[p[i]]] : p \in Orders(DOMAIN rs)}
    IN  CHOOSE s \in permuted : \A i, j \in DOMAIN s : i < j => pos(s[i]) <= pos(s[j])

DoForward(b) ==
    /\ Reaches(b) /\ CanSend(b)
    /\ \E rs \in Answers(b) : res' = SortBatchRPCResponse(rs)
    /\ pc' = "override"
    /\ UNCHANGED <<round, isBatch, asked, overridden, order, preferred, next, err>>

\* Backend.Forward goes on for "i := 0; i <= b.maxRetries", and then the group
\* goes on with the next backend.
MutantOneTryLess(b) == tries[b] + 1 >= MaxRetries

IsLastTry(b) == tries[b] >= MaxRetries

MutantStartsOver(b) ==
    /\ At(b) /\ (isBatch => ~HasReceipts)
    /\ reqs' = Translate(b)
    /\ tries' = [tries EXCEPT ![b] = IF IsLastTry(b) THEN 0 ELSE @ + 1]
    /\ UNCHANGED <<round, pc, isBatch, asked, overridden, order, preferred, next, res, err>>

\* A network error, a status code, a body that does not parse, or receipts
\* parameters that do not: the attempt is repeated.
FailedAttempt(b) ==
    /\ Reaches(b)
    /\ next' = IF IsLastTry(b) THEN next + 1 ELSE next
    /\ UNCHANGED <<round, pc, isBatch, asked, overridden, order, preferred, res, err>>

\* ErrBackendUnexpectedJSONRPC: not repeated, the next backend is tried.
UnexpectedJSONRPC(b) ==
    /\ Reaches(b) /\ CanSend(b) /\ Len(reqs) > 1
    /\ next' = next + 1
    /\ UNCHANGED <<round, pc, isBatch, asked, overridden, order, preferred, res, err>>

Abort(e) ==
    /\ err' = e /\ pc' = "done"
    /\ UNCHANGED <<round, isBatch, asked, overridden, order, preferred, next, res>>

ResponseTooLarge(b) == Reaches(b) /\ CanSend(b) /\ Abort("ErrBackendResponseTooLarge")

InvalidTarget(b) == Reaches(b) /\ ~CanSend(b) /\ Abort("ErrConsensusGetReceiptsInvalidTarget")

CantBeBatched(b) ==
    /\ At(b) /\ isBatch /\ HasReceipts
    /\ tries' = [tries EXCEPT ![b] = @ + 1]
    /\ Abort("ErrConsensusGetReceiptsCantBeBatched")
    /\ UNCHANGED reqs

-----------------------------------------------------------------------------
(* The end of the request *)

NoBackends ==
    /\ pc = "forward" /\ next > Len(order)
    /\ Abort("ErrNoBackends")
    /\ UNCHANGED <<reqs, tries>>

NothingToForward ==
    /\ pc = "forward" /\ reqs = <<>> /\ next <= Len(order)
    /\ pc' = "override"
    /\ UNCHANGED <<round, isBatch, asked, reqs, overridden, order, preferred, next, tries, res, err>>

Insert(rs, ov) ==
    IF rs = <<>> THEN <<ov.res>>
    ELSE SubSeq(rs, 1, ov.index - 1) \o <<ov.res>> \o SubSeq(rs, ov.index, Len(rs))

\* One after the other, each at its index.
InsertAll(rs, ovs) ==
    LET done[k \in 0..Len(ovs)] == IF k = 0 THEN rs ELSE Insert(done[k - 1], ovs[k])
    IN  done[Len(ovs)]

OverrideResponses ==
    /\ pc = "override"
    /\ res' = InsertAll(res, overridden)
    /\ pc' = "done"
    /\ UNCHANGED <<round, isBatch, asked, reqs, overridden, order, preferred, next, tries, err>>

Attempt(b) ==
    \/ DoForward(b)
    \/ FailedAttempt(b)
    \/ UnexpectedJSONRPC(b)
    \/ ResponseTooLarge(b)
    \/ InvalidTarget(b)
    \/ CantBeBatched(b)

Handle ==
    /\ \/ OrderBackends
       \/ OverwriteConsensusResponses
       \/ \E b \in AllBackends : Attempt(b)
       \/ NoBackends
       \/ NothingToForward
       \/ OverrideResponses
    /\ UNCHANGED strategy

Publish == (SetLatest \/ SetGroup) /\ UNCHANGED strategy

Next == Handle \/ Publish

Spec == Init /\ [][Next]_vars

-----------------------------------------------------------------------------
(* Properties *)

Results == [id : 1..MaxBatch, by : AllBackends \union {Proxyd},
            method : Methods \union {ReceiptsTarget[b] : b \in AllBackends}, enriched : BOOLEAN]

\* The values the variables take.
TypeOK ==
    /\ strategy \in Strategies
    /\ tip \in Nat /\ group \in SUBSET AllBackends
    /\ pending \in SUBSET AllBackends \union {NoGroup}
    /\ pc \in {"order", "rewrite", "forward", "override", "done"}
    /\ isBatch \in BOOLEAN
    /\ Len(asked) \in 1..MaxBatch /\ Len(reqs) <= Len(asked)
    /\ Range(order) \subseteq AllBackends /\ preferred \subseteq AllBackends
    /\ next \in 1..(Len(order) + 1)
    /\ tries \in [AllBackends -> 0..(MaxRetries + 1)]
    /\ Range(res) \subseteq Results
    /\ err \in {"none", "multicall", "ErrNoBackends", "ErrBackendResponseTooLarge",
                "ErrConsensusGetReceiptsInvalidTarget", "ErrConsensusGetReceiptsCantBeBatched"}

\* A request that is served gets one response per request of the batch, in the
\* order of the batch and under the ids of the batch, whatever order a backend
\* answers in and whichever of the requests proxyd answers itself
\* (sortBatchRPCResponse, OverwriteConsensusResponses, OverrideResponses).
AnswersMatchRequests ==
    pc = "done" /\ err = "none" =>
        /\ Len(res) = Len(asked)
        /\ \A i \in DOMAIN asked :
              /\ res[i].id = asked[i].id
              /\ (res[i].by = Proxyd) = (Consensus /\ asked[i].method \in Answered)

\* An unhealthy backend, or a degraded one of a consensus group, is called only
\* after every backend that was found in a better state has been called and has
\* failed (orderedBackendsForRequest, loadBalancedConsensusGroup).
LastResort ==
    \A b \in AllBackends \ preferred :
        tries[b] > 0 => \A c \in preferred : tries[c] > 0

\* ErrNoBackends is returned only when every backend of the order has failed:
\* either all its attempts did, or the answer to a batch was not a batch
\* (ForwardRequestToBackendGroup).
GivesUpWhenAllFailed ==
    pc = "done" /\ err = "ErrNoBackends" =>
        \A b \in Range(order) : tries[b] = MaxRetries + 1 \/ (Len(reqs) > 1 /\ tries[b] > 0)

\* "Maximum number of times proxyd will try a backend before giving up" is
\* max_retries (example.config.toml).
TriesAtMostMaxRetries == \A b \in AllBackends : tries[b] <= MaxRetries

\* "enrich the response with the actual request method" (doForward): the answer
\* to consensus_getReceipts names the method of the backend that gave it.
ReceiptsAreEnriched ==
    pc = "done" /\ err = "none" =>
        \A i \in DOMAIN asked :
            asked[i].method = "receipts" =>
                res[i].enriched /\ res[i].method = ReceiptsTarget[res[i].by]

\* "serving traffic from any backend that agrees in the consensus group. We also
\* rewrite block tags to enforce compliance with consensus" (Forward): a request
\* rewritten to the consensus block is served by a backend that holds it.
ServedWhereAgreed ==
    pc = "done" /\ err = "none" =>
        \A i \in DOMAIN reqs :
            \A j \in DOMAIN res : res[j].id = reqs[i].id => reqs[i].at <= Height[res[j].by]
=============================================================================
