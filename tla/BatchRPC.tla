------------------------------ MODULE BatchRPC ------------------------------
(***************************************************************************)
(* HandleRPC and handleBatchRPC (server.go) with the cache of module       *)
(* RPCCache: a client's batch is taken apart into batches per backend      *)
(* group, with no id twice in one, looked up in the cache, forwarded in    *)
(* minibatches, and put together again by position.                        *)
(*                                                                         *)
(* The handler serves one call after another, so that a later one meets    *)
(* what an earlier one left in the cache.  BackendGroup.Forward is what    *)
(* module BackendGroup shows of it: responses in the order of the requests,*)
(* or an error, and receipts requests translated in place.                 *)
(***************************************************************************)
EXTENDS RPCCache, Sequences, FiniteSets

CONSTANTS
    Kinds,           \* the kinds of request that clients send
    Ids,             \* the ids they give them
    MaxLen,          \* bound: requests in one call
    MaxCalls,        \* bound: calls served
    MaxBatchSize, MaxUpstreamBatchSize,
    GroupOf,         \* rpcMethodMappings: the backend group of each kind
    NoId             \* the id of the answer to a request that does not parse

\* Requests by what becomes of them.  invalid: does not parse or validate.
\* local: eth_accounts, or an eth_call with an override.  unlisted: no backend
\* group.  static: eth_chainId and the other methods cached without a filter.
\* raw by hash, raw by number: debug_getRawReceipts.  receipts by hash, by
\* number: consensus_getReceipts.  plain: any other method.
AllKinds == {"invalid", "local", "unlisted", "healthz", "static", "plain", "raw by hash",
             "raw by number", "receipts by hash", "receipts by number"}
Receipts == {"receipts by hash", "receipts by number"}
Routed == {"static", "plain", "raw by hash", "raw by number"} \union Receipts

\* Results: a value, null, no receipts, or receipts with the method that
\* fetched them around them ({method, result}).
Values == {"value", "null", "empty", "wrapped", "error"}
NoResponse == [id |-> NoId, val |-> None]

ASSUME SettingsAssumption ==
    /\ Kinds \subseteq AllKinds
    /\ MaxBatchSize \in Nat /\ MaxUpstreamBatchSize \in Nat \ {0}
    /\ MaxLen \in Nat /\ MaxCalls \in Nat

VARIABLES
    calls,      \* calls served so far
    pc,         \* "idle", "parse", "groups", "forward" or "replied"
    isBatch,
    reqs,       \* the requests, each with its kind as it is now
    responses,  \* one per request, NoResponse where there is none yet
    batches,    \* the batches not handled yet: the positions of each group
    misses,     \* cacheMisses of the batch being handled
    sent,       \* the minibatch that was forwarded last
    reply       \* what the client got

vars == <<calls, pc, isBatch, reqs, responses, batches, misses, sent, reply, cache>>

NoBatches == [g \in {} |-> {}]

Init ==
    /\ calls = 0 /\ pc = "idle" /\ isBatch = FALSE
    /\ reqs = <<>> /\ responses = <<>>
    /\ batches = NoBatches /\ misses = {} /\ sent = {}
    /\ reply = None
    /\ CacheInit

Response(i, v) == [id |-> reqs[i].id, val |-> v]

Reply(r) == reply' = r /\ pc' = "replied"

-----------------------------------------------------------------------------
(* HandleRPC *)

\* A call arrives: a single request, or a batch of any length.
Receive ==
    /\ pc = "idle" /\ calls < MaxCalls
    /\ calls' = calls + 1
    /\ \E n \in 0..MaxLen, b \in BOOLEAN :
          /\ ~b => n = 1
          /\ \E rs \in [1..n -> [id : Ids, kind : Kinds]] : reqs' = rs
          /\ isBatch' = b
          /\ responses' = [i \in 1..n |-> NoResponse]
    /\ pc' = "parse"
    /\ UNCHANGED <<batches, misses, sent, reply, cache>>

IsRefused == isBatch /\ (Len(reqs) > MaxBatchSize \/ Len(reqs) = 0)

Refuse ==
    /\ pc = "parse" /\ IsRefused
    /\ Reply("refused")
    /\ UNCHANGED <<calls, isBatch, reqs, responses, batches, misses, sent, cache>>

-----------------------------------------------------------------------------
(* The first loop of handleBatchRPC *)

Healthz ==
    /\ pc = "parse" /\ ~IsRefused
    /\ Len(reqs) = 1 /\ reqs[1].kind = "healthz"
    /\ responses' = <<Response(1, "value")>>
    /\ Reply("responses")
    /\ UNCHANGED <<calls, isBatch, reqs, batches, misses, sent, cache>>

\* Answered without a backend: with an error (and no id if the request is not
\* valid), or by proxyd.
Early(i) ==
    CASE reqs[i].kind = "invalid" -> [id |-> NoId, val |-> "error"]
      [] reqs[i].kind = "local"   -> Response(i, "value")
      [] OTHER                    -> Response(i, "error")

\* The group of request i: its backend group, and how many of the requests up
\* to it have its id (batchGroupID).
MutantBatchGroup(i, kept) == <<GroupOf[reqs[i].kind], 1>>

BatchGroup(i, kept) ==
    <<GroupOf[reqs[i].kind], Cardinality({j \in kept : j <= i /\ reqs[j].id = reqs[i].id})>>

\* Any of the requests with a backend group may be over a rate limit.
Parse ==
    /\ pc = "parse" /\ ~IsRefused
    /\ ~(Len(reqs) = 1 /\ reqs[1].kind = "healthz")
    /\ \E kept \in SUBSET {i \in DOMAIN reqs : reqs[i].kind \in Routed} :
          /\ responses' = [i \in DOMAIN reqs |-> IF i \in kept THEN NoResponse ELSE Early(i)]
          /\ batches' = [g \in {BatchGroup(i, kept) : i \in kept} |->
                            {i \in kept : BatchGroup(i, kept) = g}]
    /\ pc' = "groups"
    /\ UNCHANGED <<calls, isBatch, reqs, misses, sent, reply, cache>>

-----------------------------------------------------------------------------
(* The second loop: one batch after another, in any order *)

\* Each position is looked up.
Lookup ==
    /\ pc = "groups"
    /\ \E g \in DOMAIN batches, from \in [DOMAIN reqs -> GetFrom] :
          LET found(i) == GetRPC(reqs[i].kind, from[i]) IN
          /\ misses' = {i \in batches[g] : found(i) = None}
          /\ responses' = [i \in DOMAIN reqs |->
                              IF i \in batches[g] /\ found(i) # None
                              THEN Response(i, found(i)) ELSE responses[i]]
          /\ batches' = [h \in DOMAIN batches \ {g} |-> batches[h]]
    /\ pc' = "forward"
    /\ UNCHANGED <<calls, isBatch, reqs, sent, reply, cache>>

\* A batch, and what is left of it, is in the order of the requests: a position
\* comes after the smaller ones.
Place(i) == Cardinality({j \in misses : j <= i})

Minibatch == {i \in misses : Place(i) <= MaxUpstreamBatchSize}

MutantRest == {i \in misses : Place(i) > MaxUpstreamBatchSize + 1}

Rest == misses \ Minibatch

\* What a backend may answer.  The answer to receipts is wrapped, except after a
\* retry, when the request is no longer known as one; an error stays an error.
AnswersTo(kind) ==
    CASE kind \in Receipts -> {"wrapped", "value", "empty", "null", "error"}
      [] kind \in {"raw by hash", "raw by number"} -> {"value", "empty", "null", "error"}
      [] OTHER -> {"value", "null", "error"}

\* Forward has put the backend's method into a receipts request: it is a
\* debug_getRawReceipts now, or, with another receipts target, some other method.
Translated(kind) ==
    CASE kind = "receipts by hash"   -> {"raw by hash", "plain"}
      [] kind = "receipts by number" -> {"raw by number", "plain"}
      [] OTHER -> {kind}

\* The results vs by position.
Apply(vs) ==
    responses' = [i \in DOMAIN reqs |-> IF i \in DOMAIN vs THEN Response(i, vs[i]) ELSE responses[i]]

\* Request i gets the answer v of a backend, which takes no receipts request of a
\* batch.
AnsweredByBackend(i, v, kind) ==
    /\ ~(isBatch /\ reqs[i].kind \in Receipts)
    /\ v \in AnswersTo(reqs[i].kind)
    /\ kind \in Translated(reqs[i].kind)

\* The group is consensus aware and answers request i itself, with an error: no
\* backend sees the request.  (Its answer to eth_blockNumber is one of a backend.)
AnsweredByGroup(i, v, kind) == v = "error" /\ kind = reqs[i].kind

Forward ==
    /\ pc = "forward" /\ misses # {}
    /\ \E vs \in [Minibatch -> Values], kinds \in [Minibatch -> AllKinds] :
          /\ \A i \in Minibatch : \/ AnsweredByBackend(i, vs[i], kinds[i])
                                  \/ AnsweredByGroup(i, vs[i], kinds[i])
          /\ reqs' = [i \in DOMAIN reqs |->
                         IF i \in Minibatch THEN [id |-> reqs[i].id, kind |-> kinds[i]] ELSE reqs[i]]
          /\ Apply(vs)
          /\ \E to \in [Minibatch -> PutTo] : cache' = PutAll(kinds, vs, to)
    /\ sent' = Minibatch /\ misses' = Rest
    /\ UNCHANGED <<calls, pc, isBatch, batches, reply>>

\* Any other error of the backend group becomes the answer to each request.  That
\* there is no backend to ask (ErrNoBackends) is met by receipts of a batch too.
ForwardFails ==
    /\ pc = "forward" /\ misses # {}
    /\ Apply([i \in Minibatch |-> "error"])
    /\ sent' = Minibatch /\ misses' = Rest
    /\ UNCHANGED <<calls, pc, isBatch, reqs, batches, reply, cache>>

\* Receipts in a batch, or with a target that is not supported.
ReceiptsFail ==
    /\ pc = "forward" /\ misses # {}
    /\ \E i \in Minibatch : reqs[i].kind \in Receipts
    /\ sent' = Minibatch
    /\ Reply("invalid request")
    /\ UNCHANGED <<calls, isBatch, reqs, responses, batches, misses, cache>>

\* The deadline of the call has passed before the next minibatch; only a batch is
\* told so.
DeadlineExceeded ==
    /\ pc = "forward" /\ misses # {}
    /\ Reply(IF isBatch THEN "timeout" ELSE "internal error")
    /\ UNCHANGED <<calls, isBatch, reqs, responses, batches, misses, sent, cache>>

NextBatch ==
    /\ pc = "forward" /\ misses = {}
    /\ pc' = "groups"
    /\ UNCHANGED <<calls, isBatch, reqs, responses, batches, misses, sent, reply, cache>>

Respond ==
    /\ pc = "groups" /\ DOMAIN batches = {}
    /\ Reply("responses")
    /\ UNCHANGED <<calls, isBatch, reqs, responses, batches, misses, sent, cache>>

\* HandleRPC returns: only the cache is left of the call.
Return ==
    /\ pc = "replied"
    /\ pc' = "idle" /\ isBatch' = FALSE
    /\ reqs' = <<>> /\ responses' = <<>>
    /\ batches' = NoBatches /\ misses' = {} /\ sent' = {}
    /\ reply' = None
    /\ UNCHANGED <<calls, cache>>

\* The stores live on while the handler works.
Background ==
    /\ Replicate \/ Expire
    /\ UNCHANGED <<calls, pc, isBatch, reqs, responses, batches, misses, sent, reply>>

Next ==
    \/ Receive \/ Refuse \/ Healthz \/ Parse
    \/ Lookup \/ Forward \/ ForwardFails \/ ReceiptsFail \/ DeadlineExceeded
    \/ NextBatch \/ Respond \/ Return
    \/ Background

Spec == Init /\ [][Next]_vars

-----------------------------------------------------------------------------
(* Properties *)

\* The values the variables take.
TypeOK ==
    /\ calls \in 0..MaxCalls
    /\ pc \in {"idle", "parse", "groups", "forward", "replied"}
    /\ isBatch \in BOOLEAN
    /\ reqs \in Seq([id : Ids, kind : AllKinds])
    /\ DOMAIN responses = DOMAIN reqs
    /\ \A i \in DOMAIN responses :
          responses[i] \in [id : Ids \union {NoId}, val : Values \union {None}]
    /\ \A g \in DOMAIN batches : batches[g] \subseteq DOMAIN reqs
    /\ misses \union sent \subseteq DOMAIN reqs
    /\ reply \in {None, "refused", "responses", "invalid request", "timeout", "internal error"}
    /\ \A s \in Stores, k \in Keys : cache[s][k] \in Values \union {None}

\* A call that is answered gets one response per request, at the position of
\* the request and with its id, out of whatever mix of local answers, errors,
\* cache hits, batch groups and minibatches (the indexes of handleBatchRPC; a
\* request missed would be a nil in the client's array).
EveryRequestIsAnswered ==
    reply = "responses" =>
        \A i \in DOMAIN reqs :
            /\ responses[i] # NoResponse
            /\ responses[i].id = IF reqs[i].kind = "invalid" THEN NoId ELSE reqs[i].id

\* What is forwarded at once is no larger than the limit and has no id twice,
\* which sortBatchRPCResponse would panic on.
UpstreamBatchesAreValid ==
    /\ Cardinality(sent) <= MaxUpstreamBatchSize
    /\ \A i, j \in sent : reqs[i].id = reqs[j].id => i = j

\* The cache holds under the key of debug_getRawReceipts what that method
\* returns, and never the wrapped answer to a consensus_getReceipts, although
\* the request that is put there after forwarding is the translated one, which
\* has the same key (handleBatchRPC puts elems[i].Req, filterPut); and it holds
\* no error and no null, which would be served until they expire.
CacheHoldsRawReceipts ==
    \A s \in Stores, k \in Keys : cache[s][k] \in {None, "value"}
=============================================================================
