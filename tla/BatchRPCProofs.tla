--------------------------- MODULE BatchRPCProofs ----------------------------
(***************************************************************************)
(* Proofs that handleBatchRPC answers every request at its place, forwards *)
(* valid batches only and caches nothing but raw receipts, for batches of  *)
(* any length, any ids and limits (module BatchRPC).                       *)
(***************************************************************************)
EXTENDS BatchRPC, FiniteSetTheorems, TLAPS

Request == [id : Ids, kind : AllKinds]

\* Position i has the answer that the client is to get.
Answered(i) ==
    /\ responses[i].val # None
    /\ responses[i].id = IF reqs[i].kind = "invalid" THEN NoId ELSE reqs[i].id

Distinct(ps) == \A i, j \in ps : reqs[i].id = reqs[j].id => i = j

Types ==
    /\ reqs \in Seq(Request)
    /\ DOMAIN responses = DOMAIN reqs
    /\ misses \subseteq DOMAIN reqs /\ sent \subseteq DOMAIN reqs
    /\ \A g \in DOMAIN batches : batches[g] \subseteq DOMAIN reqs

\* What a call leaves behind is gone before the next one is parsed.
Fresh ==
    /\ pc \in {"idle", "parse"} => DOMAIN batches = {} /\ sent = {}
    /\ pc \notin {"forward", "replied"} => misses = {}
    /\ pc # "replied" => reply = None

\* A position has its answer, or it still is in the batch being handled or in one
\* to come, and there it can be forwarded.
Covered ==
    /\ pc \in {"groups", "forward"} =>
          \A i \in DOMAIN reqs :
              Answered(i) \/ i \in misses \/ \E g \in DOMAIN batches : i \in batches[g]
    /\ pc \in {"groups", "forward"} =>
          \A i \in DOMAIN reqs :
              i \in misses \/ (\E g \in DOMAIN batches : i \in batches[g]) => reqs[i].kind # "invalid"
    /\ reply = "responses" => \A i \in DOMAIN reqs : Answered(i)

\* No batch has an id twice.
NoIdTwice ==
    /\ Distinct(misses) /\ Distinct(sent)
    /\ \A g \in DOMAIN batches : Distinct(batches[g])
    /\ Cardinality(sent) <= MaxUpstreamBatchSize

IInv == Types /\ Fresh /\ Covered /\ NoIdTwice

-----------------------------------------------------------------------------
(* Positions *)

\* Of finitely many positions one is the last.
LEMMA LastPosition ==
    ASSUME NEW n \in Nat, NEW S \in SUBSET (1..n), S # {}
    PROVE  \E i \in S : \A j \in S : j <= i
<1> DEFINE Up(i) == i..n
           T == {Up(i) : i \in S}
<1>1. \A i \in S : Up(i) \in SUBSET Nat /\ IsFiniteSet(Up(i))
  BY FS_Interval
<1>2. T \subseteq FiniteSubsetsOf(Nat) /\ T # {}
  BY <1>1, Zenon DEF FiniteSubsetsOf
<1>3. PICK x \in T : \A y \in T : ~(<<y, x>> \in StrictSubsetOrdering(Nat))
  BY <1>2, FS_StrictSubsetOrderingWellFounded, WFMin, Zenon
<1>4. PICK i \in S : x = Up(i)
  BY <1>3, Zenon
<1>5. ASSUME NEW j \in S, j > i
      PROVE  FALSE
  <2>1. Up(j) \subseteq Up(i) /\ i \in Up(i) /\ i \notin Up(j)
    BY <1>5
  <2>2. <<Up(j), Up(i)>> \in StrictSubsetOrdering(Nat)
    BY <1>1, <2>1, Zenon DEF StrictSubsetOrdering
  <2> QED
    BY <1>3, <1>4, <2>2, Zenon
<1> QED
  BY <1>5

\* The positions up to a place are no more than the place.
LEMMA MinibatchSize ==
    ASSUME Types
    PROVE  Cardinality(Minibatch) <= MaxUpstreamBatchSize
<1>0. Len(reqs) \in Nat /\ DOMAIN reqs = 1..Len(reqs) /\ IsFiniteSet(1..Len(reqs))
  <2>1. Len(reqs) \in Nat /\ DOMAIN reqs = 1..Len(reqs)
    BY DEF Types
  <2> QED
    BY <2>1, FS_Interval
<1>1. misses \in SUBSET (1..Len(reqs)) /\ Minibatch \in SUBSET misses
  BY <1>0, Zenon DEF Types, Minibatch
<1>2. IsFiniteSet(misses)
  BY <1>0, <1>1, FS_Subset, Zenon
<1>3. CASE Minibatch = {}
  BY <1>3, FS_EmptySet, SettingsAssumption
<1>4. CASE Minibatch # {}
  <2>1. PICK i \in Minibatch : \A j \in Minibatch : j <= i
    BY <1>0, <1>1, <1>4, LastPosition, Zenon
  <2> DEFINE P == {j \in misses : j <= i}
  <2>2. P \in SUBSET misses /\ Minibatch \in SUBSET P
    BY <1>1, <2>1, Zenon
  <2>3. IsFiniteSet(P) /\ Cardinality(Minibatch) <= Cardinality(P)
    BY <1>2, <2>2, FS_Subset, Zenon
  <2>4. Cardinality(P) <= MaxUpstreamBatchSize
    BY <2>1, Zenon DEF Minibatch, Place
  <2>5. Cardinality(P) \in Nat /\ Cardinality(Minibatch) \in Nat
    BY <1>1, <1>2, <2>3, FS_Subset, FS_CardinalityType, Zenon
  <2> QED
    BY <2>3, <2>4, <2>5, SettingsAssumption
<1> QED
  BY <1>3, <1>4, Zenon

\* Of two requests with one id the later one is counted higher, so that no batch
\* group has both (ids, batchGroupID).
LEMMA GroupsAreDistinct ==
    ASSUME Types, NEW kept \in SUBSET DOMAIN reqs, NEW i \in kept, NEW j \in kept,
           reqs[i].id = reqs[j].id, BatchGroup(i, kept) = BatchGroup(j, kept)
    PROVE  i = j
<1> DEFINE Upto(k) == {m \in kept : m <= k /\ reqs[m].id = reqs[k].id}
<1>0. Len(reqs) \in Nat /\ DOMAIN reqs = 1..Len(reqs) /\ IsFiniteSet(1..Len(reqs))
  <2>1. Len(reqs) \in Nat /\ DOMAIN reqs = 1..Len(reqs)
    BY DEF Types
  <2> QED
    BY <2>1, FS_Interval
<1>1. IsFiniteSet(kept) /\ kept \subseteq Int
  BY <1>0, FS_Subset
<1>2. IsFiniteSet(Upto(i)) /\ IsFiniteSet(Upto(j)) /\ Cardinality(Upto(i)) = Cardinality(Upto(j))
  <2>1. Cardinality(Upto(i)) = Cardinality(Upto(j))
    BY Zenon DEF BatchGroup
  <2> QED
    BY <1>1, <2>1, FS_Subset, Zenon
<1>3. ASSUME i < j PROVE FALSE
  <2>1. Upto(i) \in SUBSET Upto(j) /\ j \in Upto(j) /\ j \notin Upto(i)
    BY <1>1, <1>3
  <2> QED
    BY <1>2, <2>1, FS_Subset, Zenon
<1>4. ASSUME j < i PROVE FALSE
  <2>1. Upto(j) \in SUBSET Upto(i) /\ i \in Upto(i) /\ i \notin Upto(j)
    BY <1>1, <1>4
  <2> QED
    BY <1>2, <2>1, FS_Subset, Zenon
<1> QED
  BY <1>1, <1>3, <1>4
-----------------------------------------------------------------------------
(* The steps of handleBatchRPC *)

\* A call that arrives finds nothing of the call before.
LEMMA ReceiveStep == IInv /\ Receive => IInv'
<1> SUFFICES ASSUME IInv, Receive PROVE IInv'
  BY Zenon
<1>1. PICK n \in 0..MaxLen :
         /\ \E rs \in [1..n -> [id : Ids, kind : Kinds]] : reqs' = rs
         /\ responses' = [i \in 1..n |-> NoResponse]
  BY Zenon DEF Receive
<1>2. n \in Nat
  BY <1>1, SettingsAssumption
<1>3. reqs' \in [1..n -> Request]
  BY <1>1, SettingsAssumption, Zenon DEF Request
<1>4. reqs' \in Seq(Request) /\ DOMAIN responses' = DOMAIN reqs'
  BY <1>1, <1>2, <1>3
<1>5. /\ pc = "idle" /\ pc' = "parse" /\ misses = {} /\ sent = {} /\ DOMAIN batches = {} /\ reply = None
      /\ UNCHANGED <<batches, misses, sent, reply>>
  BY Zenon DEF Receive, IInv, Fresh
<1>6. reply' # "responses"
  BY <1>5, Zenon DEF None
<1>7. Types'
  BY <1>4, <1>5, Zenon DEF Types
<1>8. Fresh' /\ Covered'
  BY <1>5, <1>6, Zenon DEF Fresh, Covered
<1>9. NoIdTwice'
  BY <1>5, FS_EmptySet, SettingsAssumption DEF NoIdTwice, Distinct
<1> QED
  BY <1>7, <1>8, <1>9, Zenon DEF IInv

\* The answer to a health check is the only one.
LEMMA HealthzStep == IInv /\ Healthz => IInv'
<1> SUFFICES ASSUME IInv, Healthz PROVE IInv'
  BY Zenon
<1>1. /\ pc = "parse" /\ Len(reqs) = 1 /\ reqs[1].kind = "healthz"
      /\ responses' = <<[id |-> reqs[1].id, val |-> "value"]>>
      /\ pc' = "replied" /\ UNCHANGED <<reqs, batches, misses, sent>>
  BY Zenon DEF Healthz, Reply, Response
<1>2. DOMAIN reqs = {1}
  BY <1>1 DEF IInv, Types
<1>3. /\ DOMAIN responses' = {1}
      /\ responses'[1].id = reqs[1].id /\ responses'[1].val = "value"
  BY <1>1
<1>4. Types'
  BY <1>1, <1>2, <1>3, Zenon DEF IInv, Types
<1>5. Answered(1)'
  BY <1>1, <1>3, Zenon DEF Answered, None
<1>6. Fresh' /\ Covered'
  BY <1>1, <1>2, <1>5, Zenon DEF Fresh, Covered
<1>7. NoIdTwice'
  BY <1>1 DEF IInv, NoIdTwice, Distinct
<1> QED
  BY <1>4, <1>6, <1>7, Zenon DEF IInv

\* The first loop answers a request or puts it into the batch of its group.
LEMMA ParseStep == IInv /\ Parse => IInv'
<1> SUFFICES ASSUME IInv, Parse PROVE IInv'
  BY Zenon
<1>1. PICK kept \in SUBSET {i \in DOMAIN reqs : reqs[i].kind \in Routed} :
         /\ responses' = [i \in DOMAIN reqs |-> IF i \in kept THEN NoResponse ELSE Early(i)]
         /\ batches' = [g \in {BatchGroup(i, kept) : i \in kept} |->
                           {i \in kept : BatchGroup(i, kept) = g}]
  BY Zenon DEF Parse
<1>2. /\ pc = "parse" /\ pc' = "groups" /\ misses = {} /\ sent = {} /\ reply = None
      /\ UNCHANGED <<reqs, misses, sent, reply>>
  BY Zenon DEF Parse, IInv, Fresh
<1>3. kept \in SUBSET DOMAIN reqs /\ \A i \in kept : reqs[i].kind # "invalid"
  BY <1>1, Zenon DEF Routed, Receipts
<1>4. ASSUME NEW g \in DOMAIN batches'
      PROVE  batches'[g] \subseteq kept /\ Distinct(batches'[g])
  BY <1>1, <1>3, <1>4, GroupsAreDistinct DEF IInv, Distinct
<1>5. ASSUME NEW i \in DOMAIN reqs, i \notin kept
      PROVE  Answered(i)'
  <2>1. responses'[i] = Early(i)
    BY <1>1, <1>5, Zenon
  <2>2. Early(i).val # None /\ Early(i).id = IF reqs[i].kind = "invalid" THEN NoId ELSE reqs[i].id
    BY Zenon DEF Early, Response, None
  <2> QED
    BY <1>2, <2>1, <2>2, Zenon DEF Answered
<1>6. ASSUME NEW i \in kept
      PROVE  \E g \in DOMAIN batches' : i \in batches'[g]
  <2>1. BatchGroup(i, kept) \in DOMAIN batches' /\ i \in batches'[BatchGroup(i, kept)]
    BY <1>1, Zenon
  <2> QED
    BY <2>1, Zenon
<1>7. Types'
  BY <1>1, <1>2, <1>3, <1>4, Zenon DEF IInv, Types
<1>8. Fresh'
  BY <1>2, Zenon DEF Fresh
<1>9. Covered'
  BY <1>2, <1>3, <1>4, <1>5, <1>6, Zenon DEF Covered, None
<1>10. NoIdTwice'
  BY <1>2, <1>4, Zenon DEF IInv, NoIdTwice, Distinct
<1> QED
  BY <1>7, <1>8, <1>9, <1>10, Zenon DEF IInv

\* A position of the batch is found in the cache or becomes a miss.
LEMMA LookupStep == IInv /\ Lookup => IInv'
<1> SUFFICES ASSUME IInv, Lookup PROVE IInv'
  BY Zenon
<1>0. PICK g \in DOMAIN batches, from \in [DOMAIN reqs -> GetFrom] :
         /\ misses' = {i \in batches[g] : GetRPC(reqs[i].kind, from[i]) = None}
         /\ responses' = [i \in DOMAIN reqs |->
                             IF i \in batches[g] /\ GetRPC(reqs[i].kind, from[i]) # None
                             THEN Response(i, GetRPC(reqs[i].kind, from[i])) ELSE responses[i]]
         /\ batches' = [h \in DOMAIN batches \ {g} |-> batches[h]]
  BY Zenon DEF Lookup
<1> DEFINE found(i) == GetRPC(reqs[i].kind, from[i])
<1>1. /\ pc = "groups" /\ pc' = "forward" /\ misses = {} /\ reply = None
      /\ UNCHANGED <<reqs, sent, reply>>
  BY Zenon DEF Lookup, IInv, Fresh
<1>2. /\ misses' \subseteq batches[g]
      /\ \A h \in DOMAIN batches' : h \in DOMAIN batches /\ batches'[h] = batches[h]
      /\ \A h \in DOMAIN batches : h = g \/ (h \in DOMAIN batches' /\ batches'[h] = batches[h])
  BY <1>0, Zenon
<1>3. Types'
  BY <1>0, <1>1, <1>2, Zenon DEF IInv, Types
<1>4. Fresh'
  BY <1>1, Zenon DEF IInv, Fresh
<1>5. ASSUME NEW i \in DOMAIN reqs
      PROVE  Answered(i)' \/ i \in misses' \/ \E h \in DOMAIN batches' : i \in batches'[h]
  <2>1. CASE i \in batches[g] /\ found(i) # None
    <3>1. responses'[i] = [id |-> reqs[i].id, val |-> found(i)]
      BY <1>0, <2>1, Zenon DEF Response
    <3>2. reqs[i].kind # "invalid"
      BY <1>1, <2>1, Zenon DEF IInv, Covered
    <3> QED
      BY <1>1, <2>1, <3>1, <3>2 DEF Answered
  <2>2. CASE i \in batches[g] /\ found(i) = None
    BY <1>0, <2>2, Zenon
  <2>3. CASE i \notin batches[g]
    <3>1. responses'[i] = responses[i]
      BY <1>0, <2>3, Zenon
    <3>2. Answered(i) \/ \E h \in DOMAIN batches : i \in batches[h]
      BY <1>1, Zenon DEF IInv, Covered
    <3> QED
      BY <1>1, <1>2, <2>3, <3>1, <3>2, Zenon DEF Answered
  <2> QED
    BY <2>1, <2>2, <2>3, Zenon
<1>6. Covered'
  BY <1>1, <1>2, <1>5, Zenon DEF IInv, Covered, None
<1>7. NoIdTwice'
  BY <1>1, <1>2, Zenon DEF IInv, NoIdTwice, Distinct
<1> QED
  BY <1>3, <1>4, <1>6, <1>7, Zenon DEF IInv

\* The positions that are forwarded get their answers, and the rest stay misses.
LEMMA ForwardStep ==
    ASSUME IInv, pc = "forward", NEW vs \in [Minibatch -> Values], Apply(vs),
           DOMAIN reqs' = DOMAIN reqs, reqs' \in Seq(Request),
           \A i \in DOMAIN reqs : /\ reqs'[i].id = reqs[i].id
                                  /\ reqs'[i].kind = "invalid" <=> reqs[i].kind = "invalid",
           sent' = Minibatch, misses' = Rest, UNCHANGED <<pc, batches, reply>>
    PROVE  IInv'
<1>1. Minibatch \subseteq misses /\ Rest = misses \ Minibatch /\ reply = None
  BY Zenon DEF Minibatch, Rest, IInv, Fresh
<1>2. responses' = [i \in DOMAIN reqs |->
                       IF i \in Minibatch THEN [id |-> reqs[i].id, val |-> vs[i]] ELSE responses[i]]
  BY Zenon DEF Apply, Response
<1>3. Types'
  BY <1>1, <1>2, Zenon DEF IInv, Types
<1>4. Fresh'
  BY Zenon DEF IInv, Fresh
<1>5. ASSUME NEW i \in DOMAIN reqs
      PROVE  Answered(i)' \/ i \in misses' \/ \E g \in DOMAIN batches' : i \in batches'[g]
  <2>1. CASE i \in Minibatch
    <3>1. responses'[i].id = reqs[i].id /\ responses'[i].val = vs[i]
      BY <1>2, <2>1, Zenon
    <3>2. vs[i] # None
      BY <2>1, Zenon DEF Values, None
    <3>3. reqs[i].kind # "invalid"
      BY <1>1, <2>1, Zenon DEF IInv, Covered
    <3> QED
      BY <3>1, <3>2, <3>3, Zenon DEF Answered
  <2>2. CASE i \notin Minibatch
    <3>1. responses'[i] = responses[i]
      BY <1>2, <2>2, Zenon
    <3>2. Answered(i) \/ i \in misses \/ \E g \in DOMAIN batches : i \in batches[g]
      BY Zenon DEF IInv, Covered
    <3>3. Answered(i) => Answered(i)'
      BY <3>1, Zenon DEF Answered
    <3> QED
      BY <1>1, <2>2, <3>2, <3>3, Zenon
  <2> QED
    BY <2>1, <2>2, Zenon
<1>6. Covered'
  BY <1>1, <1>5, Zenon DEF IInv, Covered, None
<1>7. NoIdTwice'
  <2>1. Distinct(misses') /\ Distinct(sent')
    BY <1>1 DEF IInv, NoIdTwice, Distinct
  <2>2. \A ps \in SUBSET DOMAIN reqs : Distinct(ps) => Distinct(ps)'
    BY Zenon DEF Distinct
  <2>3. (Distinct(misses) /\ Distinct(sent))'
    BY <1>1, <2>1 DEF IInv, NoIdTwice, Distinct, Types
  <2>4. \A g \in DOMAIN batches' : Distinct(batches[g])'
    BY <2>2, Zenon DEF IInv, NoIdTwice, Types
  <2>5. Cardinality(sent') <= MaxUpstreamBatchSize
    BY MinibatchSize, Zenon DEF IInv
  <2> QED
    BY <2>3, <2>4, <2>5, Zenon DEF NoIdTwice
<1> QED
  BY <1>3, <1>4, <1>6, <1>7, Zenon DEF IInv
\* The initial states satisfy the inductive invariant.
LEMMA InitInvariant == Init => IInv
<1> SUFFICES ASSUME Init PROVE IInv
  BY Zenon
<1>1. /\ reqs = <<>> /\ responses = <<>> /\ misses = {} /\ sent = {} /\ DOMAIN batches = {}
      /\ reply = None /\ pc = "idle"
  BY Zenon DEF Init, NoBatches
<1>2. Types
  BY <1>1 DEF Types
<1>3. Fresh /\ Covered
  BY <1>1, Zenon DEF Fresh, Covered, None
<1>4. NoIdTwice
  BY <1>1, FS_EmptySet, SettingsAssumption DEF NoIdTwice, Distinct
<1> QED
  BY <1>2, <1>3, <1>4, Zenon DEF IInv

\* Every step of the handler preserves it.
LEMMA NextInvariant == IInv /\ [Next]_vars => IInv'
<1> SUFFICES ASSUME IInv, [Next]_vars PROVE IInv'
  BY Zenon
<1>1. CASE Receive
  BY <1>1, ReceiveStep, Zenon
<1>2. CASE Healthz
  BY <1>2, HealthzStep, Zenon
<1>3. CASE Parse
  BY <1>3, ParseStep, Zenon
<1>4. CASE Lookup
  BY <1>4, LookupStep, Zenon
<1>5. CASE Forward
  <2>1. PICK vs \in [Minibatch -> Values], kinds \in [Minibatch -> AllKinds] :
           /\ \A i \in Minibatch : kinds[i] \in Translated(reqs[i].kind) \union {reqs[i].kind}
           /\ reqs' = [i \in DOMAIN reqs |->
                          IF i \in Minibatch THEN [id |-> reqs[i].id, kind |-> kinds[i]] ELSE reqs[i]]
           /\ Apply(vs)
    BY <1>5, Zenon DEF Forward, AnsweredByBackend, AnsweredByGroup
  <2>2. /\ pc = "forward" /\ sent' = Minibatch /\ misses' = Rest
        /\ UNCHANGED <<pc, batches, reply>>
    BY <1>5, Zenon DEF Forward
  <2>3. Minibatch \subseteq DOMAIN reqs /\ \A i \in Minibatch : reqs[i].kind # "invalid"
    BY <2>2, Zenon DEF Minibatch, IInv, Types, Covered
  <2>4. \A i \in Minibatch : kinds[i] # "invalid"
    BY <2>1, <2>3, Zenon DEF Translated
  <2>5. reqs \in Seq(Request)
    BY Zenon DEF IInv, Types
  <2>6. /\ DOMAIN reqs' = DOMAIN reqs
        /\ \A i \in DOMAIN reqs : /\ reqs'[i] \in Request /\ reqs'[i].id = reqs[i].id
                                  /\ reqs'[i].kind = "invalid" <=> reqs[i].kind = "invalid"
    <3>1. DOMAIN reqs' = DOMAIN reqs /\ \A i \in DOMAIN reqs : reqs[i] \in Request
      BY <2>1, <2>5
    <3>2. ASSUME NEW i \in Minibatch
          PROVE  reqs'[i].id = reqs[i].id /\ reqs'[i].kind = kinds[i] /\ reqs'[i] \in Request
      BY <2>1, <2>3, <3>1, Zenon DEF Request
    <3>3. \A i \in DOMAIN reqs \ Minibatch : reqs'[i] = reqs[i]
      BY <2>1, Zenon
    <3> QED
      BY <2>3, <2>4, <3>1, <3>2, <3>3, Zenon
  <2>7. reqs' \in Seq(Request)
    BY <2>1, <2>5, <2>6
  <2> QED
    BY <2>1, <2>2, <2>6, <2>7, ForwardStep, Zenon
<1>6. CASE ForwardFails
  <2>1. [i \in Minibatch |-> "error"] \in [Minibatch -> Values]
    BY Zenon DEF Values
  <2>2. /\ pc = "forward" /\ Apply([i \in Minibatch |-> "error"])
        /\ sent' = Minibatch /\ misses' = Rest /\ UNCHANGED <<pc, reqs, batches, reply>>
    BY <1>6, Zenon DEF ForwardFails
  <2>3. reqs' \in Seq(Request)
    BY <2>2, Zenon DEF IInv, Types
  <2> QED
    BY <2>1, <2>2, <2>3, ForwardStep, Zenon
<1>7. CASE ReceiptsFail
  <2>1. /\ sent' = Minibatch /\ pc' = "replied" /\ reply' = "invalid request"
        /\ UNCHANGED <<reqs, responses, batches, misses>>
    BY <1>7, Zenon DEF ReceiptsFail, Reply
  <2>2. Minibatch \subseteq misses
    BY Zenon DEF Minibatch
  <2>3. Types' /\ Fresh' /\ Covered'
    BY <2>1, <2>2, Zenon DEF IInv, Types, Fresh, Covered
  <2>4. NoIdTwice'
    BY <2>1, <2>2, MinibatchSize, ZenonT(60) DEF IInv, NoIdTwice, Distinct
  <2> QED
    BY <2>3, <2>4, Zenon DEF IInv
<1>8. CASE Refuse \/ DeadlineExceeded
  <2>1. /\ pc' = "replied" /\ reply' # "responses"
        /\ UNCHANGED <<reqs, responses, batches, misses, sent>>
    BY <1>8, Zenon DEF Refuse, DeadlineExceeded, Reply
  <2> QED
    BY <2>1 DEF IInv, Types, Fresh, Covered, NoIdTwice, Distinct
<1>9. CASE NextBatch
  <2>1. /\ pc = "forward" /\ pc' = "groups" /\ misses = {}
        /\ UNCHANGED <<reqs, responses, batches, misses, sent, reply>>
    BY <1>9, Zenon DEF NextBatch
  <2> QED
    BY <2>1 DEF IInv, Types, Fresh, Covered, Answered, NoIdTwice, Distinct
<1>10. CASE Respond
  <2>1. /\ pc = "groups" /\ pc' = "replied" /\ DOMAIN batches = {} /\ misses = {}
        /\ UNCHANGED <<reqs, responses, batches, misses, sent>>
    BY <1>10, Zenon DEF Respond, Reply, IInv, Fresh
  <2> QED
    BY <2>1, Zenon DEF IInv, Types, Fresh, Covered, Answered, NoIdTwice, Distinct
<1>11. CASE Return
  <2>1. /\ reqs' = <<>> /\ responses' = <<>> /\ misses' = {} /\ sent' = {} /\ DOMAIN batches' = {}
        /\ reply' = None /\ pc' = "idle"
    BY <1>11, Zenon DEF Return, NoBatches
  <2>2. Types'
    BY <2>1 DEF Types
  <2>3. Fresh' /\ Covered'
    BY <2>1, Zenon DEF Fresh, Covered, None
  <2>4. NoIdTwice'
    BY <2>1, FS_EmptySet, SettingsAssumption DEF NoIdTwice, Distinct
  <2> QED
    BY <2>2, <2>3, <2>4, Zenon DEF IInv
<1>12. CASE Background \/ UNCHANGED vars
  <2>1. UNCHANGED <<pc, reqs, responses, batches, misses, sent, reply>>
    BY <1>12, Zenon DEF Background, vars
  <2> QED
    BY <2>1 DEF IInv, Types, Fresh, Covered, Answered, NoIdTwice, Distinct
<1> QED
  BY <1>1, <1>2, <1>3, <1>4, <1>5, <1>6, <1>7, <1>8, <1>9, <1>10, <1>11, <1>12, Zenon DEF Next

-----------------------------------------------------------------------------
(* The cache *)

Clean == cache \in [Stores -> [Keys -> {None, "value"}]]

\* What PutRPC lets in under a key is a value, whichever answer is the last.
LEMMA PutAllClean ==
    ASSUME IInv, Clean, NEW vs \in [Minibatch -> Values], NEW kinds \in [Minibatch -> AllKinds],
           NEW to \in [Minibatch -> PutTo],
           \A i \in Minibatch : \/ AnsweredByBackend(i, vs[i], kinds[i])
                                \/ AnsweredByGroup(i, vs[i], kinds[i])
    PROVE  PutAll(kinds, vs, to) \in [Stores -> [Keys -> {None, "value"}]]
<1> DEFINE new(s, k) == {i \in DOMAIN kinds : s \in to[i] /\ kinds[i] = k /\ FilterPut(k, vs[i])}
           last(s, k) == CHOOSE i \in new(s, k) : \A j \in new(s, k) : j <= i
<1>0. Len(reqs) \in Nat /\ Minibatch \in SUBSET (1..Len(reqs)) /\ DOMAIN kinds = Minibatch
  BY DEF IInv, Types, Minibatch
<1>1. ASSUME NEW i \in Minibatch, kinds[i] \in Keys, FilterPut(kinds[i], vs[i])
      PROVE  vs[i] = "value"
  <2>1. CASE kinds[i] = "raw by hash"
    BY <1>1, <2>1, Zenon DEF FilterPut
  <2>2. CASE kinds[i] = "static"
    <3>1. vs[i] # "error"
      BY <1>1, Zenon DEF FilterPut
    <3>2. AnsweredByBackend(i, vs[i], kinds[i])
      BY <3>1, Zenon DEF AnsweredByGroup
    <3>3. reqs[i].kind = "static"
      BY <2>2, <3>2, Zenon DEF AnsweredByBackend, Translated
    <3> QED
      BY <1>1, <3>2, <3>3, Zenon DEF AnsweredByBackend, AnswersTo, FilterPut, Receipts
  <2> QED
    BY <1>1, <2>1, <2>2, Zenon DEF Keys
<1>2. ASSUME NEW s \in Stores, NEW k \in Keys, new(s, k) # {}
      PROVE  vs[last(s, k)] = "value"
  <2>1. new(s, k) \in SUBSET (1..Len(reqs))
    BY <1>0, Zenon
  <2>2. \E i \in new(s, k) : \A j \in new(s, k) : j <= i
    BY <1>0, <1>2, <2>1, LastPosition, Zenon
  <2>3. last(s, k) \in new(s, k)
    BY <2>2, Zenon
  <2> QED
    BY <1>0, <1>1, <2>3, Zenon
<1>3. PutAll(kinds, vs, to) =
         [s \in Stores |-> [k \in Keys |-> IF new(s, k) = {} THEN cache[s][k] ELSE vs[last(s, k)]]]
  BY Zenon DEF PutAll
<1> HIDE DEF new, last
<1> QED
  BY <1>2, <1>3 DEF Clean

\* Only Forward puts; the stores lose entries, or copy them to the replica.
LEMMA NextClean == IInv /\ Clean /\ [Next]_vars => Clean'
<1> SUFFICES ASSUME IInv, Clean, [Next]_vars PROVE Clean'
  BY Zenon
<1>1. CASE Forward
  <2>1. PICK vs \in [Minibatch -> Values], kinds \in [Minibatch -> AllKinds],
             to \in [Minibatch -> PutTo] :
           /\ \A i \in Minibatch : \/ AnsweredByBackend(i, vs[i], kinds[i])
                                   \/ AnsweredByGroup(i, vs[i], kinds[i])
           /\ cache' = PutAll(kinds, vs, to)
    BY <1>1, Zenon DEF Forward
  <2> QED
    BY <2>1, PutAllClean, Zenon DEF Clean
<1>2. CASE Replicate
  BY <1>2 DEF Replicate, Clean, Stores
<1>3. CASE Expire
  BY <1>3 DEF Expire, Clean, Stores
<1>4. CASE UNCHANGED cache
  BY <1>4, Zenon DEF Clean
<1>5. Forward \/ Replicate \/ Expire \/ UNCHANGED cache
  BY Zenon DEF Next, Receive, Refuse, Healthz, Parse, Lookup, ForwardFails, ReceiptsFail,
         DeadlineExceeded, NextBatch, Respond, Return, Background, vars
<1> QED
  BY <1>1, <1>2, <1>3, <1>4, <1>5, Zenon

-----------------------------------------------------------------------------
(* The theorems *)

\* Whatever the length of the batch, the ids, the groups and the limits, a call that
\* is answered has a response to each request at its position (handleBatchRPC).
THEOREM EveryRequestIsAnsweredAlways == Spec => []EveryRequestIsAnswered
<1>1. IInv => EveryRequestIsAnswered
  <2> SUFFICES ASSUME IInv, reply = "responses", NEW i \in DOMAIN reqs
               PROVE  /\ responses[i] # NoResponse
                      /\ responses[i].id = IF reqs[i].kind = "invalid" THEN NoId ELSE reqs[i].id
    BY Zenon DEF EveryRequestIsAnswered
  <2>1. Answered(i)
    BY Zenon DEF IInv, Covered
  <2> QED
    BY <2>1 DEF Answered, NoResponse
<1> QED
  BY <1>1, InitInvariant, NextInvariant, PTL DEF Spec

\* No minibatch is larger than max_upstream_batch_size or has an id twice, whatever
\* the ids of the client's batch (batchGroupID, the minibatches).
THEOREM UpstreamBatchesAreValidAlways == Spec => []UpstreamBatchesAreValid
<1>1. IInv => UpstreamBatchesAreValid
  BY Zenon DEF IInv, NoIdTwice, Distinct, UpstreamBatchesAreValid
<1> QED
  BY <1>1, InitInvariant, NextInvariant, PTL DEF Spec

\* However many calls are served and however the stores fail, lag or expire: under
\* a key of the cache there is a value, and never a wrapped answer, an error or a
\* null (PutRPC, filterPut).
THEOREM CacheHoldsRawReceiptsAlways == Spec => []CacheHoldsRawReceipts
<1>1. Init => Clean
  BY Zenon DEF Init, CacheInit, Clean
<1>2. Clean => CacheHoldsRawReceipts
  BY Zenon DEF Clean, CacheHoldsRawReceipts
<1> QED
  BY <1>1, <1>2, InitInvariant, NextInvariant, NextClean, PTL DEF Spec
=============================================================================
