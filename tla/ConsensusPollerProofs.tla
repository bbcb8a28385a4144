----------------------- MODULE ConsensusPollerProofs -----------------------
(***************************************************************************)
(* Proofs about the state UpdateBackend keeps of every backend (types, the *)
(* cleared state of a ban, and that the trusted tags implement             *)
(* BackendTags), and about what UpdateBackendGroupConsensus publishes.     *)
(***************************************************************************)
EXTENDS ConsensusPoller, TLAPS

USE DEF Backends

\* TypeOK in two parts: what the backend goroutines write, and what the goroutine
\* of the group writes.
StateType ==
    /\ tags \in [Backends -> Tags] /\ prev \in [Backends -> Tags]
    /\ peerCount \in [Backends -> Nat] /\ inSync \in [Backends -> BOOLEAN]
    /\ age \in [Backends -> 0 .. MaxUpdateThreshold + 1]
    /\ banLeft \in [Backends -> 0 .. BanPeriod]
    /\ healthy \in [Backends -> BOOLEAN] /\ branch \in [Backends -> Branches]
    /\ pc \in [Backends -> {"idle", "gate", "fetch", "check"}]
    /\ gate \in [Fallbacks -> SUBSET Primaries]

RoundType ==
    /\ gpc \in {"idle", "primaries", "fallbacks", "walk", "setLatest", "setSafe",
                "setFinalized", "setGroup"}
    /\ todo \subseteq Backends
    /\ DOMAIN cand \subseteq Backends /\ cand \in [DOMAIN cand -> Tags]
    /\ current \in 0 .. MaxUint /\ proposed \in 0 .. MaxUint
    /\ proposedHash \in Hashes
    /\ lowestSafe \in 0 .. MaxHeight /\ lowestFinalized \in 0 .. MaxHeight
    /\ broken \in BOOLEAN
    /\ tracker \in [latest : 0 .. MaxUint, safe : 0 .. MaxHeight,
                    finalized : 0 .. MaxHeight]
    /\ consensusGroup \subseteq Backends

\* The type invariant is that of the backends and that of the rounds together.
LEMMA TypeParts == TypeOK <=> StateType /\ RoundType
  BY Zenon DEF TypeOK, StateType, RoundType

\* Every hash of the chain is one the poller may store.
LEMMA HashAtType ==
    ASSUME NEW br \in Branches, NEW n \in Int
    PROVE  HashAt(br, n) \in Hashes /\ HashAt(br, n) # NoHash
  BY HashesAssumption, NumbersAssumption, Zenon DEF HashAt, Hashes

\* The state Reset gives a backend is one a backend may have.
LEMMA NoTagsType == NoTags \in Tags
  BY NumbersAssumption DEF NoTags, Tags, Hashes

\* Ban keeps the types of what it writes.
LEMMA BanType ==
    ASSUME StateType, NEW b \in Backends, Ban(b)
    PROVE  /\ tags' \in [Backends -> Tags]
           /\ banLeft' \in [Backends -> 0 .. BanPeriod]
  <1>1. CASE b \in Forced
    BY <1>1, Zenon DEF Ban, StateType
  <1>2. CASE b \notin Forced
    <2>1. [NoTags EXCEPT !.hash = tags[b].hash] \in Tags
      BY NumbersAssumption DEF NoTags, Tags, Hashes, StateType
    <2>2. BanPeriod \in 0 .. BanPeriod
      BY PeriodsAssumption
    <2>. QED
      BY <1>2, <2>1, <2>2 DEF Ban, StateType
  <1>. QED
    BY <1>1, <1>2, Zenon

\* The types hold after NewConsensusPoller.
LEMMA InitType == Init => TypeOK
  <1>. SUFFICES ASSUME Init PROVE StateType /\ RoundType
    BY TypeParts, Zenon
  <1>1. StateType
    BY NoTagsType, PeriodsAssumption DEF Init, StateType
  <1>2. RoundType
    <2>1. DOMAIN cand = {} /\ cand \in [DOMAIN cand -> Tags]
      BY Zenon DEF Init, NoCandidates
    <2>2. 0 \in 0 .. MaxUint /\ 0 \in 0 .. MaxHeight
      BY NumbersAssumption
    <2>. QED
      BY <2>1, <2>2, Zenon DEF Init, RoundType, Hashes
  <1>. QED
    BY <1>1, <1>2, Zenon

\* The steps of the backend goroutines and of the world keep the types of what
\* they write.
LEMMA StateStep ==
    ASSUME StateType, [Next]_vars
    PROVE  StateType'
  <1>. USE DEF worldVars, updateVars, stateVars, roundVars, publicVars
  <1>1. CASE Tick
    <2>1. age' \in [Backends -> 0 .. MaxUpdateThreshold + 1]
      BY <1>1, PeriodsAssumption DEF Tick, StateType
    <2>2. banLeft' \in [Backends -> 0 .. BanPeriod]
      BY <1>1, PeriodsAssumption DEF Tick, StateType, Elapse
    <2>. QED
      BY <1>1, <2>1, <2>2, Zenon DEF Tick, StateType
  <1>2. ASSUME NEW b \in Backends, HealthChanges(b) PROVE StateType'
    BY <1>2, Zenon DEF HealthChanges, StateType
  <1>3. ASSUME NEW b \in Backends, Reorg(b) PROVE StateType'
    BY <1>3 DEF Reorg, StateType
  <1>4. ASSUME NEW b \in Backends, SkipBanned(b) PROVE StateType'
    BY <1>4, Zenon DEF SkipBanned, StateType
  <1>5. ASSUME NEW b \in Backends, BanUnhealthy(b) PROVE StateType'
    BY <1>5, BanType, Zenon DEF BanUnhealthy, StateType
  <1>6. ASSUME NEW b \in Backends, BeginUpdate(b) PROVE StateType'
    BY <1>6, Zenon DEF BeginUpdate, StateType
  <1>7. ASSUME NEW b \in Backends, FetchFails(b) PROVE StateType'
    BY <1>7, NoTagsType, Zenon DEF FetchFails, StateType
  <1>8. ASSUME NEW b \in Backends, SetBackendState(b) PROVE StateType'
    <2>1. PICK a \in GoodAnswers(b), n \in GoodPeers(b), s \in SyncAnswers :
            /\ tags' = [tags EXCEPT ![b] =
                       [latest |-> a.latest, hash |-> HashAt(branch[b], a.latest),
                        safe |-> a.safe, finalized |-> a.finalized]]
            /\ peerCount' = [peerCount EXCEPT ![b] = n]
            /\ inSync' = [inSync EXCEPT ![b] = s]
      BY <1>8, Zenon DEF SetBackendState
    <2>2. /\ a \in [latest : 0 .. MaxHeight, safe : 0 .. MaxHeight,
                    finalized : 0 .. MaxHeight]
          /\ n \in Nat /\ s \in BOOLEAN
      BY AnswersAssumption, NumbersAssumption DEF GoodAnswers, GoodPeers
    <2>3. HashAt(branch[b], a.latest) \in Hashes
      BY <2>2, HashAtType, NumbersAssumption DEF StateType
    <2>4. tags' \in [Backends -> Tags]
      BY <2>1, <2>2, <2>3, Zenon DEF StateType, Tags
    <2>. QED
      BY <1>8, <2>1, <2>2, <2>4, PeriodsAssumption DEF SetBackendState, StateType
  <1>9. ASSUME NEW b \in Backends, CheckTags(b) PROVE StateType'
    <2>1. tags' \in [Backends -> Tags] /\ banLeft' \in [Backends -> 0 .. BanPeriod]
      BY <1>9, BanType, Zenon DEF CheckTags, StateType
    <2>. QED
      BY <1>9, <2>1, NoTagsType, Zenon DEF CheckTags, StateType
  <1>10. ASSUME NEW f \in Fallbacks, GateStep(f) PROVE StateType'
    BY <1>10 DEF GateStep, GateBegin, GateCheck, StateType
  <1>11. CASE RoundStep
    BY <1>11, Zenon DEF RoundStep, RoundBegin, TryFallbacks, Propose, WalkEnd, FilterOne,
         WalkError, WalkAgree, WalkBack, SetLatest, SetSafe, SetFinalized, SetGroup,
         StateType
  <1>12. CASE UNCHANGED vars
    BY <1>12, Zenon DEF vars, StateType
  <1>. QED
    BY <1>1, <1>2, <1>3, <1>4, <1>5, <1>6, <1>7, <1>8, <1>9, <1>10, <1>11, <1>12, Zenon
       DEF Next, UpdateStep

\* The lowest numbers of the candidates have the type of their numbers.
LEMMA ProposeLowestType ==
    ASSUME RoundType, NEW S \in SUBSET DOMAIN cand, ProposeLowest(S)
    PROVE  /\ proposed' \in 0 .. MaxHeight /\ proposed' \in 0 .. MaxUint
           /\ proposedHash' \in Hashes
           /\ lowestSafe' \in 0 .. MaxHeight /\ lowestFinalized' \in 0 .. MaxHeight
  <1>1. CASE S = {}
    BY <1>1, NumbersAssumption DEF ProposeLowest, Hashes
  <1>2. ASSUME NEW l \in S, NEW s \in S, NEW f \in S,
               proposed' = cand[l].latest, proposedHash' = cand[l].hash,
               lowestSafe' = cand[s].safe, lowestFinalized' = cand[f].finalized
        PROVE  /\ proposed' \in 0 .. MaxHeight
               /\ proposedHash' \in Hashes
               /\ lowestSafe' \in 0 .. MaxHeight
               /\ lowestFinalized' \in 0 .. MaxHeight
    BY <1>2, Zenon DEF RoundType, Tags
  <1>3. \A n \in 0 .. MaxHeight : n \in 0 .. MaxUint
    BY NumbersAssumption
  <1>. QED
    BY <1>1, <1>2, <1>3, Zenon DEF ProposeLowest

\* The candidates whose numbers count are candidates.
LEMMA CountedSetsType ==
    ASSUME NEW C, NEW S \in CountedSets(C)
    PROVE  S \subseteq C
  BY Zenon DEF CountedSets

\* The steps of the goroutine of the group keep the types of what they write.
LEMMA RoundTypeStep ==
    ASSUME StateType, RoundType, [Next]_vars
    PROVE  RoundType'
  <1>. USE DEF worldVars, updateVars, stateVars, roundVars, publicVars
  <1>1. CASE Tick
    BY <1>1, Zenon DEF Tick, RoundType
  <1>2. ASSUME NEW b \in Backends, HealthChanges(b) \/ Reorg(b) PROVE RoundType'
    BY <1>2, Zenon DEF HealthChanges, Reorg, RoundType
  <1>3. ASSUME NEW b \in Backends, UpdateStep(b) PROVE RoundType'
    BY <1>3, Zenon DEF UpdateStep, SkipBanned, BanUnhealthy, BeginUpdate, FetchFails,
         SetBackendState, CheckTags, RoundType
  <1>4. ASSUME NEW f \in Fallbacks, GateStep(f) PROVE RoundType'
    BY <1>4, Zenon DEF GateStep, GateBegin, GateCheck, RoundType
  <1>5. CASE RoundBegin
    BY <1>5, Zenon DEF RoundBegin, RoundType
  <1>6. CASE TryFallbacks
    BY <1>6, Zenon DEF TryFallbacks, RoundType
  <1>7. CASE Propose
    <2>1. NotLagging \subseteq DOMAIN cand
      BY Zenon DEF NotLagging
    <2>2. PICK S \in CountedSets(NotLagging) : ProposeLowest(S)
      BY <1>7, Zenon DEF Propose
    <2>3. S \subseteq DOMAIN cand
      BY <2>1, CountedSetsType, Zenon
    <2>4. /\ proposed' \in 0 .. MaxUint /\ proposedHash' \in Hashes
          /\ lowestSafe' \in 0 .. MaxHeight /\ lowestFinalized' \in 0 .. MaxHeight
      BY <2>2, <2>3, ProposeLowestType, Zenon
    <2>5. /\ cand' = [b \in NotLagging |-> cand[b]]
          /\ gpc' \in {"walk", "setLatest"} /\ todo' \in {NotLagging, {}}
          /\ broken' = FALSE /\ UNCHANGED <<current, tracker, consensusGroup>>
      BY <1>7, Zenon DEF Propose
    <2>6. DOMAIN cand' = NotLagging /\ cand' \in [NotLagging -> Tags]
      BY <2>1, <2>5, Zenon DEF RoundType
    <2>. QED
      BY <2>1, <2>4, <2>5, <2>6, Zenon DEF RoundType
  <1>8. CASE WalkEnd
    BY <1>8, Zenon DEF WalkEnd, RoundType
  <1>9. ASSUME NEW b \in Backends, FilterOne(b) PROVE RoundType'
    <2>1. CASE Eligible(b)
      <3>1. cand' = [x \in DOMAIN cand \union {b} |->
                       IF x = b THEN tags[b] ELSE cand[x]]
        BY <1>9, <2>1, Zenon DEF FilterOne
      <3>2. tags[b] \in Tags /\ \A x \in DOMAIN cand : cand[x] \in Tags
        BY Zenon DEF StateType, RoundType
      <3>3. DOMAIN cand' = DOMAIN cand \union {b} /\ cand' \in [DOMAIN cand' -> Tags]
        BY <3>1, <3>2, Zenon
      <3>. QED
        BY <1>9, <3>3, Zenon DEF FilterOne, RoundType
    <2>2. CASE ~ Eligible(b)
      BY <1>9, <2>2, Zenon DEF FilterOne, RoundType
    <2>. QED
      BY <2>1, <2>2, Zenon
  <1>10. ASSUME NEW b \in Backends, WalkError(b) PROVE RoundType'
    BY <1>10, Zenon DEF WalkError, RoundType
  <1>11. ASSUME NEW b \in Backends, WalkAgree(b) PROVE RoundType'
    <2>1. PICK a \in BlockAnswers(b, proposed) : proposedHash' = a.hash
      BY <1>11, Zenon DEF WalkAgree
    <2>2. a.hash \in Hashes
      BY HashAtType DEF BlockAnswers, Hashes, StateType, RoundType
    <2>. QED
      BY <1>11, <2>1, <2>2, Zenon DEF WalkAgree, RoundType
  <1>12. ASSUME NEW b \in Backends, WalkBack(b) PROVE RoundType'
    <2>1. proposed' \in 0 .. MaxUint
      BY <1>12, NumbersAssumption DEF WalkBack, OneBehind, RoundType
    <2>2. broken' \in BOOLEAN
      BY <1>12, Zenon DEF WalkBack
    <2>. QED
      BY <1>12, <2>1, <2>2, Zenon DEF WalkBack, RoundType, Hashes
  <1>13. CASE SetLatest
    BY <1>13, Zenon DEF SetLatest, RoundType
  <1>14. CASE SetSafe
    BY <1>14, Zenon DEF SetSafe, RoundType
  <1>15. CASE SetFinalized
    BY <1>15, Zenon DEF SetFinalized, RoundType
  <1>16. CASE SetGroup
    <2>1. DOMAIN cand' = {} /\ cand' \in [DOMAIN cand' -> Tags]
      BY <1>16, Zenon DEF SetGroup, NoCandidates
    <2>2. 0 \in 0 .. MaxUint /\ 0 \in 0 .. MaxHeight
      BY NumbersAssumption
    <2>. QED
      BY <1>16, <2>1, <2>2, Zenon DEF SetGroup, RoundType, Hashes
  <1>17. CASE UNCHANGED vars
    BY <1>17, Zenon DEF vars, RoundType
  <1>. QED
    BY <1>1, <1>2, <1>3, <1>4, <1>5, <1>6, <1>7, <1>8, <1>9, <1>10, <1>11, <1>12,
       <1>13, <1>14, <1>15, <1>16, <1>17, Zenon DEF Next, RoundStep

\* The poller keeps its types, whatever the backends answer: in particular the
\* walk back stays within the unsigned numbers.
THEOREM TypeCorrect == Spec => []TypeOK
  <1>1. TypeOK /\ [Next]_vars => TypeOK'
    <2>1. StateType /\ RoundType /\ [Next]_vars => (StateType /\ RoundType)'
      BY StateStep, RoundTypeStep, Zenon
    <2>2. (StateType /\ RoundType)' => TypeOK'
      BY Zenon DEF TypeOK, StateType, RoundType
    <2>. QED
      BY <2>1, <2>2, TypeParts, Zenon
  <1>. QED
    BY <1>1, InitType, PTL DEF Spec

-----------------------------------------------------------------------------
(* Bans.                                                                   *)

HasBlocks(t) == 0 \notin {t.latest, t.safe, t.finalized}

\* Only the goroutine of b bans b or stores its numbers, and it has looked at the
\* ban before it stores them.
UpdatesUnbanned ==
    \A b \in Backends : pc[b] \in {"fetch", "check"} => ~ IsBanned(b)

\* The three numbers are set and cleared together; a state without blocks that
\* still counts as recent belongs to a ban that has lasted no longer than that.
ClearedIsOld ==
    \A b \in Backends :
      \/ HasBlocks(tags[b])
      \/ /\ NoBlocks(tags[b])
         /\ \/ age[b] > MaxUpdateThreshold
            \/ b \notin Forced /\ age[b] + banLeft[b] >= BanPeriod

BanInv == StateType /\ BannedIsCleared /\ UpdatesUnbanned /\ ClearedIsOld

\* The invariant about bans holds after NewConsensusPoller.
LEMMA BanInvInit == Init => BanInv
  <1>. SUFFICES ASSUME Init PROVE BanInv
    BY Zenon
  <1>1. StateType
    BY InitType, TypeParts, Zenon
  <1>2. BannedIsCleared /\ UpdatesUnbanned /\ ClearedIsOld
    BY PeriodsAssumption DEF Init, BannedIsCleared, UpdatesUnbanned, ClearedIsOld,
       IsBanned, NoBlocks, NoTags
  <1>. QED
    BY <1>1, <1>2, Zenon DEF BanInv

\* What Ban leaves behind, for a backend that is not forced.
LEMMA BanEffect ==
    ASSUME StateType, NEW b \in Backends \ Forced, Ban(b)
    PROVE  /\ NoBlocks(tags'[b]) /\ banLeft'[b] = BanPeriod
           /\ \A x \in Backends \ {b} : tags'[x] = tags[x] /\ banLeft'[x] = banLeft[x]
  BY DEF Ban, StateType, NoBlocks, NoTags

\* A step that bans b, and changes nothing else but the place of its goroutine
\* (and its copy), keeps the invariant.
LEMMA BanKeepsInv ==
    ASSUME BanInv, StateType', NEW b \in Backends \ Forced, Ban(b),
           age' = age, pc' = [pc EXCEPT ![b] = "idle"]
    PROVE  BanInv'
  <1>1. /\ NoBlocks(tags'[b]) /\ banLeft'[b] = BanPeriod /\ pc'[b] = "idle"
        /\ \A x \in Backends \ {b} : /\ tags'[x] = tags[x] /\ banLeft'[x] = banLeft[x]
                                    /\ pc'[x] = pc[x]
    BY BanEffect, Zenon DEF BanInv, StateType
  <1>2. BannedIsCleared'
    BY <1>1, Zenon DEF BanInv, BannedIsCleared, IsBanned
  <1>3. UpdatesUnbanned'
    BY <1>1, Zenon DEF BanInv, UpdatesUnbanned, IsBanned
  <1>4. ClearedIsOld'
    <2>1. age[b] + BanPeriod >= BanPeriod
      BY PeriodsAssumption DEF BanInv, StateType
    <2>2. \A x \in Backends \ {b} :
            \/ HasBlocks(tags'[x])
            \/ /\ NoBlocks(tags'[x])
               /\ \/ age'[x] > MaxUpdateThreshold
                  \/ x \notin Forced /\ age'[x] + banLeft'[x] >= BanPeriod
      BY <1>1, Zenon DEF BanInv, ClearedIsOld
    <2>3. age'[b] + banLeft'[b] >= BanPeriod
      BY <1>1, <2>1, Zenon
    <2>. QED
      BY <1>1, <2>2, <2>3, Zenon DEF ClearedIsOld
  <1>. QED
    BY <1>2, <1>3, <1>4, Zenon DEF BanInv

\* Every step keeps the invariant about bans.
LEMMA BanInvStep ==
    ASSUME BanInv, [Next]_vars
    PROVE  BanInv'
  <1>. USE DEF worldVars, updateVars, stateVars, roundVars, publicVars
  <1>0. StateType'
    BY StateStep, Zenon DEF BanInv
  <1>1. CASE Tick
    <2>1. \A b \in Backends :
            /\ banLeft[b] \in Nat /\ age[b] \in Nat
            /\ banLeft'[b] = Elapse(banLeft[b])
            /\ age'[b] = IF age[b] > MaxUpdateThreshold THEN age[b] ELSE age[b] + 1
            /\ tags'[b] = tags[b] /\ pc'[b] = pc[b]
      BY <1>1, PeriodsAssumption DEF Tick, BanInv, StateType
    <2>2. BannedIsCleared'
      BY <2>1 DEF BanInv, BannedIsCleared, IsBanned, Elapse
    <2>3. UpdatesUnbanned'
      BY <2>1 DEF BanInv, UpdatesUnbanned, IsBanned, Elapse
    <2>4. ClearedIsOld'
      <3>. SUFFICES ASSUME NEW b \in Backends, ~ HasBlocks(tags[b]),
                           ~ (age'[b] > MaxUpdateThreshold)
                    PROVE  b \notin Forced /\ age'[b] + banLeft'[b] >= BanPeriod
        BY <2>1, Zenon DEF BanInv, ClearedIsOld, HasBlocks, NoBlocks
      <3>1. age[b] <= MaxUpdateThreshold /\ age'[b] = age[b] + 1
        BY <2>1, PeriodsAssumption
      <3>2. b \notin Forced /\ age[b] + banLeft[b] >= BanPeriod
        BY <2>1, <3>1, PeriodsAssumption, Zenon DEF BanInv, ClearedIsOld
      <3>. QED
        BY <2>1, <3>1, <3>2, PeriodsAssumption DEF Elapse
    <2>. QED
      BY <1>0, <2>2, <2>3, <2>4, Zenon DEF BanInv
  <1>2. ASSUME NEW b \in Backends, HealthChanges(b) \/ Reorg(b) PROVE BanInv'
    BY <1>0, <1>2, Zenon DEF HealthChanges, Reorg, BanInv, BannedIsCleared, UpdatesUnbanned,
       ClearedIsOld, IsBanned
  <1>3. ASSUME NEW b \in Backends, SkipBanned(b) PROVE BanInv'
    BY <1>0, <1>3, Zenon DEF SkipBanned, BanInv, StateType, BannedIsCleared,
       UpdatesUnbanned, ClearedIsOld, IsBanned
  <1>4. ASSUME NEW b \in Backends, BanUnhealthy(b) PROVE BanInv'
    BY <1>0, <1>4, BanKeepsInv, Zenon DEF BanUnhealthy
  <1>5. ASSUME NEW b \in Backends, BeginUpdate(b) PROVE BanInv'
    BY <1>0, <1>5, Zenon DEF BeginUpdate, BanInv, StateType, BannedIsCleared,
       UpdatesUnbanned, ClearedIsOld, IsBanned
  <1>6. ASSUME NEW b \in Backends, FetchFails(b) PROVE BanInv'
    BY <1>0, <1>6, Zenon DEF FetchFails, BanInv, StateType, BannedIsCleared,
       UpdatesUnbanned, ClearedIsOld, IsBanned
  <1>7. ASSUME NEW b \in Backends, SetBackendState(b) PROVE BanInv'
    <2>1. PICK a \in GoodAnswers(b) :
            tags' = [tags EXCEPT ![b] =
                       [latest |-> a.latest, hash |-> HashAt(branch[b], a.latest),
                        safe |-> a.safe, finalized |-> a.finalized]]
      BY <1>7, Zenon DEF SetBackendState
    <2>2. /\ HasBlocks(tags'[b]) /\ ~ IsBanned(b)
          /\ \A x \in Backends \ {b} :
               tags'[x] = tags[x] /\ age'[x] = age[x] /\ pc'[x] = pc[x]
      BY <1>7, <2>1, Zenon DEF SetBackendState, GoodAnswers, HasBlocks, BanInv, StateType,
         UpdatesUnbanned
    <2>3. banLeft' = banLeft
      BY <1>7, Zenon DEF SetBackendState
    <2>4. BannedIsCleared' /\ UpdatesUnbanned'
      BY <2>2, <2>3, Zenon DEF BanInv, BannedIsCleared, UpdatesUnbanned, IsBanned
    <2>5. ClearedIsOld'
      BY <2>2, <2>3 DEF BanInv, ClearedIsOld, HasBlocks, NoBlocks
    <2>. QED
      BY <1>0, <2>4, <2>5, Zenon DEF BanInv
  <1>8. ASSUME NEW b \in Backends, CheckTags(b) PROVE BanInv'
    <2>1. CASE UNCHANGED <<tags, banLeft>>
      BY <1>0, <1>8, <2>1, Zenon DEF CheckTags, BanInv, StateType, BannedIsCleared,
         UpdatesUnbanned, ClearedIsOld, IsBanned
    <2>2. CASE Ban(b) /\ b \notin Forced
      BY <1>0, <1>8, <2>2, BanKeepsInv, Zenon DEF CheckTags
    <2>. QED
      BY <1>8, <2>1, <2>2, Zenon DEF CheckTags, Ban
  <1>9. ASSUME NEW f \in Fallbacks, GateStep(f) PROVE BanInv'
    BY <1>0, <1>9, Zenon DEF GateStep, GateBegin, GateCheck, BanInv, StateType,
       BannedIsCleared, UpdatesUnbanned, ClearedIsOld, IsBanned
  <1>10. CASE RoundStep
    <2>1. UNCHANGED <<stateVars, updateVars>>
      BY <1>10, Zenon DEF RoundStep, RoundBegin, TryFallbacks, Propose, WalkEnd, FilterOne,
         WalkError, WalkAgree, WalkBack, SetLatest, SetSafe, SetFinalized, SetGroup
    <2>. QED
      BY <1>0, <2>1, Zenon DEF BanInv, BannedIsCleared, UpdatesUnbanned, ClearedIsOld, IsBanned
  <1>11. CASE UNCHANGED vars
    BY <1>0, <1>11, Zenon DEF vars, BanInv, BannedIsCleared, UpdatesUnbanned, ClearedIsOld,
       IsBanned
  <1>. QED
    BY <1>1, <1>2, <1>3, <1>4, <1>5, <1>6, <1>7, <1>8, <1>9, <1>10, <1>11, Zenon
       DEF Next, UpdateStep

\* The invariant about bans holds throughout.
LEMMA BanInvHolds == Spec => []BanInv
  BY BanInvInit, BanInvStep, PTL DEF Spec

\* While a backend is banned the numbers of its state stay cleared, however the
\* goroutines are interleaved.
THEOREM BannedStaysCleared == Spec => []BannedIsCleared
  <1>1. BanInv => BannedIsCleared
    BY Zenon DEF BanInv
  <1>. QED
    BY <1>1, BanInvHolds, PTL

\* FilterCandidates never takes the cleared state of a ban, or the state of a
\* backend that was not polled yet, for a chain at block 0.
THEOREM CandidatesHaveBlocks == Spec => []CandidateHasBlocks
  <1>1. BanInv => CandidateHasBlocks
    <2>. SUFFICES ASSUME BanInv, BanPeriod > MaxUpdateThreshold,
                         NEW b \in Backends \ Forced, Eligible(b)
                  PROVE  HasBlocks(tags[b])
      BY Zenon DEF CandidateHasBlocks, HasBlocks
    <2>1. age[b] <= MaxUpdateThreshold /\ ~ (banLeft[b] > 0)
      BY Zenon DEF Eligible, IsBanned
    <2>2. age[b] \in Nat /\ banLeft[b] = 0
      BY <2>1, PeriodsAssumption DEF BanInv, StateType
    <2>. QED
      BY <2>1, <2>2, PeriodsAssumption DEF BanInv, ClearedIsOld
  <1>. QED
    BY <1>1, BanInvHolds, PTL

-----------------------------------------------------------------------------
(* The trusted tags implement BackendTags.                                 *)

\* While the requests of an update are under way, the state has not moved away
\* from the copy the answers will be compared with.
CopyIsCurrent == \A b \in Backends : pc[b] = "fetch" => prev[b] = tags[b]

TagsInv == StateType /\ CopyIsCurrent

\* No update is under way after NewConsensusPoller.
LEMMA TagsInvInit == Init => TagsInv
  <1>1. Init => StateType
    BY InitType, TypeParts, Zenon
  <1>2. Init => CopyIsCurrent
    BY Zenon DEF Init, CopyIsCurrent
  <1>. QED
    BY <1>1, <1>2, Zenon DEF TagsInv

\* Every step keeps the copy of an update under way equal to the state.
LEMMA TagsInvStep ==
    ASSUME TagsInv, [Next]_vars
    PROVE  TagsInv'
  <1>. USE DEF worldVars, updateVars, stateVars, roundVars, publicVars
  <1>0. StateType /\ StateType'
    BY StateStep, Zenon DEF TagsInv
  <1>1. CASE Tick
    BY <1>0, <1>1, Zenon DEF Tick, TagsInv, CopyIsCurrent
  <1>2. ASSUME NEW b \in Backends, HealthChanges(b) \/ Reorg(b) PROVE CopyIsCurrent'
    BY <1>2, Zenon DEF HealthChanges, Reorg, TagsInv, CopyIsCurrent
  <1>3. ASSUME NEW b \in Backends, Ban(b) \/ tags' = tags
        PROVE  \A x \in Backends \ {b} : tags'[x] = tags[x]
    BY <1>0, <1>3, Zenon DEF Ban, StateType
  <1>4. ASSUME NEW b \in Backends, UpdateStep(b) PROVE CopyIsCurrent'
    <2>1. CASE BeginUpdate(b)
      BY <1>0, <2>1, Zenon DEF BeginUpdate, TagsInv, CopyIsCurrent, StateType
    <2>2. CASE ~ BeginUpdate(b)
      <3>1. pc'[b] # "fetch"
        BY <1>0, <1>4, <2>2, Zenon DEF UpdateStep, SkipBanned, BanUnhealthy, FetchFails,
           SetBackendState, CheckTags, StateType
      <3>2. \A x \in Backends \ {b} :
              tags'[x] = tags[x] /\ prev'[x] = prev[x] /\ pc'[x] = pc[x]
        BY <1>0, <1>3, <1>4, <2>2, Zenon DEF UpdateStep, SkipBanned, BanUnhealthy,
           FetchFails, SetBackendState, CheckTags, StateType
      <3>. QED
        BY <3>1, <3>2, Zenon DEF TagsInv, CopyIsCurrent
    <2>. QED
      BY <2>1, <2>2, Zenon
  <1>5. ASSUME NEW f \in Fallbacks, GateStep(f) PROVE CopyIsCurrent'
    BY <1>0, <1>5, Zenon DEF GateStep, GateBegin, GateCheck, TagsInv, CopyIsCurrent, StateType
  <1>6. CASE RoundStep
    <2>1. UNCHANGED <<stateVars, updateVars>>
      BY <1>6, Zenon DEF RoundStep, RoundBegin, TryFallbacks, Propose, WalkEnd, FilterOne,
         WalkError, WalkAgree, WalkBack, SetLatest, SetSafe, SetFinalized, SetGroup
    <2>. QED
      BY <1>0, <2>1, Zenon DEF TagsInv, CopyIsCurrent
  <1>7. CASE UNCHANGED vars
    BY <1>0, <1>7, Zenon DEF vars, TagsInv, CopyIsCurrent
  <1>. QED
    BY <1>0, <1>1, <1>2, <1>4, <1>5, <1>6, <1>7, Zenon DEF Next, TagsInv

\* A step that changes the trusted tags of no backend is a stutter of BackendTags.
LEMMA TrustStutter ==
    ASSUME \A b \in Backends \ Forced : Trusted(b)' = Trusted(b)
    PROVE  UNCHANGED Trust!vars
  BY Zenon DEF Trust!vars

\* A step that replaces the trusted tags of b, and of no other backend.
LEMMA TrustChange ==
    ASSUME NEW b \in Backends \ Forced, NEW t,
           Trusted(b) \in Tags, Trusted(b)' = t,
           \A x \in (Backends \ Forced) \ {b} : Trusted(x)' = Trusted(x),
           \/ NoBlocks(t)
           \/ /\ t.latest \in 0 .. MaxHeight /\ t.safe \in 0 .. MaxHeight
              /\ t.finalized \in 0 .. MaxHeight
              /\ CheckExpectedBlockTags(Trusted(b), t)
    PROVE  Trust!Next
  <1>1. CASE NoBlocks(t)
    <2>1. Trust!Forget(b)
      BY <1>1, Zenon DEF Trust!Forget, NoBlocks
    <2>. QED
      BY <2>1, Zenon DEF Trust!Next
  <1>2. CASE /\ t.latest \in 0 .. MaxHeight /\ t.safe \in 0 .. MaxHeight
             /\ t.finalized \in 0 .. MaxHeight
             /\ CheckExpectedBlockTags(Trusted(b), t)
    <2>1. /\ Trusted(b).finalized <= t.finalized /\ Trusted(b).safe <= t.safe
          /\ t.finalized <= t.safe /\ t.safe <= t.latest
      BY <1>2, Zenon DEF CheckExpectedBlockTags, Tags
    <2>2. /\ [x \in Backends \ Forced |-> Trusted(x).latest]'
               = [[x \in Backends \ Forced |-> Trusted(x).latest]
                    EXCEPT ![b] = t.latest]
          /\ [x \in Backends \ Forced |-> Trusted(x).safe]'
               = [[x \in Backends \ Forced |-> Trusted(x).safe] EXCEPT ![b] = t.safe]
          /\ [x \in Backends \ Forced |-> Trusted(x).finalized]'
               = [[x \in Backends \ Forced |-> Trusted(x).finalized]
                    EXCEPT ![b] = t.finalized]
      BY Zenon
    <2>3. Trust!Accept(b)
      BY <1>2, <2>1, <2>2, ZenonT(60) DEF Trust!Accept
    <2>. QED
      BY <2>3, Zenon DEF Trust!Next
  <1>. QED
    BY <1>1, <1>2, Zenon

\* A step that leaves the states, the copies and the places of the goroutines as
\* they are, or only moves a goroutine between two places where the state is
\* trusted.
LEMMA TrustUnmoved ==
    ASSUME StateType, UNCHANGED <<tags, prev>>,
           \A b \in Backends : pc'[b] = pc[b] \/ "check" \notin {pc[b], pc'[b]}
    PROVE  UNCHANGED Trust!vars
  BY TrustStutter, Zenon DEF Trusted

\* Every step of the poller is a step of BackendTags, or a stutter of it.
LEMMA TrustStep ==
    ASSUME TagsInv, [Next]_vars
    PROVE  [Trust!Next]_(Trust!vars)
  <1>. USE DEF worldVars, updateVars, stateVars, roundVars, publicVars
  <1>0. StateType /\ \A b \in Backends : Trusted(b) \in Tags
    BY Zenon DEF TagsInv, StateType, Trusted
  <1>1. ASSUME NEW b \in Backends \ Forced, Ban(b), pc' = [pc EXCEPT ![b] = "idle"],
               \A x \in Backends \ {b} : prev'[x] = prev[x]
        PROVE  Trust!Next
    <2>1. /\ NoBlocks(Trusted(b)')
          /\ \A x \in (Backends \ Forced) \ {b} : Trusted(x)' = Trusted(x)
      BY <1>0, <1>1, BanEffect, Zenon DEF Trusted, StateType
    <2>. QED
      BY <1>0, <2>1, TrustChange, Zenon
  <1>2. CASE Tick
    BY <1>0, <1>2, TrustUnmoved, Zenon DEF Tick
  <1>3. ASSUME NEW b \in Backends, HealthChanges(b) \/ Reorg(b)
        PROVE  UNCHANGED Trust!vars
    BY <1>0, <1>3, TrustUnmoved, Zenon DEF HealthChanges, Reorg
  <1>4. ASSUME NEW b \in Backends, SkipBanned(b) PROVE UNCHANGED Trust!vars
    BY <1>0, <1>4, TrustUnmoved, Zenon DEF SkipBanned, AtUpdate, StateType
  <1>5. ASSUME NEW b \in Backends, BanUnhealthy(b) PROVE Trust!Next
    BY <1>1, <1>5, Zenon DEF BanUnhealthy
  <1>6. ASSUME NEW b \in Backends, BeginUpdate(b) PROVE UNCHANGED Trust!vars
    <2>1. \A x \in Backends : Trusted(x)' = Trusted(x)
      BY <1>0, <1>6, Zenon DEF BeginUpdate, AtUpdate, Trusted, StateType
    <2>. QED
      BY <2>1, TrustStutter, Zenon
  <1>7. ASSUME NEW b \in Backends, FetchFails(b) PROVE UNCHANGED Trust!vars
    <2>1. \A x \in Backends : Trusted(x)' = Trusted(x)
      BY <1>0, <1>7, Zenon DEF FetchFails, Trusted, StateType
    <2>. QED
      BY <2>1, TrustStutter, Zenon
  <1>8. ASSUME NEW b \in Backends, SetBackendState(b) PROVE UNCHANGED Trust!vars
    <2>1. Trusted(b)' = Trusted(b)
      BY <1>0, <1>8, Zenon DEF SetBackendState, Trusted, StateType, TagsInv, CopyIsCurrent
    <2>2. \A x \in Backends \ {b} : Trusted(x)' = Trusted(x)
      BY <1>0, <1>8, Zenon DEF SetBackendState, Trusted, StateType
    <2>. QED
      BY <2>1, <2>2, TrustStutter, Zenon
  <1>9. ASSUME NEW b \in Backends, CheckTags(b) PROVE [Trust!Next]_(Trust!vars)
    <2>0. /\ pc[b] = "check" /\ pc' = [pc EXCEPT ![b] = "idle"]
          /\ prev' = [prev EXCEPT ![b] = NoTags]
      BY <1>9, Zenon DEF CheckTags
    <2>1. CASE b \in Forced
      <3>1. \A x \in Backends \ Forced : Trusted(x)' = Trusted(x)
        BY <1>0, <1>9, <2>0, <2>1, Zenon DEF CheckTags, Ban, Trusted, StateType
      <3>. QED
        BY <3>1, TrustStutter, Zenon
    <2>2. CASE b \notin Forced /\ CheckExpectedBlockTags(prev[b], tags[b])
      <3>1. tags' = tags
        BY <1>9, <2>2, Zenon DEF CheckTags
      <3>2. /\ Trusted(b)' = tags[b] /\ Trusted(b) = prev[b]
            /\ \A x \in (Backends \ Forced) \ {b} : Trusted(x)' = Trusted(x)
        BY <1>0, <2>0, <3>1, Zenon DEF Trusted, StateType
      <3>3. tags[b].latest \in 0 .. MaxHeight /\ tags[b].safe \in 0 .. MaxHeight
            /\ tags[b].finalized \in 0 .. MaxHeight
        BY <1>0, Zenon DEF StateType, Tags
      <3>. QED
        BY <1>0, <2>2, <3>2, <3>3, TrustChange, Zenon
    <2>3. CASE b \notin Forced /\ ~ CheckExpectedBlockTags(prev[b], tags[b])
      <3>1. Ban(b)
        BY <1>9, <2>3, Zenon DEF CheckTags
      <3>2. \A x \in Backends \ {b} : prev'[x] = prev[x]
        BY <1>0, <2>0, Zenon DEF StateType
      <3>. QED
        BY <1>1, <2>0, <2>3, <3>1, <3>2, Zenon
    <2>. QED
      BY <2>1, <2>2, <2>3, Zenon
  <1>10. ASSUME NEW f \in Fallbacks, GateStep(f) PROVE UNCHANGED Trust!vars
    BY <1>0, <1>10, TrustUnmoved, Zenon DEF GateStep, GateBegin, GateCheck, StateType
  <1>11. CASE RoundStep
    <2>1. UNCHANGED <<stateVars, updateVars>>
      BY <1>11, Zenon DEF RoundStep, RoundBegin, TryFallbacks, Propose, WalkEnd, FilterOne,
         WalkError, WalkAgree, WalkBack, SetLatest, SetSafe, SetFinalized, SetGroup
    <2>. QED
      BY <1>0, <2>1, TrustUnmoved, Zenon
  <1>12. CASE UNCHANGED vars
    BY <1>0, <1>12, TrustUnmoved, Zenon DEF vars
  <1>. QED
    BY <1>2, <1>3, <1>4, <1>5, <1>6, <1>7, <1>8, <1>9, <1>10, <1>11, <1>12, Zenon
       DEF Next, UpdateStep

\* Whatever the backends answer, and however UpdateBackend is interleaved with
\* itself on other backends, with bans and with rounds, the tags the poller trusts
\* behave as BackendTags says.
THEOREM TrustedTagsRefine == Spec => TrustedTagsAreExpected
  <1>1. Init => Trust!Init
    BY DEF Init, Trust!Init, Trusted, NoTags
  <1>2. Spec => []TagsInv
    BY TagsInvInit, TagsInvStep, PTL DEF Spec
  <1>3. TagsInv /\ [Next]_vars => [Trust!Next]_(Trust!vars)
    BY TrustStep, Zenon
  <1>. QED
    BY <1>1, <1>2, <1>3, PTL DEF Spec, TrustedTagsAreExpected, Trust!Spec

-----------------------------------------------------------------------------
(* UpdateBackendGroupConsensus: the walk back to the common ancestor, what it
   publishes and when it reports a broken consensus *)

HIDE DEF Backends

\* The backends share the genesis block, and answer a number with the block of
\* that number or with an error.
SharedGenesis == ForkHeight >= 0 /\ StrayNumbers = {}

\* Only the goroutine of the group writes what belongs to a round, and it writes
\* nothing else.
LEMMA StepSplit ==
    ASSUME [Next]_vars
    PROVE  \/ UNCHANGED <<roundVars, publicVars>>
           \/ RoundStep /\ UNCHANGED <<stateVars, worldVars, updateVars>>
  <1>1. CASE RoundStep
    BY <1>1, ZenonT(60) DEF RoundStep, RoundBegin, TryFallbacks, Propose, WalkEnd, FilterOne,
       WalkError, WalkAgree, WalkBack, SetLatest, SetSafe, SetFinalized, SetGroup,
       worldVars, updateVars, stateVars
  <1>2. CASE UNCHANGED vars
    BY <1>2, Zenon DEF vars, roundVars, publicVars
  <1>3. CASE Tick
    BY <1>3, ZenonT(40) DEF Tick, roundVars, publicVars
  <1>4. ASSUME NEW b \in Backends, HealthChanges(b) \/ Reorg(b) \/ UpdateStep(b)
        PROVE  UNCHANGED <<roundVars, publicVars>>
    BY <1>4, Zenon DEF HealthChanges, Reorg, UpdateStep, SkipBanned, BanUnhealthy,
       BeginUpdate, FetchFails, SetBackendState, CheckTags, roundVars, publicVars
  <1>5. ASSUME NEW f \in Fallbacks, GateStep(f)
        PROVE  UNCHANGED <<roundVars, publicVars>>
    BY <1>5, Zenon DEF GateStep, GateBegin, GateCheck, roundVars, publicVars
  <1>. QED
    BY <1>1, <1>2, <1>3, <1>4, <1>5, Zenon DEF Next

\* What fetchBlock may answer when no backend answers another block.
LEMMA AnswerIsTheBlock ==
    ASSUME SharedGenesis, NEW b, NEW n, NEW a \in BlockAnswers(b, n)
    PROVE  a.number = n /\ a.hash = HashAt(branch[b], n) /\ n \in 0 .. MaxHeight
  BY Zenon DEF SharedGenesis, BlockAnswers

\* All branches have the same first block.
LEMMA GenesisIsCommon ==
    ASSUME SharedGenesis, NEW br
    PROVE  HashAt(br, 0) = Common
  BY NumbersAssumption, Zenon DEF SharedGenesis, HashAt

-----------------------------------------------------------------------------
(* The walk back, and the reports of a broken consensus.                   *)

\* The consensus the round started from is the published one until it is set.
StartedFromTracker ==
    gpc \in {"primaries", "fallbacks", "walk", "setLatest"} => current = tracker.latest

\* The walk stays within the chains: at the genesis block nobody disagrees.
WalkInChain ==
    gpc = "walk" => /\ proposed <= MaxHeight
                    /\ proposed = 0 => proposedHash \in {NoHash, Common}

\* broken is set exactly when the walk has gone below the current consensus.
BrokenIsExact ==
    gpc \in {"walk", "setLatest"} =>
      /\ broken => proposed < current
      /\ proposed < current =>
           \/ broken \/ DOMAIN cand = {}
           \/ \E b \in DOMAIN cand : cand[b].latest < current

WalkInv == TypeOK /\ StartedFromTracker /\ WalkInChain /\ BrokenIsExact

\* The invariant about the walk back holds after NewConsensusPoller.
LEMMA WalkInvInit == Init => WalkInv
  BY InitType, Zenon DEF Init, WalkInv, StartedFromTracker, WalkInChain, BrokenIsExact

\* The proposed block before the walk: the latest block of a candidate, or 0 when
\* there is no candidate or one without blocks.
LEMMA ProposedIsSomebodys ==
    ASSUME RoundType, Propose
    PROVE  /\ proposed' \in 0 .. MaxHeight
           /\ DOMAIN cand' = NotLagging /\ \A b \in NotLagging : cand'[b] = cand[b]
           /\ \/ NotLagging = {} /\ proposed' = 0
              \/ \E b \in NotLagging : cand[b].latest <= proposed'
  <1>1. PICK S \in CountedSets(NotLagging) : ProposeLowest(S)
    BY Zenon DEF Propose
  <1>2. S \subseteq NotLagging /\ NotLagging \subseteq DOMAIN cand
    BY CountedSetsType, Zenon DEF NotLagging
  <1>3. proposed' \in 0 .. MaxHeight
    BY <1>1, <1>2, ProposeLowestType, Zenon
  <1>4. DOMAIN cand' = NotLagging /\ \A b \in NotLagging : cand'[b] = cand[b]
    BY Zenon DEF Propose
  <1>5. \A b \in NotLagging : cand[b].latest \in Int
    BY <1>2 DEF RoundType, Tags
  <1>6. CASE S = {} /\ NotLagging = {}
    BY <1>1, <1>3, <1>4, <1>6, Zenon DEF ProposeLowest
  <1>7. CASE S = {} /\ NotLagging # {}
    <2>1. \E b \in NotLagging : cand[b].latest = 0
      BY <1>7, Zenon DEF CountedSets
    <2>2. proposed' = 0
      BY <1>1, <1>7, Zenon DEF ProposeLowest
    <2>. QED
      BY <1>3, <1>4, <2>1, <2>2
  <1>8. CASE S # {}
    <2>1. PICK l \in S : proposed' = cand[l].latest
      BY <1>1, <1>8, Zenon DEF ProposeLowest
    <2>. QED
      BY <1>2, <1>3, <1>4, <1>5, <2>1
  <1>. QED
    BY <1>6, <1>7, <1>8, Zenon

\* A candidate that differs makes the walk go back by one block, never below 0.
LEMMA WalkBackEffect ==
    ASSUME SharedGenesis, WalkInv, NEW b \in Backends, WalkBack(b)
    PROVE  /\ proposed \in 1 .. MaxHeight /\ proposed' = proposed - 1
           /\ proposedHash \notin {NoHash, HashAt(branch[b], proposed)}
           /\ broken' = (broken \/ current >= proposed)
  <1>1. PICK a \in BlockAnswers(b, proposed) :
           /\ a.number # proposed \/ a.hash # ExpectedHash(a)
           /\ broken' = (broken \/ BreaksConsensus(a))
    BY Zenon DEF WalkBack
  <1>2. a.number = proposed /\ a.hash = HashAt(branch[b], proposed)
    BY AnswerIsTheBlock, Zenon
  <1>3. proposedHash \notin {NoHash, HashAt(branch[b], proposed)}
    BY <1>1, <1>2, Zenon DEF ExpectedHash
  <1>4. proposed # 0
    BY <1>3, GenesisIsCommon, Zenon DEF WalkInv, WalkInChain, WalkBack
  <1>5. proposed \in 1 .. MaxHeight
    BY <1>4, NumbersAssumption, TypeParts
       DEF WalkInv, WalkInChain, WalkBack, RoundType
  <1>. QED
    BY <1>1, <1>2, <1>3, <1>5 DEF WalkBack, OneBehind, BreaksConsensus

\* Every step keeps the types.
LEMMA TypeStep ==
    ASSUME TypeOK, [Next]_vars
    PROVE  TypeOK'
  <1>1. StateType' /\ RoundType'
    BY StateStep, RoundTypeStep, TypeParts, Zenon
  <1>. QED
    BY <1>1, Zenon DEF TypeOK, StateType, RoundType

\* Every step keeps the invariant about the walk back.
LEMMA WalkInvStep ==
    ASSUME SharedGenesis, WalkInv, [Next]_vars
    PROVE  WalkInv'
  <1>. USE DEF StartedFromTracker, WalkInChain, BrokenIsExact
  <1>0. TypeOK' /\ RoundType /\ RoundType' /\ StateType
    BY TypeStep, RoundTypeStep, TypeParts, Zenon DEF WalkInv
  <1>1. CASE UNCHANGED <<roundVars, publicVars>>
    BY <1>0, <1>1, Zenon DEF WalkInv, roundVars, publicVars
  <1>2. CASE RoundBegin
    BY <1>0, <1>2, Zenon DEF RoundBegin, WalkInv, publicVars
  <1>3. CASE TryFallbacks
    BY <1>0, <1>3, Zenon DEF TryFallbacks, WalkInv, publicVars
  <1>4. CASE Propose
    <2>1. /\ proposed' \in 0 .. MaxHeight
          /\ DOMAIN cand' = NotLagging /\ \A b \in NotLagging : cand'[b] = cand[b]
          /\ \/ NotLagging = {} /\ proposed' = 0
             \/ \E b \in NotLagging : cand[b].latest <= proposed'
      BY <1>0, <1>4, ProposedIsSomebodys, Zenon
    <2>2. /\ gpc \in {"primaries", "fallbacks"}
          /\ gpc' = "walk" => proposed' > 0
          /\ gpc' \in {"walk", "setLatest"} /\ broken' = FALSE
          /\ UNCHANGED <<current, tracker>>
      BY <1>4, Zenon DEF Propose, publicVars
    <2>3. WalkInChain'
      BY <2>1, <2>2, NumbersAssumption
    <2>4. \A b \in NotLagging : cand[b].latest \in Int
      BY <1>0 DEF NotLagging, RoundType, Tags
    <2>5. current \in Int
      BY <1>0 DEF RoundType
    <2>6. proposed' < current =>
            \/ DOMAIN cand' = {} \/ \E b \in DOMAIN cand' : cand'[b].latest < current
      BY <2>1, <2>4, <2>5
    <2>. QED
      BY <1>0, <2>2, <2>3, <2>6, Zenon DEF WalkInv
  <1>5. CASE WalkEnd
    BY <1>0, <1>5, Zenon DEF WalkEnd, WalkInv, publicVars
  <1>6. ASSUME NEW b \in Backends, FilterOne(b) PROVE WalkInv'
    BY <1>0, <1>6, Zenon DEF FilterOne, WalkInv, publicVars
  <1>7. ASSUME NEW b \in Backends, WalkError(b) PROVE WalkInv'
    BY <1>0, <1>7, Zenon DEF WalkError, WalkInv, publicVars
  <1>8. ASSUME NEW b \in Backends, WalkAgree(b) PROVE WalkInv'
    <2>1. proposedHash' = HashAt(branch[b], proposed)
      BY <1>8, AnswerIsTheBlock, Zenon DEF WalkAgree
    <2>2. proposed = 0 => proposedHash' = Common
      BY <2>1, GenesisIsCommon, Zenon
    <2>. QED
      BY <1>0, <1>8, <2>2, Zenon DEF WalkAgree, WalkInv, publicVars
  <1>9. ASSUME NEW b \in Backends, WalkBack(b) PROVE WalkInv'
    <2>1. /\ proposed \in 1 .. MaxHeight /\ proposed' = proposed - 1
          /\ broken' = (broken \/ current >= proposed)
      BY <1>9, WalkBackEffect, Zenon
    <2>2. /\ gpc = "walk" /\ gpc' = "walk" /\ proposedHash' = NoHash
          /\ UNCHANGED <<current, cand, tracker>>
      BY <1>9, Zenon DEF WalkBack, publicVars
    <2>3. WalkInChain' /\ current \in Int
      BY <1>0, <2>1, <2>2, NumbersAssumption DEF RoundType
    <2>4. proposed < current \/ current >= proposed => proposed' < current
      BY <2>1, <2>3
    <2>5. broken' => proposed' < current'
      <3>1. broken' => broken \/ current >= proposed
        BY <2>1, Zenon
      <3>2. broken => proposed < current
        BY <2>2, Zenon DEF WalkInv
      <3>. QED
        BY <2>2, <2>4, <3>1, <3>2, Zenon
    <2>6. proposed' < current => broken' \/ proposed < current
      <3>1. proposed' < current => current >= proposed
        BY <2>1, <2>3
      <3>2. current >= proposed => broken'
        BY <2>1, Zenon
      <3>. QED
        BY <3>1, <3>2, Zenon
    <2>. QED
      BY <1>0, <2>1, <2>2, <2>3, <2>5, <2>6, Zenon DEF WalkInv
  <1>10. CASE SetLatest \/ SetSafe \/ SetFinalized \/ SetGroup
    BY <1>0, <1>10, Zenon DEF SetLatest, SetSafe, SetFinalized, SetGroup, WalkInv
  <1>. QED
    BY <1>1, <1>2, <1>3, <1>4, <1>5, <1>6, <1>7, <1>8, <1>9, <1>10, StepSplit, Zenon
       DEF RoundStep

\* The listeners of a broken consensus are called only in a round that takes the
\* consensus block back.
THEOREM BrokenIsMovedBack ==
    ASSUME SharedGenesis
    PROVE  Spec => []BrokenMeansMovedBack
  <1>1. WalkInv => BrokenMeansMovedBack
    BY Zenon DEF WalkInv, BrokenIsExact, BrokenMeansMovedBack
  <1>2. WalkInv /\ [Next]_vars => WalkInv'
    BY WalkInvStep, Zenon
  <1>. QED
    BY <1>1, <1>2, WalkInvInit, PTL DEF Spec

\* The loop of the walk back has a measure that falls with each of its steps, the
\* block and then the candidates not asked yet, for any number of backends, and
\* whatever fetches fail and branches change meanwhile.
THEOREM WalksDescend ==
    ASSUME SharedGenesis
    PROVE  Spec => WalkDescends
  <1>1. WalkInv /\ [Next]_vars => WalkInv'
    BY WalkInvStep, Zenon
  <1>2. WalkInv /\ [Next]_vars =>
          [gpc = "walk" /\ gpc' = "walk" =>
             \/ UNCHANGED roundVars
             \/ proposed' < proposed
             \/ proposed' = proposed /\ todo' \subseteq todo /\ todo' # todo]_vars
    <2>. SUFFICES ASSUME WalkInv, [Next]_vars, gpc = "walk", gpc' = "walk",
                         ~ UNCHANGED roundVars
                  PROVE  \/ proposed' < proposed
                         \/ proposed' = proposed /\ todo' \subseteq todo /\ todo' # todo
      BY Zenon
    <2>1. PICK b \in Backends : WalkError(b) \/ WalkAgree(b) \/ WalkBack(b)
      BY StepSplit, Zenon DEF RoundStep, RoundBegin, TryFallbacks, Propose, WalkEnd, FilterOne,
         SetLatest, SetSafe, SetFinalized, SetGroup
    <2>2. CASE WalkError(b) \/ WalkAgree(b)
      BY <2>2, Zenon DEF WalkError, WalkAgree
    <2>3. CASE WalkBack(b)
      BY <2>3, WalkBackEffect
    <2>. QED
      BY <2>1, <2>2, <2>3, Zenon
  <1>. QED
    BY <1>1, <1>2, WalkInvInit, PTL DEF Spec, WalkDescends

\* The consensus block goes back only behind a candidate that is itself behind,
\* when nobody is left, or with a report to the listeners.
THEOREM MoveBacksAreReported ==
    ASSUME SharedGenesis
    PROVE  Spec => MoveBackIsReported
  <1>1. WalkInv /\ [Next]_vars => WalkInv'
    BY WalkInvStep, Zenon
  <1>2. WalkInv /\ [Next]_vars =>
          [tracker'.latest < tracker.latest =>
             \/ broken \/ DOMAIN cand = {}
             \/ \E b \in DOMAIN cand : cand[b].latest < tracker.latest]_vars
    <2>. SUFFICES ASSUME WalkInv, [Next]_vars, tracker'.latest < tracker.latest
                  PROVE  \/ broken \/ DOMAIN cand = {}
                         \/ \E b \in DOMAIN cand : cand[b].latest < tracker.latest
      BY Zenon
    <2>1. tracker.latest \in Int /\ tracker'.latest # tracker.latest
      BY TypeParts DEF WalkInv, RoundType
    <2>2. SetLatest
      <3>1. CASE SetSafe \/ SetFinalized
        BY <2>1, <3>1, TypeParts, Zenon DEF SetSafe, SetFinalized, WalkInv, RoundType
      <3>2. CASE UNCHANGED <<roundVars, publicVars>>
        BY <2>1, <3>2, Zenon DEF publicVars
      <3>. QED
        BY <2>1, <3>1, <3>2, StepSplit, Zenon DEF RoundStep, RoundBegin, TryFallbacks, Propose,
           WalkEnd, FilterOne, WalkError, WalkAgree, WalkBack, SetGroup, publicVars
    <2>3. tracker'.latest = proposed
      BY <2>2, TypeParts, Zenon DEF SetLatest, WalkInv, RoundType
    <2>. QED
      BY <2>2, <2>3, Zenon DEF SetLatest, WalkInv, StartedFromTracker, BrokenIsExact
  <1>. QED
    BY <1>1, <1>2, WalkInvInit, PTL DEF Spec, MoveBackIsReported

-----------------------------------------------------------------------------
(* Forks: every asked candidate agrees, and not on a lower block than needed.*)

\* No backend changes its branch, and no fetch by number fails.
Steady == SharedGenesis /\ ~ CanReorg /\ ~ FetchErrors

\* The candidates that were asked since the last step back have the block of the
\* proposed hash.
AskedAgree ==
    gpc = "walk" =>
      \A b \in DOMAIN cand \ todo : HashAt(branch[b], proposed) = proposedHash

\* After the walk all candidates have the same block at the proposed number.
AllAgree ==
    gpc \in {"setLatest", "setSafe", "setFinalized", "setGroup"} =>
      \A b, c \in DOMAIN cand :
        HashAt(branch[b], proposed) = HashAt(branch[c], proposed)

LatestIsSet ==
    gpc \in {"setSafe", "setFinalized", "setGroup"} => tracker.latest = proposed

AgreeInv == WalkInv /\ AskedAgree /\ AllAgree /\ LatestIsSet /\ ForkIsNotVisible

\* The invariant about agreement holds after NewConsensusPoller.
LEMMA AgreeInvInit == Init => AgreeInv
  BY WalkInvInit, Zenon DEF Init, AgreeInv, AskedAgree, AllAgree, LatestIsSet,
     ForkIsNotVisible

\* Without reorganisations the branches stay.
LEMMA BranchStays ==
    ASSUME ~ CanReorg, [Next]_vars
    PROVE  branch' = branch
  <1>1. ASSUME NEW b \in Backends, HealthChanges(b) \/ Reorg(b) \/ UpdateStep(b)
        PROVE  branch' = branch
    BY <1>1, Zenon DEF HealthChanges, Reorg, UpdateStep, SkipBanned, BanUnhealthy,
       BeginUpdate, FetchFails, SetBackendState, CheckTags, worldVars
  <1>2. ASSUME NEW f \in Fallbacks, GateStep(f) PROVE branch' = branch
    BY <1>2, Zenon DEF GateStep, GateBegin, GateCheck, worldVars
  <1>3. CASE RoundStep
    BY <1>3, ZenonT(40) DEF RoundStep, RoundBegin, TryFallbacks, Propose, WalkEnd, FilterOne,
       WalkError, WalkAgree, WalkBack, SetLatest, SetSafe, SetFinalized, SetGroup,
       worldVars
  <1>4. CASE UNCHANGED vars \/ Tick
    BY <1>4, Zenon DEF vars, Tick, worldVars
  <1>. QED
    BY <1>1, <1>2, <1>3, <1>4, Zenon DEF Next

\* Every step keeps the invariant about agreement.
LEMMA AgreeInvStep ==
    ASSUME Steady, AgreeInv, [Next]_vars
    PROVE  AgreeInv'
  <1>. USE DEF AskedAgree, AllAgree, LatestIsSet, ForkIsNotVisible
  <1>0. /\ SharedGenesis /\ WalkInv /\ WalkInv' /\ RoundType /\ StateType
        /\ branch' = branch
    BY WalkInvStep, BranchStays, TypeParts, Zenon DEF Steady, AgreeInv, WalkInv
  <1>1. CASE UNCHANGED <<roundVars, publicVars>>
    BY <1>0, <1>1, SMTT(40) DEF AgreeInv, roundVars, publicVars
  <1>2. CASE RoundBegin
    BY <1>0, <1>2, Zenon DEF RoundBegin, AgreeInv, publicVars
  <1>3. CASE TryFallbacks
    BY <1>0, <1>3, Zenon DEF TryFallbacks, AgreeInv, publicVars
  <1>4. CASE Propose
    <2>1. /\ DOMAIN cand' = NotLagging /\ proposed' \in 0 .. MaxHeight
          /\ gpc \in {"primaries", "fallbacks"}
          /\ \/ gpc' = "walk" /\ todo' = NotLagging
             \/ gpc' = "setLatest" /\ ~ (proposed' > 0)
          /\ UNCHANGED <<tracker, consensusGroup>>
      BY <1>0, <1>4, ProposedIsSomebodys, Zenon DEF Propose, publicVars
    <2>2. AllAgree'
      <3>1. CASE gpc' = "walk"
        BY <3>1, Zenon
      <3>2. CASE ~ (proposed' > 0)
        <4>1. proposed' = 0
          BY <2>1, <3>2, NumbersAssumption, SMTT(40)
        <4>. QED
          BY <1>0, <4>1, GenesisIsCommon, Zenon
      <3>. QED
        BY <2>1, <3>1, <3>2, Zenon
    <2>. QED
      BY <1>0, <2>1, <2>2, Zenon DEF AgreeInv
  <1>5. CASE WalkEnd
    BY <1>0, <1>5, SMTT(40) DEF WalkEnd, AgreeInv, publicVars
  <1>6. ASSUME NEW b \in Backends, FilterOne(b) PROVE AgreeInv'
    BY <1>0, <1>6, Zenon DEF FilterOne, AgreeInv, publicVars
  <1>7. ASSUME NEW b \in Backends, WalkError(b) PROVE AgreeInv'
    <2>1. FALSE
      BY <1>0, <1>7, NumbersAssumption, SMTT(40)
         DEF WalkError, Steady, WalkInv, WalkInChain, RoundType
    <2>. QED
      BY <2>1, Zenon
  <1>8. ASSUME NEW b \in Backends, WalkAgree(b) PROVE AgreeInv'
    <2>1. PICK a \in BlockAnswers(b, proposed) :
            a.hash = ExpectedHash(a) /\ proposedHash' = a.hash
      BY <1>8, Zenon DEF WalkAgree
    <2>2. a.hash = HashAt(branch[b], proposed)
      BY <1>0, AnswerIsTheBlock, Zenon
    <2>3. ASSUME NEW c \in DOMAIN cand \ todo
          PROVE  HashAt(branch[c], proposed) = proposedHash'
      <3>1. HashAt(branch[c], proposed) = proposedHash
        BY <1>8, Zenon DEF WalkAgree, AgreeInv
      <3>2. proposedHash # NoHash
        BY <1>0, <3>1, HashAtType, SMTT(40) DEF StateType, RoundType
      <3>. QED
        BY <2>1, <3>1, <3>2, Zenon DEF ExpectedHash
    <2>4. AskedAgree'
      BY <1>0, <1>8, <2>1, <2>2, <2>3, ZenonT(40) DEF WalkAgree
    <2>. QED
      BY <1>0, <1>8, <2>4, Zenon DEF WalkAgree, AgreeInv, publicVars
  <1>9. ASSUME NEW b \in Backends, WalkBack(b) PROVE AgreeInv'
    BY <1>0, <1>9, Zenon DEF WalkBack, AgreeInv, publicVars
  <1>10. CASE SetLatest
    BY <1>0, <1>10, Zenon DEF SetLatest, AgreeInv, RoundType
  <1>11. CASE SetSafe \/ SetFinalized
    BY <1>0, <1>11, Zenon DEF SetSafe, SetFinalized, AgreeInv, RoundType
  <1>12. CASE SetGroup
    <2>1. ForkIsNotVisible'
      BY <1>0, <1>12 DEF SetGroup, AgreeInv
    <2>. QED
      BY <1>0, <1>12, <2>1, Zenon DEF SetGroup, AgreeInv
  <1>. QED
    BY <1>1, <1>2, <1>3, <1>4, <1>5, <1>6, <1>7, <1>8, <1>9, <1>10, <1>11, <1>12,
       StepSplit, Zenon DEF RoundStep

\* As long as backends keep their branch and answer the fetches of the walk back,
\* a fork among them is not visible: between two rounds every backend of the
\* consensus group has the same block at the consensus height.
THEOREM ForksAreNotVisible ==
    ASSUME Steady
    PROVE  Spec => []ForkIsNotVisible
  <1>1. AgreeInv => ForkIsNotVisible
    BY Zenon DEF AgreeInv
  <1>2. AgreeInv /\ [Next]_vars => AgreeInv'
    BY AgreeInvStep, Zenon
  <1>. QED
    BY <1>1, <1>2, AgreeInvInit, PTL DEF Spec

\* The hash the poller stores with a latest block is the hash of that block.
HashIsOfBlock(b, t) == t.latest # 0 => t.hash = HashAt(branch[b], t.latest)

StoredHashes ==
    /\ \A b \in Backends : HashIsOfBlock(b, tags[b])
    /\ \A b \in DOMAIN cand : HashIsOfBlock(b, cand[b])

\* The walk asks candidates, and the hash it compares with is the one that a
\* candidate has.
HashIsSomebodys ==
    gpc = "walk" =>
      /\ todo \subseteq DOMAIN cand
      /\ \/ proposedHash = NoHash
         \/ \E c \in DOMAIN cand : proposedHash = HashAt(branch[c], proposed)

\* Two candidates differ at height n, or one has not reached it.
NotShared(n) ==
    (\A b \in DOMAIN cand : n <= cand[b].latest) =>
      \/ DOMAIN cand = {}
      \/ \E b, c \in DOMAIN cand : HashAt(branch[b], n) # HashAt(branch[c], n)

NoneHigher ==
    gpc \in {"walk", "setLatest"} =>
      \A n \in proposed + 1 .. MaxHeight : NotShared(n)

AncestorInv == WalkInv /\ StoredHashes /\ HashIsSomebodys /\ NoneHigher

\* The invariant about common ancestors holds after NewConsensusPoller.
LEMMA AncestorInvInit == Init => AncestorInv
  BY WalkInvInit DEF Init, AncestorInv, StoredHashes, HashIsOfBlock, HashIsSomebodys,
     NoneHigher, NoTags, NoCandidates

\* The updates of the backends keep the stored hashes right.
LEMMA StoredHashesStep ==
    ASSUME ~ CanReorg, StateType, \A b \in Backends : HashIsOfBlock(b, tags[b]),
           [Next]_vars
    PROVE  \A b \in Backends : HashIsOfBlock(b, tags[b])'
  <1>. USE DEF worldVars, updateVars, stateVars, roundVars, publicVars
  <1>0. branch' = branch
    BY BranchStays, Zenon
  <1>1. CASE tags' = tags
    BY <1>0, <1>1, Zenon DEF HashIsOfBlock
  <1>2. ASSUME NEW b \in Backends \ Forced, Ban(b)
        PROVE  \A x \in Backends : HashIsOfBlock(x, tags[x])'
    BY <1>0, <1>2, BanEffect, Zenon DEF HashIsOfBlock, NoBlocks
  <1>3. ASSUME NEW b \in Backends, SetBackendState(b)
        PROVE  \A x \in Backends : HashIsOfBlock(x, tags[x])'
    <2>1. PICK a \in GoodAnswers(b) :
             tags' = [tags EXCEPT ![b] =
                        [latest |-> a.latest, hash |-> HashAt(branch[b], a.latest),
                         safe |-> a.safe, finalized |-> a.finalized]]
      BY <1>3, Zenon DEF SetBackendState
    <2>2. DOMAIN tags = Backends
      BY Zenon DEF StateType
    <2>3. tags'[b].latest = a.latest /\ tags'[b].hash = HashAt(branch[b], a.latest)
      BY <2>1, <2>2, Zenon
    <2>4. \A x \in Backends \ {b} : tags'[x] = tags[x]
      BY <2>1, <2>2, Zenon
    <2>. QED
      BY <1>0, <2>3, <2>4, Zenon DEF HashIsOfBlock
  <1>4. ASSUME NEW b \in Backends, UpdateStep(b)
        PROVE  \A x \in Backends : HashIsOfBlock(x, tags[x])'
    BY <1>1, <1>2, <1>3, <1>4, Zenon DEF UpdateStep, SkipBanned, BanUnhealthy, BeginUpdate,
       FetchFails, CheckTags, Ban
  <1>5. ASSUME NEW b \in Backends, HealthChanges(b) \/ Reorg(b) PROVE tags' = tags
    BY <1>5, Zenon DEF HealthChanges, Reorg
  <1>6. ASSUME NEW f \in Fallbacks, GateStep(f) PROVE tags' = tags
    BY <1>6, Zenon DEF GateStep, GateBegin, GateCheck
  <1>7. CASE RoundStep
    <2>1. tags' = tags
      BY <1>7, Zenon DEF RoundStep, RoundBegin, TryFallbacks, Propose, WalkEnd, FilterOne,
         WalkError, WalkAgree, WalkBack, SetLatest, SetSafe, SetFinalized, SetGroup
    <2>. QED
      BY <1>1, <2>1, Zenon
  <1>8. CASE Tick \/ UNCHANGED vars
    BY <1>1, <1>8, Zenon DEF Tick, vars
  <1>. QED
    BY <1>1, <1>4, <1>5, <1>6, <1>7, <1>8, Zenon DEF Next

\* The hash proposed before the walk is the hash of the block that is proposed.
LEMMA ProposedHashIsSomebodys ==
    ASSUME RoundType, StoredHashes, Propose, proposed' > 0
    PROVE  \E c \in NotLagging : proposedHash' = HashAt(branch[c], proposed')
  <1>1. PICK S \in CountedSets(NotLagging) : ProposeLowest(S)
    BY Zenon DEF Propose
  <1>2. S \subseteq NotLagging /\ NotLagging \subseteq DOMAIN cand
    BY CountedSetsType, Zenon DEF NotLagging
  <1>3. PICK l \in S : proposed' = cand[l].latest /\ proposedHash' = cand[l].hash
    BY <1>1 DEF ProposeLowest
  <1>4. cand[l].latest # 0
    BY <1>3
  <1>. QED
    BY <1>2, <1>3, <1>4, Zenon DEF StoredHashes, HashIsOfBlock

\* The heights a walk has passed by, those above the proposal it is at, are above
\* whatever the proposal is above.
LEMMA PassedByIsAbove ==
    ASSUME NEW p \in Int, NEW m \in Int, NEW x \in Int, x <= p
    PROVE  \A n \in p + 1 .. m : ~ (n <= x)
  OBVIOUS

\* Every step keeps the invariant about common ancestors.
LEMMA AncestorInvStep ==
    ASSUME SharedGenesis, ~ CanReorg, AncestorInv, [Next]_vars
    PROVE  AncestorInv'
  <1>. USE DEF HashIsSomebodys, NoneHigher, NotShared
  <1>0. /\ WalkInv /\ WalkInv' /\ RoundType /\ StateType /\ branch' = branch
        /\ \A b \in Backends : HashIsOfBlock(b, tags[b])'
    BY WalkInvStep, BranchStays, StoredHashesStep, TypeParts, ZenonT(40)
       DEF AncestorInv, WalkInv, StoredHashes
  <1>a. ASSUME \A b \in DOMAIN cand' : b \in DOMAIN cand /\ cand'[b] = cand[b]
        PROVE  StoredHashes'
    BY <1>0, <1>a, Zenon DEF AncestorInv, StoredHashes, HashIsOfBlock
  <1>1. CASE UNCHANGED <<roundVars, publicVars>>
    <2>1. StoredHashes'
      BY <1>a, <1>1, Zenon DEF roundVars
    <2>. QED
      BY <1>0, <1>1, <2>1 DEF AncestorInv, roundVars
  <1>2. CASE RoundBegin \/ TryFallbacks
    <2>1. StoredHashes'
      BY <1>a, <1>2, Zenon DEF RoundBegin, TryFallbacks
    <2>. QED
      BY <1>0, <1>2, <2>1, Zenon DEF RoundBegin, TryFallbacks, AncestorInv
  <1>3. CASE Propose
    <2>1. /\ proposed' \in 0 .. MaxHeight
          /\ DOMAIN cand' = NotLagging /\ \A b \in NotLagging : cand'[b] = cand[b]
          /\ \/ NotLagging = {} /\ proposed' = 0
             \/ \E b \in NotLagging : cand[b].latest <= proposed'
      BY <1>0, <1>3, ProposedIsSomebodys, Zenon
    <2>a. proposed' \in Int /\ MaxHeight \in Int
      BY <2>1, NumbersAssumption, SMTT(40)
    <2>2. StoredHashes'
      BY <1>a, <2>1, Zenon DEF NotLagging
    <2>3. \A b \in NotLagging : cand[b].latest \in Int
      BY <1>0, SMTT(40) DEF NotLagging, RoundType, Tags
    <2>4. NoneHigher'
      <3>1. CASE NotLagging = {}
        BY <2>1, <3>1, Zenon
      <3>2. CASE NotLagging # {}
        <4>1. PICK b \in NotLagging : cand[b].latest <= proposed'
          BY <2>1, <3>2, Zenon
        <4>2. b \in DOMAIN cand' /\ cand'[b].latest = cand[b].latest
          BY <2>1, <4>1, Zenon
        <4>3. /\ b \in DOMAIN cand' /\ cand'[b].latest \in Int
              /\ cand'[b].latest <= proposed'
          BY <2>3, <4>1, <4>2, Zenon
        <4>4. \A n \in proposed' + 1 .. MaxHeight : ~ (n <= cand'[b].latest)
          BY <2>a, <4>3, PassedByIsAbove, Zenon
        <4>. QED
          BY <4>3, <4>4, Zenon
      <3>. QED
        BY <3>1, <3>2, Zenon
    <2>5. HashIsSomebodys'
      BY <1>0, <1>3, <2>1, ProposedHashIsSomebodys, ZenonT(40) DEF AncestorInv, Propose
    <2>. QED
      BY <1>0, <2>2, <2>4, <2>5, Zenon DEF AncestorInv
  <1>4. CASE WalkEnd
    <2>1. StoredHashes'
      BY <1>a, <1>4, Zenon DEF WalkEnd
    <2>. QED
      BY <1>0, <1>4, <2>1 DEF WalkEnd, AncestorInv
  <1>5. ASSUME NEW b \in Backends, FilterOne(b) PROVE AncestorInv'
    <2>1. StoredHashes'
      <3>1. CASE Eligible(b)
        <4>1. cand' = [x \in DOMAIN cand \union {b} |->
                         IF x = b THEN tags[b] ELSE cand[x]]
          BY <1>5, <3>1, Zenon DEF FilterOne
        <4>2. \A x \in DOMAIN cand' :
                \/ x = b /\ cand'[x] = tags[b]
                \/ x \in DOMAIN cand /\ cand'[x] = cand[x]
          BY <4>1, Zenon
        <4>3. UNCHANGED tags
          BY <1>5, Zenon DEF FilterOne, stateVars
        <4>. QED
          BY <1>0, <4>2, <4>3 DEF AncestorInv, StoredHashes, HashIsOfBlock
      <3>2. CASE ~ Eligible(b)
        BY <1>a, <1>5, <3>2, Zenon DEF FilterOne
      <3>. QED
        BY <3>1, <3>2, Zenon
    <2>. QED
      BY <1>0, <1>5, <2>1, Zenon DEF FilterOne, AncestorInv
  <1>6. ASSUME NEW b \in Backends, WalkError(b) PROVE AncestorInv'
    <2>1. StoredHashes'
      BY <1>a, <1>6, Zenon DEF WalkError
    <2>. QED
      BY <1>0, <1>6, <2>1 DEF WalkError, AncestorInv
  <1>7. ASSUME NEW b \in Backends, WalkAgree(b) PROVE AncestorInv'
    <2>0. b \in DOMAIN cand
      BY <1>7, Zenon DEF WalkAgree, AncestorInv
    <2>1. StoredHashes'
      BY <1>a, <1>7, Zenon DEF WalkAgree
    <2>2. proposedHash' = HashAt(branch[b], proposed)
      BY <1>7, AnswerIsTheBlock, Zenon DEF WalkAgree
    <2>. QED
      BY <1>0, <1>7, <2>0, <2>1, <2>2 DEF WalkAgree, AncestorInv
  <1>8. ASSUME NEW b \in Backends, WalkBack(b) PROVE AncestorInv'
    <2>0. b \in DOMAIN cand
      BY <1>8, Zenon DEF WalkBack, AncestorInv
    <2>1. StoredHashes'
      BY <1>a, <1>8, Zenon DEF WalkBack
    <2>2. /\ proposed \in 1 .. MaxHeight /\ proposed' = proposed - 1
          /\ proposedHash \notin {NoHash, HashAt(branch[b], proposed)}
      BY <1>0, <1>8, WalkBackEffect, Zenon
    <2>3. PICK c \in DOMAIN cand : proposedHash = HashAt(branch[c], proposed)
      BY <1>8, <2>2, Zenon DEF WalkBack, AncestorInv
    <2>4. NotShared(proposed)
      BY <2>0, <2>2, <2>3, Zenon
    <2>5. \A n \in proposed' + 1 .. MaxHeight :
            n = proposed \/ n \in proposed + 1 .. MaxHeight
      BY <2>2, NumbersAssumption, SMTT(40)
    <2>6. \A n \in proposed' + 1 .. MaxHeight : NotShared(n)
      BY <1>8, <2>4, <2>5, SMTT(40) DEF WalkBack, AncestorInv
    <2>7. /\ cand' = cand /\ branch' = branch
          /\ proposedHash' = NoHash /\ todo' = DOMAIN cand
      BY <1>0, <1>8, Zenon DEF WalkBack
    <2>8. NoneHigher'
      <3>1. \A n : NotShared(n) => NotShared(n)'
        BY <2>7, Zenon
      <3>. HIDE DEF NotShared
      <3>. QED
        BY <2>6, <3>1, Zenon
    <2>9. HashIsSomebodys'
      BY <2>7, Zenon
    <2>. QED
      BY <1>0, <2>1, <2>8, <2>9, Zenon DEF AncestorInv
  <1>9. CASE SetLatest \/ SetSafe \/ SetFinalized
    <2>1. StoredHashes'
      BY <1>a, <1>9, Zenon DEF SetLatest, SetSafe, SetFinalized
    <2>. QED
      BY <1>0, <1>9, <2>1, Zenon DEF SetLatest, SetSafe, SetFinalized, AncestorInv
  <1>10. CASE SetGroup
    <2>1. StoredHashes'
      BY <1>a, <1>10, Zenon DEF SetGroup, NoCandidates
    <2>. QED
      BY <1>0, <1>10, <2>1, Zenon DEF SetGroup, AncestorInv
  <1>. QED
    BY <1>1, <1>2, <1>3, <1>4, <1>5, <1>6, <1>7, <1>8, <1>9, <1>10, StepSplit, Zenon
       DEF RoundStep

\* As long as backends keep their branch, the walk back stops at the highest
\* common ancestor: whatever fetches fail, it goes back only where two candidates
\* really differ.
THEOREM StopsAtCommonAncestor ==
    ASSUME SharedGenesis, ~ CanReorg
    PROVE  Spec => []HighestCommonAncestor
  <1>1. AncestorInv => HighestCommonAncestor
    BY Zenon DEF AncestorInv, NoneHigher, NotShared, HighestCommonAncestor
  <1>2. AncestorInv /\ [Next]_vars => AncestorInv'
    BY AncestorInvStep, Zenon
  <1>. QED
    BY <1>1, <1>2, AncestorInvInit, PTL DEF Spec

-----------------------------------------------------------------------------
(* What is published is not ahead of the group.                            *)

\* No candidate has the cleared state: no backend is forced, and a ban outlasts
\* the time an update counts as recent.
BansOutlastUpdates == Forced = {} /\ BanPeriod > MaxUpdateThreshold

\* Every answer the poller accepts is further from block 0 than a candidate may
\* lag: a candidate without blocks, as a forced one may be, lags every other.
AnswersAboveLag == \A b \in Backends : \A a \in GoodAnswers(b) : a.latest > MaxBlockLag

ClearedOrAboveLag(t) == NoBlocks(t) \/ (HasBlocks(t) /\ t.latest > MaxBlockLag)

StoredAboveLag == AnswersAboveLag => \A b \in Backends : ClearedOrAboveLag(tags[b])

CandidatesSet ==
    /\ BansOutlastUpdates => \A b \in DOMAIN cand : HasBlocks(cand[b])
    /\ AnswersAboveLag => \A b \in DOMAIN cand : ClearedOrAboveLag(cand[b])

\* The numbers the round will publish are lower bounds for its candidates, and
\* each setter publishes its number.
LowerBounds ==
    /\ gpc \in {"walk", "setLatest", "setSafe", "setFinalized", "setGroup"} =>
         \A b \in DOMAIN cand :
           /\ proposed <= cand[b].latest
           /\ lowestSafe <= cand[b].safe
           /\ lowestFinalized <= cand[b].finalized
    /\ gpc \in {"setSafe", "setFinalized", "setGroup"} => tracker.latest = proposed
    /\ gpc \in {"setFinalized", "setGroup"} => tracker.safe = lowestSafe
    /\ gpc = "setGroup" => tracker.finalized = lowestFinalized

LowestInv == WalkInv /\ BanInv /\ StoredAboveLag /\ CandidatesSet /\ LowerBounds

\* The invariant about the lowest numbers holds after NewConsensusPoller.
LEMMA LowestInvInit == Init => LowestInv
  <1>1. Init => \A b \in Backends : NoBlocks(tags[b])
    BY DEF Init, NoBlocks, NoTags
  <1>2. Init => StoredAboveLag
    BY <1>1, Zenon DEF StoredAboveLag, ClearedOrAboveLag
  <1>3. Init => CandidatesSet /\ LowerBounds
    BY Zenon DEF Init, CandidatesSet, LowerBounds, NoCandidates
  <1>. QED
    BY <1>2, <1>3, WalkInvInit, BanInvInit, Zenon DEF LowestInv

\* A backend that FilterCandidates takes has numbers for all three tags.
LEMMA EligibleHasBlocks ==
    ASSUME BanInv, BansOutlastUpdates, NEW b \in Backends, Eligible(b)
    PROVE  HasBlocks(tags[b])
  <1>1. age[b] <= MaxUpdateThreshold /\ ~ (banLeft[b] > 0)
    BY Zenon DEF BansOutlastUpdates, Eligible, IsBanned
  <1>2. age[b] \in Nat /\ banLeft[b] = 0
    BY <1>1, PeriodsAssumption, SMTT(40) DEF BanInv, StateType
  <1>3. HasBlocks(tags[b]) \/ age[b] > MaxUpdateThreshold \/ age[b] + banLeft[b] >= BanPeriod
    BY ZenonT(40) DEF BanInv, ClearedIsOld
  <1>. QED
    BY <1>1, <1>2, <1>3, PeriodsAssumption DEF BansOutlastUpdates

\* UpdateBackend stores numbers above the lag, and Ban clears them.
LEMMA StoredAboveLagStep ==
    ASSUME StateType, AnswersAboveLag, \A b \in Backends : ClearedOrAboveLag(tags[b]),
           [Next]_vars
    PROVE  \A b \in Backends : ClearedOrAboveLag(tags[b])'
  <1>. USE DEF worldVars, updateVars, stateVars, roundVars, publicVars
  <1>1. CASE tags' = tags
    BY <1>1, Zenon DEF ClearedOrAboveLag
  <1>2. ASSUME NEW b \in Backends \ Forced, Ban(b)
        PROVE  \A x \in Backends : ClearedOrAboveLag(tags[x])'
    <2>1. NoBlocks(tags'[b]) /\ \A x \in Backends \ {b} : tags'[x] = tags[x]
      BY <1>2, BanEffect, Zenon
    <2>. QED
      BY <2>1, Zenon DEF ClearedOrAboveLag
  <1>3. ASSUME NEW b \in Backends, SetBackendState(b)
        PROVE  \A x \in Backends : ClearedOrAboveLag(tags[x])'
    <2>1. PICK a \in GoodAnswers(b) :
             tags' = [tags EXCEPT ![b] =
                        [latest |-> a.latest, hash |-> HashAt(branch[b], a.latest),
                         safe |-> a.safe, finalized |-> a.finalized]]
      BY <1>3, Zenon DEF SetBackendState
    <2>2. DOMAIN tags = Backends
      BY Zenon DEF StateType
    <2>3. /\ tags'[b].latest = a.latest /\ tags'[b].safe = a.safe
          /\ tags'[b].finalized = a.finalized
      BY <2>1, <2>2, Zenon
    <2>4. a.latest > MaxBlockLag /\ a.latest # 0 /\ a.safe # 0 /\ a.finalized # 0
      BY Zenon DEF AnswersAboveLag, GoodAnswers
    <2>5. \A x \in Backends \ {b} : tags'[x] = tags[x]
      BY <2>1, <2>2, Zenon
    <2>. QED
      BY <2>3, <2>4, <2>5, Zenon DEF ClearedOrAboveLag, HasBlocks
  <1>4. ASSUME NEW b \in Backends, UpdateStep(b)
        PROVE  \A x \in Backends : ClearedOrAboveLag(tags[x])'
    BY <1>1, <1>2, <1>3, <1>4, Zenon DEF UpdateStep, SkipBanned, BanUnhealthy, BeginUpdate,
       FetchFails, CheckTags, Ban
  <1>5. ASSUME NEW b \in Backends, HealthChanges(b) \/ Reorg(b) PROVE tags' = tags
    BY <1>5, Zenon DEF HealthChanges, Reorg
  <1>6. ASSUME NEW f \in Fallbacks, GateStep(f) PROVE tags' = tags
    BY <1>6, Zenon DEF GateStep, GateBegin, GateCheck
  <1>7. CASE RoundStep
    <2>1. tags' = tags
      BY <1>7, Zenon DEF RoundStep, RoundBegin, TryFallbacks, Propose, WalkEnd, FilterOne,
         WalkError, WalkAgree, WalkBack, SetLatest, SetSafe, SetFinalized, SetGroup
    <2>. QED
      BY <1>1, <2>1, Zenon
  <1>8. CASE Tick \/ UNCHANGED vars
    BY <1>1, <1>8, Zenon DEF Tick, vars
  <1>. QED
    BY <1>1, <1>4, <1>5, <1>6, <1>7, <1>8, Zenon DEF Next

\* When one of the candidates kept has no blocks, none has: it would lag the others.
LEMMA AllOrNoneCleared ==
    ASSUME RoundType, CandidatesSet, BansOutlastUpdates \/ AnswersAboveLag,
           NEW c \in NotLagging, cand[c].latest = 0
    PROVE  \A b \in NotLagging : NoBlocks(cand[b])
  <1>1. ~ BansOutlastUpdates /\ AnswersAboveLag
    BY Zenon DEF CandidatesSet, HasBlocks, NotLagging
  <1>2. \A b \in DOMAIN cand : ClearedOrAboveLag(cand[b])
    BY <1>1, Zenon DEF CandidatesSet
  <1>. SUFFICES ASSUME NEW b \in NotLagging PROVE NoBlocks(cand[b])
    OBVIOUS
  <1>3. b \in DOMAIN cand /\ cand[b].latest - cand[c].latest <= MaxBlockLag
    BY Zenon DEF NotLagging
  <1>4. cand[b].latest \in Int
    BY <1>3, NumbersAssumption DEF RoundType, Tags
  <1>5. ~ (cand[b].latest > MaxBlockLag)
    BY <1>3, <1>4, NumbersAssumption
  <1>. QED
    BY <1>2, <1>3, <1>5, Zenon DEF ClearedOrAboveLag

\* The numbers proposed are lower bounds for all the candidates kept.
LEMMA ProposesLowest ==
    ASSUME RoundType, CandidatesSet, Propose, BansOutlastUpdates \/ AnswersAboveLag
    PROVE  \A b \in NotLagging : /\ proposed' <= cand[b].latest
                                /\ lowestSafe' <= cand[b].safe
                                /\ lowestFinalized' <= cand[b].finalized
  <1>1. PICK S \in CountedSets(NotLagging) : ProposeLowest(S)
    BY Zenon DEF Propose
  <1>2. CASE \A b \in NotLagging : cand[b].latest # 0
    <2>1. S = NotLagging
      BY <1>2, Zenon DEF CountedSets
    <2>. QED
      BY <1>1, <2>1 DEF ProposeLowest
  <1>3. ASSUME NEW c \in NotLagging, cand[c].latest = 0
        PROVE  \A b \in NotLagging : /\ proposed' <= cand[b].latest
                                    /\ lowestSafe' <= cand[b].safe
                                    /\ lowestFinalized' <= cand[b].finalized
    <2>1. \A b \in NotLagging : NoBlocks(cand[b])
      BY <1>3, AllOrNoneCleared, Zenon
    <2>2. S \subseteq {b \in NotLagging : cand[b].latest > 0}
      BY <1>3, Zenon DEF CountedSets
    <2>3. S = {}
      BY <2>1, <2>2 DEF NoBlocks
    <2>4. proposed' = 0 /\ lowestSafe' = 0 /\ lowestFinalized' = 0
      BY <1>1, <2>3, Zenon DEF ProposeLowest
    <2>. QED
      BY <2>1, <2>4 DEF NoBlocks
  <1>. QED
    BY <1>2, <1>3, Zenon

\* Every step keeps the invariant about the lowest numbers.
LEMMA LowestInvStep ==
    ASSUME SharedGenesis, BansOutlastUpdates \/ AnswersAboveLag, LowestInv, [Next]_vars
    PROVE  LowestInv'
  <1>. USE DEF LowerBounds, CandidatesSet
  <1>a. StoredAboveLag'
    BY StoredAboveLagStep, Zenon DEF LowestInv, BanInv, StoredAboveLag, AnswersAboveLag
  <1>0. WalkInv /\ WalkInv' /\ BanInv /\ BanInv' /\ RoundType /\ StoredAboveLag'
    BY <1>a, WalkInvStep, BanInvStep, TypeParts, Zenon DEF LowestInv, WalkInv
  <1>1. CASE UNCHANGED <<roundVars, publicVars>>
    BY <1>0, <1>1, Zenon DEF LowestInv, roundVars, publicVars
  <1>2. CASE RoundBegin \/ TryFallbacks
    BY <1>0, <1>2, Zenon DEF RoundBegin, TryFallbacks, LowestInv
  <1>3. CASE Propose
    <2>1. /\ DOMAIN cand' = NotLagging /\ NotLagging \subseteq DOMAIN cand
          /\ \A b \in NotLagging : cand'[b] = cand[b]
          /\ gpc' \in {"walk", "setLatest"}
      BY <1>3, ZenonT(40) DEF Propose, NotLagging
    <2>2. \A b \in NotLagging : /\ proposed' <= cand[b].latest
                               /\ lowestSafe' <= cand[b].safe
                               /\ lowestFinalized' <= cand[b].finalized
      BY <1>0, <1>3, ProposesLowest, Zenon DEF LowestInv
    <2>3. CandidatesSet'
      BY <2>1, Zenon DEF LowestInv, HasBlocks, NoBlocks, ClearedOrAboveLag
    <2>. QED
      BY <1>0, <2>1, <2>2, <2>3, Zenon DEF LowestInv
  <1>4. CASE WalkEnd
    BY <1>0, <1>4, Zenon DEF WalkEnd, LowestInv
  <1>5. ASSUME NEW b \in Backends, FilterOne(b) PROVE LowestInv'
    <2>1. CASE Eligible(b)
      <3>1. cand' = [x \in DOMAIN cand \union {b} |->
                       IF x = b THEN tags[b] ELSE cand[x]]
        BY <1>5, <2>1, Zenon DEF FilterOne
      <3>2. /\ BansOutlastUpdates => HasBlocks(tags[b])
            /\ AnswersAboveLag => ClearedOrAboveLag(tags[b])
        BY <1>0, <2>1, EligibleHasBlocks, Zenon DEF LowestInv, StoredAboveLag
      <3>3. \A x \in DOMAIN cand' :
              \/ x = b /\ cand'[x] = tags[b]
              \/ x \in DOMAIN cand /\ cand'[x] = cand[x]
        BY <3>1, Zenon
      <3>4. CandidatesSet'
        BY <3>2, <3>3, Zenon DEF LowestInv, HasBlocks, NoBlocks, ClearedOrAboveLag
      <3>. QED
        BY <1>0, <1>5, <3>4, Zenon DEF FilterOne, LowestInv
    <2>2. CASE ~ Eligible(b)
      BY <1>0, <1>5, <2>2, Zenon DEF FilterOne, LowestInv
    <2>. QED
      BY <2>1, <2>2, Zenon
  <1>6. ASSUME NEW b \in Backends, WalkError(b) PROVE LowestInv'
    BY <1>0, <1>6, ZenonT(40) DEF WalkError, LowestInv
  <1>7. ASSUME NEW b \in Backends, WalkAgree(b) PROVE LowestInv'
    BY <1>0, <1>7, Zenon DEF WalkAgree, LowestInv
  <1>8. ASSUME NEW b \in Backends, WalkBack(b) PROVE LowestInv'
    <2>1. proposed \in Int /\ proposed' = proposed - 1
      BY <1>0, <1>8, WalkBackEffect, SMTT(40)
    <2>2. \A x \in DOMAIN cand : proposed' <= cand[x].latest
      BY <1>0, <1>8, <2>1 DEF WalkBack, LowestInv, RoundType, Tags
    <2>. QED
      BY <1>0, <1>8, <2>2, Zenon DEF WalkBack, LowestInv
  <1>9. CASE SetLatest
    BY <1>0, <1>9, Zenon DEF SetLatest, LowestInv, RoundType
  <1>10. CASE SetSafe
    BY <1>0, <1>10, Zenon DEF SetSafe, LowestInv, RoundType
  <1>11. CASE SetFinalized
    BY <1>0, <1>11, Zenon DEF SetFinalized, LowestInv, RoundType
  <1>12. CASE SetGroup
    BY <1>0, <1>12, Zenon DEF SetGroup, LowestInv, NoCandidates
  <1>. QED
    BY <1>1, <1>2, <1>3, <1>4, <1>5, <1>6, <1>7, <1>8, <1>9, <1>10, <1>11, <1>12,
       StepSplit, Zenon DEF RoundStep

\* No consensus number is above the number a backend of the group had when the
\* round looked at it: the rewritten tags name blocks they all have reached.  Either
\* no candidate is without blocks, or such a candidate lags all the others.
THEOREM GroupHasConsensusBlocks ==
    ASSUME SharedGenesis, BansOutlastUpdates \/ AnswersAboveLag
    PROVE  Spec => []ConsensusNotAheadOfGroup
  <1>1. LowestInv => ConsensusNotAheadOfGroup
    BY Zenon DEF LowestInv, LowerBounds, ConsensusNotAheadOfGroup
  <1>2. LowestInv /\ [Next]_vars => LowestInv'
    BY LowestInvStep, Zenon
  <1>. QED
    BY <1>1, <1>2, LowestInvInit, PTL DEF Spec

=============================================================================
