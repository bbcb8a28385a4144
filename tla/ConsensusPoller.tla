-------------------------- MODULE ConsensusPoller --------------------------
(***************************************************************************)
(* The consensus poller of one backend group (consensus_poller.go).        *)
(*                                                                         *)
(* PollerAsyncHandler.Init starts one goroutine per backend, which runs    *)
(* UpdateBackend in a loop, and one goroutine for the group, which runs    *)
(* UpdateBackendGroupConsensus in a loop.  They share the backendState of  *)
(* every backend, each under its own mutex, the tracker and consensusGroup.*)
(*                                                                         *)
(* An action is what a goroutine does between two points where another one *)
(* can interfere: a network call, the release of a mutex, the passing of   *)
(* time.  Durations are whole ticks: age is the time since lastUpdate      *)
(* (capped once it is over the threshold), banLeft what is left of a ban.  *)
(***************************************************************************)
EXTENDS Integers

CONSTANTS
    Primaries, Fallbacks,     \* the backends of the group, by tier
    Forced,                   \* backends with forcedCandidate
    SkipPeerCount,            \* backends with skipPeerCountCheck
    BanPeriod, MaxUpdateThreshold, MaxBlockLag, MinPeerCount,
    MaxUint,                  \* the largest value of the integer type (2^64-1)
    MaxHeight,                \* bound: no backend holds a block above it
    TagAnswers,               \* per backend, what it may answer for the three tags
    PeerAnswers,              \* what a backend may answer for its peer count
    SyncAnswers,              \* whether it may say it is in sync
    Branches, Common,         \* hashes: above and up to the fork height
    NoHash,                   \* the empty hash
    ForkHeight,               \* the branches share the blocks up to here
    StrayNumbers,             \* numbers of a wrong block answered by number
    FetchErrors,              \* whether a fetch by number may fail
    CanReorg, CanDegrade      \* whether branches and health may change

Backends == Primaries \union Fallbacks

ASSUME TiersAssumption == Primaries \intersect Fallbacks = {}

ASSUME PeriodsAssumption ==
    /\ BanPeriod \in Nat \ {0}
    /\ MaxUpdateThreshold \in Nat

ASSUME NumbersAssumption ==
    /\ MaxUint \in Nat /\ MaxHeight \in 0 .. MaxUint
    /\ MaxBlockLag \in Nat /\ MinPeerCount \in Nat /\ ForkHeight \in Int
    /\ StrayNumbers \subseteq 0 .. MaxUint /\ PeerAnswers \subseteq Nat

ASSUME AnswersAssumption ==
    /\ \A b \in Backends :
         TagAnswers[b] \subseteq [latest : 0 .. MaxHeight, safe : 0 .. MaxHeight,
                                 finalized : 0 .. MaxHeight]
    /\ SyncAnswers \subseteq BOOLEAN
    /\ {FetchErrors, CanReorg, CanDegrade} \subseteq BOOLEAN

ASSUME HashesAssumption == NoHash \notin Branches \union {Common}

VARIABLES
    tags, peerCount, inSync, age, banLeft,       \* backendState
    healthy, branch,                             \* the backends themselves
    pc, prev, gate,                              \* the backend goroutines
    gpc, current, todo, cand,                    \* the group goroutine:
    proposed, proposedHash, lowestSafe, lowestFinalized, broken,
    tracker, consensusGroup                      \* what it publishes

stateVars == <<tags, peerCount, inSync, age, banLeft>>
worldVars == <<healthy, branch>>
updateVars == <<pc, prev, gate>>
roundVars == <<gpc, current, todo, cand, proposed, proposedHash, lowestSafe,
               lowestFinalized, broken>>
publicVars == <<tracker, consensusGroup>>
vars == <<stateVars, worldVars, updateVars, roundVars, publicVars>>

Hashes == Branches \union {Common, NoHash}
Tags == [latest : 0 .. MaxHeight, hash : Hashes, safe : 0 .. MaxHeight,
         finalized : 0 .. MaxHeight]
NoTags == [latest |-> 0, hash |-> NoHash, safe |-> 0, finalized |-> 0]
NoCandidates == [b \in {} |-> NoTags]

Init ==
    /\ tags = [b \in Backends |-> NoTags]
    /\ peerCount = [b \in Backends |-> 0]
    /\ inSync = [b \in Backends |-> FALSE]
    /\ age = [b \in Backends |-> MaxUpdateThreshold + 1]
    /\ banLeft = [b \in Backends |-> 0]
    /\ healthy = [b \in Backends |-> TRUE]
    /\ branch \in [Backends -> Branches]
    /\ pc = [b \in Backends |-> "idle"]
    /\ prev = [b \in Backends |-> NoTags]
    /\ gate = [b \in Fallbacks |-> {}]
    /\ gpc = "idle" /\ current = 0 /\ todo = {} /\ cand = NoCandidates
    /\ proposed = 0 /\ proposedHash = NoHash
    /\ lowestSafe = 0 /\ lowestFinalized = 0 /\ broken = FALSE
    /\ tracker = [latest |-> 0, safe |-> 0, finalized |-> 0]
    /\ consensusGroup = {}

-----------------------------------------------------------------------------
(* The world the poller observes.                                          *)

\* The hash of block n on a branch.
HashAt(br, n) == IF n <= ForkHeight THEN Common ELSE br

\* A ban one tick later.
Elapse(n) == IF n = 0 THEN 0 ELSE n - 1

\* One tick of the clock: lastUpdate gets older, bans run out.
Tick ==
    /\ age' = [b \in Backends |->
                 IF age[b] > MaxUpdateThreshold THEN age[b] ELSE age[b] + 1]
    /\ banLeft' = [b \in Backends |-> Elapse(banLeft[b])]
    /\ UNCHANGED <<tags, peerCount, inSync, worldVars, updateVars, roundVars,
                   publicVars>>

\* The error rate or the latency of a backend crosses its threshold.
HealthChanges(b) ==
    /\ CanDegrade
    /\ healthy' = [healthy EXCEPT ![b] = ~ @]
    /\ UNCHANGED <<stateVars, branch, updateVars, roundVars, publicVars>>

\* A backend switches to another branch of the chain.
Reorg(b) ==
    /\ CanReorg
    /\ \E br \in Branches : branch' = [branch EXCEPT ![b] = br]
    /\ UNCHANGED <<stateVars, healthy, updateVars, roundVars, publicVars>>

-----------------------------------------------------------------------------
(* UpdateBackend, run by the goroutine of backend b.                       *)

IsBanned(b) == banLeft[b] > 0

\* Ban: a no-op on a forced candidate.  It clears the three numbers and
\* leaves the hash, the peer count, the sync state and lastUpdate alone.
Ban(b) ==
    IF b \in Forced
      THEN UNCHANGED <<tags, banLeft>>
      ELSE /\ banLeft' = [banLeft EXCEPT ![b] = BanPeriod]
           /\ tags' = [tags EXCEPT ![b] = [NoTags EXCEPT !.hash = tags[b].hash]]

MutantEligibleWhenStale(b) ==
    \/ b \in Forced
    \/ /\ ~ IsBanned(b) /\ healthy[b] /\ inSync[b]
       /\ b \in SkipPeerCount \/ peerCount[b] >= MinPeerCount

\* The conditions of FilterCandidates on one backend, the lag excepted.
Eligible(b) ==
    \/ b \in Forced
    \/ /\ ~ IsBanned(b)
       /\ healthy[b]
       /\ b \in SkipPeerCount \/ peerCount[b] >= MinPeerCount
       /\ inSync[b]
       /\ age[b] <= MaxUpdateThreshold

\* The goroutine of a fallback first filters the primaries, one after the
\* other, and calls UpdateBackend only when none is a candidate.
GateBegin(f) ==
    /\ pc[f] = "idle"
    /\ pc' = [pc EXCEPT ![f] = "gate"]
    /\ gate' = [gate EXCEPT ![f] = Primaries]
    /\ UNCHANGED <<stateVars, worldVars, prev, roundVars, publicVars>>

MutantGateCheck(f) ==
    /\ pc[f] = "gate"
    /\ \E p \in gate[f] :
         IF Eligible(p)
           THEN /\ gate' = [gate EXCEPT ![f] = @ \ {p}]
                /\ pc' = pc
           ELSE /\ pc' = [pc EXCEPT ![f] = "idle"]
                /\ gate' = [gate EXCEPT ![f] = {}]
    /\ UNCHANGED <<stateVars, worldVars, prev, roundVars, publicVars>>

GateCheck(f) ==
    /\ pc[f] = "gate"
    /\ \E p \in gate[f] :
         IF Eligible(p)
           THEN /\ pc' = [pc EXCEPT ![f] = "idle"]
                /\ gate' = [gate EXCEPT ![f] = {}]
           ELSE /\ gate' = [gate EXCEPT ![f] = @ \ {p}]
                /\ pc' = pc
    /\ UNCHANGED <<stateVars, worldVars, prev, roundVars, publicVars>>

\* The goroutine of b is about to call UpdateBackend(b).
AtUpdate(b) ==
    \/ b \in Primaries /\ pc[b] = "idle"
    \/ b \in Fallbacks /\ pc[b] = "gate" /\ gate[b] = {}

\* UpdateBackend returns at once when the backend is banned.
SkipBanned(b) ==
    /\ AtUpdate(b)
    /\ IsBanned(b)
    /\ pc' = [pc EXCEPT ![b] = "idle"]
    /\ UNCHANGED <<stateVars, worldVars, prev, gate, roundVars, publicVars>>

BanUnhealthy(b) ==
    /\ AtUpdate(b)
    /\ ~ IsBanned(b)
    /\ ~ healthy[b] /\ b \notin Forced
    /\ Ban(b)
    /\ pc' = [pc EXCEPT ![b] = "idle"]
    /\ UNCHANGED <<peerCount, inSync, age, worldVars, prev, gate, roundVars,
                   publicVars>>

MutantBeginWhenBanned(b) ==
    /\ AtUpdate(b)
    /\ healthy[b] \/ b \in Forced
    /\ prev' = [prev EXCEPT ![b] = tags[b]]
    /\ pc' = [pc EXCEPT ![b] = "fetch"]
    /\ UNCHANGED <<stateVars, worldVars, gate, roundVars, publicVars>>

\* The copy of the state is taken, the five requests are about to be sent.
BeginUpdate(b) ==
    /\ AtUpdate(b)
    /\ ~ IsBanned(b)
    /\ healthy[b] \/ b \in Forced
    /\ prev' = [prev EXCEPT ![b] = tags[b]]
    /\ pc' = [pc EXCEPT ![b] = "fetch"]
    /\ UNCHANGED <<stateVars, worldVars, gate, roundVars, publicVars>>

\* A request fails, or answers zero peers or block number zero: return.
FetchFails(b) ==
    /\ pc[b] = "fetch"
    /\ pc' = [pc EXCEPT ![b] = "idle"]
    /\ prev' = [prev EXCEPT ![b] = NoTags]
    /\ UNCHANGED <<stateVars, worldVars, gate, roundVars, publicVars>>

\* The answers UpdateBackend accepts.
GoodAnswers(b) == {a \in TagAnswers[b] : 0 \notin {a.latest, a.safe, a.finalized}}
GoodPeers(b) == IF b \in SkipPeerCount THEN {0} ELSE PeerAnswers \ {0}

\* All requests were answered: setBackendState stores the answers, before
\* they are compared with the copy.
SetBackendState(b) ==
    /\ pc[b] = "fetch"
    /\ \E a \in GoodAnswers(b), n \in GoodPeers(b), s \in SyncAnswers :
         /\ tags' = [tags EXCEPT ![b] =
                       [latest |-> a.latest, hash |-> HashAt(branch[b], a.latest),
                        safe |-> a.safe, finalized |-> a.finalized]]
         /\ peerCount' = [peerCount EXCEPT ![b] = n]
         /\ inSync' = [inSync EXCEPT ![b] = s]
    /\ age' = [age EXCEPT ![b] = 0]
    /\ pc' = [pc EXCEPT ![b] = "check"]
    /\ UNCHANGED <<banLeft, worldVars, prev, gate, roundVars, publicVars>>

MutantSafeMayDecrease(old, new) ==
    /\ new.finalized >= old.finalized
    /\ new.finalized <= new.safe
    /\ new.safe <= new.latest

CheckExpectedBlockTags(old, new) ==
    /\ new.finalized >= old.finalized
    /\ new.safe >= old.safe
    /\ new.finalized <= new.safe
    /\ new.safe <= new.latest

CheckTags(b) ==
    /\ pc[b] = "check"
    /\ IF CheckExpectedBlockTags(prev[b], tags[b])
         THEN UNCHANGED <<tags, banLeft>>
         ELSE Ban(b)
    /\ pc' = [pc EXCEPT ![b] = "idle"]
    /\ prev' = [prev EXCEPT ![b] = NoTags]
    /\ UNCHANGED <<peerCount, inSync, age, worldVars, gate, roundVars,
                   publicVars>>

-----------------------------------------------------------------------------
(* UpdateBackendGroupConsensus, run by the goroutine of the group.         *)

RoundBegin ==
    /\ gpc = "idle"
    /\ gpc' = "primaries"
    /\ current' = tracker.latest
    /\ todo' = Primaries
    /\ UNCHANGED <<stateVars, worldVars, updateVars, cand, proposed,
                   proposedHash, lowestSafe, lowestFinalized, broken, publicVars>>

\* FilterCandidates copies the state of one backend under its mutex, and keeps
\* the copy when the backend is eligible at that moment.
FilterOne(b) ==
    /\ gpc \in {"primaries", "fallbacks"}
    /\ b \in todo
    /\ todo' = todo \ {b}
    /\ cand' = IF Eligible(b)
                 THEN [x \in DOMAIN cand \union {b} |->
                         IF x = b THEN tags[b] ELSE cand[x]]
                 ELSE cand
    /\ UNCHANGED <<stateVars, worldVars, updateVars, gpc, current, proposed,
                   proposedHash, lowestSafe, lowestFinalized, broken, publicVars>>

MutantNotLagging == DOMAIN cand

\* The candidates that are not lagging the highest latest block.
NotLagging ==
    {b \in DOMAIN cand : \A x \in DOMAIN cand :
                           cand[x].latest - cand[b].latest <= MaxBlockLag}

\* getConsensusCandidates turns to the fallbacks when no primary is left.
TryFallbacks ==
    /\ gpc = "primaries" /\ todo = {}
    /\ NotLagging = {}
    /\ gpc' = "fallbacks"
    /\ todo' = Fallbacks
    /\ UNCHANGED <<stateVars, worldVars, updateVars, current, cand, proposed,
                   proposedHash, lowestSafe, lowestFinalized, broken, publicVars>>

\* The loop that looks for the lowest numbers takes 0 for "not set yet": after
\* a candidate without blocks it starts again from the next one.  The numbers
\* are those of the candidates it meets after the last such candidate, in the
\* random order of the map.
CountedSets(C) ==
    IF \E b \in C : cand[b].latest = 0
      THEN SUBSET {b \in C : cand[b].latest > 0}
      ELSE {C}

\* The lowest numbers of the set that counts (l, s and f are members that have
\* them), 0 when there is none.
ProposeLowest(S) ==
    \/ /\ S = {}
       /\ proposed' = 0 /\ proposedHash' = NoHash
       /\ lowestSafe' = 0 /\ lowestFinalized' = 0
    \/ \E l, s, f \in S :
         /\ \A b \in S : /\ cand[l].latest <= cand[b].latest
                         /\ cand[s].safe <= cand[b].safe
                         /\ cand[f].finalized <= cand[b].finalized
         /\ proposed' = cand[l].latest /\ proposedHash' = cand[l].hash
         /\ lowestSafe' = cand[s].safe
         /\ lowestFinalized' = cand[f].finalized

Propose ==
    /\ gpc \in {"primaries", "fallbacks"} /\ todo = {}
    /\ gpc = "fallbacks" \/ NotLagging # {}
    /\ \E S \in CountedSets(NotLagging) : ProposeLowest(S)
    /\ cand' = [b \in NotLagging |-> cand[b]]
    /\ IF proposed' > 0
         THEN gpc' = "walk" /\ todo' = NotLagging
         ELSE gpc' = "setLatest" /\ todo' = {}
    /\ broken' = FALSE
    /\ UNCHANGED <<stateVars, worldVars, updateVars, current, publicVars>>

\* What fetchBlock may answer for a number: the block of the branch the backend
\* is on, or another block.
BlockAnswers(b, n) ==
    [number : {n} \intersect (0 .. MaxHeight), hash : {HashAt(branch[b], n)}]
      \union [number : StrayNumbers, hash : {Common}]

\* A failed fetch is skipped: the candidate counts as agreeing.
WalkError(b) ==
    /\ gpc = "walk" /\ b \in todo
    /\ FetchErrors \/ proposed > MaxHeight
    /\ todo' = todo \ {b}
    /\ UNCHANGED <<stateVars, worldVars, updateVars, gpc, current, cand, proposed,
                   proposedHash, lowestSafe, lowestFinalized, broken, publicVars>>

MutantAnyHash(a) == a.hash

\* proposedBlockHash, or the first actual hash once it was reset.
ExpectedHash(a) == IF proposedHash = NoHash THEN a.hash ELSE proposedHash

WalkAgree(b) ==
    /\ gpc = "walk" /\ b \in todo
    /\ \E a \in BlockAnswers(b, proposed) :
         /\ a.number = proposed /\ a.hash = ExpectedHash(a)
         /\ proposedHash' = a.hash
    /\ todo' = todo \ {b}
    /\ UNCHANGED <<stateVars, worldVars, updateVars, gpc, current, cand, proposed,
                   lowestSafe, lowestFinalized, broken, publicVars>>

MutantBreaksAnyway(a) == TRUE
MutantNeverBreaks(a) == FALSE

\* The block that differs is not above the current consensus.
BreaksConsensus(a) == current >= a.number

MutantTwoBehind(n) == IF n < 2 THEN MaxUint ELSE n - 2
MutantStandStill(n) == n

\* One block behind, in unsigned arithmetic.
OneBehind(n) == IF n = 0 THEN MaxUint ELSE n - 1

\* A different block: walk one block behind and ask every candidate again.
WalkBack(b) ==
    /\ gpc = "walk" /\ b \in todo
    /\ \E a \in BlockAnswers(b, proposed) :
         /\ a.number # proposed \/ a.hash # ExpectedHash(a)
         /\ broken' = (broken \/ BreaksConsensus(a))
    /\ proposed' = OneBehind(proposed)
    /\ proposedHash' = NoHash
    /\ todo' = DOMAIN cand
    /\ UNCHANGED <<stateVars, worldVars, updateVars, gpc, current, cand,
                   lowestSafe, lowestFinalized, publicVars>>

\* Every candidate was asked: the listeners are called when consensus broke.
WalkEnd ==
    /\ gpc = "walk" /\ todo = {}
    /\ gpc' = "setLatest"
    /\ UNCHANGED <<stateVars, worldVars, updateVars, current, todo, cand, proposed,
                   proposedHash, lowestSafe, lowestFinalized, broken, publicVars>>

\* The three setters of the tracker and the assignment of consensusGroup are
\* four critical sections: readers may come in between.
SetLatest ==
    /\ gpc = "setLatest"
    /\ gpc' = "setSafe"
    /\ tracker' = [tracker EXCEPT !.latest = proposed]
    /\ UNCHANGED <<stateVars, worldVars, updateVars, current, todo, cand, proposed,
                   proposedHash, lowestSafe, lowestFinalized, broken, consensusGroup>>

SetSafe ==
    /\ gpc = "setSafe"
    /\ gpc' = "setFinalized"
    /\ tracker' = [tracker EXCEPT !.safe = lowestSafe]
    /\ UNCHANGED <<stateVars, worldVars, updateVars, current, todo, cand, proposed,
                   proposedHash, lowestSafe, lowestFinalized, broken, consensusGroup>>

SetFinalized ==
    /\ gpc = "setFinalized"
    /\ gpc' = "setGroup"
    /\ tracker' = [tracker EXCEPT !.finalized = lowestFinalized]
    /\ UNCHANGED <<stateVars, worldVars, updateVars, current, todo, cand, proposed,
                   proposedHash, lowestSafe, lowestFinalized, broken, consensusGroup>>

SetGroup ==
    /\ gpc = "setGroup"
    /\ consensusGroup' = DOMAIN cand
    /\ gpc' = "idle" /\ current' = 0 /\ todo' = {} /\ cand' = NoCandidates
    /\ proposed' = 0 /\ proposedHash' = NoHash
    /\ lowestSafe' = 0 /\ lowestFinalized' = 0 /\ broken' = FALSE
    /\ UNCHANGED <<stateVars, worldVars, updateVars, tracker>>

\* The backends a request is balanced over at this moment.
LoadBalancedConsensusGroup == {b \in consensusGroup : healthy[b]}

-----------------------------------------------------------------------------

UpdateStep(b) ==
    \/ SkipBanned(b) \/ BanUnhealthy(b) \/ BeginUpdate(b)
    \/ FetchFails(b) \/ SetBackendState(b) \/ CheckTags(b)

GateStep(f) == GateBegin(f) \/ GateCheck(f)

RoundStep ==
    \/ RoundBegin \/ TryFallbacks \/ Propose \/ WalkEnd
    \/ \E b \in Backends : \/ FilterOne(b) \/ WalkError(b)
                           \/ WalkAgree(b) \/ WalkBack(b)
    \/ SetLatest \/ SetSafe \/ SetFinalized \/ SetGroup

Next ==
    \/ Tick
    \/ \E b \in Backends : HealthChanges(b) \/ Reorg(b) \/ UpdateStep(b)
    \/ \E f \in Fallbacks : GateStep(f)
    \/ RoundStep

Spec == Init /\ [][Next]_vars

\* Every goroutine keeps running: its timer fires and its requests return, with
\* an answer or an error.  Time passes.
Fairness ==
    /\ WF_vars(Tick)
    /\ \A b \in Backends : WF_vars(UpdateStep(b))
    /\ \A f \in Fallbacks : WF_vars(GateStep(f))
    /\ WF_vars(RoundStep)

FairSpec == Spec /\ Fairness

-----------------------------------------------------------------------------
(* Properties.                                                             *)

\* The values the variables take: numbers stay in the width of their type, and
\* no ban lasts longer than banPeriod (Ban).
TypeOK ==
    /\ tags \in [Backends -> Tags] /\ prev \in [Backends -> Tags]
    /\ peerCount \in [Backends -> Nat] /\ inSync \in [Backends -> BOOLEAN]
    /\ age \in [Backends -> 0 .. MaxUpdateThreshold + 1]
    /\ banLeft \in [Backends -> 0 .. BanPeriod]
    /\ healthy \in [Backends -> BOOLEAN] /\ branch \in [Backends -> Branches]
    /\ pc \in [Backends -> {"idle", "gate", "fetch", "check"}]
    /\ gate \in [Fallbacks -> SUBSET Primaries]
    /\ gpc \in {"idle", "primaries", "fallbacks", "walk", "setLatest", "setSafe",
                "setFinalized", "setGroup"}
    /\ todo \subseteq Backends
    /\ DOMAIN cand \subseteq Backends /\ cand \in [DOMAIN cand -> Tags]
    /\ {current, proposed} \subseteq 0 .. MaxUint /\ proposedHash \in Hashes
    /\ {lowestSafe, lowestFinalized} \subseteq 0 .. MaxHeight
    /\ broken \in BOOLEAN
    /\ tracker \in [latest : 0 .. MaxUint, safe : 0 .. MaxHeight,
                    finalized : 0 .. MaxHeight]
    /\ consensusGroup \subseteq Backends

NoBlocks(t) == t.latest = 0 /\ t.safe = 0 /\ t.finalized = 0

\* While a backend is banned its numbers stay cleared: no update that was under
\* way when Ban ran, and no later one, writes them before the ban is over ("when
\* we ban a node, we give it the chance to start from any block").
BannedIsCleared == \A b \in Backends : IsBanned(b) => NoBlocks(tags[b])

\* A backend that FilterCandidates would take, and that is not forced, has
\* numbers for all three tags: the cleared state of a ban is never taken for a
\* chain at block 0.  The code relies on the periods for this: a ban lasts longer
\* than an update stays recent.
CandidateHasBlocks ==
    BanPeriod > MaxUpdateThreshold =>
      \A b \in Backends \ Forced :
        Eligible(b) => 0 \notin {tags[b].latest, tags[b].safe, tags[b].finalized}

\* The tags the poller trusts: until checkExpectedBlockTags has looked at the
\* new answers, the ones it had before.
Trusted(b) == IF pc[b] = "check" THEN prev[b] ELSE tags[b]

Trust == INSTANCE BackendTags WITH
    Backends <- Backends \ Forced,
    Numbers <- 0 .. MaxHeight,
    latest <- [b \in Backends \ Forced |-> Trusted(b).latest],
    safe <- [b \in Backends \ Forced |-> Trusted(b).safe],
    finalized <- [b \in Backends \ Forced |-> Trusted(b).finalized]

\* Once checked, the tags of a backend that is not forced are ordered and its
\* safe and finalized numbers only go back through a ban, whatever it answers
\* and whatever is interleaved with UpdateBackend.
TrustedTagsAreExpected == Trust!Spec

\* When a round has set the tracker, no consensus number is above the number its
\* candidates had: every backend of the new group can serve the rewritten tags.
\* The round relies on the lag for this: a forced candidate without blocks, which
\* the lowest numbers would be reckoned without, is dropped as lagging the others.
ConsensusNotAheadOfGroup ==
    gpc = "setGroup" =>
      \A b \in DOMAIN cand :
        /\ tracker.latest <= cand[b].latest
        /\ tracker.safe <= cand[b].safe
        /\ tracker.finalized <= cand[b].finalized

\* A fork among the backends is not visible to the clients: between two rounds
\* all backends of the group have the same block at the consensus height.
ForkIsNotVisible ==
    gpc \notin {"setSafe", "setFinalized", "setGroup"} =>
      \A b, c \in consensusGroup :
        HashAt(branch[b], tracker.latest) = HashAt(branch[c], tracker.latest)

\* The walk back stops at the highest common ancestor: at every height above the
\* block it proposes that all candidates have reached, two of them differ.
HighestCommonAncestor ==
    gpc = "setLatest" =>
      \A n \in proposed + 1 .. MaxHeight :
        (\A b \in DOMAIN cand : n <= cand[b].latest) =>
          \/ DOMAIN cand = {}
          \/ \E b, c \in DOMAIN cand : HashAt(branch[b], n) # HashAt(branch[c], n)

\* The listeners are told that consensus is broken only in a round that takes
\* the consensus block back.
BrokenMeansMovedBack ==
    gpc = "setLatest" /\ broken => proposed < current

\* A round takes the consensus block back only if a candidate is itself behind
\* it, nobody is left, or the listeners are told that consensus is broken.
MoveBackIsReported ==
    [][tracker'.latest < tracker.latest =>
         \/ broken \/ DOMAIN cand = {}
         \/ \E b \in DOMAIN cand : cand[b].latest < tracker.latest]_vars

\* Every step of the walk back leaves fewer candidates to ask, or goes to a lower
\* block and asks them all again.  The unsigned number never wraps, so the loop,
\* which has no other end, ends at the first block at the latest.
WalkDescends ==
    [][gpc = "walk" /\ gpc' = "walk" =>
         \/ UNCHANGED roundVars
         \/ proposed' < proposed
         \/ proposed' = proposed /\ todo' \subseteq todo /\ todo' # todo]_vars

\* When from some time on no primary is a candidate, every fallback is polled again
\* and again, or banned again and again: its goroutine, which filters the primaries
\* one by one while they are updated, does not miss it for ever (Init).
FallbacksArePolled ==
    \A f \in Fallbacks :
      <>[](\A p \in Primaries : ~ Eligible(p))
        => []<>(pc[f] = "fetch" \/ IsBanned(f))

\* A banned backend "won't receive any traffic during this period": requests are
\* not balanced over it.
BannedGetsNoTraffic == \A b \in LoadBalancedConsensusGroup : ~ IsBanned(b)

=============================================================================
