# A TLA+ model of proxyd

proxyd (`src/`) is a JSON-RPC proxy in front of groups of blockchain nodes. This
directory holds TLA+ modules of the parts of it whose correctness depends on
order: goroutines that share state, calls that fail or come late, keys that
expire, batches that are taken apart and put together again. TLC checks them on
small instances (`*.cfg`); TLAPS proves part of the properties for all values of
the constants (`*Proofs.tla`). `PROJECT.json` lists components, runs, mutants,
the source lines of every definition, findings, hazards and theorems.

    tlc -workers 2 -config poller_forks.cfg MCPoller     # a run
    tlapm ConsensusPollerProofs.tla                      # proofs

## 1. The system

| Part | Source | State | What changes it |
|---|---|---|---|
| Consensus poller | `consensus_poller.go` | `backendState` of each backend, tracker, `consensusGroup` | a goroutine per backend (`UpdateBackend`, `Ban`), one for the group (`UpdateBackendGroupConsensus`), the clock |
| Consensus tracker | `consensus_tracker.go` | local and remote numbers, leader flag, lock and state keys in Redis | `stateHeartbeat` of each instance, the setters of its poller, expiry, restarts |
| Forwarding | `backend.go` | the requests of a call (shared by all attempts), order of backends, attempts | `BackendGroup.Forward`, `Backend.Forward`, `doForward` |
| Multicall | `backend.go` | a channel and a goroutine per target | `ExecuteMulticall`, `MulticallRequest`, `ProcessMulticallResponses` |
| RPC server and cache | `server.go`, `rpc.go`, `cache.go`, `methods.go` | batches by group, responses by index, Redis, its replica and memory | `HandleRPC`, `handleBatchRPC`, `GetRPC`, `PutRPC`, replication, expiry |
| Limits of a request | `server.go`, `frontend_rate_limiter.go` | how far a request is, counters by limiter, key and window, in Redis and in memory | `isLimited`, `rateLimitSender`, `Take` of the three limiters, expiry |
| WebSocket proxying | `backend.go`, `server.go` | two connections, two pumps, `errC`, a gauge | `HandleWS`, `ProxyWS`, `clientPump`, `backendPump`, the peers |
| Health of a backend | `backend.go`, `pkg/avg-sliding-window/sliding.go` | three windows of buckets and totals, two semaphores | `doForward`, polls, `Add`, `advance`, `IsHealthy`, `IsDegraded` |
| Startup and shutdown | `cmd/proxyd/main.go`, `proxyd.go`, `server.go`, `config.go`, `redis.go` | the servers, pollers, `bg.Consensus` of each group, requests under way | `Start`, `Shutdown`, signals |
| Tag rewriter | `rewriter.go` | none; reads the tracker | `RewriteTags` |

How they interact: the server takes a client's batch apart and calls `Forward` of
a backend group. In a consensus-aware group that call orders the backends of
`consensusGroup`, rewrites block tags with the numbers of the tracker, and calls
backends one after another. The poller writes group and tracker concurrently.
With Redis, the poller writes the local numbers while requests read the remote
ones, which the heartbeat copies from the elected leader. Every call to a
backend feeds its sliding windows, and these decide about its health.

Requests may come as soon as a server listens, which is before `Start` has set
`bg.Consensus`; a shutdown drains the RPC server before the pollers stop.

Not modelled: metrics other than the WebSocket gauge, the metrics and pprof
servers, what an override of `eth_call` compares, headers and logs, the parsing
of requests and of durations, and the mock server. Validation of requests and
overrides appear as kinds of request. `Unban`, `Reset` after the start, listeners
other than that of the group, and `Clear` and `Count` of the window are called by
tests only. `PROJECT.json` gives the reason per component.

## 2. Modules

| Module | Models | An action is |
|---|---|---|
| `ConsensusPoller` | the poller of one group | what a goroutine does between two points where another can interfere |
| `BackendTags` | abstract: the tags the poller trusts | accept ordered tags that do not go back, or forget all |
| `RedisConsensusTracker` | instances sharing a tracker through Redis | one call to Redis, with what the code does with its answer |
| `BackendGroup` | one call through a group, while rounds are published | ordering, rewriting, one attempt on a backend |
| `Multicall` | one multicall | a step of a worker, the closer or the handler |
| `GroupForward` | `BackendGroup.Forward`: the two above composed | a step of one of them |
| `RPCCache` | the cache, as `Start` puts it together | replication and expiry; get and put are operators |
| `BatchRPC` | calls to the server, one after another, on `RPCCache` | parsing, a lookup, a minibatch |
| `FrontendRateLimiter` | the limiters, on several instances | the pipeline, its failure, pulling out a generation, counting |
| `RequestLimits` | the way of requests through the limits, on `FrontendRateLimiter` | the checks up to a `Take`, or after one |
| `AvgSlidingWindow` | the window as a data structure | none: operators, one per critical section |
| `BackendHealth` | calls to one backend, on three windows, and a reader | a critical section, an acquire or release, a read outside of a mutex |
| `WSProxier` | one WebSocket session | a read, a write, a report, a departure |
| `Proxyd` | the process: startup, shutdown, requests, with `WSProxier` | a step of main, of a server's goroutine, of a handler |
| `TagRewriter` | one request, while rounds are published | a getter, a setter, or the rewriting |

`MCPoller`, `MCTracker`, `MCGroupForward`, `MCBatchRPC`, `MCRequestLimits` and
`MCProxyd` give constants their values. `Mutant...` operators are plausible
bugs: each replaces the definition `PROJECT.json` names and makes one property
fail; no specification uses them otherwise.

What is abstracted:

- **Poller.** Durations are ticks: `age` is the time since `lastUpdate`, capped
  above the threshold, `banLeft` the rest of a ban. A chain is a branch, and
  branches share their blocks up to `ForkHeight`; a hash is `Common` or the
  branch. Whether a backend is healthy may change at any time (`CanDegrade`).
  Numbers wrap at `MaxUint`. `Unban`, and `Reset` after the start, which only
  tests call, are left out.
- **Tracker.** `Fields` are the three numbers, which the code treats alike. A
  call may fail before or after it took effect (`RedisErrors`). Lock values are
  random in the code; here a value is reused only when nobody holds it.
- **Forwarding.** A request is an id, a method class and a block. The same
  request is handed to every attempt, as the pointer is in the code.
- **Batches.** A request is its kind, by what becomes of it, and an id. The limits
  are a free choice here and are the subject of `RequestLimits`.
- **Cache.** One entry per cached kind and store, and one value per kind: stores that
  disagree about a value are told apart only by whether they have it. A put may reach Redis, memory,
  both (a call that failed after it took effect) or neither; a get may find a
  replica that is behind. Compression is undone by every read, and is left out.
- **Limits.** All instances and Redis have one clock: with clocks that differ, instances
  would count one moment in two windows, and `RedisLimitHolds` says nothing of that.
  The Redis client sends a pipeline that failed again, up to a number of times that
  the model leaves open (`redis.go` sets none). A caller is the pattern it matches. Time is in milliseconds, of which
  `Second` make a second: `truncateNow` yields whole seconds, so that windows
  that are shorter collapse, and the model does what the code does with them. A
  transaction stands for its sender and nonce, which is the key the code uses.
- **Health.** Values are integers, which floating point adds exactly. A read outside
  the mutex yields the value of that moment, a quotient by a number that has
  become 0 anything. Calls to other backends appear as the permits they hold. A
  panic of the code on a body it does not expect is the end of the call.
- **WebSocket.** Messages have no content; who answers one is a free choice.
- **Process.** A configuration is the fields that `Start` looks at, by what its
  checks tell apart. A domain's mapping is not validated by the code and may name
  no group; such a request panics, which net/http recovers. Fallbacks are counted
  and not looked up; with a read replica the primary is pinged twice. The port of
  the RPC server is taken as set. `Shutdown` of an `http.Server` waits for its
  requests and forgets upgraded connections, as net/http does. Reading a request and
  writing its response take as long as the client likes: the servers have no
  timeouts.
- **Rewriter.** A round publishes any three numbers: the latest one is where the walk
  back ended, so that after a fork safe or finalized may be above it. A range request
  without parameters panics, which net/http recovers. A word has `2 * SignBit` values, of which the lower half are `int64`
  too, so that unsigned differences wrap as they do in the code.

External code is modelled from its use: Redis (expiry, atomic commands), redsync
(acquire, extend and release by value), gorilla/websocket (no write after a close
message), net/http (shutdown, recovery of panics), and the backends (any answer,
in any order, or an error).

## 3. Runs

| Run | Checks | Bounds, and why they are enough |
|---|---|---|
| `poller_backend` | a ban keeps numbers cleared; candidates have blocks; trusted tags refine `BackendTags`; a fallback is polled again and again once no primary is a candidate | a primary whose calls fail, so that it may or may not be a candidate, and a fallback whose safe number goes back and forth, or is zero; a ban of 2 ticks, updates recent for 1; branches change, at the latest block only (the theorem `WalksDescend` has any reorganisation during a walk) |
| `poller_forks` | no fork at the consensus height; highest common ancestor; consensus not above a candidate; listeners are told of a consensus that moves back, and of nothing else; the walk descends | two primaries, one of them forced and so a candidate before its first answer too, the other one banned and healed at any time; heights 2 and 3, the lower one with the higher safe number, so that the lowest numbers are of different backends; two branches from 1 on: walks of two blocks; the lag allowed is 1, which a candidate without blocks exceeds; fetches succeed, branches stay |
| `tracker_safety` | states are posted only under an own lock value; a leader does not post what is behind what it served | two instances, restarts, every call may fail; numbers to 2, so that instances are at different heights |
| `tracker_election` | the state outlives the lock; the lock is taken again and again | two instances, restarts, no errors |
| `forward` | answers match requests; unhealthy and degraded backends last; gives up only when all have failed; every request returns; in a multicall no goroutine waits to send, success wins, always an answer, no goroutine is left behind | a plain, a weighted, a consensus and a multicall group of two backends of different height, one with an unknown receipts target; batches up to 3; one retry; JSON-RPC errors count as failures of a multicall |
| `batch` | a response per request, at its position; valid upstream batches; the stores hold only raw values | two calls of up to 3 requests: the second meets what the first left in Redis, a replica that may be behind, and memory; minibatches of 2, so that a batch needs two; ids repeat; two groups |
| `lifecycle` | requests are served as configured; pollers outlive the requests they route; a session ends once a side has left, and leaves nothing open; a signal ends the process unless a client holds its request up | 19 configurations: one that is accepted with two consensus groups, 15 that `Start` refuses before it listens, at least one per group of its checks, and three more that differ after that; one request and one session, which see every moment; two backends to dial |
| `limits` | Redis: at most max per key and window until its last millisecond; memory: at most max per key, window and instance; refused only when used up; nobody is exempt from sender and global limits | 3 requests, two at one instance; four limiters with a max of 1; two of the calls of Redis fail, and are sent again or given up; time crosses one window |
| `health` | totals match buckets; a backend left alone is healthy again after one window; no permit is lost | a user's call, a poll, a reader; one permit of each kind, which other backends may hold; time to 3 with a window of 2, so that data points expire between their clock read and their insertion |
| `rewrite_range` | no tag is forwarded; a number is one that was published for its tag; ranges are bounded | words of 3 bits (`SignBit = 4`), two rounds during the request, of any three numbers |

`tracker_stale_leader` and `exempt_zero` expect a violation (below).

Two backends suffice where a property compares two of them, and two instances
where one takes over from another; the proofs in section 5 drop these bounds for
all of the invariants. In particular
`poller_forks` has two backends, two heights and a fork above block 1, and the theorems
have any number, any heights and forks above block 0 too;
`limits` has Redis limiters, a limit of 1 and windows of one length, and the theorems
have also memory limiters alone, and any limits and windows. A bucket of
one tick in `health` loses nothing while the window is a multiple of the bucket,
as it is in `NewBackend`. Symmetry is used only in runs without liveness
properties, over values that are compared for equality only. Type invariants are
in no run: they hold when added, and those of poller, tracker and multicall are
proved. Deadlock is checked for poller and tracker. The other models serve a
bounded number of calls, or have a clock that stops, and may therefore stop.

### Where code and documentation differ

`tracker_stale_leader` checks what a comment says, and TLC finds a behaviour of
the code that differs: an instance whose lock was taken by another cannot release
it, keeps its leader flag and never follows. It needs a leader that is late: with
`Prompt = TRUE`, so that no lock expires under its leader, `EveryoneHasSharedState`
holds for the same constants.

`exempt_zero` checks a comment of the example configuration: an `exempt_base_rate`
of 0 is said to "bypass limiting entirely", while the limiter that `NewServer`
makes has a maximum of 0 and refuses every request of an exempt origin.

The modules state five more properties that a comment or a document claims and
that TLC refutes. They are not among the runs; each is reproduced by checking the
property alone, with the constants of the run named, changed as given. (Those of
`BackendGroup` are `G!...` in `GroupForward`.)

| Property | What happens | Constants |
|---|---|---|
| `ForkIsNotVisible` (README.md:71) | a fetch that fails during the walk back counts as agreement, and a fork becomes visible | `poller_forks`, `FetchErrors = TRUE` |
| `BannedGetsNoTraffic` (README.md:88) | a backend stays in the group, although banned, until a round ends | `poller_backend` |
| `TriesAtMostMaxRetries` (example.config.toml:43) | a backend is tried `max_retries` + 1 times | `forward` |
| `ReceiptsAreEnriched` (backend.go:673) | after a failed attempt the translated request is not recognised, and its answer is not enriched | `forward` |
| `ServedWhereAgreed` (backend.go:787) | backends ordered by one round, tags rewritten by the next | `forward` |

Three differences are behaviours of the models and are stated by no property. A
call to Redis that is delayed past the expiry of its counter starts a new one, so
that a window can admit more than max (frontend_rate_limiter.go:13);
`RedisLimitHolds` therefore ends one millisecond early. An older bucket behind a
younger one is evicted late, and `Avg` and `ErrorRate` divide numbers of different
moments (sliding.go:45, 169); `HealthyAgain` says what remains true. A request that
comes before `Start` returns may be routed without consensus and rewritten with
it; `ServedAsConfigured` speaks of the others.

Some more behaviours are as the code has them and limit what the properties say. A
round may take answers that `checkExpectedBlockTags` has not seen yet
(`TrustedTagsAreExpected` is about the others). `LastResort` is about the health at
the moment the backends were ordered. A `Take` may be refused for calls that failed,
its own included, which may have counted: `RefusedOnlyWhenUsedUp` adds them to the
others. A block that is null is forwarded for an account method, and in a range
without a limit. Close to block 0, where a candidate without blocks does not lag the
others, `ConsensusNotAheadOfGroup` does not hold of forced backends.

## 4. Fairness

Weak fairness only, and only of what the program itself runs:

- **Poller:** the loop of every goroutine, and the clock. Timers fire, and
  requests return an answer or an error. Nothing makes a backend heal or answer
  well.
- **Tracker:** the heartbeat of every instance, and the clock of Redis. With
  `Prompt` time does not pass while it would take the lock from its leader: an
  assumption about the deployment (a heartbeat interval well below the lock
  period), which is why it is a constant, and no run makes it.
- **Forwarding and multicall** (`GroupForward`): the handler and the goroutines of a
  multicall, each by itself. The HTTP client has a timeout, so every call ends.
- **Process and WebSocket** (`Proxyd`): main, the goroutine of each server, the
  handler of each request, and handler and pumps of the session, as long as the
  process runs. Writes have deadlines, and `EveryRequestReturns` justifies that
  handlers respond. Nothing makes a request or a signal come, or a peer send or
  leave, send its body or take its response (`Client`): the server sets no deadline
  for either. `SessionEnds` only speaks of sessions that a side has left, and
  `SignalEnds` of clients that hold no request up for ever, since `Shutdown` would wait
  for them; it holds although a session may last for ever.

## 5. Proofs

All theorems hold for every value of the constants that satisfies the named
`ASSUME`s of the module (types of the constants, positive periods, sentinels
that differ from values), and what is said here.

**`ConsensusPollerProofs`**: `TypeCorrect`, `BannedStaysCleared`,
`CandidatesHaveBlocks`, `TrustedTagsRefine`. `BannedIsCleared` is not inductive:
an update under way could write into a banned state. `BanInv` adds that only the
goroutine of a backend bans it and stores its numbers, and only when it is not
banned (`UpdatesUnbanned`), and that a cleared state is too old to be a candidate
or still has enough of its ban to go (`ClearedIsOld`). The latter gives
`CandidateHasBlocks`, whose premise is `BanPeriod > MaxUpdateThreshold`. The
refinement rests on `CopyIsCurrent`: the state has not moved since the copy that
the answers are compared with was taken.

Of the rounds, in the same module, all under `SharedGenesis` (the branches share
block 0 and a backend answers with the block it was asked for):

- `BrokenIsMovedBack`, `MoveBacksAreReported`, from `WalkInv`: the walk starts
  from the published number, stays in the chain, and `broken` is set when it
  passes the current consensus.
- `WalksDescend`, from `WalkInv` too: block and candidates left to ask fall with
  each step, the number never wraps at 0, also if the branches share block 0 only,
  change during the walk, or fetches fail. This is why the loop ends for any number of
  backends.
- `ForksAreNotVisible`, if branches do not change and fetches do not fail, from
  `AgreeInv`: the candidates asked since the last step back agree. Both premises
  are needed: section 3 shows what happens without the second.
- `StopsAtCommonAncestor`, if branches do not change, from `AncestorInv`: the hash
  compared with is some candidate's, so a mismatch is a real difference.
- `GroupHasConsensusBlocks`, from `LowestInv`, under one of two premises. If no backend
  is forced and a ban outlasts the update threshold, candidates have blocks, so that a
  0 in the search for the lowest number means "not set". If every answer is above the
  lag (`AnswersAboveLag`), also forced backends may be without blocks: such a candidate
  lags all that have some, so either it is dropped or all of them are like it
  (`AllOrNoneCleared`).

**`RedisConsensusTrackerProofs`**: `TypeCorrect`, `PostsAreOwn`,
`StatesOutliveLocks`, `LeadersGoForward`. `PostsUnderOwnLock` needs
`ExtendsWhatItRead`: an extension succeeds only for the value that was read.
`StateOutlivesLock` is about calls that do not fail, and weakens between an
extension and the post that follows (`OutlivesInv`). `LeaderDoesNotGoBack` is
about pollers that go forward, and needs that whoever leads or is about to lock
is not behind its own copy (`CandidateIsAhead`).

**`GroupForwardProofs`**, for any finite set of backends, any order of them in the
configuration, any number of retries and batches of any size from 1:

- `TypeCorrect` of a multicall, and `AnySuccessWins`,
  `AlwaysReturnsAnAnswer` of the composed `ForwardSpec`, whose steps are steps of
  `Multicall` or leave its variables alone (`MulticallPart`). An answer that was
  sent is in the channel until it is received, and the handler goes on only after a
  failure (`ChannelHoldsAnswers`, `ReceivedAreFailures`).
- `SendsNeverBlockAlways`: no goroutine of a multicall waits to send, from
  `InChannelAreSent` (no more answers are in the channel than targets have sent).
  It is the safety part of `NothingIsLeftBehind`, for any number of targets.
- `LastResortAlways` and `GivesUpWhenAllFailedAlways`, from `TriedInv`: the order has
  each of its backends once, the preferred ones in front (`Ordered`); those before
  `next` have been tried and have failed for good, those after it were never called
  (`Tried`). The tries are only comparable because the order is fixed once: a round
  that is published during the request moves nobody.
- `TriesAreBoundedAlways`, from the same invariant: a backend gets at most
  `MaxRetries + 1` calls of one request. With the order fixed, this bounds the
  attempts that `EveryRequestReturns` has to see through.
- `AnswersMatchRequestsAlways`, from `AnswersInv`: the positions of the batch are
  those of the forwarded requests and those that proxyd answers itself, both
  ascending (`Forwarded`, `Overridden`), and what a backend answered is sorted by
  the ids of the former (`Responses`). The argument is that of `InsertAllMerges`:
  inserting the own answers in ascending order, each at its index, gives back the
  batch, and no index is ever beyond the slice (`Merged`).

**`ProxydProofs`**: `ServedAsConfiguredAlways`, `PollersOutliveRequestsAlways`, for
any set of configurations and any number of requests. Neither property is
inductive. `IInv` adds that nothing listens or is served before the configuration
was accepted (`Accepted`); that a consensus-aware group that `Start` is done with
has a poller, and its consensus once `Start` has returned (`GroupsReady`); and that
from the moment the RPC server is drained only requests of a server that came up
after the shutdown are in progress (`Drains`).

Of the WebSocket session, in the same module: `NothingStaysOpenAlways`, from
`Connections` (which connections are open at each stage of the handler, and that
both pumps are done with them when it ends), and `ReportsNeverBlockAlways`, from
`Errors`: `errC` has no more entries than pumps have reported, so that its two places
are enough and the second pump ends although nobody receives any more.

**`BatchRPCProofs`**: `EveryRequestIsAnsweredAlways`, `UpstreamBatchesAreValidAlways`,
`CacheHoldsRawReceiptsAlways`, for calls of any length, any ids, minibatches of any
size from 1 and any state of the stores. `IInv` says that once a call is parsed every
position is answered, among the misses, or in a batch that is still to be forwarded
(`Covered`), and that no batch or minibatch has an id twice (`NoIdTwice`).

**`TagRewriterProofs`**: `NoTagIsForwardedAlways`, `NumbersArePublishedAlways`,
`RangeIsBoundedAlways`, for words of any size and any number of rounds published
meanwhile. The limit of a range is taken to be an `int64` number: an unsigned
difference of an inverted range is at least `SignBit`, and a limit from there on
would not refuse it. `Published` adds that every number the rewriter has read was
published for its tag since the request came.

**`BackendHealthProofs`**: `TotalsMatchBucketsAlways`, `HealthyAgainAlways`,
`PermitsAreReturnedAlways`, for any calls, capacities, window and bucket size. `Good`
says that totals are those of the buckets, that keys are distinct and that no bucket
is younger than the newest data point; `Reading` what the reader has already learnt
at each of its reads outside the mutex: a number that is not 0 came from a window
with a recent data point. `Total` is a recursive function over the buckets, and that
eviction subtracts what it removes is proved by induction.

**`RequestLimitsProofs`**: `NobodyIsEverExempt`, for any callers, limits, windows,
instances and failures, with Redis, with a fallback, or in memory only. `LimitsInv`
says what each stage of a request has behind it: the `Take` under way is of the
limiter that the stage is about (`LimitStage`, `SenderStage`), a globally limited
method has passed its own limiter before the sender's (`PassedGlobal`), and what
was taken before the sender's limit was granted (`SenderLast`). It rests on one
lemma about all steps of `Take` (`TakeStepEffect`): a step leaves the caller's data
alone and adds at most the result it returns.

Of the counters, in the same module, for any number of requests and instances and
any clock:

- `MemoryLimitHoldsAlways`, from `MemoryInv`: the generations of a limiter are of
  ascending windows (`GensAscend`), so that a result belongs to exactly one of them,
  also when it was counted after the window was over (`InGeneration`); and those
  admitted are no more than the generation has counted (`Counted`).
- `RedisLimitHoldsAlways`, from `RedisInv`: while a window lasts, but for its last
  millisecond, the entry that counts the admitted is there, and lives until then
  (`EntryCounts`). This is where the order of `INCR` and `PEXPIRE` in one pipeline,
  `dur - 1ms`, and a window that starts no later than now (`StampInv`) meet. The
  last millisecond cannot be had: the entry may be gone, as in section 3.
- `RefusedOnlyWhenUsedUpAlways`, from `UsedUpInv` and `CalledInv`: nothing is counted
  but what was admitted, until the limit is reached, and no entry has counted more
  than the calls of its window (`CountedOnce`): those that were answered, and those that
  failed, each as often as it was sent. It has two premises. `WholeSeconds`: the key in Redis has whole seconds, so that shorter
  windows share an entry. `SendersApart`: no pattern of origins is called `senders`;
  limiters are told apart by their prefix in Redis, and a transaction would be counted
  twice by the same one (`FirstInv`).

The counters compare sizes of sets. What the argument needs of `Cardinality` is
stated once (`CardinalityLaws`) and proved from `FiniteSetTheorems` at the end of the
module (`CardinalityFacts`).

Induction over data is done by hand where it is needed: a set of natural numbers
has a least member (`LeastNumber`), and the least counterexample of a claim about
prefixes of a sequence is contradicted by the one before it.

Only model-checked: all liveness properties, since fairness and `ENABLED` are out of
the prover's reach. Every invariant and every action property of a passing run is a
theorem. Of what the liveness properties rest on, the parts that are safety are
proved: `WalksDescend`, `SendsNeverBlockAlways`, `ReportsNeverBlockAlways` and
`TriesAreBoundedAlways`.

## 6. What is left

- **Composition of poller, Redis tracker and forwarding**, so that a follower's
  group meets the leader's numbers. `ConsensusPoller` alone is at the limit of what
  TLC explores in minutes with two backends; the parts meet in `BackendGroup` and
  `TagRewriter`, where rounds are published at any moment.
- **Bodies of responses**: a response with status 400 and no error object is
  dereferenced by `doForward`; the model only says that the call ends there.
- **Concurrent calls on the cache**: a batch runs beside replication and expiry, but
  not beside another batch. Puts are idempotent per key in this model, and two
  calls in a row already leave the stores different.
