------------------------ MODULE FrontendRateLimiter -------------------------
(***************************************************************************)
(* The rate limiters of frontend_rate_limiter.go: the memory limiters of   *)
(* each proxyd instance, the Redis limiters the instances share, and the   *)
(* fallback from the second to the first.                                  *)
(*                                                                         *)
(* Time is counted in milliseconds (of which Second make a second) and     *)
(* divided into windows of Dur.  A Take stamps itself with the current     *)
(* window and counts itself later: in Redis after a network delay, in      *)
(* memory after the limiter's mutex is released.  Who calls Take is in     *)
(* module RequestLimits.                                                   *)
(***************************************************************************)
EXTENDS Integers, Sequences, FiniteSets

CONSTANTS
    Requests,       \* each made once
    Instances,
    InstanceOf,     \* the proxyd instance that serves each request
    Limiters,       \* the names (prefixes) of the limiters
    Dur, Max,       \* per limiter, the length of a window and the requests admitted in it
    Second,
    UseRedis,       \* Redis limiters, or only memory limiters
    UseFallback,    \* a memory limiter behind every Redis limiter
    MaxFailures,    \* bound: the calls of Redis that fail
    MaxTime         \* bound: the clock stops here

ASSUME LimiterAssumption ==
    /\ \A l \in Limiters : Dur[l] \in Nat \ {0, 1} /\ Max[l] \in Nat
    /\ Second \in Nat \ {0} /\ MaxTime \in Nat /\ MaxFailures \in Nat
    /\ InstanceOf \in [Requests -> Instances]
    /\ UseRedis \in BOOLEAN /\ UseFallback \in BOOLEAN

VARIABLES
    now,
    redis,      \* the entries that have not expired: [count, left], left being the time left
    gens,       \* per instance and limiter, its generations (limitedKeys), the current one last
    take,       \* per request, the Take under way: where it is, of what, and what it holds
    took,       \* per request, the Takes that have returned
    failures    \* the calls of Redis that have failed: of which limiter, key and window

limiterVars == <<now, redis, gens, take, took, failures>>

NoTake == [pc |-> "none", lim |-> "none", key |-> "none", start |-> 0, gen |-> 0]

LimiterInit ==
    /\ now = 0
    /\ redis = <<>>
    /\ gens = [i \in Instances |-> [l \in Limiters |-> <<>>]]
    /\ take = [r \in Requests |-> NoTake]
    /\ took = [r \in Requests |-> {}]
    /\ failures = <<>>

\* truncateNow: the start of the window, in whole seconds.
WindowStart(l) == (now \div Dur[l]) * Dur[l]
Truncated(start) == start \div Second

\* A millisecond passes; an entry whose time is up is gone.
Tick ==
    /\ now < MaxTime
    /\ now' = now + 1
    /\ redis' = [k \in {k \in DOMAIN redis : redis[k].left > 1} |-> [redis[k] EXCEPT !.left = @ - 1]]
    /\ UNCHANGED <<gens, take, took, failures>>

\* limiterFactory (proxyd.go) has decided who is asked first.  The key for Redis is
\* put together with the window of now.
StartTake(r, l, key) ==
    take' = [take EXCEPT ![r] =
                IF UseRedis THEN [pc |-> "pipeline", lim |-> l, key |-> key, start |-> WindowStart(l), gen |-> 0]
                ELSE [pc |-> "memory", lim |-> l, key |-> key, start |-> -1, gen |-> 0]]

Goto(r, pc) == take' = [take EXCEPT ![r].pc = pc]

\* Take returns: ok, not ok, or with an error.
Returns(r, by, result) ==
    /\ Goto(r, result)
    /\ took' = [took EXCEPT ![r] = @ \union
                   {[lim |-> take[r].lim, key |-> take[r].key, by |-> by, result |-> result,
                     start |-> IF by = "memory" THEN gens[InstanceOf[r]][take[r].lim][take[r].gen].start
                               ELSE take[r].start]}]

-----------------------------------------------------------------------------
(* RedisFrontendRateLimiter.Take *)

MutantFullKey(r) == <<take[r].key, Truncated(take[r].start)>>

FullKey(r) == <<take[r].lim, take[r].key, Truncated(take[r].start)>>
CountOf(k) == IF k \in DOMAIN redis THEN redis[k].count ELSE 0

MutantIncr(k, dur) ==
    [j \in DOMAIN redis \union {k} |-> IF j = k THEN [count |-> CountOf(k) + 1, left |-> 1] ELSE redis[j]]

\* INCR and PEXPIRE, in one pipeline.
Incr(k, dur) ==
    [j \in DOMAIN redis \union {k} |-> IF j = k THEN [count |-> CountOf(k) + 1, left |-> dur - 1] ELSE redis[j]]

Pipeline(r) ==
    /\ take[r].pc = "pipeline"
    /\ redis' = Incr(FullKey(r), Dur[take[r].lim])
    /\ Returns(r, "redis", IF redis'[FullKey(r)].count - 1 < Max[take[r].lim] THEN "ok" ELSE "over")
    /\ UNCHANGED <<now, gens, failures>>

\* The call fails, before or after it has taken effect.  The client may send the
\* pipeline again, for the same entry; or it gives up, and FallbackRateLimiter asks
\* the memory limiter, or the error is returned.
PipelineFails(r) ==
    /\ take[r].pc = "pipeline" /\ Len(failures) < MaxFailures
    /\ failures' = Append(failures, [lim |-> take[r].lim, key |-> take[r].key, start |-> take[r].start])
    /\ redis' \in {redis, Incr(FullKey(r), Dur[take[r].lim])}
    /\ \/ UNCHANGED <<take, took>>
       \/ UseFallback /\ Goto(r, "memory") /\ UNCHANGED took
       \/ ~UseFallback /\ Returns(r, "redis", "error")
    /\ UNCHANGED <<now, gens>>

-----------------------------------------------------------------------------
(* MemoryFrontendRateLimiter.Take *)

MutantIsStale(gs, l) == TRUE

IsStale(gs, l) == gs = <<>> \/ Truncated(gs[Len(gs)].start) # Truncated(WindowStart(l))

\* Under the limiter's mutex: the generation is replaced if it is of another
\* window, and pulled out.
PullOut(r) ==
    LET i == InstanceOf[r]
        l == take[r].lim
    IN /\ take[r].pc = "memory"
       /\ gens' = IF IsStale(gens[i][l], l)
                  THEN [gens EXCEPT ![i][l] = Append(@, [start |-> WindowStart(l), used |-> <<>>])]
                  ELSE gens
       /\ take' = [take EXCEPT ![r].pc = "take", ![r].gen = Len(gens'[i][l])]
       /\ UNCHANGED <<now, redis, took, failures>>

UsedOf(used, key) == IF key \in DOMAIN used THEN used[key] ELSE 0

\* limitedKeys.Take, under the mutex of the generation.
Take(r) ==
    LET i   == InstanceOf[r]
        l   == take[r].lim
        key == take[r].key
        val == UsedOf(gens[i][l][take[r].gen].used, key)
    IN /\ take[r].pc = "take"
       /\ gens' = [gens EXCEPT ![i][l][take[r].gen].used =
                      [k \in DOMAIN @ \union {key} |-> IF k = key THEN val + 1 ELSE @[k]]]
       /\ Returns(r, "memory", IF val < Max[l] THEN "ok" ELSE "over")
       /\ UNCHANGED <<now, redis, failures>>

TakeStep(r) == Pipeline(r) \/ PipelineFails(r) \/ PullOut(r) \/ Take(r)

-----------------------------------------------------------------------------
(* Properties *)

\* The requests that the same limiter has admitted for the same key and window as t.
Admitted(t) ==
    {r \in Requests : \E u \in took[r] :
        u.lim = t.lim /\ u.key = t.key /\ u.by = t.by /\ u.start = t.start /\ u.result = "ok"}

\* The requests that Redis has answered for the key and window of t.
Answered(t) ==
    {r \in Requests : \E u \in took[r] :
        u.lim = t.lim /\ u.key = t.key /\ u.by = "redis" /\ u.start = t.start /\ u.result # "error"}

\* The calls for that key and window that have failed, and may have taken effect.
FailedFor(t) == {i \in DOMAIN failures : failures[i] = [lim |-> t.lim, key |-> t.key, start |-> t.start]}

OfInstance(i) == {r \in Requests : InstanceOf[r] = i}

\* In memory an instance admits no more than max requests per key and window,
\* although a request counts itself after the mutex is released, and then perhaps
\* into the generation of a window that is over.
MemoryLimitHolds ==
    \A r \in Requests : \A t \in took[r] :
        t.by = "memory" =>
            Cardinality(Admitted(t) \intersect OfInstance(InstanceOf[r])) <= Max[t.lim]

\* Over all instances Redis admits no more than max requests of a key and window,
\* up to the last millisecond of it: an entry lives for dur - 1ms after any Take.
RedisLimitHolds ==
    \A r \in Requests : \A t \in took[r] :
        t.by = "redis" /\ now < t.start + Dur[t.lim] - 1 =>
            Cardinality(Admitted(t)) <= Max[t.lim]

\* A Take is refused only when the limit of its key and window is used up: in Redis
\* by max calls before it, each of another request that Redis has answered or one
\* that failed (it may have taken effect, and may have been sent again, so that a
\* request can be refused for its own earlier calls); in memory by max requests that
\* its instance has admitted.  The Takes of other keys, other limiters or other
\* windows never use it up.
RefusedOnlyWhenUsedUp ==
    \A r \in Requests : \A t \in took[r] :
        t.result = "over" =>
            Max[t.lim] <= IF t.by = "redis" THEN Cardinality(Answered(t) \ {r}) + Cardinality(FailedFor(t))
                          ELSE Cardinality(Admitted(t) \intersect OfInstance(InstanceOf[r]))
=============================================================================
