-------------------------- MODULE RequestLimitsProofs -------------------------
(***************************************************************************)
(* Proofs about the limits on requests (modules FrontendRateLimiter and    *)
(* RequestLimits), for every set of callers, limiters, instances and       *)
(* failures of Redis: nobody is exempt from the limits per sender and per  *)
(* global method, the counters in memory and in Redis admit no more than   *)
(* their limits, and they refuse only what is over them.                   *)
(***************************************************************************)
EXTENDS RequestLimits, TLAPS

TakeOf(pc, lim, key, start, gen) ==
    [pc |-> pc, lim |-> lim, key |-> key, start |-> start, gen |-> gen]

\* The variables that are functions, as functions; the data a Take carries is free.
TakeShape ==
    take = [r \in Requests |-> TakeOf(take[r].pc, take[r].lim, take[r].key, take[r].start,
                                      take[r].gen)]

Shape ==
    /\ TakeShape
    /\ took = [r \in Requests |-> took[r]]
    /\ call = [r \in Requests |-> call[r]]
    /\ stage = [r \in Requests |-> stage[r]]

Pending(r) == take[r].pc \in {"pipeline", "memory", "take"}
HasReturned(r) == take[r].pc \in {"ok", "over", "error"}
IsResult(r, t) == t.lim = take[r].lim /\ t.key = take[r].key /\ t.result = take[r].pc

\* A Take under way has returned nothing yet; one that has returned, its result.
LimitStage(r) ==
    /\ call[r].ip # ""
    /\ take[r].lim = LimiterOf(call[r]).lim /\ take[r].key = LimiterOf(call[r]).key
    /\ \/ Pending(r) /\ took[r] = {}
       \/ /\ HasReturned(r)
          /\ \E t \in took[r] : IsResult(r, t)
          /\ \A t \in took[r] : IsResult(r, t)

PassedGlobal(r) ==
    call[r].method \in GlobalMethods => AdmittedBy(r, call[r].method, call[r].ip)

\* The sender is asked only after the limit by address has admitted the request.
SenderStage(r) ==
    /\ take[r].lim = "senders" /\ take[r].key = call[r].tx
    /\ PassedGlobal(r)
    /\ \A t \in took[r] : t.lim # "senders" => t.result = "ok"
    /\ Pending(r) \/ (HasReturned(r) /\ \E t \in took[r] : IsResult(r, t))

Forwarded(r) ==
    /\ NeedsSender(call[r]) => AdmittedBy(r, "senders", call[r].tx)
    /\ PassedGlobal(r)

SenderLast(r) == \A t, u \in took[r] : t.lim = "senders" /\ u.lim # "senders" => u.result = "ok"

RequestInv(r) ==
    /\ stage[r] = "idle" => took[r] = {}
    /\ stage[r] = "limit" => LimitStage(r)
    /\ stage[r] = "sender" => SenderStage(r)
    /\ stage[r] = "forwarded" => Forwarded(r)
    /\ stage[r] \notin {"limit", "sender"} => take[r].pc = "none"
    /\ SenderLast(r)

LimitsInv == Shape /\ \A r \in Requests : RequestInv(r)

-----------------------------------------------------------------------------
(* What the steps do *)

\* The request q is as it was.
Same(q) == take'[q] = take[q] /\ took'[q] = took[q] /\ call'[q] = call[q] /\ stage'[q] = stage[q]

\* A request that no step touches keeps its invariant.
LEMMA SameKeeps ==
    ASSUME NEW q \in Requests, RequestInv(q), Same(q)
    PROVE  RequestInv(q)'
<1> USE DEF Same
<1>1. LimitStage(q) => LimitStage(q)'
  BY ZenonT(60) DEF LimitStage, Pending, HasReturned, IsResult
<1>2. PassedGlobal(q) => PassedGlobal(q)'
  BY Zenon DEF PassedGlobal, AdmittedBy
<1>3. SenderStage(q) => SenderStage(q)'
  BY <1>2, Zenon DEF SenderStage, Pending, HasReturned, IsResult
<1>4. Forwarded(q) => Forwarded(q)'
  BY <1>2, Zenon DEF Forwarded, AdmittedBy, NeedsSender
<1>5. SenderLast(q) => SenderLast(q)'
  BY Zenon DEF SenderLast
<1> QED
  BY <1>1, <1>3, <1>4, <1>5, Zenon DEF RequestInv

\* What a step of Take does to its request: it goes on, or it returns and leaves
\* its result.
Effect(r) ==
    /\ take'[r].lim = take[r].lim /\ take'[r].key = take[r].key
    /\ \/ Pending(r)' /\ took'[r] = took[r]
       \/ /\ HasReturned(r)'
          /\ \E t : IsResult(r, t)' /\ took'[r] = took[r] \union {t}

\* What is left of a Take when one of its fields is changed.
LEMMA PcUpdate ==
    ASSUME NEW t, NEW v, t = TakeOf(t.pc, t.lim, t.key, t.start, t.gen)
    PROVE  [t EXCEPT !.pc = v] = TakeOf(v, t.lim, t.key, t.start, t.gen)
<1>1. PICK a, b, c, d, e : a = t.pc /\ b = t.lim /\ c = t.key /\ d = t.start /\ e = t.gen
  BY Zenon
<1>2. t = TakeOf(a, b, c, d, e)
  BY <1>1, Zenon
<1> DEFINE S == {a, b, c, d, e}
<1>3. a \in S /\ b \in S /\ c \in S /\ d \in S /\ e \in S
  BY Zenon
<1> HIDE DEF S
<1>4. [TakeOf(a, b, c, d, e) EXCEPT !.pc = v] = TakeOf(v, b, c, d, e)
  BY <1>3, SMT DEF TakeOf
<1> QED
  BY <1>1, <1>2, <1>4, Zenon

\* The same for two of them.
LEMMA PcAndGenUpdate ==
    ASSUME NEW t, NEW v, NEW w, t = TakeOf(t.pc, t.lim, t.key, t.start, t.gen)
    PROVE  [[t EXCEPT !.pc = v] EXCEPT !.gen = w] = TakeOf(v, t.lim, t.key, t.start, w)
<1>1. PICK b, c, d, e : b = t.lim /\ c = t.key /\ d = t.start /\ e = t.gen
  BY Zenon
<1> DEFINE S == {b, c, d, e, v}
<1>2. b \in S /\ c \in S /\ d \in S /\ e \in S /\ v \in S
  BY Zenon
<1> HIDE DEF S
<1>3. [t EXCEPT !.pc = v] = TakeOf(v, b, c, d, e)
  BY <1>1, PcUpdate, Zenon
<1>4. [TakeOf(v, b, c, d, e) EXCEPT !.gen = w] = TakeOf(v, b, c, d, w)
  BY <1>2, SMT DEF TakeOf
<1> QED
  BY <1>1, <1>3, <1>4, Zenon

\* A step that gives one request another Take t keeps the shape.
LEMMA NewTake ==
    ASSUME Shape, NEW r \in Requests, NEW t, t = TakeOf(t.pc, t.lim, t.key, t.start, t.gen),
           take' = [take EXCEPT ![r] = t]
    PROVE  /\ TakeShape'
           /\ take'[r] = t
           /\ \A q \in Requests \ {r} : take'[q] = take[q]
<1>1. DOMAIN take = Requests
  BY Zenon DEF Shape, TakeShape
<1>2. take'[r] = t
  BY <1>1, Zenon
<1>3. \A q \in Requests \ {r} : take'[q] = take[q]
  BY <1>1, Zenon
<1>4. take' = [q \in Requests |-> take'[q]]
  BY <1>1, Zenon
<1>5. ASSUME NEW q \in Requests
      PROVE  take'[q] = TakeOf(take'[q].pc, take'[q].lim, take'[q].key, take'[q].start, take'[q].gen)
  <2>1. take[q] = TakeOf(take[q].pc, take[q].lim, take[q].key, take[q].start, take[q].gen)
    BY Zenon DEF Shape, TakeShape
  <2>2. CASE q = r
    BY <1>2, <2>2, Zenon
  <2>3. CASE q # r
    BY <1>3, <2>1, <2>3, Zenon
  <2> QED
    BY <2>2, <2>3, Zenon
<1>6. take' = [q \in Requests |-> TakeOf(take'[q].pc, take'[q].lim, take'[q].key,
                                         take'[q].start, take'[q].gen)]
  BY <1>4, <1>5, Zenon
<1> QED
  BY <1>2, <1>3, <1>6, Zenon DEF TakeShape

\* The fields of a Take.
LEMMA TakeFields ==
    ASSUME NEW a, NEW b, NEW c, NEW d, NEW e, NEW t, t = TakeOf(a, b, c, d, e)
    PROVE  t.pc = a /\ t.lim = b /\ t.key = c /\ t.start = d /\ t.gen = e
BY Zenon DEF TakeOf

\* Moving on to pc changes nothing else of a Take.
LEMMA GotoShape ==
    ASSUME Shape, NEW r \in Requests, NEW pc, Goto(r, pc)
    PROVE  /\ TakeShape'
           /\ take'[r].pc = pc /\ take'[r].lim = take[r].lim /\ take'[r].key = take[r].key
           /\ \A q \in Requests \ {r} : take'[q] = take[q]
<1>1. PICK t : t = take[r]
  BY Zenon
<1>2. t = TakeOf(t.pc, t.lim, t.key, t.start, t.gen)
  BY <1>1, Zenon DEF Shape, TakeShape
<1>3. PICK u : u = [t EXCEPT !.pc = pc]
  BY Zenon
<1>4. take' = [take EXCEPT ![r] = u]
  BY <1>1, <1>3, Zenon DEF Goto
<1>5. u = TakeOf(pc, t.lim, t.key, t.start, t.gen)
  BY <1>2, <1>3, PcUpdate, Zenon
<1>6. u.pc = pc /\ u.lim = t.lim /\ u.key = t.key /\ u.start = t.start /\ u.gen = t.gen
  BY <1>5, TakeFields
<1>7. u = TakeOf(u.pc, u.lim, u.key, u.start, u.gen)
  BY <1>5, <1>6, Zenon
<1>8. /\ TakeShape'
      /\ take'[r] = u
      /\ \A q \in Requests \ {r} : take'[q] = take[q]
  BY <1>4, <1>7, NewTake, Zenon
<1> QED
  BY <1>1, <1>6, <1>8, Zenon

\* The same, when a Take also pulls out a generation.
LEMMA PullOutShape ==
    ASSUME Shape, NEW r \in Requests, NEW pc, NEW gen,
           take' = [take EXCEPT ![r].pc = pc, ![r].gen = gen]
    PROVE  /\ TakeShape'
           /\ take'[r].pc = pc /\ take'[r].lim = take[r].lim /\ take'[r].key = take[r].key
           /\ \A q \in Requests \ {r} : take'[q] = take[q]
<1>1. PICK t : t = take[r]
  BY Zenon
<1>2. t = TakeOf(t.pc, t.lim, t.key, t.start, t.gen)
  BY <1>1, Zenon DEF Shape, TakeShape
<1>3. PICK u : u = [[t EXCEPT !.pc = pc] EXCEPT !.gen = gen]
  BY Zenon
<1>4. take' = [take EXCEPT ![r] = u]
  BY <1>1, <1>3, Zenon
<1>5. u = TakeOf(pc, t.lim, t.key, t.start, gen)
  BY <1>2, <1>3, PcAndGenUpdate, ZenonT(60)
<1>6. u.pc = pc /\ u.lim = t.lim /\ u.key = t.key /\ u.start = t.start /\ u.gen = gen
  BY <1>5, TakeFields
<1>7. u = TakeOf(u.pc, u.lim, u.key, u.start, u.gen)
  BY <1>5, <1>6, Zenon
<1>8. /\ TakeShape'
      /\ take'[r] = u
      /\ \A q \in Requests \ {r} : take'[q] = take[q]
  BY <1>4, <1>7, NewTake, Zenon
<1> QED
  BY <1>1, <1>6, <1>8, Zenon

\* A Take that returns leaves its result, and only that.
LEMMA ReturnsEffect ==
    ASSUME Shape, NEW r \in Requests, NEW by, NEW result \in {"ok", "over", "error"},
           Returns(r, by, result), UNCHANGED <<call, stage>>
    PROVE  Shape' /\ Effect(r) /\ \A q \in Requests \ {r} : Same(q)
<1>1. Goto(r, result)
  BY Zenon DEF Returns
<1>2. PICK t : /\ t.lim = take[r].lim /\ t.key = take[r].key /\ t.result = result
               /\ took' = [took EXCEPT ![r] = @ \union {t}]
  <2> DEFINE start == IF by = "memory" THEN gens[InstanceOf[r]][take[r].lim][take[r].gen].start
                      ELSE take[r].start
             t == [lim |-> take[r].lim, key |-> take[r].key, by |-> by, result |-> result,
                   start |-> start]
  <2>1. took' = [took EXCEPT ![r] = @ \union {t}]
    BY Zenon DEF Returns
  <2>2. t.lim = take[r].lim /\ t.key = take[r].key /\ t.result = result
    BY Zenon
  <2> QED
    BY <2>1, <2>2, Zenon
<1>3. took'[r] = took[r] \union {t} /\ took' = [q \in Requests |-> took'[q]]
      /\ \A q \in Requests \ {r} : took'[q] = took[q]
  BY <1>2, Zenon DEF Shape
<1>4. Shape'
  BY <1>1, <1>3, GotoShape, Zenon DEF Shape
<1>5. Effect(r)
  BY <1>1, <1>2, <1>3, GotoShape, ZenonT(60) DEF Effect, HasReturned, IsResult
<1> QED
  BY <1>1, <1>3, <1>4, <1>5, GotoShape, Zenon DEF Same

\* The same for every step of Take.
LEMMA TakeStepEffect ==
    ASSUME Shape, NEW r \in Requests, TakeStep(r), UNCHANGED <<call, stage>>
    PROVE  Shape' /\ Effect(r) /\ \A q \in Requests \ {r} : Same(q)
<1>1. CASE Pipeline(r)
  BY <1>1, ReturnsEffect, Zenon DEF Pipeline
<1>2. CASE PipelineFails(r)
  <2>1. CASE UNCHANGED <<take, took>>
    <3>1. Pending(r)
      BY <1>2, Zenon DEF PipelineFails, Pending
    <3> QED
      BY <2>1, <3>1, Zenon DEF Shape, TakeShape, Effect, Pending, Same
  <2>2. CASE Goto(r, "memory") /\ UNCHANGED took
    <3>1. Shape'
      BY <2>2, GotoShape, Zenon DEF Shape
    <3> QED
      BY <2>2, <3>1, GotoShape, Zenon DEF Effect, Pending, Same
  <2>3. CASE Returns(r, "redis", "error")
    BY <2>3, ReturnsEffect, Zenon
  <2> QED
    BY <1>2, <2>1, <2>2, <2>3, Zenon DEF PipelineFails
<1>3. CASE PullOut(r)
  <2>1. PICK gen : take' = [take EXCEPT ![r].pc = "take", ![r].gen = gen]
    BY <1>3, Zenon DEF PullOut
  <2>2. UNCHANGED took
    BY <1>3, Zenon DEF PullOut
  <2>3. Shape'
    BY <2>1, <2>2, PullOutShape, Zenon DEF Shape
  <2> QED
    BY <2>1, <2>2, <2>3, PullOutShape, Zenon DEF Effect, Pending, Same
<1>4. CASE Take(r)
  BY <1>4, ReturnsEffect, Zenon DEF Take
<1> QED
  BY <1>1, <1>2, <1>3, <1>4, Zenon DEF TakeStep

\* A Take that begins is under way, for the limiter and the key it was asked for.
LEMMA StartTakeEffect ==
    ASSUME Shape, NEW r \in Requests, NEW lim, NEW key, StartTake(r, lim, key)
    PROVE  /\ TakeShape' /\ Pending(r)'
           /\ take'[r].lim = lim /\ take'[r].key = key
           /\ \A q \in Requests \ {r} : take'[q] = take[q]
<1>0. PICK pc \in {"pipeline", "memory"} :
            \E start : take' = [take EXCEPT ![r] = TakeOf(pc, lim, key, start, 0)]
  BY Zenon DEF StartTake, TakeOf
<1>1. PICK start : take' = [take EXCEPT ![r] = TakeOf(pc, lim, key, start, 0)]
  BY <1>0, Zenon
<1>2. PICK t : t = TakeOf(pc, lim, key, start, 0)
  BY Zenon
<1>3. t.pc = pc /\ t.lim = lim /\ t.key = key /\ t.start = start /\ t.gen = 0
  BY <1>2, TakeFields
<1>4. t = TakeOf(t.pc, t.lim, t.key, t.start, t.gen)
  BY <1>2, <1>3, Zenon
<1>5. take' = [take EXCEPT ![r] = t]
  BY <1>1, <1>2, Zenon
<1>6. TakeShape' /\ take'[r] = t /\ \A q \in Requests \ {r} : take'[q] = take[q]
  BY <1>4, <1>5, NewTake, Zenon
<1> QED
  BY <1>0, <1>3, <1>6, Zenon DEF Pending

\* A request is done with its Take.
LEMMA NoTakeEffect ==
    ASSUME Shape, NEW r \in Requests, take' = [take EXCEPT ![r] = NoTake]
    PROVE  /\ TakeShape' /\ take'[r].pc = "none"
           /\ \A q \in Requests \ {r} : take'[q] = take[q]
<1>1. PICK t : t = NoTake
  BY Zenon
<1>2. t = TakeOf("none", "none", "none", 0, 0)
  BY <1>1, Zenon DEF NoTake, TakeOf
<1>3. t.pc = "none" /\ t.lim = "none" /\ t.key = "none" /\ t.start = 0 /\ t.gen = 0
  BY <1>2, TakeFields
<1>4. t = TakeOf(t.pc, t.lim, t.key, t.start, t.gen)
  BY <1>2, <1>3, Zenon
<1>5. take' = [take EXCEPT ![r] = t]
  BY <1>1, Zenon
<1>6. TakeShape' /\ take'[r] = t /\ \A q \in Requests \ {r} : take'[q] = take[q]
  BY <1>4, <1>5, NewTake, Zenon
<1> QED
  BY <1>3, <1>6, Zenon

-----------------------------------------------------------------------------
(* The invariant *)

\* A step of Take preserves the invariant of its request.
LEMMA TakeStepKeeps ==
    ASSUME LimitsInv, NEW r \in Requests, TakeStep(r), UNCHANGED <<call, stage>>
    PROVE  LimitsInv'
<1>1. Shape' /\ Effect(r) /\ \A q \in Requests \ {r} : Same(q)
  BY TakeStepEffect, Zenon DEF LimitsInv
<1>2. \A q \in Requests \ {r} : RequestInv(q)'
  BY <1>1, SameKeeps, Zenon DEF LimitsInv
<1>3. Pending(r)
  BY Zenon DEF TakeStep, Pipeline, PipelineFails, PullOut, Take, Pending
<1>4. RequestInv(r) /\ stage[r] \in {"limit", "sender"}
  BY <1>3, Zenon DEF LimitsInv, RequestInv, Pending
<1>5. CASE stage[r] = "limit"
  <2>1. LimitStage(r) /\ took[r] = {}
    BY <1>3, <1>4, <1>5, Zenon DEF RequestInv, LimitStage, Pending, HasReturned
  <2>2. ASSUME Pending(r)', took'[r] = took[r]
        PROVE  RequestInv(r)'
    BY <1>1, <1>5, <2>1, <2>2, Zenon DEF Effect, RequestInv, LimitStage, SenderLast
  <2>3. ASSUME NEW t, HasReturned(r)', IsResult(r, t)', took'[r] = took[r] \union {t}
        PROVE  RequestInv(r)'
    <3>1. took'[r] = {t}
      BY <2>1, <2>3, Zenon
    <3> QED
      BY <1>1, <1>5, <2>1, <2>3, <3>1, Zenon DEF Effect, RequestInv, LimitStage, SenderLast
  <2> QED
    BY <1>1, <1>2, <2>2, <2>3, Zenon DEF Effect, LimitsInv
<1>6. CASE stage[r] = "sender"
  <2>1. SenderStage(r) /\ SenderLast(r)
    BY <1>4, <1>6, Zenon DEF RequestInv
  <2>2. ASSUME Pending(r)', took'[r] = took[r]
        PROVE  RequestInv(r)'
    BY <1>1, <1>6, <2>1, <2>2, Zenon
    DEF Effect, RequestInv, SenderStage, SenderLast, PassedGlobal, AdmittedBy
  <2>3. ASSUME NEW t, HasReturned(r)', IsResult(r, t)', took'[r] = took[r] \union {t}
        PROVE  RequestInv(r)'
    <3>1. t.lim = "senders"
      BY <1>1, <2>1, <2>3, Zenon DEF Effect, IsResult, SenderStage
    <3>2. PassedGlobal(r)'
      BY <2>1, <2>3, Zenon DEF SenderStage, PassedGlobal, AdmittedBy
    <3>3. SenderStage(r)'
      BY <1>1, <2>1, <2>3, <3>1, <3>2, Zenon DEF Effect, SenderStage
    <3>4. SenderLast(r)'
      BY <3>3, Zenon DEF SenderStage, SenderLast
    <3> QED
      BY <1>6, <3>3, <3>4, Zenon DEF RequestInv
  <2> QED
    BY <1>1, <1>2, <2>2, <2>3, Zenon DEF Effect, LimitsInv
<1> QED
  BY <1>4, <1>5, <1>6, Zenon

\* What the steps of a handler have in common: they return no Take, and leave the
\* other requests alone.
Handled(r) ==
    /\ Shape' /\ UNCHANGED took
    /\ \A q \in Requests \ {r} : Same(q)

\* A request that enters stage s.
LEMMA EnterEffect ==
    ASSUME Shape, NEW r \in Requests, NEW s, Enter(r, s)
    PROVE  /\ stage' = [q \in Requests |-> stage'[q]] /\ stage'[r] = s
           /\ \A q \in Requests \ {r} : stage'[q] = stage[q]
BY Zenon DEF Shape, Enter

\* A request that isLimited has let pass is forwarded, unless its sender is asked
\* first.
LEMMA NotLimitedKeeps ==
    ASSUME Shape, NEW r \in Requests, NotLimited(r, call'[r]), UNCHANGED took,
           call' = [q \in Requests |-> call'[q]],
           \A q \in Requests \ {r} : call'[q] = call[q],
           PassedGlobal(r)', \A t \in took[r] : t.result = "ok"
    PROVE  Handled(r) /\ RequestInv(r)'
<1>1. SenderLast(r)'
  BY Zenon DEF SenderLast
<1>2. CASE NeedsSender(call'[r]) /\ ValidTx(call'[r].tx)
  <2>1. Enter(r, "sender") /\ StartTake(r, "senders", call'[r].tx)
    BY <1>2, Zenon DEF NotLimited, RateLimitSender
  <2>2. /\ TakeShape' /\ Pending(r)'
        /\ take'[r].lim = "senders" /\ take'[r].key = call'[r].tx
        /\ \A q \in Requests \ {r} : take'[q] = take[q]
    BY <2>1, StartTakeEffect, Zenon
  <2>3. /\ stage' = [q \in Requests |-> stage'[q]] /\ stage'[r] = "sender"
        /\ \A q \in Requests \ {r} : stage'[q] = stage[q]
    BY <2>1, EnterEffect, Zenon
  <2>4. Handled(r)
    BY <2>2, <2>3, Zenon DEF Handled, Shape, Same
  <2>5. SenderStage(r)'
    BY <2>2, Zenon DEF SenderStage
  <2> QED
    BY <1>1, <2>3, <2>4, <2>5, Zenon DEF RequestInv
<1>3. CASE ~(NeedsSender(call'[r]) /\ ValidTx(call'[r].tx))
  <2>1. PICK s : /\ Enter(r, s)
                 /\ IF NeedsSender(call'[r]) THEN s = "answered" ELSE s = "forwarded"
    BY <1>3, Zenon DEF NotLimited, RateLimitSender
  <2>2. take' = [take EXCEPT ![r] = NoTake]
    BY <1>3, Zenon DEF NotLimited, RateLimitSender
  <2>3. /\ TakeShape' /\ take'[r].pc = "none"
        /\ \A q \in Requests \ {r} : take'[q] = take[q]
    BY <2>2, NoTakeEffect, Zenon
  <2>4. /\ stage' = [q \in Requests |-> stage'[q]] /\ stage'[r] = s
        /\ \A q \in Requests \ {r} : stage'[q] = stage[q]
    BY <2>1, EnterEffect, Zenon
  <2>5. Handled(r)
    BY <2>3, <2>4, Zenon DEF Handled, Shape, Same
  <2>6. s = "forwarded" => Forwarded(r)'
    BY <2>1, Zenon DEF Forwarded
  <2> QED
    BY <1>1, <2>1, <2>3, <2>4, <2>5, <2>6, Zenon DEF RequestInv
<1> QED
  BY <1>2, <1>3, Zenon

\* A request that arrives.
LEMMA ArriveKeeps ==
    ASSUME LimitsInv, NEW r \in Requests, Arrive(r)
    PROVE  Handled(r) /\ RequestInv(r)'
<1>1. PICK c \in Calls[r] :
         /\ call' = [call EXCEPT ![r] = c]
         /\ IF Blocked(c) \/ NeedsNoBackend(c)
            THEN Enter(r, "answered") /\ UNCHANGED take
            ELSE IF LimiterOf(c) = NoLimiter THEN NotLimited(r, c)
            ELSE Enter(r, "limit") /\ StartTake(r, LimiterOf(c).lim, LimiterOf(c).key)
  BY Zenon DEF Arrive
<1>2. Shape /\ RequestInv(r) /\ stage[r] = "idle" /\ took[r] = {} /\ UNCHANGED took /\ took'[r] = {}
  BY Zenon DEF LimitsInv, RequestInv, Arrive
<1>3. /\ call' = [q \in Requests |-> call'[q]] /\ call'[r] = c
      /\ \A q \in Requests \ {r} : call'[q] = call[q]
  BY <1>1, <1>2, Zenon DEF Shape
<1>4. SenderLast(r)'
  BY <1>2, Zenon DEF SenderLast
<1>5. CASE Enter(r, "answered") /\ UNCHANGED take
  <2>1. /\ stage' = [q \in Requests |-> stage'[q]] /\ stage'[r] = "answered"
        /\ \A q \in Requests \ {r} : stage'[q] = stage[q]
    BY <1>2, <1>5, EnterEffect, Zenon
  <2>2. Handled(r)
    BY <1>2, <1>3, <1>5, <2>1, Zenon DEF Handled, Shape, TakeShape, Same
  <2>3. take'[r].pc = "none"
    BY <1>2, <1>5, Zenon DEF RequestInv
  <2> QED
    BY <1>4, <2>1, <2>2, <2>3, Zenon DEF RequestInv
<1>6. CASE c.ip # "" /\ LimiterOf(c) = NoLimiter /\ NotLimited(r, c)
  <2>1. c.method \notin GlobalMethods
    BY <1>6, CallsAssumption, Zenon DEF LimiterOf, NoLimiter
  <2>2. PassedGlobal(r)'
    BY <1>3, <2>1, Zenon DEF PassedGlobal
  <2> QED
    BY <1>2, <1>3, <1>6, <2>2, NotLimitedKeeps, Zenon
<1>7. CASE c.ip # "" /\ Enter(r, "limit") /\ StartTake(r, LimiterOf(c).lim, LimiterOf(c).key)
  <2>1. /\ TakeShape' /\ Pending(r)'
        /\ take'[r].lim = LimiterOf(c).lim /\ take'[r].key = LimiterOf(c).key
        /\ \A q \in Requests \ {r} : take'[q] = take[q]
    BY <1>2, <1>7, StartTakeEffect, Zenon
  <2>2. /\ stage' = [q \in Requests |-> stage'[q]] /\ stage'[r] = "limit"
        /\ \A q \in Requests \ {r} : stage'[q] = stage[q]
    BY <1>2, <1>7, EnterEffect, Zenon
  <2>3. Handled(r)
    BY <1>2, <1>3, <2>1, <2>2, Zenon DEF Handled, Shape, Same
  <2>4. LimitStage(r)'
    BY <1>2, <1>3, <1>7, <2>1, Zenon DEF LimitStage
  <2> QED
    BY <1>4, <2>2, <2>3, <2>4, Zenon DEF RequestInv
<1> QED
  BY <1>1, <1>5, <1>6, <1>7, Zenon DEF Blocked

\* A request whose limit by address has been taken from.
LEMMA LimitedKeeps ==
    ASSUME LimitsInv, NEW r \in Requests, Limited(r)
    PROVE  Handled(r) /\ RequestInv(r)'
<1>1. /\ Shape /\ LimitStage(r) /\ SenderLast(r) /\ UNCHANGED <<took, call>>
      /\ take[r].pc \in {"ok", "over", "error"}
  BY Zenon DEF LimitsInv, RequestInv, Limited
<1>2. PICK t \in took[r] : IsResult(r, t) /\ \A u \in took[r] : IsResult(r, u)
  BY <1>1, Zenon DEF LimitStage, Pending
<1>3. CASE take[r].pc = "ok" /\ NotLimited(r, call[r])
  <2>1. \A u \in took[r] : u.result = "ok"
    BY <1>2, <1>3, Zenon DEF IsResult
  <2>2. call[r].method \in GlobalMethods =>
           LimiterOf(call[r]).lim = call[r].method /\ LimiterOf(call[r]).key = call[r].ip
    BY CallsAssumption, Zenon DEF LimiterOf
  <2>3. PassedGlobal(r)'
    BY <1>1, <1>2, <2>1, <2>2, Zenon DEF PassedGlobal, AdmittedBy, LimitStage, IsResult
  <2>4. call' = [q \in Requests |-> call'[q]] /\ \A q \in Requests \ {r} : call'[q] = call[q]
    BY <1>1, Zenon DEF Shape
  <2> QED
    BY <1>1, <1>3, <2>1, <2>3, <2>4, NotLimitedKeeps, Zenon
<1>4. CASE Enter(r, "limited") /\ take' = [take EXCEPT ![r] = NoTake]
  <2>1. /\ TakeShape' /\ take'[r].pc = "none"
        /\ \A q \in Requests \ {r} : take'[q] = take[q]
    BY <1>1, <1>4, NoTakeEffect, Zenon
  <2>2. /\ stage' = [q \in Requests |-> stage'[q]] /\ stage'[r] = "limited"
        /\ \A q \in Requests \ {r} : stage'[q] = stage[q]
    BY <1>1, <1>4, EnterEffect, Zenon
  <2>3. Handled(r)
    BY <1>1, <2>1, <2>2, Zenon DEF Handled, Shape, Same
  <2>4. SenderLast(r)'
    BY <1>1, Zenon DEF SenderLast
  <2> QED
    BY <2>1, <2>2, <2>3, <2>4, Zenon DEF RequestInv
<1> QED
  BY <1>3, <1>4, Zenon DEF Limited

\* A request whose sender's limit has been taken from.
LEMMA SenderLimitedKeeps ==
    ASSUME LimitsInv, NEW r \in Requests, SenderLimited(r)
    PROVE  Handled(r) /\ RequestInv(r)'
<1>1. /\ Shape /\ SenderStage(r) /\ SenderLast(r) /\ UNCHANGED <<took, call>>
      /\ take[r].pc \in {"ok", "over", "error"} /\ take' = [take EXCEPT ![r] = NoTake]
  BY Zenon DEF LimitsInv, RequestInv, SenderLimited
<1>2. PICK s : Enter(r, s) /\ s = IF take[r].pc = "ok" THEN "forwarded" ELSE "limited"
  BY Zenon DEF SenderLimited
<1>3. /\ TakeShape' /\ take'[r].pc = "none"
      /\ \A q \in Requests \ {r} : take'[q] = take[q]
  BY <1>1, NoTakeEffect, Zenon
<1>4. /\ stage' = [q \in Requests |-> stage'[q]] /\ stage'[r] = s
      /\ \A q \in Requests \ {r} : stage'[q] = stage[q]
  BY <1>1, <1>2, EnterEffect, Zenon
<1>5. Handled(r)
  BY <1>1, <1>3, <1>4, Zenon DEF Handled, Shape, Same
<1>6. SenderLast(r)'
  BY <1>1, Zenon DEF SenderLast
<1>7. s = "forwarded" => Forwarded(r)'
  <2>1. PassedGlobal(r)'
    BY <1>1, Zenon DEF SenderStage, PassedGlobal, AdmittedBy
  <2>2. s = "forwarded" => AdmittedBy(r, "senders", call[r].tx)
    BY <1>1, <1>2, Zenon DEF SenderStage, AdmittedBy, IsResult, Pending
  <2> QED
    BY <1>1, <2>1, <2>2, Zenon DEF Forwarded, AdmittedBy
<1> QED
  BY <1>2, <1>3, <1>4, <1>5, <1>6, <1>7, Zenon DEF RequestInv

-----------------------------------------------------------------------------
(* The theorem *)

\* The initial states satisfy the invariant.
LEMMA LimitsInit == Init => LimitsInv
<1> SUFFICES ASSUME Init PROVE LimitsInv
  BY Zenon
<1>1. \A r \in Requests : take[r] = NoTake /\ took[r] = {} /\ stage[r] = "idle"
  BY Zenon DEF Init, LimiterInit
<1>2. NoTake = TakeOf("none", "none", "none", 0, 0) /\ NoTake.pc = "none" /\ NoTake.lim = "none"
      /\ NoTake.key = "none" /\ NoTake.start = 0 /\ NoTake.gen = 0
  BY Zenon DEF NoTake, TakeOf
<1>3. \A r \in Requests : take[r] = TakeOf(take[r].pc, take[r].lim, take[r].key, take[r].start,
                                           take[r].gen)
  BY <1>1, <1>2, Zenon
<1>4. take = [r \in Requests |-> take[r]] /\ took = [r \in Requests |-> took[r]]
      /\ call = [r \in Requests |-> call[r]] /\ stage = [r \in Requests |-> stage[r]]
  BY Zenon DEF Init, LimiterInit
<1>5. Shape
  BY <1>3, <1>4, Zenon DEF Shape, TakeShape
<1>6. \A r \in Requests : RequestInv(r)
  BY <1>1, <1>2, Zenon DEF RequestInv, SenderLast
<1> QED
  BY <1>5, <1>6, Zenon DEF LimitsInv

\* Every step preserves it.
LEMMA LimitsNext == LimitsInv /\ [Next]_vars => LimitsInv'
<1> SUFFICES ASSUME LimitsInv, [Next]_vars PROVE LimitsInv'
  BY Zenon
<1>1. ASSUME UNCHANGED <<take, took, call, stage>> PROVE LimitsInv'
  <2>1. \A q \in Requests : Same(q)
    BY <1>1, Zenon DEF Same
  <2>2. \A q \in Requests : RequestInv(q)'
    BY <2>1, SameKeeps, Zenon DEF LimitsInv
  <2>3. Shape'
    BY <1>1, Zenon DEF LimitsInv, Shape, TakeShape
  <2> QED
    BY <2>2, <2>3, Zenon DEF LimitsInv
<1>2. ASSUME NEW r \in Requests, Handle(r) PROVE LimitsInv'
  <2>1. Handled(r) /\ RequestInv(r)'
    BY <1>2, ArriveKeeps, LimitedKeeps, SenderLimitedKeeps, Zenon DEF Handle
  <2>2. \A q \in Requests \ {r} : RequestInv(q)'
    BY <2>1, SameKeeps, Zenon DEF LimitsInv, Handled
  <2> QED
    BY <2>1, <2>2, Zenon DEF LimitsInv, Handled
<1>3. ASSUME NEW r \in Requests, TakeStep(r), UNCHANGED <<call, stage>> PROVE LimitsInv'
  BY <1>3, TakeStepKeeps, Zenon
<1> QED
  BY <1>1, <1>2, <1>3, Zenon DEF Next, Tick, vars, limiterVars

\* Whoever calls, whatever limiters there are and whatever calls of Redis fail: a
\* transaction reaches a backend only through the limit of its sender, a globally
\* limited method only through the limit of the method, and what is refused by
\* address spends nothing of its sender's limit (handleBatchRPC, isLimited).
THEOREM NobodyIsEverExempt == Spec => []NobodyIsExempt
<1>1. LimitsInv => NobodyIsExempt
  BY Zenon DEF LimitsInv, RequestInv, Forwarded, PassedGlobal, SenderLast, NobodyIsExempt
<1> QED
  BY <1>1, LimitsInit, LimitsNext, PTL DEF Spec

-----------------------------------------------------------------------------
(* The counters: types, and what a request has taken before *)

\* What limiters count by: addresses, senders with their nonces, and the one key of
\* all exempt traffic.
Keys == {"none", "exempt"} \union UNION {{c.ip, c.tx} : c \in UNION {Calls[r] : r \in Requests}}

\* The types of what the limiters keep.
Takes ==
    [pc : {"none", "pipeline", "memory", "take", "ok", "over", "error"},
     lim : Limiters \union {"none"}, key : Keys, start : Int, gen : Nat]

Results ==
    [lim : Limiters, key : Keys, by : {"redis", "memory"}, result : {"ok", "over", "error"},
     start : Int]

UsedMaps == UNION {[K -> Nat] : K \in SUBSET Keys}
Generations == [start : Nat, used : UsedMaps]
Entries == [count : Nat, left : Nat]

CounterTypes ==
    /\ now \in Nat
    /\ redis \in [DOMAIN redis -> Entries]
    /\ gens \in [Instances -> [Limiters -> Seq(Generations)]]
    /\ take \in [Requests -> Takes]
    /\ took \in [Requests -> SUBSET Results]
    /\ \A r \in Requests : Pending(r) => take[r].lim \in Limiters
    /\ \A r \in Requests : stage[r] # "idle" => call[r] \in Calls[r]

\* A window starts at a multiple of its length; those that have started.
Windows(l) == {s \in Nat : \E q \in Nat : s = q * Dur[l]}
Starts(l) == {s \in Windows(l) : s <= now}

\* A Take carries the start of a window to Redis, and leaves it in its result.
StampInv ==
    \A r \in Requests :
        /\ take[r].pc = "pipeline" => take[r].start \in Starts(take[r].lim)
        /\ \A t \in took[r] : t.by = "redis" => t.start \in Starts(t.lim)

\* A Take that is under way is the first of its request from its limiter.
FirstInv ==
    \A r \in Requests : Pending(r) => \A t \in took[r] : t.lim # take[r].lim

-----------------------------------------------------------------------------
(* In memory *)

\* Those that instance i has admitted for a key in the window that starts at s.
MemoryAdmitted(i, l, key, s) ==
    {r \in OfInstance(i) : \E t \in took[r] :
        t.lim = l /\ t.key = key /\ t.by = "memory" /\ t.start = s /\ t.result = "ok"}

\* Every generation is of a later window than the one before.
GensAscend ==
    \A i \in Instances, l \in Limiters :
        LET gs == gens[i][l] IN
        /\ \A g \in DOMAIN gs : gs[g].start <= WindowStart(l)
        /\ \A g, h \in DOMAIN gs : g < h => gs[g].start < gs[h].start

\* A Take counts, and has counted, in a generation that there is.
InGeneration ==
    \A r \in Requests :
        /\ take[r].pc = "take" => take[r].gen \in DOMAIN gens[InstanceOf[r]][take[r].lim]
        /\ \A t \in took[r] : t.by = "memory" =>
              \E g \in DOMAIN gens[InstanceOf[r]][t.lim] :
                  t.start = gens[InstanceOf[r]][t.lim][g].start

\* A generation counts everybody it has admitted, and has not admitted too many.
Counted(i, l, g, key) ==
    LET A == MemoryAdmitted(i, l, key, gens[i][l][g].start)
    IN /\ IsFiniteSet(A)
       /\ Cardinality(A) <= UsedOf(gens[i][l][g].used, key)
       /\ Cardinality(A) <= Max[l]

MemoryInv ==
    /\ GensAscend /\ InGeneration
    /\ \A i \in Instances, l \in Limiters : \A g \in DOMAIN gens[i][l], key \in Keys :
          Counted(i, l, g, key)

\* Whoever has counted was admitted, until all of the limit is used.
UsedUp(i, l, g, key) ==
    LET A == MemoryAdmitted(i, l, key, gens[i][l][g].start)
    IN UsedOf(gens[i][l][g].used, key) <= Cardinality(A) \/ Max[l] <= Cardinality(A)

\* Whoever was refused in memory finds the limit used up by others.
RefusedInMemory ==
    \A r \in Requests : \A t \in took[r] :
        t.by = "memory" /\ t.result = "over" =>
            Max[t.lim] <= Cardinality(MemoryAdmitted(InstanceOf[r], t.lim, t.key, t.start))

UsedUpInv ==
    /\ RefusedInMemory
    /\ \A i \in Instances, l \in Limiters : \A g \in DOMAIN gens[i][l], key \in Keys :
          UsedUp(i, l, g, key)

-----------------------------------------------------------------------------
(* In Redis *)

\* Those that have been admitted for a key in the window that starts at s, by
\* whichever instance.
RedisAdmitted(l, key, s) ==
    {r \in Requests : \E t \in took[r] :
        t.lim = l /\ t.key = key /\ t.by = "redis" /\ t.start = s /\ t.result = "ok"}

EntryOf(l, key, s) == <<l, key, Truncated(s)>>

\* While the window lasts, but for its last millisecond, there is an entry that
\* counts whatever was admitted in it.
EntryCounts(l, key, s) ==
    LET A == RedisAdmitted(l, key, s)
        k == EntryOf(l, key, s)
    IN /\ IsFiniteSet(A)
       /\ now < s + Dur[l] - 1 =>
             /\ Cardinality(A) <= Max[l]
             /\ A = {} \/ /\ k \in DOMAIN redis /\ Cardinality(A) <= redis[k].count
                          /\ s + Dur[l] - 1 - now <= redis[k].left

RedisInv == \A l \in Limiters, key \in Keys, s \in Nat : EntryCounts(l, key, s)

\* Those that Redis has answered for a key and a window, and the calls that failed.
HasAnswer(r, l, key, s) ==
    \E t \in took[r] :
        t.lim = l /\ t.key = key /\ t.by = "redis" /\ t.start = s /\ t.result # "error"

AnsweredTo(l, key, s) == {r \in Requests : HasAnswer(r, l, key, s)}

CallOf(l, key, s) == [lim |-> l, key |-> key, start |-> s]

Failed(l, key, s) == {i \in DOMAIN failures : failures[i] = CallOf(l, key, s)}

\* No entry has counted more than the calls of its window.
CountedOnce(l, key, s) ==
    LET A == AnsweredTo(l, key, s)
        F == Failed(l, key, s)
        k == EntryOf(l, key, s)
    IN /\ IsFiniteSet(A) /\ IsFiniteSet(F)
       /\ k \in DOMAIN redis => redis[k].count <= Cardinality(A) + Cardinality(F)

\* Whoever was refused by Redis finds enough other calls.
RefusedByRedis ==
    \A r \in Requests : \A t \in took[r] :
        t.by = "redis" /\ t.result = "over" =>
            Max[t.lim] <= Cardinality(AnsweredTo(t.lim, t.key, t.start) \ {r})
                          + Cardinality(Failed(t.lim, t.key, t.start))

CalledInv ==
    /\ failures \in Seq([lim : Limiters, key : Keys, start : Int])
    /\ RefusedByRedis
    /\ \A l \in Limiters, key \in Keys : \A s \in Windows(l) : CountedOnce(l, key, s)

-----------------------------------------------------------------------------
(* The types *)

\* The address and the sender of a call are keys.
LEMMA KeysOf ==
    ASSUME NEW r \in Requests, NEW c \in Calls[r]
    PROVE  c.ip \in Keys /\ c.tx \in Keys /\ "exempt" \in Keys /\ "none" \in Keys
<1> DEFINE All == UNION {Calls[q] : q \in Requests}
           Pairs == {{d.ip, d.tx} : d \in All}
<1>1. c \in All
  BY Zenon
<1>2. {c.ip, c.tx} \in Pairs
  BY <1>1, Zenon
<1>3. c.ip \in UNION Pairs /\ c.tx \in UNION Pairs
  BY <1>2, Zenon
<1> QED
  BY <1>3, Zenon DEF Keys

\* The limiter and the key that isLimited takes from.
LEMMA LimiterTypes ==
    ASSUME NEW r \in Requests, NEW c \in Calls[r], LimiterOf(c) # NoLimiter
    PROVE  LimiterOf(c).lim \in Limiters /\ LimiterOf(c).key \in Keys
<1>1. c.ip \in Keys /\ "exempt" \in Keys
  BY KeysOf, Zenon
<1>2. PICK p : p = LimiterOf(c)
  BY Zenon
<1>3. \/ \E o \in ExemptOrigins : p = [lim |-> o, key |-> "exempt"]
      \/ \E m \in MethodOverrides : p = [lim |-> m, key |-> c.ip]
      \/ p = [lim |-> "main", key |-> c.ip]
  BY <1>2, Zenon DEF LimiterOf, ExemptLimiter
<1>4. \E l \in Limiters, key \in Keys : p = [lim |-> l, key |-> key]
  BY <1>1, <1>3, CallsAssumption, Zenon
<1> QED
  BY <1>2, <1>4

\* A key has been used so many times.
LEMMA UsedNat ==
    ASSUME NEW u \in UsedMaps, NEW key
    PROVE  UsedOf(u, key) \in Nat
<1>1. PICK K \in SUBSET Keys : u \in [K -> Nat]
  BY Zenon DEF UsedMaps
<1> QED
  BY <1>1, Zenon DEF UsedOf

\* A generation keeps the start of its window, and counts one key at a time.
LEMMA UsedStep ==
    ASSUME NEW u \in UsedMaps, NEW key \in Keys
    PROVE  LET v == [k \in DOMAIN u \union {key} |-> IF k = key THEN UsedOf(u, key) + 1 ELSE u[k]]
           IN /\ v \in UsedMaps
              /\ UsedOf(v, key) = UsedOf(u, key) + 1
              /\ \A k \in Keys \ {key} : UsedOf(v, k) = UsedOf(u, k)
              /\ \A k \in Keys : UsedOf(u, k) \in Nat
<1> DEFINE v == [k \in DOMAIN u \union {key} |-> IF k = key THEN UsedOf(u, key) + 1 ELSE u[k]]
<1>1. PICK K \in SUBSET Keys : u \in [K -> Nat]
  BY Zenon DEF UsedMaps
<1>2. \A k \in Keys : UsedOf(u, k) \in Nat
  BY <1>1, Zenon DEF UsedOf
<1>3. v \in [K \union {key} -> Nat] /\ K \union {key} \in SUBSET Keys
  BY <1>1, <1>2
<1>4. v \in UsedMaps
  BY <1>3, Zenon DEF UsedMaps
<1>5. UsedOf(v, key) = UsedOf(u, key) + 1 /\ \A k \in Keys \ {key} : UsedOf(v, k) = UsedOf(u, k)
  BY Zenon DEF UsedOf
<1> QED
  BY <1>2, <1>4, <1>5, Zenon

\* The start of the window of now.
LEMMA WindowStarts ==
    ASSUME now \in Nat, NEW l \in Limiters
    PROVE  /\ Dur[l] \in Nat \ {0, 1}
           /\ WindowStart(l) \in Nat /\ WindowStart(l) <= now
           /\ now \div Dur[l] \in Nat /\ WindowStart(l) = (now \div Dur[l]) * Dur[l]
<1>1. Dur[l] \in Nat \ {0, 1}
  BY LimiterAssumption, Zenon
<1>2. PICK d \in Nat \ {0, 1} : d = Dur[l]
  BY <1>1, Zenon
<1>3. now \div d \in Nat /\ (now \div d) * d <= now /\ (now \div d) * d \in Nat
  BY <1>2
<1> QED
  BY <1>1, <1>2, <1>3, Zenon DEF WindowStart

\* Before the first request all counters are empty.
LEMMA TypesInit == Init => CounterTypes
<1> SUFFICES ASSUME Init PROVE CounterTypes
  BY Zenon
<1>1. NoTake \in Takes
  <2>1. "none" \in Keys
    BY Zenon DEF Keys
  <2> QED
    BY <2>1 DEF NoTake, Takes
<1>2. take = [r \in Requests |-> NoTake] /\ took = [r \in Requests |-> {}] /\ now = 0
      /\ redis = <<>> /\ gens = [i \in Instances |-> [l \in Limiters |-> <<>>]]
      /\ stage = [r \in Requests |-> "idle"]
  BY Zenon DEF Init, LimiterInit
<1>3. take \in [Requests -> Takes] /\ \A r \in Requests : ~Pending(r)
  BY <1>1, <1>2, Zenon DEF Pending, NoTake
<1>4. gens \in [Instances -> [Limiters -> Seq(Generations)]] /\ took \in [Requests -> SUBSET Results]
  BY <1>2
<1>5. redis \in [DOMAIN redis -> Entries]
  BY <1>2
<1> QED
  BY <1>2, <1>3, <1>4, <1>5, Zenon DEF CounterTypes

\* A Take that begins has the types of a Take.
LEMMA StartTakeTypes ==
    ASSUME CounterTypes, NEW r \in Requests, NEW l \in Limiters, NEW key \in Keys,
           StartTake(r, l, key)
    PROVE  /\ take' \in [Requests -> Takes] /\ take'[r].lim = l
           /\ \A q \in Requests \ {r} : take'[q] = take[q]
           /\ take'[r].pc \in {"pipeline", "memory"}
           /\ take'[r].pc = "pipeline" => take'[r].start = WindowStart(l)
           /\ take'[r].pc = "memory" => take'[r].start = -1
<1>1. WindowStart(l) \in Nat
  BY WindowStarts, Zenon DEF CounterTypes
<1>2. UseRedis \in BOOLEAN
  BY LimiterAssumption, Zenon
<1>3. CASE UseRedis
  BY <1>1, <1>3 DEF StartTake, CounterTypes, Takes
<1>4. CASE ~UseRedis
  BY <1>4 DEF StartTake, CounterTypes, Takes
<1> QED
  BY <1>2, <1>3, <1>4, Zenon

\* A Take returns and leaves its result t.
Leaves(r, by, result, t) ==
    /\ take' \in [Requests -> Takes] /\ took' \in [Requests -> SUBSET Results]
    /\ \A q \in Requests \ {r} : take'[q] = take[q] /\ took'[q] = took[q]
    /\ take'[r].pc = result /\ take'[r].lim = take[r].lim
    /\ took'[r] = took[r] \union {t}
    /\ t.lim = take[r].lim /\ t.key = take[r].key /\ t.by = by /\ t.result = result
    /\ by = "redis" => t.start = take[r].start
    /\ by = "memory" => t.start = gens[InstanceOf[r]][take[r].lim][take[r].gen].start

\* A Take goes on to pc.
GoesOn(r, pc) ==
    /\ take' \in [Requests -> Takes] /\ UNCHANGED took
    /\ \A q \in Requests \ {r} : take'[q] = take[q]
    /\ take'[r].pc = pc /\ take'[r].lim = take[r].lim /\ take'[r].key = take[r].key
    /\ take'[r].start = take[r].start

\* The result has the types of a result.
LEMMA ReturnsTypes ==
    ASSUME CounterTypes, NEW r \in Requests, Pending(r), NEW by \in {"redis", "memory"},
           NEW result \in {"ok", "over", "error"}, Returns(r, by, result),
           by = "memory" => take[r].gen \in DOMAIN gens[InstanceOf[r]][take[r].lim]
    PROVE  \E t \in Results : Leaves(r, by, result, t)
<1>1. /\ take \in [Requests -> Takes] /\ took \in [Requests -> SUBSET Results]
      /\ gens \in [Instances -> [Limiters -> Seq(Generations)]] /\ take[r].lim \in Limiters
      /\ InstanceOf[r] \in Instances
  BY LimiterAssumption, Zenon DEF CounterTypes
<1>2. /\ take' \in [Requests -> Takes] /\ take'[r].pc = result /\ take'[r].lim = take[r].lim
      /\ \A q \in Requests \ {r} : take'[q] = take[q]
  <2>1. take' = [take EXCEPT ![r].pc = result]
    BY Zenon DEF Returns, Goto
  <2>2. PICK u : u = [take[r] EXCEPT !.pc = result]
    BY Zenon
  <2>3. u \in Takes /\ u.pc = result /\ u.lim = take[r].lim
    BY <1>1, <2>2, ZenonT(60) DEF Takes
  <2>4. take' = [take EXCEPT ![r] = u]
    BY <2>1, <2>2, Zenon
  <2> QED
    BY <1>1, <2>3, <2>4, Zenon
<1> DEFINE start == IF by = "memory" THEN gens[InstanceOf[r]][take[r].lim][take[r].gen].start
                    ELSE take[r].start
           t == [lim |-> take[r].lim, key |-> take[r].key, by |-> by, result |-> result,
                 start |-> start]
<1>3. took' = [took EXCEPT ![r] = @ \union {t}]
  BY Zenon DEF Returns
<1>4. take[r].start \in Int /\ take[r].key \in Keys
  BY <1>1, Zenon DEF Takes
<1>5. start \in Int
  <2>1. CASE by = "memory"
    <3>1. gens[InstanceOf[r]][take[r].lim] \in Seq(Generations)
      BY <1>1, Zenon
    <3>2. gens[InstanceOf[r]][take[r].lim][take[r].gen] \in Generations
      BY <2>1, <3>1
    <3> QED
      BY <2>1, <3>2 DEF Generations
  <2>2. CASE by # "memory"
    BY <1>4, <2>2, Zenon
  <2> QED
    BY <2>1, <2>2, Zenon
<1>6. t \in Results
  BY <1>1, <1>4, <1>5, Zenon DEF Results
<1>7. /\ t.lim = take[r].lim /\ t.key = take[r].key /\ t.by = by /\ t.result = result
      /\ t.start = start
  BY Zenon
<1>8. by = "redis" => t.start = take[r].start
  BY <1>7, Zenon
<1>9. by = "memory" => t.start = gens[InstanceOf[r]][take[r].lim][take[r].gen].start
  BY <1>7, Zenon
<1> HIDE DEF t, start
<1>10. /\ took' \in [Requests -> SUBSET Results] /\ took'[r] = took[r] \union {t}
       /\ \A q \in Requests \ {r} : took'[q] = took[q]
  BY <1>1, <1>3, <1>6, Zenon
<1>11. Leaves(r, by, result, t)
  BY <1>2, <1>7, <1>8, <1>9, <1>10, Zenon DEF Leaves
<1> QED
  BY <1>6, <1>11, Zenon

\* A Take whose call of Redis has failed asks the limiter in memory.
LEMMA GotoTypes ==
    ASSUME CounterTypes, NEW r \in Requests, Goto(r, "memory"), UNCHANGED took
    PROVE  GoesOn(r, "memory")
<1>1. take \in [Requests -> Takes] /\ take' = [take EXCEPT ![r].pc = "memory"]
  BY Zenon DEF CounterTypes, Goto
<1>2. PICK u : u = [take[r] EXCEPT !.pc = "memory"]
  BY Zenon
<1>3. u \in Takes /\ u.pc = "memory" /\ u.lim = take[r].lim /\ u.key = take[r].key
      /\ u.start = take[r].start
  BY <1>1, <1>2, Zenon DEF Takes
<1>4. take' = [take EXCEPT ![r] = u]
  BY <1>1, <1>2, Zenon
<1> QED
  BY <1>1, <1>3, <1>4, Zenon DEF GoesOn

\* INCR and PEXPIRE of an entry.
LEMMA IncrTypes ==
    ASSUME redis \in [DOMAIN redis -> Entries], NEW k, NEW l \in Limiters, redis' = Incr(k, Dur[l])
    PROVE  /\ redis' \in [DOMAIN redis' -> Entries]
           /\ DOMAIN redis' = DOMAIN redis \union {k}
           /\ redis'[k].count = CountOf(k) + 1 /\ redis'[k].left = Dur[l] - 1
           /\ \A j \in DOMAIN redis \ {k} : redis'[j] = redis[j]
           /\ CountOf(k) \in Nat
<1>1. Dur[l] \in Nat \ {0, 1}
  BY LimiterAssumption, Zenon
<1>2. CountOf(k) \in Nat
  BY Zenon DEF CountOf, Entries
<1>3. [count |-> CountOf(k) + 1, left |-> Dur[l] - 1] \in Entries
  BY <1>1, <1>2 DEF Entries
<1> QED
  BY <1>2, <1>3, Zenon DEF Incr

\* What a step of a handler does to the counters: nothing, but that a Take may end
\* or begin.
HandleTakes(r) ==
    /\ UNCHANGED <<now, redis, gens, took, failures>>
    /\ take' \in [Requests -> Takes] /\ \A q \in Requests \ {r} : take'[q] = take[q]
    /\ ~Pending(r)
    /\ \/ take'[r].pc = "none"
       \/ /\ take'[r].lim \in Limiters
          /\ \/ take'[r].pc = "pipeline" /\ take'[r].start = WindowStart(take'[r].lim)
             \/ take'[r].pc = "memory" /\ take'[r].start = -1

\* A handler that ends a Take.
LEMMA EndTake ==
    ASSUME CounterTypes, NEW r \in Requests, ~Pending(r), UNCHANGED <<now, redis, gens, took, failures>>,
           take' = [take EXCEPT ![r] = NoTake]
    PROVE  HandleTakes(r)
<1>1. NoTake \in Takes /\ NoTake.pc = "none"
  <2>1. "none" \in Keys
    BY Zenon DEF Keys
  <2> QED
    BY <2>1 DEF NoTake, Takes
<1>2. take \in [Requests -> Takes]
  BY Zenon DEF CounterTypes
<1> HIDE DEF NoTake
<1>3. take' \in [Requests -> Takes] /\ take'[r] = NoTake /\ \A q \in Requests \ {r} : take'[q] = take[q]
  BY <1>1, <1>2, Zenon
<1> QED
  BY <1>1, <1>3, Zenon DEF HandleTakes

\* A handler that begins one.
LEMMA BeginTake ==
    ASSUME CounterTypes, NEW r \in Requests, ~Pending(r), UNCHANGED <<now, redis, gens, took, failures>>,
           NEW l \in Limiters, NEW key \in Keys, StartTake(r, l, key)
    PROVE  HandleTakes(r)
BY StartTakeTypes, Zenon DEF HandleTakes

\* What follows isLimited.
LEMMA NotLimitedTakes ==
    ASSUME CounterTypes, NEW r \in Requests, ~Pending(r), UNCHANGED <<now, redis, gens, took, failures>>,
           NEW c \in Calls[r], NotLimited(r, c)
    PROVE  HandleTakes(r)
<1>1. take' = [take EXCEPT ![r] = NoTake] \/ StartTake(r, "senders", c.tx)
  BY Zenon DEF NotLimited, RateLimitSender
<1>2. "senders" \in Limiters /\ c.tx \in Keys
  BY CallsAssumption, KeysOf, Zenon
<1> QED
  BY <1>1, <1>2, EndTake, BeginTake, Zenon

\* Every step of a handler.
LEMMA HandleEffect ==
    ASSUME CounterTypes, LimitsInv, NEW r \in Requests, Handle(r)
    PROVE  HandleTakes(r)
<1>1. RequestInv(r) /\ UNCHANGED <<now, redis, gens, took, failures>>
  BY Zenon DEF LimitsInv, Handle, Arrive, Limited, SenderLimited
<1>2. CASE Arrive(r)
  <2>1. take[r].pc = "none" /\ ~Pending(r)
    BY <1>1, <1>2, Zenon DEF Arrive, RequestInv, Pending
  <2>2. PICK c \in Calls[r] :
          IF Blocked(c) \/ NeedsNoBackend(c) THEN Enter(r, "answered") /\ UNCHANGED take
          ELSE IF LimiterOf(c) = NoLimiter THEN NotLimited(r, c)
          ELSE Enter(r, "limit") /\ StartTake(r, LimiterOf(c).lim, LimiterOf(c).key)
    BY <1>2, Zenon DEF Arrive
  <2>3. CASE UNCHANGED take
    BY <1>1, <2>1, <2>3, Zenon DEF HandleTakes, CounterTypes
  <2>4. CASE NotLimited(r, c)
    BY <1>1, <2>1, <2>4, NotLimitedTakes, Zenon
  <2>5. CASE LimiterOf(c) # NoLimiter /\ StartTake(r, LimiterOf(c).lim, LimiterOf(c).key)
    <3>1. LimiterOf(c).lim \in Limiters /\ LimiterOf(c).key \in Keys
      BY <2>5, LimiterTypes, Zenon
    <3> QED
      BY <1>1, <2>1, <2>5, <3>1, BeginTake, Zenon
  <2> QED
    BY <2>2, <2>3, <2>4, <2>5, ZenonT(40)
<1>3. CASE Limited(r)
  <2>1. ~Pending(r) /\ call[r] \in Calls[r]
    BY <1>3, Zenon DEF Limited, Pending, CounterTypes
  <2>2. NotLimited(r, call[r]) \/ take' = [take EXCEPT ![r] = NoTake]
    BY <1>3, Zenon DEF Limited
  <2> QED
    BY <1>1, <2>1, <2>2, NotLimitedTakes, EndTake, Zenon
<1>4. CASE SenderLimited(r)
  <2>1. ~Pending(r) /\ take' = [take EXCEPT ![r] = NoTake]
    BY <1>4, Zenon DEF SenderLimited, Pending
  <2> QED
    BY <1>1, <2>1, EndTake, Zenon
<1> QED
  BY <1>2, <1>3, <1>4, Zenon DEF Handle

\* The call of a request that is not idle is one it may make.
LEMMA CallTypes ==
    ASSUME CounterTypes, Shape, NEW r \in Requests, Handle(r), NEW q \in Requests,
           stage'[q] # "idle"
    PROVE  call'[q] \in Calls[q]
<1>1. q # r => stage'[q] = stage[q] /\ call'[q] = call[q]
  <2>1. stage = [p \in Requests |-> stage[p]] /\ call = [p \in Requests |-> call[p]]
    BY Zenon DEF Shape
  <2>2. \E s : stage' = [stage EXCEPT ![r] = s]
    BY Zenon DEF Handle, Arrive, Limited, SenderLimited, NotLimited, RateLimitSender, Enter
  <2>3. \/ call' = call
        \/ \E c : call' = [call EXCEPT ![r] = c]
    BY Zenon DEF Handle, Arrive, Limited, SenderLimited
  <2>4. q # r => stage'[q] = stage[q]
    BY <2>1, <2>2, Zenon
  <2>5. q # r => call'[q] = call[q]
    BY <2>1, <2>3, Zenon
  <2> QED
    BY <2>4, <2>5, Zenon
<1>2. CASE Arrive(r)
  <2>1. PICK c \in Calls[r] : call' = [call EXCEPT ![r] = c]
    BY <1>2, Zenon DEF Arrive
  <2>2. call'[r] = c
    BY <2>1, Zenon DEF Shape
  <2> QED
    BY <1>1, <2>2, Zenon DEF CounterTypes
<1>3. CASE Limited(r) \/ SenderLimited(r)
  <2>1. call' = call /\ stage[r] # "idle"
    BY <1>3, Zenon DEF Limited, SenderLimited
  <2> QED
    BY <1>1, <2>1, Zenon DEF CounterTypes
<1> QED
  BY <1>2, <1>3, Zenon DEF Handle

\* The generations of one limiter are replaced.
OnlyGens(i, l) ==
    \A j \in Instances, m \in Limiters : j # i \/ m # l => gens'[j][m] = gens[j][m]

\* A generation is pulled out: the current one, or one for the window of now.
PullsOut(r) ==
    LET i  == InstanceOf[r]
        l  == take[r].lim
        gs == gens[i][l]
    IN /\ gens' \in [Instances -> [Limiters -> Seq(Generations)]] /\ OnlyGens(i, l)
       /\ \/ gens'[i][l] = gs /\ gs # <<>>
          \/ /\ IsStale(gs, l)
             /\ gens'[i][l] = Append(gs, [start |-> WindowStart(l), used |-> <<>>])
       /\ GoesOn(r, "take") /\ take'[r].gen = Len(gens'[i][l])

\* MemoryFrontendRateLimiter.Take up to the release of its mutex.
LEMMA PullOutEffect ==
    ASSUME CounterTypes, NEW r \in Requests, PullOut(r)
    PROVE  PullsOut(r)
<1>1. PICK i \in Instances, l \in Limiters : i = InstanceOf[r] /\ l = take[r].lim
  BY LimiterAssumption, Zenon DEF PullOut, CounterTypes, Pending
<1>2. PICK gs \in Seq(Generations) : gs = gens[i][l]
  BY <1>1, Zenon DEF CounterTypes
<1> DEFINE new == [start |-> WindowStart(l), used |-> <<>>]
<1>3. new \in Generations
  <2>1. WindowStart(l) \in Nat
    BY WindowStarts, Zenon DEF CounterTypes
  <2>2. <<>> \in UsedMaps
    <3>1. <<>> \in [{} -> Nat] /\ {} \in SUBSET Keys
      OBVIOUS
    <3> QED
      BY <3>1, Zenon DEF UsedMaps
  <2> QED
    BY <2>1, <2>2, Zenon DEF Generations
<1> HIDE DEF new
<1>4. gens' = IF IsStale(gs, l) THEN [gens EXCEPT ![i][l] = Append(gs, new)] ELSE gens
  BY <1>1, <1>2, Zenon DEF PullOut, new
<1>5. /\ gens' \in [Instances -> [Limiters -> Seq(Generations)]] /\ OnlyGens(i, l)
      /\ \/ gens'[i][l] = gs /\ gs # <<>>
         \/ IsStale(gs, l) /\ gens'[i][l] = Append(gs, new)
  <2>1. CASE IsStale(gs, l)
    <3>1. Append(gs, new) \in Seq(Generations)
      BY <1>3
    <3>2. gens' = [gens EXCEPT ![i][l] = Append(gs, new)]
      BY <1>4, <2>1, Zenon
    <3> QED
      BY <2>1, <3>1, <3>2, Zenon DEF CounterTypes, OnlyGens
  <2>2. CASE ~IsStale(gs, l)
    BY <1>2, <1>4, <2>2, Zenon DEF CounterTypes, OnlyGens, IsStale
  <2> QED
    BY <2>1, <2>2, Zenon
<1>6. Len(gens'[i][l]) \in Nat
  BY <1>5
<1>7. PICK n \in Nat : n = Len(gens'[i][l])
  BY <1>6, Zenon
<1>8. take' = [take EXCEPT ![r].pc = "take", ![r].gen = n]
  BY <1>1, <1>7, Zenon DEF PullOut
<1>9. /\ take' \in [Requests -> Takes] /\ \A q \in Requests \ {r} : take'[q] = take[q]
      /\ take'[r].pc = "take" /\ take'[r].lim = l /\ take'[r].key = take[r].key
      /\ take'[r].start = take[r].start /\ take'[r].gen = n
  BY <1>1, <1>8, ZenonT(60) DEF CounterTypes, Takes
<1>10. UNCHANGED took
  BY Zenon DEF PullOut
<1>11. GoesOn(r, "take")
  BY <1>1, <1>9, <1>10, Zenon DEF GoesOn
<1> QED
  BY <1>1, <1>2, <1>5, <1>7, <1>9, <1>11, Zenon DEF PullsOut, new

\* One key is counted in one generation.
Counts(i, l, g, key) ==
    /\ gens' \in [Instances -> [Limiters -> Seq(Generations)]] /\ OnlyGens(i, l)
    /\ DOMAIN gens'[i][l] = DOMAIN gens[i][l]
    /\ \A h \in DOMAIN gens[i][l] :
          /\ gens'[i][l][h].start = gens[i][l][h].start
          /\ \A k \in Keys :
                UsedOf(gens'[i][l][h].used, k) =
                    UsedOf(gens[i][l][h].used, k) + (IF h = g /\ k = key THEN 1 ELSE 0)

\* limitedKeys.Take.
LEMMA TakeEffect ==
    ASSUME CounterTypes, NEW r \in Requests, Take(r),
           take[r].gen \in DOMAIN gens[InstanceOf[r]][take[r].lim]
    PROVE  Counts(InstanceOf[r], take[r].lim, take[r].gen, take[r].key)
<1>1. PICK i \in Instances, l \in Limiters, key \in Keys :
         i = InstanceOf[r] /\ l = take[r].lim /\ key = take[r].key
  <2>1. InstanceOf[r] \in Instances /\ take[r].lim \in Limiters
    BY LimiterAssumption, Zenon DEF Take, CounterTypes, Pending
  <2>2. take[r].key \in Keys
    BY Zenon DEF CounterTypes, Takes
  <2> QED
    BY <2>1, <2>2, Zenon
<1>2. PICK gs \in Seq(Generations) : gs = gens[i][l]
  BY <1>1, Zenon DEF CounterTypes
<1>3. PICK g \in DOMAIN gs : g = take[r].gen
  BY <1>1, <1>2, Zenon
<1>4. gs[g] \in Generations
  BY <1>2, <1>3
<1>5. PICK u \in UsedMaps : u = gs[g].used
  BY <1>4, Zenon DEF Generations
<1> DEFINE v == [k \in DOMAIN u \union {key} |-> IF k = key THEN UsedOf(u, key) + 1 ELSE u[k]]
<1>6. /\ v \in UsedMaps /\ UsedOf(v, key) = UsedOf(u, key) + 1
      /\ \A k \in Keys \ {key} : UsedOf(v, k) = UsedOf(u, k)
      /\ \A k \in Keys : UsedOf(u, k) \in Nat
  BY UsedStep, Zenon
<1>7. gens' = [gens EXCEPT ![i][l][g].used = v]
  BY <1>1, <1>2, <1>3, <1>5, Zenon DEF Take
<1> HIDE DEF v
<1>8. PICK new : new = [gs[g] EXCEPT !.used = v]
  BY Zenon
<1>9. new \in Generations /\ new.start = gs[g].start /\ new.used = v
  BY <1>4, <1>6, <1>8, Zenon DEF Generations
<1>10. PICK ns : ns = [gs EXCEPT ![g] = new]
  BY Zenon
<1>11. /\ ns \in Seq(Generations) /\ DOMAIN ns = DOMAIN gs /\ ns[g] = new
       /\ \A h \in DOMAIN gs \ {g} : ns[h] = gs[h]
  BY <1>2, <1>9, <1>10
<1>12. gens' = [gens EXCEPT ![i][l] = ns]
  BY <1>2, <1>7, <1>8, <1>10, Zenon
<1>13. /\ gens' \in [Instances -> [Limiters -> Seq(Generations)]] /\ OnlyGens(i, l)
       /\ gens'[i][l] = ns
  BY <1>11, <1>12, Zenon DEF CounterTypes, OnlyGens
<1>14. ASSUME NEW h \in DOMAIN gs
       PROVE  /\ ns[h].start = gs[h].start
              /\ \A k \in Keys :
                   UsedOf(ns[h].used, k) = UsedOf(gs[h].used, k) + (IF h = g /\ k = key THEN 1 ELSE 0)
  <2>1. CASE h = g
    <3>1. ns[h].start = gs[h].start /\ ns[h].used = v /\ gs[h].used = u
      BY <1>5, <1>9, <1>11, <2>1, Zenon
    <3>2. \A k \in Keys : UsedOf(v, k) = UsedOf(u, k) + (IF h = g /\ k = key THEN 1 ELSE 0)
      BY <1>6, <2>1
    <3> QED
      BY <3>1, <3>2, Zenon
  <2>2. CASE h # g
    <3>1. ns[h] = gs[h] /\ gs[h] \in Generations
      BY <1>2, <1>11, <2>2
    <3>2. gs[h].used \in UsedMaps
      BY <3>1, Zenon DEF Generations
    <3>3. \A k \in Keys : UsedOf(gs[h].used, k) \in Nat
      BY <3>2, UsedNat, Zenon
    <3> QED
      BY <2>2, <3>1, <3>3
  <2> QED
    BY <2>1, <2>2, Zenon
<1>15. DOMAIN gens'[i][l] = DOMAIN gens[i][l]
  BY <1>2, <1>11, <1>13, Zenon
<1>16. ASSUME NEW h \in DOMAIN gens[i][l]
       PROVE  /\ gens'[i][l][h].start = gens[i][l][h].start
              /\ \A k \in Keys :
                   UsedOf(gens'[i][l][h].used, k) =
                       UsedOf(gens[i][l][h].used, k) + (IF h = g /\ k = key THEN 1 ELSE 0)
  BY <1>2, <1>13, <1>14, Zenon
<1>17. Counts(i, l, g, key)
  BY <1>13, <1>15, <1>16, Zenon DEF Counts
<1> QED
  BY <1>1, <1>3, <1>17, Zenon

\* What the steps of a Take do, each with the result it leaves or the place it goes to.
PipelineDoes(r) ==
    /\ redis' = Incr(FullKey(r), Dur[take[r].lim]) /\ UNCHANGED <<now, gens, failures>>
    /\ \E t \in Results :
          \/ Leaves(r, "redis", "ok", t) /\ CountOf(FullKey(r)) < Max[take[r].lim]
          \/ Leaves(r, "redis", "over", t) /\ Max[take[r].lim] <= CountOf(FullKey(r))

FailureDoes(r) ==
    /\ redis' = redis \/ redis' = Incr(FullKey(r), Dur[take[r].lim])
    /\ UNCHANGED <<now, gens>>
    /\ failures' = Append(failures, CallOf(take[r].lim, take[r].key, take[r].start))
    /\ \/ UNCHANGED <<take, took>>
       \/ GoesOn(r, "memory")
       \/ \E t \in Results : Leaves(r, "redis", "error", t)

PullOutDoes(r) == UNCHANGED <<now, redis, failures>> /\ PullsOut(r)

CountingDoes(r) ==
    LET used == UsedOf(gens[InstanceOf[r]][take[r].lim][take[r].gen].used, take[r].key)
    IN /\ UNCHANGED <<now, redis, failures>>
       /\ Counts(InstanceOf[r], take[r].lim, take[r].gen, take[r].key)
       /\ \E t \in Results :
             \/ Leaves(r, "memory", "ok", t) /\ used < Max[take[r].lim]
             \/ Leaves(r, "memory", "over", t) /\ Max[take[r].lim] <= used

TakeDoes(r) ==
    \/ take[r].pc = "pipeline" /\ (PipelineDoes(r) \/ FailureDoes(r))
    \/ take[r].pc = "memory" /\ PullOutDoes(r)
    \/ take[r].pc = "take" /\ CountingDoes(r)

\* The types, and where a Take in memory counts.
BaseInv ==
    /\ CounterTypes
    /\ \A r \in Requests :
          take[r].pc = "take" => take[r].gen \in DOMAIN gens[InstanceOf[r]][take[r].lim]

\* RedisFrontendRateLimiter.Take and MemoryFrontendRateLimiter.Take, step by step.
LEMMA TakeStepDoes ==
    ASSUME BaseInv, NEW r \in Requests, TakeStep(r)
    PROVE  TakeDoes(r)
<1>0. CounterTypes
  BY Zenon DEF BaseInv
<1>1. Pending(r)
  BY Zenon DEF TakeStep, Pipeline, PipelineFails, PullOut, Take, Pending
<1>2. PICK l \in Limiters : l = take[r].lim
  BY <1>0, <1>1, Zenon DEF CounterTypes
<1>3. Max[l] \in Nat
  BY LimiterAssumption, Zenon
<1>4. CASE Pipeline(r)
  <2>1. /\ redis' = Incr(FullKey(r), Dur[l]) /\ UNCHANGED <<now, gens, failures>>
        /\ take[r].pc = "pipeline"
    BY <1>2, <1>4, Zenon DEF Pipeline
  <2>2. redis'[FullKey(r)].count = CountOf(FullKey(r)) + 1 /\ CountOf(FullKey(r)) \in Nat
    BY <1>0, <2>1, IncrTypes, Zenon DEF CounterTypes
  <2>3. CASE CountOf(FullKey(r)) < Max[l]
    <3>1. Returns(r, "redis", "ok")
      BY <1>2, <1>3, <1>4, <2>2, <2>3 DEF Pipeline
    <3>2. \E t \in Results : Leaves(r, "redis", "ok", t)
      BY <1>0, <1>1, <3>1, ReturnsTypes, Zenon
    <3> QED
      BY <1>2, <2>1, <2>3, <3>2, Zenon DEF TakeDoes, PipelineDoes
  <2>4. CASE Max[l] <= CountOf(FullKey(r))
    <3>1. Returns(r, "redis", "over")
      BY <1>2, <1>3, <1>4, <2>2, <2>4 DEF Pipeline
    <3>2. \E t \in Results : Leaves(r, "redis", "over", t)
      BY <1>0, <1>1, <3>1, ReturnsTypes, Zenon
    <3> QED
      BY <1>2, <2>1, <2>4, <3>2, Zenon DEF TakeDoes, PipelineDoes
  <2> QED
    BY <1>3, <2>2, <2>3, <2>4, SMTT(40)
<1>5. CASE PipelineFails(r)
  <2>1. /\ redis' = redis \/ redis' = Incr(FullKey(r), Dur[take[r].lim])
        /\ UNCHANGED <<now, gens>> /\ take[r].pc = "pipeline"
        /\ failures' = Append(failures, CallOf(take[r].lim, take[r].key, take[r].start))
    BY <1>5, Zenon DEF PipelineFails, CallOf
  <2>2. CASE UNCHANGED <<take, took>>
    BY <2>1, <2>2, Zenon DEF TakeDoes, FailureDoes
  <2>3. CASE Goto(r, "memory") /\ UNCHANGED took
    <3>1. GoesOn(r, "memory")
      BY <1>0, <2>3, GotoTypes, Zenon
    <3> QED
      BY <2>1, <3>1, Zenon DEF TakeDoes, FailureDoes
  <2>4. CASE Returns(r, "redis", "error")
    <3>1. \E t \in Results : Leaves(r, "redis", "error", t)
      BY <1>0, <1>1, <2>4, ReturnsTypes, Zenon
    <3> QED
      BY <2>1, <3>1, Zenon DEF TakeDoes, FailureDoes
  <2> QED
    BY <1>5, <2>2, <2>3, <2>4, Zenon DEF PipelineFails
<1>6. CASE PullOut(r)
  BY <1>0, <1>6, PullOutEffect, Zenon DEF TakeDoes, PullOutDoes, PullOut
<1>7. CASE Take(r)
  <2>1. /\ take[r].pc = "take" /\ UNCHANGED <<now, redis, failures>>
        /\ take[r].gen \in DOMAIN gens[InstanceOf[r]][take[r].lim]
    BY <1>7, Zenon DEF Take, BaseInv
  <2>2. Counts(InstanceOf[r], take[r].lim, take[r].gen, take[r].key)
    BY <1>0, <1>7, <2>1, TakeEffect, Zenon
  <2>3. PICK used : used = UsedOf(gens[InstanceOf[r]][take[r].lim][take[r].gen].used, take[r].key)
    BY Zenon
  <2>4. Returns(r, "memory", IF used < Max[l] THEN "ok" ELSE "over")
    BY <1>2, <1>7, <2>3, Zenon DEF Take
  <2>5. used \in Nat
    <3>1. gens[InstanceOf[r]][take[r].lim] \in Seq(Generations) /\ take[r].key \in Keys
      BY <1>0, <1>2, LimiterAssumption, SMTT(40) DEF CounterTypes, Takes
    <3>2. gens[InstanceOf[r]][take[r].lim][take[r].gen].used \in UsedMaps
      <4>1. gens[InstanceOf[r]][take[r].lim][take[r].gen] \in Generations
        BY <2>1, <3>1
      <4> QED
        BY <4>1, Zenon DEF Generations
    <3> QED
      BY <2>3, <3>2, UsedNat, Zenon
  <2>6. CASE used < Max[l]
    <3>1. Returns(r, "memory", "ok")
      BY <2>4, <2>6, Zenon
    <3>2. \E t \in Results : Leaves(r, "memory", "ok", t)
      BY <1>0, <1>1, <2>1, <3>1, ReturnsTypes, Zenon
    <3> QED
      BY <1>2, <2>1, <2>2, <2>3, <2>6, <3>2, Zenon DEF TakeDoes, CountingDoes
  <2>7. CASE Max[l] <= used
    <3>1. Returns(r, "memory", "over")
      BY <1>3, <2>4, <2>5, <2>7, SMTT(40)
    <3>2. \E t \in Results : Leaves(r, "memory", "over", t)
      BY <1>0, <1>1, <2>1, <3>1, ReturnsTypes, Zenon
    <3> QED
      BY <1>2, <2>1, <2>2, <2>3, <2>7, <3>2, Zenon DEF TakeDoes, CountingDoes
  <2> QED
    BY <1>3, <2>5, <2>6, <2>7, SMTT(40)
<1> QED
  BY <1>4, <1>5, <1>6, <1>7, Zenon DEF TakeStep

\* The types hold at the next step too.
LEMMA BaseNext ==
    ASSUME BaseInv, LimitsInv, LimitsInv', [Next]_vars
    PROVE  BaseInv'
<1>0. CounterTypes
  BY Zenon DEF BaseInv
<1>1. CASE UNCHANGED vars
  BY <1>1, Zenon DEF vars, limiterVars, BaseInv, CounterTypes, Pending
<1>2. CASE Tick /\ UNCHANGED <<call, stage>>
  <2>1. UNCHANGED <<gens, take, took, call, stage>> /\ now' = now + 1
    BY <1>2, Zenon DEF Tick
  <2>2. redis' = [k \in {k \in DOMAIN redis : redis[k].left > 1} |-> [redis[k] EXCEPT !.left = @ - 1]]
    BY <1>2, Zenon DEF Tick
  <2>3. \A k \in DOMAIN redis : redis[k].left > 1 => [redis[k] EXCEPT !.left = @ - 1] \in Entries
    BY <1>0, SMTT(60) DEF CounterTypes, Entries
  <2>4. redis' \in [DOMAIN redis' -> Entries]
    BY <2>2, <2>3, Zenon
  <2> QED
    BY <2>1, <2>4 DEF BaseInv, CounterTypes, Pending
<1>3. ASSUME NEW r \in Requests, Handle(r) PROVE BaseInv'
  <2>1. HandleTakes(r)
    BY <1>0, <1>3, HandleEffect, Zenon
  <2>2. \A q \in Requests : stage'[q] # "idle" => call'[q] \in Calls[q]
    BY <1>0, <1>3, CallTypes, Zenon DEF LimitsInv
  <2>3. \A q \in Requests : Pending(q)' => take'[q].lim \in Limiters
    BY <1>0, <2>1, Zenon DEF HandleTakes, CounterTypes, Pending
  <2>4. \A q \in Requests :
           take'[q].pc = "take" => take'[q].gen \in DOMAIN gens'[InstanceOf[q]][take'[q].lim]
    BY <2>1, Zenon DEF HandleTakes, BaseInv
  <2> QED
    BY <1>0, <2>1, <2>2, <2>3, <2>4, Zenon DEF HandleTakes, BaseInv, CounterTypes
<1>4. ASSUME NEW r \in Requests, TakeStep(r), UNCHANGED <<call, stage>> PROVE BaseInv'
  <2>0. TakeDoes(r) /\ Pending(r)
    BY <1>4, TakeStepDoes, Zenon DEF TakeDoes, Pending
  <2>1. PICK i \in Instances, l \in Limiters : i = InstanceOf[r] /\ l = take[r].lim
    BY <1>0, <2>0, LimiterAssumption, Zenon DEF CounterTypes
  <2>2. \A q \in Requests : stage'[q] # "idle" => call'[q] \in Calls[q]
    BY <1>0, <1>4, Zenon DEF CounterTypes
  <2>3. /\ now' = now /\ take' \in [Requests -> Takes] /\ took' \in [Requests -> SUBSET Results]
        /\ take'[r].lim = l /\ \A q \in Requests \ {r} : take'[q] = take[q]
    <3>1. CASE \E t, by, result : Leaves(r, by, result, t) /\ now' = now
      BY <2>1, <3>1, Zenon DEF Leaves
    <3>2. CASE \E pc : GoesOn(r, pc) /\ now' = now
      BY <1>0, <2>1, <3>2, Zenon DEF GoesOn, CounterTypes
    <3>3. CASE UNCHANGED <<take, took>> /\ now' = now
      BY <1>0, <2>1, <3>3, Zenon DEF CounterTypes
    <3> QED
      BY <2>0, <3>1, <3>2, <3>3, ZenonT(60) DEF TakeDoes, PipelineDoes, FailureDoes, PullOutDoes, PullsOut, CountingDoes
  <2>4. \A q \in Requests : Pending(q)' => take'[q].lim \in Limiters
    BY <1>0, <2>1, <2>3, Zenon DEF CounterTypes, Pending
  <2>5. redis' \in [DOMAIN redis' -> Entries]
    <3>1. redis' = redis \/ redis' = Incr(FullKey(r), Dur[l])
      BY <2>0, <2>1, Zenon DEF TakeDoes, PipelineDoes, FailureDoes, PullOutDoes, CountingDoes
    <3> QED
      BY <1>0, <3>1, IncrTypes, Zenon DEF CounterTypes
  <2>6. /\ gens' \in [Instances -> [Limiters -> Seq(Generations)]]
        /\ \A j \in Instances, m \in Limiters : DOMAIN gens[j][m] \subseteq DOMAIN gens'[j][m]
    <3>1. CASE gens' = gens
      BY <1>0, <3>1, Zenon DEF CounterTypes
    <3>2. CASE PullsOut(r)
      <4>1. gens' \in [Instances -> [Limiters -> Seq(Generations)]] /\ OnlyGens(i, l)
        BY <2>1, <3>2, Zenon DEF PullsOut
      <4>2. \/ gens'[i][l] = gens[i][l]
            \/ gens'[i][l] = Append(gens[i][l], [start |-> WindowStart(l), used |-> <<>>])
        BY <2>1, <3>2, Zenon DEF PullsOut
      <4>3. DOMAIN gens[i][l] \subseteq DOMAIN gens'[i][l]
        <5>1. gens[i][l] \in Seq(Generations)
          BY <1>0, Zenon DEF CounterTypes
        <5>2. PICK e : e = [start |-> WindowStart(l), used |-> <<>>]
          BY Zenon
        <5> QED
          BY <4>2, <5>1, <5>2
      <4> QED
        BY <4>1, <4>3, Zenon DEF OnlyGens
    <3>3. CASE Counts(i, l, take[r].gen, take[r].key)
      BY <3>3, Zenon DEF Counts, OnlyGens
    <3> QED
      BY <2>0, <2>1, <3>1, <3>2, <3>3, Zenon DEF TakeDoes, PipelineDoes, FailureDoes, PullOutDoes, CountingDoes
  <2>7. ASSUME NEW q \in Requests, take'[q].pc = "take"
        PROVE  take'[q].gen \in DOMAIN gens'[InstanceOf[q]][take'[q].lim]
    <3>1. CASE q # r
      <4>1. take[q].pc = "take" /\ take[q].gen \in DOMAIN gens[InstanceOf[q]][take[q].lim]
        BY <2>3, <2>7, <3>1, Zenon DEF BaseInv
      <4>2. InstanceOf[q] \in Instances /\ take[q].lim \in Limiters
        BY <1>0, <4>1, LimiterAssumption, Zenon DEF CounterTypes, Pending
      <4> QED
        BY <2>3, <2>6, <3>1, <4>1, <4>2, Zenon
    <3>2. CASE q = r
      <4>1. PullsOut(r)
        <5>1. \A t, by, result : Leaves(r, by, result, t) => take'[r].pc = result
          BY Zenon DEF Leaves
        <5>2. GoesOn(r, "memory") => take'[r].pc = "memory"
          BY Zenon DEF GoesOn
        <5>3. take' = take => take'[r].pc = take[r].pc
          BY Zenon
        <5> QED
          BY <2>0, <2>7, <3>2, <5>1, <5>2, <5>3, ZenonT(40) DEF TakeDoes, PipelineDoes, FailureDoes, PullOutDoes, CountingDoes
      <4>2. /\ take'[r].gen = Len(gens'[i][l])
            /\ \/ gens'[i][l] = gens[i][l] /\ gens[i][l] # <<>>
               \/ gens'[i][l] = Append(gens[i][l], [start |-> WindowStart(l), used |-> <<>>])
        BY <2>1, <4>1, ZenonT(40) DEF PullsOut
      <4>3. Len(gens'[i][l]) \in DOMAIN gens'[i][l]
        <5>1. gens[i][l] \in Seq(Generations)
          BY <1>0, Zenon DEF CounterTypes
        <5>2. PICK e : e = [start |-> WindowStart(l), used |-> <<>>]
          BY Zenon
        <5> QED
          BY <4>2, <5>1, <5>2
      <4> QED
        BY <2>1, <2>3, <3>2, <4>2, <4>3, ZenonT(40)
    <3> QED
      BY <3>1, <3>2, Zenon
  <2> QED
    BY <1>0, <2>2, <2>3, <2>4, <2>5, <2>6, <2>7, Zenon DEF BaseInv, CounterTypes
<1> QED
  BY <1>1, <1>2, <1>3, <1>4, Zenon DEF Next

-----------------------------------------------------------------------------
(* The limit in memory *)

\* What the proofs use of the cardinality of finite sets; CardinalityFacts, below,
\* proves it from the theorems on finite sets.
CardinalityLaws ==
    /\ IsFiniteSet({}) /\ Cardinality({}) = 0
    /\ \A A : IsFiniteSet(A) => Cardinality(A) \in Nat
    /\ \A A, x : IsFiniteSet(A) =>
          /\ IsFiniteSet(A \union {x})
          /\ Cardinality(A \union {x}) = IF x \in A THEN Cardinality(A) ELSE Cardinality(A) + 1
    /\ \A A, B : IsFiniteSet(A) /\ B \subseteq A => IsFiniteSet(B) /\ Cardinality(B) <= Cardinality(A)

\* A set that gains one member or none.
LEMMA GainsOne ==
    ASSUME CardinalityLaws, NEW A, IsFiniteSet(A), NEW x, NEW B, B = A \/ B = A \union {x}
    PROVE  /\ IsFiniteSet(B) /\ Cardinality(A) \in Nat /\ Cardinality(B) \in Nat
           /\ Cardinality(A) <= Cardinality(B) /\ Cardinality(B) <= Cardinality(A) + 1
           /\ x \notin A /\ B = A \union {x} => Cardinality(B) = Cardinality(A) + 1
<1>1. Cardinality(A) \in Nat
  BY Zenon DEF CardinalityLaws
<1>2. CASE B = A
  BY <1>1, <1>2
<1>3. CASE B = A \union {x}
  <2>1. IsFiniteSet(B) /\ Cardinality(B) = IF x \in A THEN Cardinality(A) ELSE Cardinality(A) + 1
    BY <1>3, Zenon DEF CardinalityLaws
  <2> QED
    BY <1>1, <2>1
<1> QED
  BY <1>2, <1>3, Zenon

\* A later window does not start earlier.
LEMMA WindowsAscend ==
    ASSUME now \in Nat, now' \in Nat, now <= now', NEW l \in Limiters
    PROVE  WindowStart(l) <= WindowStart(l)' /\ WindowStart(l) \in Nat /\ WindowStart(l)' \in Nat
<1>1. PICK d \in Nat \ {0, 1} : d = Dur[l]
  BY LimiterAssumption, Zenon
<1>2. PICK a \in Nat, b \in Nat : a = now \div d /\ b = now' \div d
  BY <1>1
<1>3. a * d <= now /\ now' < (b + 1) * d
  BY <1>1, <1>2
<1>4. a <= b
  <2>1. ASSUME b + 1 <= a PROVE FALSE
    <3>1. (b + 1) * d <= a * d
      BY <1>1, <1>2, <2>1
    <3> QED
      BY <1>1, <1>2, <1>3, <3>1
  <2>2. a \in Nat /\ b \in Nat
    BY <1>2, Zenon
  <2> QED
    BY <2>1, <2>2
<1>5. a * d <= b * d /\ a * d \in Nat /\ b * d \in Nat
  BY <1>1, <1>2, <1>4
<1> QED
  BY <1>1, <1>2, <1>5, Zenon DEF WindowStart

\* A step that counts nothing in memory.
MemoryQuiet ==
    /\ UNCHANGED gens /\ now' \in Nat /\ now <= now'
    /\ \A q \in Requests : take'[q].pc = "take" => take'[q] = take[q]
    /\ \A q \in Requests : \A t \in Results : t.by = "memory" => (t \in took'[q] <=> t \in took[q])

MemoryStep ==
    \/ MemoryQuiet
    \/ \E r \in Requests : take[r].pc = "memory" /\ PullOutDoes(r)
    \/ \E r \in Requests : take[r].pc = "take" /\ CountingDoes(r)

\* Every step counts nothing in memory, pulls out a generation, or counts in one.
LEMMA MemorySteps ==
    ASSUME BaseInv, LimitsInv, [Next]_vars
    PROVE  MemoryStep
<1>0. CounterTypes /\ now \in Nat
  BY Zenon DEF BaseInv, CounterTypes
<1>1. CASE UNCHANGED vars
  BY <1>0, <1>1 DEF vars, limiterVars, MemoryStep, MemoryQuiet
<1>2. CASE Tick
  BY <1>0, <1>2 DEF Tick, MemoryStep, MemoryQuiet
<1>3. ASSUME NEW r \in Requests, Handle(r) PROVE MemoryStep
  <2>1. HandleTakes(r)
    BY <1>0, <1>3, HandleEffect, Zenon
  <2>2. \A q \in Requests : take'[q].pc = "take" => take'[q] = take[q]
    BY <2>1, Zenon DEF HandleTakes
  <2> QED
    BY <1>0, <2>1, <2>2 DEF HandleTakes, MemoryStep, MemoryQuiet
<1>4. ASSUME NEW r \in Requests, TakeStep(r) PROVE MemoryStep
  <2>1. TakeDoes(r)
    BY <1>4, TakeStepDoes, Zenon
  <2>2. ASSUME PipelineDoes(r) \/ FailureDoes(r) PROVE MemoryQuiet
    <3>1. UNCHANGED <<now, gens>>
      BY <2>2, Zenon DEF PipelineDoes, FailureDoes
    <3>2. ASSUME NEW t \in Results, NEW result \in {"ok", "over", "error"}, Leaves(r, "redis", result, t)
          PROVE  MemoryQuiet
      <4>1. \A q \in Requests : take'[q].pc = "take" => take'[q] = take[q]
        BY <3>2, Zenon DEF Leaves
      <4>2. \A q \in Requests : \A u \in Results : u.by = "memory" => (u \in took'[q] <=> u \in took[q])
        BY <3>2, Zenon DEF Leaves
      <4> QED
        BY <1>0, <3>1, <4>1, <4>2 DEF MemoryQuiet
    <3>3. ASSUME GoesOn(r, "memory") PROVE MemoryQuiet
      <4>1. \A q \in Requests : take'[q].pc = "take" => take'[q] = take[q]
        BY <3>3, Zenon DEF GoesOn
      <4> QED
        BY <1>0, <3>1, <3>3, <4>1 DEF MemoryQuiet, GoesOn
    <3>4. ASSUME UNCHANGED <<take, took>> PROVE MemoryQuiet
      BY <1>0, <3>1, <3>4 DEF MemoryQuiet
    <3> QED
      BY <2>2, <3>2, <3>3, <3>4, Zenon DEF PipelineDoes, FailureDoes
  <2> QED
    BY <2>1, <2>2, Zenon DEF TakeDoes, MemoryStep
<1> QED
  BY <1>1, <1>2, <1>3, <1>4, Zenon DEF Next

\* Whoever was admitted in memory, before and after such a step.
LEMMA QuietAdmitted ==
    ASSUME BaseInv, BaseInv', MemoryQuiet, NEW i, NEW l, NEW key, NEW s
    PROVE  MemoryAdmitted(i, l, key, s)' = MemoryAdmitted(i, l, key, s)
<1>1. \A q \in Requests : took[q] \subseteq Results /\ took'[q] \subseteq Results
  BY Zenon DEF BaseInv, CounterTypes
<1>2. ASSUME NEW q \in Requests, NEW t, t.by = "memory"
      PROVE  t \in took'[q] <=> t \in took[q]
  BY <1>1, <1>2, Zenon DEF MemoryQuiet
<1>3. \A q \in Requests :
         (\E t \in took'[q] : t.lim = l /\ t.key = key /\ t.by = "memory" /\ t.start = s /\ t.result = "ok")
         <=> (\E t \in took[q] : t.lim = l /\ t.key = key /\ t.by = "memory" /\ t.start = s /\ t.result = "ok")
  BY <1>2, Zenon
<1> QED
  BY <1>3, Zenon DEF MemoryAdmitted, OfInstance

\* Before the first request nothing is counted.
LEMMA MemoryInit == Init => MemoryInv
<1> SUFFICES ASSUME Init PROVE MemoryInv
  BY Zenon
<1>1. \A i \in Instances, l \in Limiters : gens[i][l] = <<>> /\ DOMAIN gens[i][l] = {}
  BY DEF Init, LimiterInit
<1>2. \A r \in Requests : take[r].pc = "none" /\ took[r] = {}
  BY Zenon DEF Init, LimiterInit, NoTake
<1> QED
  BY <1>1, <1>2, Zenon DEF MemoryInv, GensAscend, InGeneration

\* A generation that is added is of a later window than all others.
LEMMA NewGeneration ==
    ASSUME BaseInv, GensAscend, NEW i \in Instances, NEW l \in Limiters,
           IsStale(gens[i][l], l)
    PROVE  \A g \in DOMAIN gens[i][l] : gens[i][l][g].start < WindowStart(l)
<1>1. PICK gs \in Seq(Generations) : gs = gens[i][l]
  BY Zenon DEF BaseInv, CounterTypes
<1>2. \A g \in DOMAIN gs : gs[g] \in Generations
  BY <1>1
<1>3. \A g \in DOMAIN gs : gs[g].start \in Nat
  BY <1>2, Zenon DEF Generations
<1>4. WindowStart(l) \in Nat
  BY WindowStarts, Zenon DEF BaseInv, CounterTypes
<1> SUFFICES ASSUME NEW g \in DOMAIN gs PROVE gs[g].start < WindowStart(l)
  BY <1>1, Zenon
<1>5. PICK n : n = Len(gs)
  BY Zenon
<1>6. n \in DOMAIN gs /\ n \in Nat /\ g \in Nat /\ g <= n
  BY <1>1, <1>5
<1>7. gs[n].start # WindowStart(l)
  BY <1>1, <1>5, <1>6 DEF IsStale
<1>8. /\ gs[n].start <= WindowStart(l)
      /\ g < n => gs[g].start < gs[n].start
  BY <1>1, <1>6, Zenon DEF GensAscend
<1> QED
  BY <1>3, <1>4, <1>6, <1>7, <1>8

\* A step that counts nothing keeps the invariant.
LEMMA QuietKeeps ==
    ASSUME BaseInv, BaseInv', MemoryInv, MemoryQuiet
    PROVE  MemoryInv'
<1>0. now \in Nat /\ now' \in Nat /\ now <= now' /\ gens' = gens
  BY Zenon DEF BaseInv, CounterTypes, MemoryQuiet
<1>1. GensAscend'
  <2> SUFFICES ASSUME NEW i \in Instances, NEW l \in Limiters, NEW g \in DOMAIN gens[i][l]
               PROVE  gens[i][l][g].start <= WindowStart(l)'
    BY <1>0, Zenon DEF GensAscend, MemoryInv
  <2>1. gens[i][l][g].start <= WindowStart(l)
    BY Zenon DEF GensAscend, MemoryInv
  <2>2. WindowStart(l) <= WindowStart(l)' /\ WindowStart(l) \in Nat /\ WindowStart(l)' \in Nat
    BY <1>0, WindowsAscend, Zenon
  <2>3. gens[i][l][g].start \in Nat
    <3>1. gens[i][l] \in Seq(Generations)
      BY Zenon DEF BaseInv, CounterTypes
    <3>2. gens[i][l][g] \in Generations
      BY <3>1
    <3> QED
      BY <3>2, Zenon DEF Generations
  <2> QED
    BY <2>1, <2>2, <2>3
<1>2. InGeneration'
  <2>1. \A q \in Requests : took'[q] \subseteq Results
    BY Zenon DEF BaseInv, CounterTypes
  <2>2. ASSUME NEW q \in Requests, NEW t \in took'[q], t.by = "memory"
        PROVE  \E g \in DOMAIN gens'[InstanceOf[q]][t.lim] : t.start = gens'[InstanceOf[q]][t.lim][g].start
    <3>1. t \in took[q]
      BY <2>1, <2>2, Zenon DEF MemoryQuiet
    <3> QED
      BY <1>0, <2>2, <3>1, Zenon DEF MemoryInv, InGeneration
  <2>3. ASSUME NEW q \in Requests, take'[q].pc = "take"
        PROVE  take'[q].gen \in DOMAIN gens'[InstanceOf[q]][take'[q].lim]
    BY <2>3, Zenon DEF BaseInv
  <2> QED
    BY <2>2, <2>3, Zenon DEF InGeneration
<1>3. ASSUME NEW i \in Instances, NEW l \in Limiters, NEW g \in DOMAIN gens[i][l], NEW key \in Keys
      PROVE  Counted(i, l, g, key)'
  <2>1. MemoryAdmitted(i, l, key, gens[i][l][g].start)' = MemoryAdmitted(i, l, key, gens[i][l][g].start)
    BY <1>0, QuietAdmitted, Zenon
  <2>2. Counted(i, l, g, key)
    BY Zenon DEF MemoryInv
  <2> QED
    BY <1>0, <2>1, <2>2, Zenon DEF Counted
<1> QED
  BY <1>0, <1>1, <1>2, <1>3, Zenon DEF MemoryInv

\* Nobody was admitted by a generation that is new.
LEMMA PullOutKeeps ==
    ASSUME CardinalityLaws, BaseInv, BaseInv', MemoryInv,
           NEW r \in Requests, take[r].pc = "memory", PullOutDoes(r)
    PROVE  MemoryInv'
<1>1. PICK i \in Instances, l \in Limiters : i = InstanceOf[r] /\ l = take[r].lim
  BY LimiterAssumption, Zenon DEF BaseInv, CounterTypes, Pending
<1>2. PICK gs \in Seq(Generations) : gs = gens[i][l]
  BY Zenon DEF BaseInv, CounterTypes
<1>3. PICK e : e = [start |-> WindowStart(l), used |-> <<>>]
  BY Zenon
<1>4. e.start = WindowStart(l) /\ e.used = <<>>
  BY <1>3, Zenon
<1>5. /\ UNCHANGED <<now, took>> /\ OnlyGens(i, l) /\ GoesOn(r, "take")
      /\ take'[r].gen = Len(gens'[i][l])
      /\ \/ gens'[i][l] = gs /\ gs # <<>>
         \/ IsStale(gs, l) /\ gens'[i][l] = Append(gs, e)
  BY <1>1, <1>2, <1>3, Zenon DEF PullOutDoes, PullsOut, GoesOn
<1>6. PICK ns \in Seq(Generations) : ns = gens'[i][l]
  BY Zenon DEF BaseInv, CounterTypes
<1>6a. gs \in Seq(Generations) /\ (ns = gs \/ ns = Append(gs, e))
  BY <1>5, <1>6, Zenon
<1>7. \A g \in DOMAIN gs : g \in DOMAIN ns /\ ns[g] = gs[g] /\ g \in Nat
  BY <1>6a, SMTT(60)
<1>8. \A g \in DOMAIN ns : g \notin DOMAIN gs =>
         /\ ns[g] = e /\ IsStale(gs, l) /\ \A h \in DOMAIN ns \ {g} : h \in DOMAIN gs /\ h < g
  BY <1>2, <1>5, <1>6, SMTT(60)
<1>9. \A g \in DOMAIN ns : g \notin DOMAIN gs => \A h \in DOMAIN gs : gs[h].start < ns[g].start
  <2> SUFFICES ASSUME NEW g \in DOMAIN ns, g \notin DOMAIN gs, NEW h \in DOMAIN gs
               PROVE  gs[h].start < ns[g].start
    BY Zenon
  <2>1. ns[g] = e /\ IsStale(gens[i][l], l)
    BY <1>2, <1>8, Zenon
  <2>2. GensAscend
    BY Zenon DEF MemoryInv
  <2>3. gens[i][l][h].start < WindowStart(l)
    BY <1>2, <2>1, <2>2, NewGeneration, Zenon
  <2> QED
    BY <1>2, <1>4, <2>1, <2>3, Zenon
<1>10. \A m \in Limiters : WindowStart(m)' = WindowStart(m)
  BY <1>5, Zenon DEF WindowStart
<1>11. GensAscend'
  <2>1. \A g \in DOMAIN ns : ns[g].start <= WindowStart(l)
    <3> SUFFICES ASSUME NEW g \in DOMAIN ns PROVE ns[g].start <= WindowStart(l)
      BY Zenon
    <3>1. CASE g \in DOMAIN gs
      BY <1>2, <1>7, <3>1, Zenon DEF MemoryInv, GensAscend
    <3>2. CASE g \notin DOMAIN gs
      <4>1. WindowStart(l) \in Nat
        BY WindowStarts, Zenon DEF BaseInv, CounterTypes
      <4>2. ns[g].start = WindowStart(l)
        BY <1>4, <1>8, <3>2, Zenon
      <4> QED
        BY <4>1, <4>2
    <3> QED
      BY <3>1, <3>2, Zenon
  <2>2. \A g, h \in DOMAIN ns : g < h => ns[g].start < ns[h].start
    <3> SUFFICES ASSUME NEW g \in DOMAIN ns, NEW h \in DOMAIN ns, g < h
                 PROVE  ns[g].start < ns[h].start
      BY Zenon
    <3>1. CASE h \in DOMAIN gs
      <4>1. g \in DOMAIN gs
        <5>1. g \in Nat /\ h \in Nat
          BY <1>6
        <5> QED
          BY <1>8, <3>1, <5>1
      <4> QED
        BY <1>2, <1>7, <3>1, <4>1, Zenon DEF MemoryInv, GensAscend
    <3>2. CASE h \notin DOMAIN gs
      <4>0. g # h
        <5>1. g \in Nat /\ h \in Nat
          BY <1>6
        <5> QED
          BY <5>1
      <4>1. g \in DOMAIN gs
        BY <1>8, <3>2, <4>0, Zenon
      <4> QED
        BY <1>7, <1>9, <3>2, <4>1, Zenon
    <3> QED
      BY <3>1, <3>2, Zenon
  <2>3. ASSUME NEW j \in Instances, NEW m \in Limiters, j # i \/ m # l
        PROVE  gens'[j][m] = gens[j][m]
    BY <1>5, <2>3, Zenon DEF OnlyGens
  <2>4. ASSUME NEW j \in Instances, NEW m \in Limiters
        PROVE  /\ \A g \in DOMAIN gens'[j][m] : gens'[j][m][g].start <= WindowStart(m)'
               /\ \A g, h \in DOMAIN gens'[j][m] : g < h => gens'[j][m][g].start < gens'[j][m][h].start
    <3>1. CASE j = i /\ m = l
      BY <1>6, <1>10, <2>1, <2>2, <3>1, Zenon
    <3>2. CASE j # i \/ m # l
      BY <1>10, <2>3, <3>2, ZenonT(60) DEF MemoryInv, GensAscend
    <3> QED
      BY <3>1, <3>2, Zenon
  <2> QED
    BY <2>4, Zenon DEF GensAscend
<1>12. \A j \in Instances, m \in Limiters : \A g \in DOMAIN gens[j][m] :
          g \in DOMAIN gens'[j][m] /\ gens'[j][m][g] = gens[j][m][g]
  BY <1>2, <1>5, <1>6, <1>7, Zenon DEF OnlyGens
<1>13. \A q \in Requests : InstanceOf[q] \in Instances
  BY LimiterAssumption, Zenon
<1>14. InGeneration'
  <2>1. \A q \in Requests : took[q] \subseteq Results
    BY Zenon DEF BaseInv, CounterTypes
  <2>2. ASSUME NEW q \in Requests, NEW t \in took'[q], t.by = "memory"
        PROVE  \E g \in DOMAIN gens'[InstanceOf[q]][t.lim] : t.start = gens'[InstanceOf[q]][t.lim][g].start
    <3>1. t \in took[q]
      BY <1>5, <2>2, Zenon
    <3>2. t.lim \in Limiters
      BY <2>1, <3>1, Zenon DEF Results
    <3>3. PICK g \in DOMAIN gens[InstanceOf[q]][t.lim] : t.start = gens[InstanceOf[q]][t.lim][g].start
      BY <2>2, <3>1, Zenon DEF MemoryInv, InGeneration
    <3> QED
      BY <1>12, <1>13, <3>2, <3>3, ZenonT(40)
  <2>3. ASSUME NEW q \in Requests, take'[q].pc = "take"
        PROVE  take'[q].gen \in DOMAIN gens'[InstanceOf[q]][take'[q].lim]
    BY <2>3, Zenon DEF BaseInv
  <2> QED
    BY <2>2, <2>3, Zenon DEF InGeneration
<1>15. ASSUME NEW j \in Instances, NEW m \in Limiters, NEW g \in DOMAIN gens'[j][m], NEW key \in Keys
       PROVE  Counted(j, m, g, key)'
  <2>1. \A s : MemoryAdmitted(j, m, key, s)' = MemoryAdmitted(j, m, key, s)
    BY <1>5, Zenon DEF MemoryAdmitted, OfInstance
  <2>2. CASE g \in DOMAIN gens[j][m]
    <3>1. gens'[j][m][g] = gens[j][m][g] /\ Counted(j, m, g, key)
      BY <1>12, <2>2, Zenon DEF MemoryInv
    <3> QED
      BY <2>1, <3>1, Zenon DEF Counted
  <2>3. CASE g \notin DOMAIN gens[j][m]
    <3>1. j = i /\ m = l
      BY <1>5, <2>3, Zenon DEF OnlyGens
    <3>2. g \in DOMAIN ns /\ g \notin DOMAIN gs /\ gens'[j][m][g] = e
      BY <1>2, <1>6, <1>8, <2>3, <3>1, Zenon
    <3>3. MemoryAdmitted(j, m, key, e.start) = {}
      <4> SUFFICES ASSUME NEW q \in Requests, InstanceOf[q] = i, NEW t \in took[q], t.lim = l,
                          t.by = "memory", t.start = e.start
                   PROVE  FALSE
        BY <3>1, Zenon DEF MemoryAdmitted, OfInstance
      <4>1. PICK h \in DOMAIN gs : t.start = gs[h].start
        BY <1>2, Zenon DEF MemoryInv, InGeneration
      <4>2. gs[h].start < ns[g].start /\ ns[g] = e
        BY <1>8, <1>9, <3>2, <4>1, Zenon
      <4>3. gs[h] \in Generations
        BY <1>2, <4>1
      <4>4. gs[h].start \in Nat
        BY <4>3, Zenon DEF Generations
      <4>5. gs[h].start < e.start /\ e.start = gs[h].start
        BY <4>1, <4>2, Zenon
      <4>6. PICK n \in Nat : n = gs[h].start
        BY <4>4, Zenon
      <4> QED
        BY <4>5, <4>6
    <3>4. UsedOf(e.used, key) = 0
      BY <1>4 DEF UsedOf
    <3>5. Max[m] \in Nat
      BY LimiterAssumption, Zenon
    <3>6. IsFiniteSet({}) /\ Cardinality({}) = 0
      BY Zenon DEF CardinalityLaws
    <3>7. MemoryAdmitted(j, m, key, gens[j][m][g].start)' = {} /\ UsedOf(gens'[j][m][g].used, key) = 0
      BY <2>1, <3>2, <3>3, <3>4, Zenon
    <3> QED
      BY <3>5, <3>6, <3>7 DEF Counted
  <2> QED
    BY <2>2, <2>3, Zenon
<1> QED
  BY <1>11, <1>14, <1>15, Zenon DEF MemoryInv

\* Who is admitted once a Take in memory has returned.
LEMMA AdmittedStep ==
    ASSUME NEW r \in Requests, NEW t \in Results, NEW result, Leaves(r, "memory", result, t),
           NEW j, NEW m, NEW k, NEW s
    PROVE  LET A == MemoryAdmitted(j, m, k, s)
               B == MemoryAdmitted(j, m, k, s)'
           IN IF /\ result = "ok" /\ InstanceOf[r] = j
                 /\ take[r].lim = m /\ take[r].key = k /\ t.start = s
              THEN B = A \union {r} ELSE B = A
<1> DEFINE Fits(u) == u.lim = m /\ u.key = k /\ u.by = "memory" /\ u.start = s /\ u.result = "ok"
           A == MemoryAdmitted(j, m, k, s)
           B == MemoryAdmitted(j, m, k, s)'
<1>1. /\ A = {q \in OfInstance(j) : \E u \in took[q] : Fits(u)}
      /\ B = {q \in OfInstance(j) : \E u \in took'[q] : Fits(u)}
  BY Zenon DEF MemoryAdmitted, OfInstance
<1>2. \A q \in Requests \ {r} : took'[q] = took[q]
  BY Zenon DEF Leaves
<1>3. took'[r] = took[r] \union {t}
  BY Zenon DEF Leaves
<1>4. Fits(t) <=> take[r].lim = m /\ take[r].key = k /\ t.start = s /\ result = "ok"
  BY Zenon DEF Leaves
<1> HIDE DEF Fits, A, B
<1>5. \A q : q \in OfInstance(j) <=> q \in Requests /\ InstanceOf[q] = j
  BY Zenon DEF OfInstance
<1>6. \A q : q \in B <=> q \in A \/ (q = r /\ InstanceOf[r] = j /\ Fits(t))
  BY <1>1, <1>2, <1>3, <1>5, Zenon
<1>7. CASE result = "ok" /\ InstanceOf[r] = j /\ take[r].lim = m /\ take[r].key = k /\ t.start = s
  <2>1. B = A \union {r}
    BY <1>4, <1>6, <1>7, Zenon
  <2> QED
    BY <1>7, <2>1, Zenon DEF A, B
<1>8. CASE ~(result = "ok" /\ InstanceOf[r] = j /\ take[r].lim = m /\ take[r].key = k /\ t.start = s)
  <2>1. B = A
    BY <1>4, <1>6, <1>8, Zenon
  <2> QED
    BY <1>8, <2>1, Zenon DEF A, B
<1> QED
  BY <1>7, <1>8, Zenon

\* The generations of a limiter differ in their starts.
LEMMA StartsDiffer ==
    ASSUME BaseInv, GensAscend, NEW i \in Instances, NEW l \in Limiters,
           NEW g \in DOMAIN gens[i][l], NEW h \in DOMAIN gens[i][l],
           gens[i][l][g].start = gens[i][l][h].start
    PROVE  g = h
<1>1. PICK gs \in Seq(Generations) : gs = gens[i][l]
  BY Zenon DEF BaseInv, CounterTypes
<1>2. gs[g] \in Generations /\ gs[h] \in Generations /\ g \in Nat /\ h \in Nat
  BY <1>1
<1>3. gs[g].start \in Nat /\ gs[h].start \in Nat
  BY <1>2, Zenon DEF Generations
<1>4. (g < h => gs[g].start < gs[h].start) /\ (h < g => gs[h].start < gs[g].start)
  BY <1>1, Zenon DEF GensAscend
<1> QED
  BY <1>1, <1>2, <1>3, <1>4, SMTT(60)

\* What a Take in memory changes: of one key in one generation, the number used
\* and, if it is granted, the admitted ones; of all others nothing.
CountsKey(r, j, m, h, k) ==
    LET here == j = InstanceOf[r] /\ m = take[r].lim /\ h = take[r].gen /\ k = take[r].key
        A    == MemoryAdmitted(j, m, k, gens[j][m][h].start)
        B    == MemoryAdmitted(j, m, k, gens[j][m][h].start)'
        used == UsedOf(gens[j][m][h].used, k)
    IN /\ h \in DOMAIN gens[j][m] /\ used \in Nat
       /\ ~here => B = A /\ UsedOf(gens'[j][m][h].used, k) = used
       /\ here /\ used < Max[m] => B = A \union {r} /\ UsedOf(gens'[j][m][h].used, k) = used + 1
       /\ here /\ Max[m] <= used => B = A /\ UsedOf(gens'[j][m][h].used, k) = used + 1

CountsOne(r) ==
    \A j \in Instances, m \in Limiters : \A h \in DOMAIN gens'[j][m], k \in Keys :
        CountsKey(r, j, m, h, k)

\* The step of limitedKeys.Take.
LEMMA CountingStep ==
    ASSUME BaseInv, GensAscend, NEW r \in Requests, take[r].pc = "take", CountingDoes(r)
    PROVE  CountsOne(r)
<1>1. PICK i \in Instances, l \in Limiters, key \in Keys, g \in Nat :
         /\ i = InstanceOf[r] /\ l = take[r].lim /\ key = take[r].key /\ g = take[r].gen
         /\ g \in DOMAIN gens[i][l]
  <2>1. InstanceOf[r] \in Instances /\ take[r].lim \in Limiters
    BY LimiterAssumption, Zenon DEF BaseInv, CounterTypes, Pending
  <2>2. /\ take[r].key \in Keys /\ take[r].gen \in Nat
        /\ take[r].gen \in DOMAIN gens[InstanceOf[r]][take[r].lim]
    BY Zenon DEF BaseInv, CounterTypes, Takes
  <2> QED
    BY <2>1, <2>2, Zenon
<1>2. Counts(i, l, g, key)
  BY <1>1, Zenon DEF CountingDoes
<1>3. PICK t \in Results, result \in {"ok", "over"} :
         /\ Leaves(r, "memory", result, t)
         /\ \/ result = "ok" /\ UsedOf(gens[i][l][g].used, key) < Max[l]
            \/ result = "over" /\ Max[l] <= UsedOf(gens[i][l][g].used, key)
  BY <1>1, Zenon DEF CountingDoes
<1>4. t.start = gens[i][l][g].start
  BY <1>1, <1>3, Zenon DEF Leaves
<1> SUFFICES ASSUME NEW j \in Instances, NEW m \in Limiters, NEW h \in DOMAIN gens'[j][m], NEW k \in Keys
             PROVE  CountsKey(r, j, m, h, k)
  BY Zenon DEF CountsOne
<1>0. PICK s : s = gens[j][m][h].start
  BY Zenon
<1> DEFINE A == MemoryAdmitted(j, m, k, s)
           B == MemoryAdmitted(j, m, k, s)'
           here == j = i /\ m = l /\ h = g /\ k = key
           used == UsedOf(gens[j][m][h].used, k)
<1>5. h \in DOMAIN gens[j][m]
  BY <1>2, Zenon DEF Counts, OnlyGens
<1>6. used \in Nat
  <2>1. gens[j][m] \in Seq(Generations)
    BY Zenon DEF BaseInv, CounterTypes
  <2>2. gens[j][m][h] \in Generations
    BY <1>5, <2>1
  <2>3. gens[j][m][h].used \in UsedMaps
    BY <2>2, Zenon DEF Generations
  <2> QED
    BY <2>3, UsedNat, Zenon
<1>7. gens'[j][m][h].start = s /\ UsedOf(gens'[j][m][h].used, k) = used + IF here THEN 1 ELSE 0
  <2>1. CASE j = i /\ m = l
    BY <1>0, <1>2, <1>5, <2>1, Zenon DEF Counts
  <2>2. CASE j # i \/ m # l
    <3>1. gens'[j][m] = gens[j][m] /\ ~here
      BY <1>2, <2>2, Zenon DEF Counts, OnlyGens
    <3> QED
      BY <1>0, <1>6, <3>1
  <2> QED
    BY <2>1, <2>2, Zenon
<1>8. MemoryAdmitted(j, m, k, gens[j][m][h].start)' = B
  BY <1>7, Zenon DEF MemoryAdmitted
<1>9. here <=> i = j /\ l = m /\ key = k /\ t.start = s
  <2>1. ASSUME i = j, l = m, t.start = s PROVE h = g
    <3>1. gens[i][l][g].start = gens[i][l][h].start /\ h \in DOMAIN gens[i][l]
      BY <1>0, <1>4, <1>5, <2>1, Zenon
    <3> QED
      BY <1>1, <3>1, StartsDiffer, Zenon
  <2> QED
    BY <1>0, <1>4, <2>1, ZenonT(40)
<1>10. IF result = "ok" /\ here THEN B = A \union {r} ELSE B = A
  <2>1. IF /\ result = "ok" /\ InstanceOf[r] = j
           /\ take[r].lim = m /\ take[r].key = k /\ t.start = s
        THEN B = A \union {r} ELSE B = A
    BY <1>3, AdmittedStep, SMTT(40)
  <2> QED
    BY <1>1, <1>9, <2>1, ZenonT(40)
<1>11. Max[m] \in Nat
  BY LimiterAssumption, Zenon
<1>12. here => UsedOf(gens[i][l][g].used, key) = used
  BY ZenonT(40)
<1>13. (here /\ used < Max[m] => result = "ok") /\ (here /\ Max[m] <= used => result # "ok")
  BY <1>3, <1>6, <1>11, <1>12, SMTT(60)
<1>14. MemoryAdmitted(j, m, k, gens[j][m][h].start) = A
  BY <1>0, Zenon
<1>15. here <=> j = InstanceOf[r] /\ m = take[r].lim /\ h = take[r].gen /\ k = take[r].key
  BY <1>1, ZenonT(40)
<1> HIDE DEF A, B, used, here
<1>16. /\ ~here => B = A /\ UsedOf(gens'[j][m][h].used, k) = used
       /\ here /\ used < Max[m] => B = A \union {r} /\ UsedOf(gens'[j][m][h].used, k) = used + 1
       /\ here /\ Max[m] <= used => B = A /\ UsedOf(gens'[j][m][h].used, k) = used + 1
  BY <1>6, <1>7, <1>10, <1>13, SMTT(60)
<1> QED
  BY <1>5, <1>6, <1>8, <1>14, <1>15, <1>16, Zenon DEF CountsKey, used

\* A Take that counts keeps the invariant: it is granted only while less than the
\* limit is used.
LEMMA CountingKeeps ==
    ASSUME CardinalityLaws, BaseInv, BaseInv', MemoryInv,
           NEW r \in Requests, take[r].pc = "take", CountingDoes(r)
    PROVE  MemoryInv'
<1>1. CountsOne(r)
  BY CountingStep, Zenon DEF MemoryInv
<1>2. PICK i \in Instances, l \in Limiters : i = InstanceOf[r] /\ l = take[r].lim
  BY LimiterAssumption, Zenon DEF BaseInv, CounterTypes, Pending
<1>3. /\ OnlyGens(i, l) /\ DOMAIN gens'[i][l] = DOMAIN gens[i][l] /\ now' = now
      /\ \A h \in DOMAIN gens[i][l] : gens'[i][l][h].start = gens[i][l][h].start
  BY <1>2, Zenon DEF CountingDoes, Counts
<1>4. \A j \in Instances, m \in Limiters :
         /\ DOMAIN gens'[j][m] = DOMAIN gens[j][m]
         /\ \A h \in DOMAIN gens[j][m] : gens'[j][m][h].start = gens[j][m][h].start
  BY <1>3, Zenon DEF OnlyGens
<1>5. GensAscend'
  <2>1. \A m \in Limiters : WindowStart(m)' = WindowStart(m)
    BY <1>3, Zenon DEF WindowStart
  <2>2. ASSUME NEW j \in Instances, NEW m \in Limiters
        PROVE  /\ \A g \in DOMAIN gens'[j][m] : gens'[j][m][g].start <= WindowStart(m)'
               /\ \A g, h \in DOMAIN gens'[j][m] : g < h => gens'[j][m][g].start < gens'[j][m][h].start
    <3>1. /\ \A g \in DOMAIN gens[j][m] : gens[j][m][g].start <= WindowStart(m)
          /\ \A g, h \in DOMAIN gens[j][m] : g < h => gens[j][m][g].start < gens[j][m][h].start
      BY Zenon DEF MemoryInv, GensAscend
    <3>2. /\ DOMAIN gens'[j][m] = DOMAIN gens[j][m] /\ WindowStart(m)' = WindowStart(m)
          /\ \A h \in DOMAIN gens[j][m] : gens'[j][m][h].start = gens[j][m][h].start
      BY <1>4, <2>1, Zenon
    <3> HIDE DEF WindowStart
    <3> QED
      BY <3>1, <3>2, Zenon
  <2> QED
    BY <2>2, Zenon DEF GensAscend
<1>6. \A q \in Requests : InstanceOf[q] \in Instances /\ took[q] \subseteq Results /\ took'[q] \subseteq Results
  BY LimiterAssumption, Zenon DEF BaseInv, CounterTypes
<1>7. PICK t, result : Leaves(r, "memory", result, t)
  BY Zenon DEF CountingDoes
<1>8. InGeneration'
  <2>1. ASSUME NEW q \in Requests, NEW u \in took'[q], u.by = "memory"
        PROVE  \E g \in DOMAIN gens'[InstanceOf[q]][u.lim] : u.start = gens'[InstanceOf[q]][u.lim][g].start
    <3>1. u.lim \in Limiters
      BY <1>6, Zenon DEF Results
    <3>2. CASE u \in took[q]
      <4>1. PICK g \in DOMAIN gens[InstanceOf[q]][u.lim] : u.start = gens[InstanceOf[q]][u.lim][g].start
        BY <2>1, <3>2, Zenon DEF MemoryInv, InGeneration
      <4> QED
        BY <1>4, <1>6, <3>1, <4>1, Zenon
    <3>3. CASE u \notin took[q]
      <4>1. q = r /\ u = t
        BY <1>7, <3>3, Zenon DEF Leaves
      <4>2. u.lim = l /\ u.start = gens[i][l][take[r].gen].start
        BY <1>2, <1>7, <4>1, Zenon DEF Leaves
      <4>3. take[r].gen \in DOMAIN gens[i][l]
        BY <1>2, Zenon DEF BaseInv
      <4>4. InstanceOf[q] = i /\ i \in Instances /\ l \in Limiters
        BY <1>2, <4>1, Zenon
      <4>5. /\ take[r].gen \in DOMAIN gens'[i][l]
            /\ gens'[i][l][take[r].gen].start = gens[i][l][take[r].gen].start
        BY <1>4, <4>3, <4>4, Zenon
      <4> QED
        BY <4>2, <4>4, <4>5, Zenon
    <3> QED
      BY <3>2, <3>3, Zenon
  <2>2. ASSUME NEW q \in Requests, take'[q].pc = "take"
        PROVE  take'[q].gen \in DOMAIN gens'[InstanceOf[q]][take'[q].lim]
    BY <2>2, Zenon DEF BaseInv
  <2> QED
    BY <2>1, <2>2, Zenon DEF InGeneration
<1>9. ASSUME NEW j \in Instances, NEW m \in Limiters, NEW h \in DOMAIN gens'[j][m], NEW k \in Keys
      PROVE  Counted(j, m, h, k)'
  <2> DEFINE A == MemoryAdmitted(j, m, k, gens[j][m][h].start)
             B == MemoryAdmitted(j, m, k, gens[j][m][h].start)'
             used == UsedOf(gens[j][m][h].used, k)
             after == UsedOf(gens'[j][m][h].used, k)
  <2>1. /\ h \in DOMAIN gens[j][m] /\ used \in Nat
        /\ \/ B = A /\ after = used
           \/ used < Max[m] /\ B = A \union {r} /\ after = used + 1
           \/ Max[m] <= used /\ B = A /\ after = used + 1
    <3>1. CountsKey(r, j, m, h, k)
      BY <1>1, Zenon DEF CountsOne
    <3>2. Max[m] \in Nat
      BY LimiterAssumption, Zenon
    <3>3. used \in Nat
      BY <3>1, Zenon DEF CountsKey
    <3>4. used < Max[m] \/ Max[m] <= used
      BY <3>2, <3>3
    <3> QED
      BY <3>1, <3>4, Zenon DEF CountsKey
  <2>2. IsFiniteSet(A) /\ Cardinality(A) <= used /\ Cardinality(A) <= Max[m]
    BY <2>1, Zenon DEF MemoryInv, Counted
  <2>3. Max[m] \in Nat
    BY LimiterAssumption, Zenon
  <2> HIDE DEF A, B, used, after
  <2>4. /\ IsFiniteSet(B) /\ Cardinality(A) \in Nat /\ Cardinality(B) \in Nat
        /\ Cardinality(B) <= Cardinality(A) + 1
    BY <2>1, <2>2, GainsOne, Zenon
  <2>5. Cardinality(B) <= after /\ Cardinality(B) <= Max[m]
    BY <2>1, <2>2, <2>3, <2>4
  <2> QED
    BY <2>4, <2>5, Zenon DEF Counted, B, after
<1> QED
  BY <1>5, <1>8, <1>9, ZenonT(40) DEF MemoryInv

\* Every step preserves the invariant.
LEMMA MemoryNext ==
    ASSUME CardinalityLaws, BaseInv, BaseInv', LimitsInv, MemoryInv, [Next]_vars
    PROVE  MemoryInv'
BY MemorySteps, QuietKeeps, PullOutKeeps, CountingKeeps, Zenon DEF MemoryStep

\* The types hold throughout.
LEMMA BaseAlways == Spec => []BaseInv
<1>1. Init => BaseInv
  <2> SUFFICES ASSUME Init PROVE BaseInv
    BY Zenon
  <2>1. \A r \in Requests : take[r].pc = "none"
    BY Zenon DEF Init, LimiterInit, NoTake
  <2> QED
    BY <2>1, TypesInit, Zenon DEF BaseInv
<1>2. BaseInv /\ LimitsInv /\ LimitsInv' /\ [Next]_vars => BaseInv'
  BY BaseNext, Zenon
<1> QED
  BY <1>1, <1>2, LimitsInit, LimitsNext, PTL DEF Spec

-----------------------------------------------------------------------------
(* The limit in Redis *)

\* What a step does to the stamps: a Take begins with the window of now, and a
\* result of Redis has the stamp of its Take.
StampStep ==
    /\ now' \in Nat /\ now <= now'
    /\ \A q \in Requests :
          /\ take'[q].pc = "pipeline" =>
                \/ take'[q] = take[q]
                \/ take'[q].lim \in Limiters /\ take'[q].start = WindowStart(take'[q].lim)
          /\ \A t \in took'[q] : t.by = "redis" =>
                \/ t \in took[q]
                \/ /\ take[q].pc = "pipeline" /\ t.lim = take[q].lim
                   /\ t.start = take[q].start

\* So does every step.
LEMMA StampSteps ==
    ASSUME BaseInv, LimitsInv, [Next]_vars
    PROVE  StampStep
<1>0. CounterTypes /\ now \in Nat
  BY Zenon DEF BaseInv, CounterTypes
<1>1. CASE UNCHANGED vars
  BY <1>0, <1>1 DEF vars, limiterVars, StampStep
<1>2. CASE Tick
  BY <1>0, <1>2, SMTT(40) DEF Tick, StampStep
<1>3. ASSUME NEW r \in Requests, Handle(r) PROVE StampStep
  <2>1. HandleTakes(r)
    BY <1>0, <1>3, HandleEffect, Zenon
  <2>2. \A q \in Requests : take'[q].pc = "pipeline" =>
           \/ take'[q] = take[q]
           \/ take'[q].lim \in Limiters /\ take'[q].start = WindowStart(take'[q].lim)
    BY <2>1, Zenon DEF HandleTakes
  <2> QED
    BY <1>0, <2>1, <2>2 DEF HandleTakes, StampStep
<1>4. ASSUME NEW r \in Requests, TakeStep(r) PROVE StampStep
  <2>1. TakeDoes(r) /\ now' = now
    BY <1>4, TakeStepDoes, Zenon DEF TakeDoes, PipelineDoes, FailureDoes, PullOutDoes, CountingDoes
  <2>2. ASSUME NEW t \in Results, NEW result \in {"ok", "over", "error"}, NEW by \in {"redis", "memory"},
               Leaves(r, by, result, t), by = "redis" => take[r].pc = "pipeline"
        PROVE  StampStep
    <3>1. \A q \in Requests : take'[q].pc = "pipeline" => take'[q] = take[q]
      BY <2>2, Zenon DEF Leaves
    <3>2. ASSUME NEW q \in Requests, NEW u \in took'[q], u.by = "redis", u \notin took[q]
          PROVE  /\ take[q].pc = "pipeline" /\ u.lim = take[q].lim
                 /\ u.start = take[q].start
      <4>1. q = r /\ u = t
        BY <2>2, <3>2, Zenon DEF Leaves
      <4> QED
        BY <2>2, <3>2, <4>1, ZenonT(40) DEF Leaves
    <3> QED
      BY <1>0, <2>1, <3>1, <3>2, SMTT(40) DEF StampStep
  <2>3. ASSUME NEW pc \in {"memory", "take"}, GoesOn(r, pc) PROVE StampStep
    <3>1. \A q \in Requests : take'[q].pc = "pipeline" => take'[q] = take[q]
      BY <2>3, Zenon DEF GoesOn
    <3> QED
      BY <1>0, <2>1, <2>3, <3>1 DEF StampStep, GoesOn
  <2>4. CASE take[r].pc = "pipeline" /\ (PipelineDoes(r) \/ FailureDoes(r))
    <3>1. ASSUME UNCHANGED <<take, took>> PROVE StampStep
      BY <1>0, <2>1, <3>1 DEF StampStep
    <3> QED
      BY <2>2, <2>3, <2>4, <3>1, Zenon DEF PipelineDoes, FailureDoes
  <2>5. CASE PullOutDoes(r)
    BY <2>3, <2>5, Zenon DEF PullOutDoes, PullsOut
  <2>6. CASE CountingDoes(r)
    <3>1. "memory" # "redis"
      BY Zenon
    <3> QED
      BY <2>2, <2>6, <3>1, Zenon DEF CountingDoes
  <2> QED
    BY <2>1, <2>4, <2>5, <2>6, Zenon DEF TakeDoes
<1> QED
  BY <1>1, <1>2, <1>3, <1>4, Zenon DEF Next

\* The stamps are starts of windows.
LEMMA StampNext ==
    ASSUME BaseInv, LimitsInv, StampInv, [Next]_vars
    PROVE  StampInv'
<1>1. StampStep
  BY StampSteps, Zenon
<1>2. now \in Nat /\ now' \in Nat /\ now <= now'
  BY <1>1, Zenon DEF StampStep, BaseInv, CounterTypes
<1>3. \A l : Starts(l) \subseteq Starts(l)'
  BY <1>2 DEF Starts, Windows
<1>4. ASSUME NEW l \in Limiters PROVE WindowStart(l) \in Starts(l)
  BY <1>2, WindowStarts, Zenon DEF Starts, Windows
<1>5. ASSUME NEW q \in Requests, take'[q].pc = "pipeline" PROVE take'[q].start \in Starts(take[q].lim)'
  <2>1. CASE take'[q] = take[q]
    <3>1. take[q].start \in Starts(take[q].lim)
      BY <1>5, <2>1, Zenon DEF StampInv
    <3>2. PICK l : l = take[q].lim
      BY Zenon
    <3>3. take[q].start \in Starts(l)'
      BY <1>3, <3>1, <3>2, Zenon
    <3> QED
      BY <2>1, <3>2, <3>3, Zenon DEF Starts, Windows
  <2>2. CASE take'[q].lim \in Limiters /\ take'[q].start = WindowStart(take'[q].lim)
    <3>1. PICK l \in Limiters : l = take'[q].lim
      BY <2>2, Zenon
    <3>2. take'[q].start \in Starts(l)'
      BY <1>3, <1>4, <2>2, <3>1, Zenon
    <3> QED
      BY <3>1, <3>2, Zenon DEF Starts, Windows
  <2> QED
    BY <1>1, <1>5, <2>1, <2>2, Zenon DEF StampStep
<1>6. ASSUME NEW q \in Requests, NEW t \in took'[q], t.by = "redis"
      PROVE  t.start \in Starts(t.lim)'
  <2>1. t.start \in Starts(t.lim)
    BY <1>1, <1>6, Zenon DEF StampStep, StampInv
  <2> QED
    BY <1>3, <2>1, Zenon
<1> QED
  BY <1>5, <1>6, Zenon DEF StampInv

\* Before the first request there are no stamps and no entries.
LEMMA RedisInit ==
    ASSUME CardinalityLaws
    PROVE  Init => StampInv /\ RedisInv
<1> SUFFICES ASSUME Init PROVE StampInv /\ RedisInv
  BY Zenon
<1>1. \A r \in Requests : take[r].pc = "none" /\ took[r] = {}
  BY Zenon DEF Init, LimiterInit, NoTake
<1>2. StampInv
  BY <1>1, Zenon DEF StampInv
<1>3. \A l \in Limiters, key \in Keys, s \in Nat : EntryCounts(l, key, s)
  <2> SUFFICES ASSUME NEW l \in Limiters, NEW key \in Keys, NEW s \in Nat PROVE EntryCounts(l, key, s)
    BY Zenon
  <2>1. RedisAdmitted(l, key, s) = {}
    BY <1>1, Zenon DEF RedisAdmitted
  <2>2. IsFiniteSet({}) /\ Cardinality({}) = 0
    BY Zenon DEF CardinalityLaws
  <2>3. 0 <= Max[l]
    BY LimiterAssumption
  <2> QED
    BY <2>1, <2>2, <2>3, Zenon DEF EntryCounts
<1> QED
  BY <1>2, <1>3, Zenon DEF RedisInv

\* A step that admits nobody by Redis.
RedisQuiet ==
    \A q \in Requests : \A t \in Results :
        t.by = "redis" /\ t.result = "ok" => (t \in took'[q] <=> t \in took[q])

\* Such a step does not change who has been admitted.
LEMMA RedisQuietAdmitted ==
    ASSUME BaseInv, BaseInv', RedisQuiet, NEW l, NEW key, NEW s
    PROVE  RedisAdmitted(l, key, s)' = RedisAdmitted(l, key, s)
<1>1. \A q \in Requests : took[q] \subseteq Results /\ took'[q] \subseteq Results
  BY Zenon DEF BaseInv, CounterTypes
<1>2. ASSUME NEW q \in Requests, NEW t, t.by = "redis", t.result = "ok"
      PROVE  t \in took'[q] <=> t \in took[q]
  BY <1>1, <1>2, Zenon DEF RedisQuiet
<1>3. \A q \in Requests :
         (\E t \in took'[q] : t.lim = l /\ t.key = key /\ t.by = "redis" /\ t.start = s /\ t.result = "ok")
         <=> (\E t \in took[q] : t.lim = l /\ t.key = key /\ t.by = "redis" /\ t.start = s /\ t.result = "ok")
  BY <1>2, Zenon
<1> QED
  BY <1>3, Zenon DEF RedisAdmitted

\* Who is admitted once a Take of Redis has been granted.
LEMMA RedisAdmittedStep ==
    ASSUME NEW r \in Requests, NEW t \in Results, Leaves(r, "redis", "ok", t),
           NEW m, NEW k, NEW s
    PROVE  LET A == RedisAdmitted(m, k, s)
               B == RedisAdmitted(m, k, s)'
           IN IF take[r].lim = m /\ take[r].key = k /\ take[r].start = s
              THEN B = A \union {r} ELSE B = A
<1> DEFINE Fits(u) == u.lim = m /\ u.key = k /\ u.by = "redis" /\ u.start = s /\ u.result = "ok"
           A == RedisAdmitted(m, k, s)
           B == RedisAdmitted(m, k, s)'
<1>1. /\ A = {q \in Requests : \E u \in took[q] : Fits(u)}
      /\ B = {q \in Requests : \E u \in took'[q] : Fits(u)}
  BY Zenon DEF RedisAdmitted
<1>2. \A q \in Requests \ {r} : took'[q] = took[q]
  BY Zenon DEF Leaves
<1>3. took'[r] = took[r] \union {t}
  BY Zenon DEF Leaves
<1>4. Fits(t) <=> take[r].lim = m /\ take[r].key = k /\ take[r].start = s
  BY Zenon DEF Leaves
<1> HIDE DEF Fits, A, B
<1>5. \A q : q \in B <=> q \in A \/ (q = r /\ Fits(t))
  BY <1>1, <1>2, <1>3, Zenon
<1>6. CASE take[r].lim = m /\ take[r].key = k /\ take[r].start = s
  <2>1. B = A \union {r}
    BY <1>4, <1>5, <1>6, Zenon
  <2> QED
    BY <1>6, <2>1, Zenon DEF A, B
<1>7. CASE ~(take[r].lim = m /\ take[r].key = k /\ take[r].start = s)
  <2>1. B = A
    BY <1>4, <1>5, <1>7, Zenon
  <2> QED
    BY <1>7, <2>1, Zenon DEF A, B
<1> QED
  BY <1>6, <1>7, Zenon

\* Every step leaves the entries alone, lets time pass, or calls Redis: for a Take
\* that is granted, or for one that is not.
RedisStep ==
    \/ UNCHANGED <<now, redis>> /\ RedisQuiet
    \/ Tick /\ RedisQuiet
    \/ \E r \in Requests :
          /\ take[r].pc = "pipeline" /\ UNCHANGED now
          /\ \/ RedisQuiet /\ redis' = redis
             \/ RedisQuiet /\ redis' = Incr(FullKey(r), Dur[take[r].lim])
             \/ /\ redis' = Incr(FullKey(r), Dur[take[r].lim])
                /\ CountOf(FullKey(r)) < Max[take[r].lim]
                /\ \E t \in Results : Leaves(r, "redis", "ok", t)

\* Every step does one of these.
LEMMA RedisSteps ==
    ASSUME BaseInv, LimitsInv, [Next]_vars
    PROVE  RedisStep
<1>0. CounterTypes
  BY Zenon DEF BaseInv
<1>1. CASE UNCHANGED vars
  BY <1>1, Zenon DEF vars, limiterVars, RedisStep, RedisQuiet
<1>2. CASE Tick
  BY <1>2, Zenon DEF Tick, RedisStep, RedisQuiet
<1>3. ASSUME NEW r \in Requests, Handle(r) PROVE RedisStep
  BY <1>0, <1>3, HandleEffect, Zenon DEF HandleTakes, RedisStep, RedisQuiet
<1>4. ASSUME NEW r \in Requests, TakeStep(r) PROVE RedisStep
  <2>1. TakeDoes(r)
    BY <1>4, TakeStepDoes, Zenon
  <2>2. ASSUME NEW t \in Results, NEW result \in {"ok", "over", "error"}, NEW by \in {"redis", "memory"},
               Leaves(r, by, result, t), by = "memory" \/ result # "ok"
        PROVE  RedisQuiet
    BY <2>2, Zenon DEF Leaves, RedisQuiet
  <2>3. ASSUME NEW pc, GoesOn(r, pc) PROVE RedisQuiet
    BY <2>3, Zenon DEF GoesOn, RedisQuiet
  <2>4. "over" # "ok" /\ "error" # "ok"
    BY Zenon
  <2>5. CASE take[r].pc = "pipeline" /\ PipelineDoes(r)
    BY <2>2, <2>4, <2>5, Zenon DEF PipelineDoes, RedisStep
  <2>6. CASE take[r].pc = "pipeline" /\ FailureDoes(r)
    <3>1. RedisQuiet
      <4>1. CASE UNCHANGED <<take, took>>
        BY <4>1, Zenon DEF RedisQuiet
      <4> QED
        BY <2>2, <2>3, <2>4, <2>6, <4>1, Zenon DEF FailureDoes
    <3> QED
      BY <2>6, <3>1, Zenon DEF FailureDoes, RedisStep
  <2>7. CASE PullOutDoes(r)
    BY <2>3, <2>7, Zenon DEF PullOutDoes, PullsOut, RedisStep
  <2>8. CASE CountingDoes(r)
    BY <2>2, <2>8, Zenon DEF CountingDoes, RedisStep
  <2> QED
    BY <2>1, <2>5, <2>6, <2>7, <2>8, Zenon DEF TakeDoes
<1> QED
  BY <1>1, <1>2, <1>3, <1>4, Zenon DEF Next

\* An entry of a window that has started counts up and never lives shorter for a
\* call of Redis.
Outlasts(l, key, s) ==
    LET k == EntryOf(l, key, s)
    IN k \in DOMAIN redis =>
          /\ k \in DOMAIN redis' /\ redis[k].count <= redis'[k].count
          /\ s + Dur[l] - 1 - now <= redis[k].left => s + Dur[l] - 1 - now <= redis'[k].left

\* A call of Redis does, for the windows that have started.
LEMMA IncrOutlasts ==
    ASSUME BaseInv, BaseInv', NEW r \in Requests, take[r].pc = "pipeline",
           redis' = Incr(FullKey(r), Dur[take[r].lim]),
           NEW l \in Limiters, NEW key \in Keys, NEW s \in Nat, s <= now
    PROVE  Outlasts(l, key, s)
<1>1. PICK m \in Limiters : m = take[r].lim
  BY Zenon DEF BaseInv, CounterTypes, Pending
<1>2. PICK f : f = FullKey(r)
  BY Zenon
<1>3. /\ DOMAIN redis' = DOMAIN redis \union {f}
      /\ redis'[f].count = CountOf(f) + 1 /\ redis'[f].left = Dur[m] - 1
      /\ \A j \in DOMAIN redis \ {f} : redis'[j] = redis[j]
      /\ CountOf(f) \in Nat
  BY <1>1, <1>2, IncrTypes, Zenon DEF BaseInv, CounterTypes
<1>4. PICK k : k = EntryOf(l, key, s)
  BY Zenon
<1> SUFFICES ASSUME k \in DOMAIN redis
             PROVE  /\ k \in DOMAIN redis' /\ redis[k].count <= redis'[k].count
                    /\ s + Dur[l] - 1 - now <= redis[k].left => s + Dur[l] - 1 - now <= redis'[k].left
  BY <1>4, Zenon DEF Outlasts
<1>5. redis[k].count \in Nat /\ redis[k].left \in Nat
  BY Zenon DEF BaseInv, CounterTypes, Entries
<1>6. CASE k = f
  <2>1. l = m
    BY <1>1, <1>2, <1>4, <1>6 DEF EntryOf, FullKey
  <2>2. CountOf(f) = redis[k].count
    BY <1>6, Zenon DEF CountOf
  <2>3. Dur[l] \in Nat /\ now \in Nat
    BY LimiterAssumption, Zenon DEF BaseInv, CounterTypes
  <2>4. s + Dur[l] - 1 - now <= Dur[l] - 1
    BY <2>3, SMTT(60)
  <2> QED
    BY <1>3, <1>5, <1>6, <2>1, <2>2, <2>4, SMTT(60)
<1>7. CASE k # f
  BY <1>3, <1>5, <1>7
<1> QED
  BY <1>6, <1>7, Zenon

\* Nobody has been admitted to a window that has not started.
LEMMA AdmittedStarted ==
    ASSUME BaseInv, StampInv, NEW l, NEW key, NEW s, RedisAdmitted(l, key, s) # {}
    PROVE  s <= now
<1>1. PICK q \in Requests : \E t \in took[q] : t.lim = l /\ t.by = "redis" /\ t.start = s
  BY Zenon DEF RedisAdmitted
<1>2. PICK t \in took[q] : t.lim = l /\ t.by = "redis" /\ t.start = s
  BY <1>1, Zenon
<1>3. t.start \in Starts(t.lim)
  BY <1>2, Zenon DEF StampInv
<1> QED
  BY <1>2, <1>3, Zenon DEF Starts

\* What an entry counts, in other words.
LEMMA EntryHolds ==
    ASSUME NEW l, NEW key, NEW s, NEW A, NEW k,
           A = RedisAdmitted(l, key, s), k = EntryOf(l, key, s)
    PROVE  EntryCounts(l, key, s) <=>
             /\ IsFiniteSet(A)
             /\ now < s + Dur[l] - 1 =>
                   /\ Cardinality(A) <= Max[l]
                   /\ A = {} \/ /\ k \in DOMAIN redis /\ Cardinality(A) <= redis[k].count
                                /\ s + Dur[l] - 1 - now <= redis[k].left
BY Zenon DEF EntryCounts

\* The same after a step.
LEMMA EntryHoldsNext ==
    ASSUME NEW l, NEW key, NEW s, NEW A, NEW k,
           A = RedisAdmitted(l, key, s)', k = EntryOf(l, key, s)
    PROVE  EntryCounts(l, key, s)' <=>
             /\ IsFiniteSet(A)
             /\ now' < s + Dur[l] - 1 =>
                   /\ Cardinality(A) <= Max[l]
                   /\ A = {} \/ /\ k \in DOMAIN redis' /\ Cardinality(A) <= redis'[k].count
                                /\ s + Dur[l] - 1 - now' <= redis'[k].left
<1>1. EntryOf(l, key, s)' = EntryOf(l, key, s)
  BY Zenon DEF EntryOf, Truncated
<1> QED
  BY <1>1, Zenon DEF EntryCounts

\* While time passes an entry outlives its window but for the last millisecond.
LEMMA TickKeepsEntry ==
    ASSUME BaseInv, BaseInv', Tick, RedisQuiet,
           NEW l \in Limiters, NEW key \in Keys, NEW s \in Nat, EntryCounts(l, key, s)
    PROVE  EntryCounts(l, key, s)'
<1>1. PICK A, k : A = RedisAdmitted(l, key, s) /\ k = EntryOf(l, key, s)
  BY Zenon
<1>2. A = RedisAdmitted(l, key, s)'
  BY <1>1, RedisQuietAdmitted, Zenon
<1>3. /\ IsFiniteSet(A)
      /\ now < s + Dur[l] - 1 =>
            /\ Cardinality(A) <= Max[l]
            /\ A = {} \/ /\ k \in DOMAIN redis /\ Cardinality(A) <= redis[k].count
                         /\ s + Dur[l] - 1 - now <= redis[k].left
  BY <1>1, EntryHolds, Zenon
<1>4. Dur[l] \in Nat /\ now \in Nat /\ now' = now + 1
  BY LimiterAssumption, Zenon DEF BaseInv, CounterTypes, Tick
<1>5. ASSUME now' < s + Dur[l] - 1, k \in DOMAIN redis, s + Dur[l] - 1 - now <= redis[k].left
      PROVE  k \in DOMAIN redis' /\ redis'[k].count = redis[k].count /\ s + Dur[l] - 1 - now' <= redis'[k].left
  <2>1. redis[k] \in Entries
    BY <1>5, Zenon DEF BaseInv, CounterTypes
  <2>2. redis[k].left \in Nat
    BY <2>1, Zenon DEF Entries
  <2>3. redis[k].left > 1
    BY <1>4, <1>5, <2>2
  <2>4. k \in DOMAIN redis' /\ redis'[k] = [redis[k] EXCEPT !.left = @ - 1]
    BY <1>5, <2>3, Zenon DEF Tick
  <2>5. redis'[k].count = redis[k].count /\ redis'[k].left = redis[k].left - 1
    BY <2>1, <2>4, Zenon DEF Entries
  <2> QED
    BY <1>4, <1>5, <2>2, <2>4, <2>5, SMTT(60)
<1>6. now' < s + Dur[l] - 1 => now < s + Dur[l] - 1
  BY <1>4
<1>7. /\ IsFiniteSet(A)
      /\ now' < s + Dur[l] - 1 =>
            /\ Cardinality(A) <= Max[l]
            /\ A = {} \/ /\ k \in DOMAIN redis' /\ Cardinality(A) <= redis'[k].count
                         /\ s + Dur[l] - 1 - now' <= redis'[k].left
  BY <1>3, <1>5, <1>6, Zenon
<1> QED
  BY <1>1, <1>2, <1>7, EntryHoldsNext, Zenon

\* A call of Redis keeps the entries that count for a window: it adds to the
\* admitted only whom the entry had room for.
LEMMA CallKeepsEntry ==
    ASSUME CardinalityLaws, BaseInv, BaseInv', StampInv,
           NEW r \in Requests, take[r].pc = "pipeline", UNCHANGED now,
           redis' = Incr(FullKey(r), Dur[take[r].lim]),
           \/ RedisQuiet
           \/ /\ CountOf(FullKey(r)) < Max[take[r].lim]
              /\ \E t \in Results : Leaves(r, "redis", "ok", t),
           NEW l \in Limiters, NEW key \in Keys, NEW s \in Nat, EntryCounts(l, key, s)
    PROVE  EntryCounts(l, key, s)'
<1>1. PICK A, B, k : A = RedisAdmitted(l, key, s) /\ B = RedisAdmitted(l, key, s)' /\ k = EntryOf(l, key, s)
  BY Zenon
<1>2. /\ IsFiniteSet(A)
      /\ now < s + Dur[l] - 1 =>
            /\ Cardinality(A) <= Max[l]
            /\ A = {} \/ /\ k \in DOMAIN redis /\ Cardinality(A) <= redis[k].count
                         /\ s + Dur[l] - 1 - now <= redis[k].left
  BY <1>1, EntryHolds, Zenon
<1>3. PICK m \in Limiters : m = take[r].lim
  BY Zenon DEF BaseInv, CounterTypes, Pending
<1>4. PICK f : f = FullKey(r)
  BY Zenon
<1>5. /\ redis' \in [DOMAIN redis' -> Entries]
      /\ DOMAIN redis' = DOMAIN redis \union {f}
      /\ redis'[f].count = CountOf(f) + 1 /\ redis'[f].left = Dur[m] - 1
      /\ CountOf(f) \in Nat
  BY <1>3, <1>4, IncrTypes, Zenon DEF BaseInv, CounterTypes
<1>6. Max[l] \in Nat /\ Dur[l] \in Nat /\ now \in Nat /\ now' = now
  BY LimiterAssumption, Zenon DEF BaseInv, CounterTypes
<1>7. Cardinality(A) \in Nat
  BY <1>2, Zenon DEF CardinalityLaws
<1>8. ASSUME A # {}, now < s + Dur[l] - 1
      PROVE  /\ k \in DOMAIN redis' /\ Cardinality(A) <= redis'[k].count
             /\ s + Dur[l] - 1 - now <= redis'[k].left
  <2>1. s <= now
    BY <1>1, <1>8, AdmittedStarted, Zenon
  <2>2. Outlasts(l, key, s)
    BY <2>1, IncrOutlasts, Zenon
  <2>3. /\ k \in DOMAIN redis' /\ redis[k].count <= redis'[k].count
        /\ s + Dur[l] - 1 - now <= redis'[k].left
    BY <1>1, <1>2, <1>8, <2>2, ZenonT(40) DEF Outlasts
  <2>4. redis[k].count \in Nat /\ redis'[k].count \in Nat
    BY <1>2, <1>5, <1>8, <2>3, Zenon DEF BaseInv, CounterTypes, Entries
  <2> QED
    BY <1>2, <1>7, <1>8, <2>3, <2>4, SMTT(60)
<1>9. CASE B = A
  <2>1. /\ IsFiniteSet(B)
        /\ now' < s + Dur[l] - 1 =>
              /\ Cardinality(B) <= Max[l]
              /\ B = {} \/ /\ k \in DOMAIN redis' /\ Cardinality(B) <= redis'[k].count
                           /\ s + Dur[l] - 1 - now' <= redis'[k].left
    BY <1>2, <1>6, <1>8, <1>9, ZenonT(40)
  <2> QED
    BY <1>1, <2>1, EntryHoldsNext, Zenon
<1>10. CASE /\ B = A \union {r} /\ CountOf(f) < Max[l] /\ l = m /\ k = f /\ s <= now
  <2>1. IsFiniteSet(B) /\ Cardinality(B) \in Nat /\ Cardinality(B) <= Cardinality(A) + 1
    BY <1>2, <1>10, GainsOne, Zenon
  <2>2. ASSUME now < s + Dur[l] - 1 PROVE Cardinality(A) <= CountOf(f)
    <3>1. CASE A = {}
      BY <1>5, <3>1 DEF CardinalityLaws
    <3>2. CASE A # {}
      BY <1>2, <1>10, <2>2, <3>2, Zenon DEF CountOf
    <3> QED
      BY <3>1, <3>2, Zenon
  <2>3. k \in DOMAIN redis' /\ redis'[k].count = CountOf(f) + 1 /\ redis'[k].left = Dur[l] - 1
    BY <1>5, <1>10, Zenon
  <2>4. s + Dur[l] - 1 - now <= Dur[l] - 1
    BY <1>6, <1>10, SMTT(60)
  <2>5. now < s + Dur[l] - 1 => Cardinality(B) <= Max[l] /\ Cardinality(B) <= CountOf(f) + 1
    BY <1>5, <1>6, <1>7, <1>10, <2>1, <2>2, SMTT(60)
  <2>6. /\ IsFiniteSet(B)
        /\ now' < s + Dur[l] - 1 =>
              /\ Cardinality(B) <= Max[l]
              /\ B = {} \/ /\ k \in DOMAIN redis' /\ Cardinality(B) <= redis'[k].count
                           /\ s + Dur[l] - 1 - now' <= redis'[k].left
    BY <1>6, <2>1, <2>3, <2>4, <2>5, Zenon
  <2> QED
    BY <1>1, <2>6, EntryHoldsNext, Zenon
<1>11. CASE RedisQuiet
  BY <1>1, <1>9, <1>11, RedisQuietAdmitted, Zenon
<1>12. ASSUME NEW t \in Results, Leaves(r, "redis", "ok", t), CountOf(f) < Max[m]
       PROVE  EntryCounts(l, key, s)'
  <2>1. CASE take[r].lim = l /\ take[r].key = key /\ take[r].start = s
    <3>1. B = A \union {r}
      BY <1>1, <1>12, <2>1, RedisAdmittedStep, Zenon
    <3>2. k = f
      BY <1>1, <1>4, <2>1, Zenon DEF EntryOf, FullKey
    <3>3. s <= now
      BY <2>1, Zenon DEF StampInv, Starts
    <3> QED
      BY <1>3, <1>10, <1>12, <2>1, <3>1, <3>2, <3>3, Zenon
  <2>2. CASE ~(take[r].lim = l /\ take[r].key = key /\ take[r].start = s)
    BY <1>1, <1>9, <1>12, <2>2, RedisAdmittedStep, SMTT(60)
  <2> QED
    BY <2>1, <2>2, Zenon
<1> QED
  BY <1>3, <1>4, <1>11, <1>12, Zenon

\* Every step preserves what the entries count.
LEMMA RedisNext ==
    ASSUME CardinalityLaws, BaseInv, BaseInv', LimitsInv, StampInv, RedisInv, [Next]_vars
    PROVE  RedisInv'
<1> SUFFICES ASSUME NEW l \in Limiters, NEW key \in Keys, NEW s \in Nat
             PROVE  EntryCounts(l, key, s)'
  BY Zenon DEF RedisInv
<1>1. EntryCounts(l, key, s)
  BY Zenon DEF RedisInv
<1>2. ASSUME UNCHANGED <<now, redis>>, RedisQuiet PROVE EntryCounts(l, key, s)'
  <2>1. PICK A, k : A = RedisAdmitted(l, key, s) /\ k = EntryOf(l, key, s)
    BY Zenon
  <2>2. A = RedisAdmitted(l, key, s)'
    BY <1>2, <2>1, RedisQuietAdmitted, Zenon
  <2>3. now' = now /\ redis' = redis
    BY <1>2, Zenon
  <2>4. /\ IsFiniteSet(A)
        /\ now < s + Dur[l] - 1 =>
              /\ Cardinality(A) <= Max[l]
              /\ A = {} \/ /\ k \in DOMAIN redis /\ Cardinality(A) <= redis[k].count
                           /\ s + Dur[l] - 1 - now <= redis[k].left
    BY <1>1, <2>1, EntryHolds, Zenon
  <2> QED
    BY <2>1, <2>2, <2>3, <2>4, EntryHoldsNext, Zenon
<1>3. ASSUME Tick, RedisQuiet PROVE EntryCounts(l, key, s)'
  BY <1>1, <1>3, TickKeepsEntry, Zenon
<1>4. ASSUME NEW r \in Requests, take[r].pc = "pipeline", UNCHANGED now,
             redis' = Incr(FullKey(r), Dur[take[r].lim]),
             \/ RedisQuiet
             \/ /\ CountOf(FullKey(r)) < Max[take[r].lim]
                /\ \E t \in Results : Leaves(r, "redis", "ok", t)
      PROVE  EntryCounts(l, key, s)'
  BY <1>1, <1>4, CallKeepsEntry, Zenon
<1>5. RedisStep
  BY RedisSteps, Zenon
<1> QED
  BY <1>2, <1>3, <1>4, <1>5, Zenon DEF RedisStep

-----------------------------------------------------------------------------
(* Who is refused *)

\* No pattern of an origin has the name of the limiter of the senders.
SendersApart == "senders" \notin ExemptOrigins

\* A transaction is not limited by the limiter of the senders before it gets there.
LEMMA NotSendersFirst ==
    ASSUME SendersApart, NEW c, NeedsSender(c)
    PROVE  LimiterOf(c).lim # "senders"
<1>1. c.method = "eth_sendRawTransaction"
  BY Zenon DEF NeedsSender
<1>2. PICK p : p = LimiterOf(c)
  BY Zenon
<1>3. \/ \E o \in ExemptOrigins : p = [lim |-> o, key |-> "exempt"]
      \/ p = [lim |-> c.method, key |-> c.ip]
      \/ p = [lim |-> "main", key |-> c.ip]
      \/ p = [lim |-> "none", key |-> ""]
  BY <1>2, Zenon DEF LimiterOf, ExemptLimiter, NoLimiter
<1>4. \E l \in ExemptOrigins \union {"eth_sendRawTransaction", "main", "none"} : \E key : p = [lim |-> l, key |-> key]
  BY <1>1, <1>3, Zenon
<1>5. p.lim \in ExemptOrigins \union {"eth_sendRawTransaction", "main", "none"}
  BY <1>4
<1> QED
  BY <1>2, <1>5, Zenon DEF SendersApart

\* A request takes only once from a limiter.
LEMMA FirstNext ==
    ASSUME SendersApart, BaseInv, LimitsInv, FirstInv, [Next]_vars
    PROVE  FirstInv'
<1>0. CounterTypes /\ take \in [Requests -> Takes]
  BY Zenon DEF BaseInv, CounterTypes
<1>1. CASE UNCHANGED <<take, took>>
  BY <1>1, Zenon DEF FirstInv, Pending
<1>2. ASSUME NEW r \in Requests, Handle(r) PROVE FirstInv'
  <2>1. HandleTakes(r) /\ took' = took /\ RequestInv(r)
    BY <1>0, <1>2, HandleEffect, Zenon DEF HandleTakes, LimitsInv
  <2>2. \A t \in took[r] : Pending(r)' => t.lim # take'[r].lim
    <3>1. CASE Arrive(r)
      BY <2>1, <3>1, Zenon DEF Arrive, RequestInv
    <3>2. CASE Limited(r)
      <4>1. LimitStage(r) /\ ~Pending(r)
        BY <2>1, <3>2, Zenon DEF Limited, RequestInv, HandleTakes
      <4>2. \A t \in took[r] : t.lim = LimiterOf(call[r]).lim
        BY <4>1, Zenon DEF LimitStage, IsResult
      <4>3. \/ take' = [take EXCEPT ![r] = NoTake]
            \/ NeedsSender(call[r]) /\ StartTake(r, "senders", call[r].tx)
        BY <3>2, Zenon DEF Limited, NotLimited, RateLimitSender
      <4>4. CASE take' = [take EXCEPT ![r] = NoTake]
        <5>1. take'[r] = NoTake
          BY <1>0, <4>4, Zenon
        <5> QED
          BY <5>1 DEF NoTake, Pending
      <4>5. CASE NeedsSender(call[r]) /\ StartTake(r, "senders", call[r].tx)
        <5>1. take'[r].lim = "senders"
          BY <1>0, <4>5, Zenon DEF StartTake
        <5> QED
          BY <4>2, <4>5, <5>1, NotSendersFirst, Zenon
      <4> QED
        BY <4>3, <4>4, <4>5, Zenon
    <3>3. CASE SenderLimited(r)
      <4>1. take' = [take EXCEPT ![r] = NoTake]
        BY <3>3, Zenon DEF SenderLimited
      <4>2. take'[r] = NoTake
        BY <1>0, <4>1, Zenon
      <4> QED
        BY <4>2 DEF NoTake, Pending
    <3> QED
      BY <1>2, <3>1, <3>2, <3>3, Zenon DEF Handle
  <2> QED
    BY <2>1, <2>2, Zenon DEF HandleTakes, FirstInv, Pending
<1>3. ASSUME NEW r \in Requests, TakeStep(r) PROVE FirstInv'
  <2>1. TakeDoes(r)
    BY <1>3, TakeStepDoes, ZenonT(60)
  <2>2. ASSUME NEW t, NEW result \in {"ok", "over", "error"}, NEW by, Leaves(r, by, result, t)
        PROVE  FirstInv'
    BY <2>2 DEF Leaves, FirstInv, Pending
  <2>3. ASSUME NEW pc \in {"memory", "take"}, GoesOn(r, pc), Pending(r) PROVE FirstInv'
    BY <2>3 DEF GoesOn, FirstInv, Pending
  <2>4. Pending(r)
    BY <2>1, Zenon DEF TakeDoes, Pending
  <2>5. ASSUME UNCHANGED <<take, took>> PROVE FirstInv'
    BY <2>5, Zenon DEF FirstInv, Pending
  <2> QED
    BY <2>1, <2>2, <2>3, <2>4, <2>5, Zenon
    DEF TakeDoes, PipelineDoes, FailureDoes, PullOutDoes, PullsOut, CountingDoes
<1> QED
  BY <1>1, <1>2, <1>3, Zenon DEF Next, vars, limiterVars, Tick

\* Before the first request nobody is refused, and nothing is used.
LEMMA RefusedInit == Init => FirstInv /\ UsedUpInv
<1> SUFFICES ASSUME Init PROVE FirstInv /\ UsedUpInv
  BY Zenon
<1>1. \A r \in Requests : take[r].pc = "none" /\ took[r] = {}
  BY Zenon DEF Init, LimiterInit, NoTake
<1>2. \A i \in Instances, l \in Limiters : DOMAIN gens[i][l] = {}
  BY DEF Init, LimiterInit
<1> QED
  BY <1>1, <1>2, Zenon DEF FirstInv, Pending, UsedUpInv, RefusedInMemory

\* A step that counts nothing in memory refuses nobody there.
LEMMA QuietRefusesNobody ==
    ASSUME BaseInv, BaseInv', UsedUpInv, MemoryQuiet
    PROVE  UsedUpInv'
<1>1. gens' = gens
  BY Zenon DEF MemoryQuiet
<1>2. \A i, l, key, s : MemoryAdmitted(i, l, key, s)' = MemoryAdmitted(i, l, key, s)
  BY QuietAdmitted, Zenon
<1>3. ASSUME NEW q \in Requests, NEW t \in took'[q], t.by = "memory", t.result = "over"
      PROVE  Max[t.lim] <= Cardinality(MemoryAdmitted(InstanceOf[q], t.lim, t.key, t.start)')
  <2>1. t \in took[q]
    BY <1>3, Zenon DEF MemoryQuiet, BaseInv, CounterTypes
  <2>2. Max[t.lim] <= Cardinality(MemoryAdmitted(InstanceOf[q], t.lim, t.key, t.start))
    BY <1>3, <2>1, Zenon DEF UsedUpInv, RefusedInMemory
  <2> QED
    BY <1>2, <2>2, Zenon
<1>4. ASSUME NEW i \in Instances, NEW l \in Limiters, NEW g \in DOMAIN gens'[i][l], NEW key \in Keys
      PROVE  UsedUp(i, l, g, key)'
  <2>1. UsedUp(i, l, g, key)
    BY <1>1, Zenon DEF UsedUpInv
  <2>2. PICK s : s = gens[i][l][g].start
    BY Zenon
  <2>3. MemoryAdmitted(i, l, key, gens[i][l][g].start)' = MemoryAdmitted(i, l, key, s)'
    BY <1>1, <2>2, Zenon DEF MemoryAdmitted
  <2> QED
    BY <1>1, <1>2, <2>1, <2>2, <2>3, Zenon DEF UsedUp
<1> QED
  BY <1>3, <1>4, Zenon DEF UsedUpInv, RefusedInMemory

\* Nor does pulling out a generation; nothing is used of a new one.
LEMMA PullOutRefusesNobody ==
    ASSUME CardinalityLaws, BaseInv, BaseInv', MemoryInv', UsedUpInv,
           NEW r \in Requests, take[r].pc = "memory", PullOutDoes(r)
    PROVE  UsedUpInv'
<1>1. PICK i \in Instances, l \in Limiters : i = InstanceOf[r] /\ l = take[r].lim
  BY LimiterAssumption, Zenon DEF BaseInv, CounterTypes, Pending
<1>2. /\ OnlyGens(i, l) /\ took' = took
      /\ \/ gens'[i][l] = gens[i][l]
         \/ gens'[i][l] = Append(gens[i][l], [start |-> WindowStart(l), used |-> <<>>])
  BY <1>1, Zenon DEF PullOutDoes, PullsOut, GoesOn
<1>3. \A j, m, key, s : MemoryAdmitted(j, m, key, s)' = MemoryAdmitted(j, m, key, s)
  BY <1>2, Zenon DEF MemoryAdmitted
<1>4. RefusedInMemory'
  BY <1>2, <1>3, Zenon DEF UsedUpInv, RefusedInMemory
<1>5. ASSUME NEW j \in Instances, NEW m \in Limiters, NEW g \in DOMAIN gens'[j][m], NEW key \in Keys
      PROVE  UsedUp(j, m, g, key)'
  <2>1. CASE g \in DOMAIN gens[j][m] /\ gens'[j][m][g] = gens[j][m][g]
    <3>1. UsedUp(j, m, g, key)
      BY <2>1, Zenon DEF UsedUpInv
    <3>2. PICK s : s = gens[j][m][g].start
      BY Zenon
    <3>3. MemoryAdmitted(j, m, key, gens[j][m][g].start)' = MemoryAdmitted(j, m, key, s)'
      BY <2>1, <3>2, Zenon DEF MemoryAdmitted
    <3> QED
      BY <1>3, <2>1, <3>1, <3>2, <3>3, Zenon DEF UsedUp
  <2>2. CASE gens'[j][m][g].used = <<>>
    <3>1. Counted(j, m, g, key)'
      BY Zenon DEF MemoryInv
    <3>2. IsFiniteSet(MemoryAdmitted(j, m, key, gens[j][m][g].start)')
      BY <3>1, Zenon DEF Counted
    <3>3. PICK c : c = Cardinality(MemoryAdmitted(j, m, key, gens[j][m][g].start)')
      BY Zenon
    <3>4. c \in Nat
      BY <3>2, <3>3, Zenon DEF CardinalityLaws
    <3>5. UsedOf(gens'[j][m][g].used, key) = 0
      BY <2>2 DEF UsedOf
    <3>6. UsedOf(gens'[j][m][g].used, key) <= c
      BY <3>4, <3>5, SMTT(40)
    <3> QED
      BY <3>3, <3>6, Zenon DEF UsedUp
  <2>3. \/ g \in DOMAIN gens[j][m] /\ gens'[j][m][g] = gens[j][m][g]
        \/ gens'[j][m][g].used = <<>>
    <3>1. CASE gens'[j][m] = gens[j][m]
      BY <3>1, Zenon
    <3>2. CASE j = i /\ m = l /\ gens'[i][l] = Append(gens[i][l], [start |-> WindowStart(l), used |-> <<>>])
      <4>1. PICK e : e = [start |-> WindowStart(l), used |-> <<>>]
        BY Zenon
      <4>2. gens[j][m] \in Seq(Generations)
        BY Zenon DEF BaseInv, CounterTypes
      <4>3. (g \in DOMAIN gens[j][m] /\ gens'[j][m][g] = gens[j][m][g]) \/ gens'[j][m][g] = e
        BY <3>2, <4>1, <4>2
      <4>4. e.used = <<>>
        BY <4>1, Zenon
      <4> QED
        BY <4>3, <4>4, Zenon
    <3> QED
      BY <1>2, <3>1, <3>2, Zenon DEF OnlyGens
  <2> QED
    BY <2>1, <2>2, <2>3, Zenon
<1> QED
  BY <1>4, <1>5, Zenon DEF UsedUpInv

\* limitedKeys.Take refuses only when the limit is used, and all of it by others
\* that were admitted.
LEMMA CountingRefuses ==
    ASSUME CardinalityLaws, BaseInv, BaseInv', MemoryInv, FirstInv, UsedUpInv,
           NEW r \in Requests, take[r].pc = "take", CountingDoes(r)
    PROVE  UsedUpInv'
<1>1. CountsOne(r)
  BY CountingStep, Zenon DEF MemoryInv
<1>2. PICK i \in Instances, l \in Limiters, key \in Keys, g \in Nat :
         /\ i = InstanceOf[r] /\ l = take[r].lim /\ key = take[r].key /\ g = take[r].gen
         /\ g \in DOMAIN gens[i][l]
  <2>1. InstanceOf[r] \in Instances /\ take[r].lim \in Limiters /\ take[r].key \in Keys
    BY LimiterAssumption, Zenon DEF BaseInv, CounterTypes, Pending, Takes
  <2>2. take[r].gen \in Nat /\ take[r].gen \in DOMAIN gens[InstanceOf[r]][take[r].lim]
    BY Zenon DEF BaseInv, CounterTypes, Takes
  <2> QED
    BY <2>1, <2>2, Zenon
<1>3. \A j \in Instances, m \in Limiters :
         /\ DOMAIN gens'[j][m] = DOMAIN gens[j][m]
         /\ \A h \in DOMAIN gens[j][m] : gens'[j][m][h].start = gens[j][m][h].start
  BY <1>2, ZenonT(60) DEF CountingDoes, Counts, OnlyGens
<1>4. \A m, k, s : r \in MemoryAdmitted(i, m, k, s) => m # l
  <2>1. Pending(r)
    BY Zenon DEF Pending
  <2> QED
    BY <1>2, <2>1, Zenon DEF FirstInv, MemoryAdmitted
<1>5. ASSUME NEW j \in Instances, NEW m \in Limiters, NEW h \in DOMAIN gens[j][m], NEW k \in Keys,
             NEW A, A = MemoryAdmitted(j, m, k, gens[j][m][h].start),
             NEW B, B = MemoryAdmitted(j, m, k, gens[j][m][h].start)',
             NEW used, used = UsedOf(gens[j][m][h].used, k),
             NEW after, after = UsedOf(gens'[j][m][h].used, k)
      PROVE  /\ Cardinality(A) \in Nat /\ Cardinality(B) \in Nat /\ Cardinality(A) <= Cardinality(B)
             /\ after <= Cardinality(B) \/ Max[m] <= Cardinality(B)
             /\ j = i /\ m = l /\ h = g /\ k = key /\ Max[m] <= used => Max[m] <= Cardinality(A)
  <2> DEFINE here == j = i /\ m = l /\ h = g /\ k = key
  <2>1. CountsKey(r, j, m, h, k)
    BY <1>1, <1>3, Zenon DEF CountsOne
  <2>2. /\ used \in Nat
        /\ ~here => B = A /\ after = used
        /\ here /\ used < Max[m] => B = A \union {r} /\ after = used + 1
        /\ here /\ Max[m] <= used => B = A /\ after = used + 1
    BY <1>2, <1>5, <2>1, Zenon DEF CountsKey
  <2>3. IsFiniteSet(A)
    BY <1>5, Zenon DEF MemoryInv, Counted
  <2>4. used <= Cardinality(A) \/ Max[m] <= Cardinality(A)
    BY <1>5, Zenon DEF UsedUpInv, UsedUp
  <2>5. here => r \notin A
    BY <1>4, <1>5, Zenon
  <2>6. Max[m] \in Nat
    BY LimiterAssumption, Zenon
  <2> HIDE DEF here
  <2>7. B = A \/ B = A \union {r}
    BY <2>2, <2>6
  <2>8. /\ Cardinality(A) \in Nat /\ Cardinality(B) \in Nat /\ Cardinality(A) <= Cardinality(B)
        /\ r \notin A /\ B = A \union {r} => Cardinality(B) = Cardinality(A) + 1
    BY <2>3, <2>7, GainsOne, Zenon
  <2>9. here /\ Max[m] <= used => Max[m] <= Cardinality(A)
    BY <2>2, <2>4, <2>6, <2>8, SMTT(60)
  <2>10. after <= Cardinality(B) \/ Max[m] <= Cardinality(B)
    BY <2>2, <2>4, <2>5, <2>6, <2>8, SMTT(60)
  <2> QED
    BY <2>8, <2>9, <2>10, Zenon DEF here
<1>6. ASSUME NEW j \in Instances, NEW m \in Limiters, NEW h \in DOMAIN gens'[j][m], NEW k \in Keys
      PROVE  UsedUp(j, m, h, k)'
  <2>1. h \in DOMAIN gens[j][m]
    BY <1>3, Zenon
  <2> QED
    BY <1>5, <2>1, Zenon DEF UsedUp
<1>7. PICK t \in Results, result \in {"ok", "over"} :
         /\ Leaves(r, "memory", result, t)
         /\ \/ result = "ok" /\ UsedOf(gens[i][l][g].used, key) < Max[l]
            \/ result = "over" /\ Max[l] <= UsedOf(gens[i][l][g].used, key)
  BY <1>2, Zenon DEF CountingDoes
<1>8. ASSUME NEW q \in Requests, NEW u \in took'[q], u.by = "memory", u.result = "over"
      PROVE  Max[u.lim] <= Cardinality(MemoryAdmitted(InstanceOf[q], u.lim, u.key, u.start)')
  <2>1. PICK j \in Instances, m \in Limiters, k \in Keys :
           j = InstanceOf[q] /\ m = u.lim /\ k = u.key
    <3>1. u \in Results
      BY Zenon DEF BaseInv, CounterTypes
    <3> QED
      BY <3>1, LimiterAssumption, Zenon DEF Results
  <2>2. PICK h \in DOMAIN gens[j][m] :
          /\ u.start = gens[j][m][h].start
          /\ Max[m] <= Cardinality(MemoryAdmitted(j, m, k, gens[j][m][h].start))
    <3>1. CASE u \in took[q]
      <4>1. PICK h \in DOMAIN gens[j][m] : u.start = gens[j][m][h].start
        BY <1>8, <2>1, <3>1, Zenon DEF MemoryInv, InGeneration
      <4>2. Max[u.lim] <= Cardinality(MemoryAdmitted(InstanceOf[q], u.lim, u.key, u.start))
        BY <1>8, <3>1, Zenon DEF UsedUpInv, RefusedInMemory
      <4> QED
        BY <2>1, <4>1, <4>2, Zenon
    <3>2. CASE u \notin took[q]
      <4>1. q = r /\ u = t
        BY <1>7, <3>2, Zenon DEF Leaves
      <4>2. /\ u.lim = l /\ u.key = key /\ u.start = gens[i][l][g].start /\ result = "over"
        BY <1>2, <1>7, <1>8, <4>1, ZenonT(40) DEF Leaves
      <4>3. Max[l] <= UsedOf(gens[i][l][g].used, key)
        BY <1>7, <4>2, Zenon
      <4>4. Max[l] <= Cardinality(MemoryAdmitted(i, l, key, gens[i][l][g].start))
        <5>1. PICK A, B, used, after :
                /\ A = MemoryAdmitted(i, l, key, gens[i][l][g].start)
                /\ B = MemoryAdmitted(i, l, key, gens[i][l][g].start)'
                /\ used = UsedOf(gens[i][l][g].used, key) /\ after = UsedOf(gens'[i][l][g].used, key)
          BY Zenon
        <5>2. g \in DOMAIN gens[i][l]
          BY <1>2, Zenon
        <5>3. i = i /\ l = l /\ g = g /\ key = key /\ Max[l] <= used => Max[l] <= Cardinality(A)
          BY ONLY <1>5, <5>1, <5>2, i \in Instances, l \in Limiters, key \in Keys, Zenon
        <5> QED
          BY <4>3, <5>1, <5>3, Zenon
      <4> QED
        BY <1>2, <2>1, <4>1, <4>2, <4>4, ZenonT(40)
    <3> QED
      BY <3>1, <3>2, Zenon
  <2>3. PICK a, b : /\ a = Cardinality(MemoryAdmitted(j, m, k, gens[j][m][h].start))
                    /\ b = Cardinality(MemoryAdmitted(j, m, k, gens[j][m][h].start)')
    BY Zenon
  <2>4. a \in Nat /\ b \in Nat /\ a <= b
    BY <1>5, <2>3, ZenonT(40)
  <2>5. Max[m] <= b
    BY <2>2, <2>3, <2>4, LimiterAssumption, SMTT(60)
  <2>6. MemoryAdmitted(j, m, k, gens[j][m][h].start)' = MemoryAdmitted(j, m, k, u.start)'
    BY <1>3, <2>2, ZenonT(60) DEF MemoryAdmitted
  <2> QED
    BY <2>1, <2>3, <2>5, <2>6, Zenon
<1> QED
  BY <1>6, <1>8, Zenon DEF UsedUpInv, RefusedInMemory

\* Every step preserves who is refused in memory.
LEMMA UsedUpNext ==
    ASSUME CardinalityLaws, BaseInv, BaseInv', LimitsInv, MemoryInv, MemoryInv',
           FirstInv, UsedUpInv, [Next]_vars
    PROVE  UsedUpInv'
BY MemorySteps, QuietRefusesNobody, PullOutRefusesNobody, CountingRefuses, Zenon DEF MemoryStep

\* No window is shorter than a second, so that no two of them start in the same one.
WholeSeconds == \A l \in Limiters : Second <= Dur[l]

\* The windows of a limiter have keys of their own in Redis.
LEMMA TruncatedDiffers ==
    ASSUME WholeSeconds, NEW l \in Limiters, NEW s \in Windows(l), NEW u \in Windows(l),
           Truncated(s) = Truncated(u)
    PROVE  s = u
<1>1. PICK d \in Nat, sec \in Nat \ {0} : d = Dur[l] /\ sec = Second /\ sec <= d
  BY LimiterAssumption, Zenon DEF WholeSeconds
<1>2. ASSUME NEW x \in Nat, NEW y \in Nat, NEW a \in Nat, NEW b \in Nat,
             x = a * d, y = b * d, a < b, x \div sec = y \div sec
      PROVE  FALSE
  <2>1. a + 1 <= b
    BY <1>2
  <2>2. (a + 1) * d <= b * d
    BY <1>1, <2>1
  <2>3. (a + 1) * d = x + d
    BY <1>1, <1>2
  <2>4. x + sec <= y
    BY <1>1, <1>2, <2>2, <2>3, SMTT(60)
  <2>5. PICK n \in Nat : n = x \div sec /\ n = y \div sec
    BY <1>1, <1>2
  <2>6. n * sec <= x /\ y < (n + 1) * sec
    BY <1>1, <2>5
  <2>7. (n + 1) * sec = n * sec + sec
    BY <1>1, <2>5
  <2>8. n * sec \in Nat
    BY <1>1, <2>5
  <2> QED
    BY <1>1, <2>4, <2>6, <2>7, <2>8, SMTT(60)
<1>3. PICK a \in Nat, b \in Nat : s = a * d /\ u = b * d
  BY <1>1, Zenon DEF Windows
<1>4. s \in Nat /\ u \in Nat /\ s \div sec = u \div sec
  BY <1>1, Zenon DEF Windows, Truncated
<1>5. ~(a < b) /\ ~(b < a)
  BY <1>2, <1>3, <1>4, Zenon
<1>6. a = b
  BY <1>5
<1> QED
  BY <1>3, <1>6, Zenon

\* A step that calls Redis for nobody.
CalledQuiet ==
    /\ \A q \in Requests : \A l, key, s : HasAnswer(q, l, key, s)' <=> HasAnswer(q, l, key, s)
    /\ UNCHANGED failures
    /\ \A k \in DOMAIN redis' : k \in DOMAIN redis /\ redis'[k].count = redis[k].count
    /\ \A q \in Requests : \A t \in took'[q] : t.by = "redis" /\ t.result = "over" => t \in took[q]

\* A call of r that Redis answers, and one that fails.
IsAnswered(r) ==
    /\ \A q \in Requests : \A l, key, s :
          HasAnswer(q, l, key, s)' <=>
              \/ HasAnswer(q, l, key, s)
              \/ q = r /\ l = take[r].lim /\ key = take[r].key /\ s = take[r].start
    /\ UNCHANGED failures
    /\ \A q \in Requests : \A t \in took'[q] : t.by = "redis" /\ t.result = "over" =>
          \/ t \in took[q]
          \/ /\ q = r /\ t.lim = take[r].lim /\ t.key = take[r].key /\ t.start = take[r].start
             /\ Max[take[r].lim] <= CountOf(FullKey(r))

IsFailed(r) ==
    /\ \A q \in Requests : \A l, key, s : HasAnswer(q, l, key, s)' <=> HasAnswer(q, l, key, s)
    /\ failures' = Append(failures, CallOf(take[r].lim, take[r].key, take[r].start))
    /\ \A q \in Requests : \A t \in took'[q] : t.by = "redis" /\ t.result = "over" => t \in took[q]

\* A step that calls Redis for r, with or without success.
CallsRedis(r) ==
    /\ take[r].pc = "pipeline"
    /\ redis' = redis \/ redis' = Incr(FullKey(r), Dur[take[r].lim])
    /\ IsAnswered(r) \/ IsFailed(r)

\* Whom Redis has answered once a Take returns.
LEMMA LeavesAnswer ==
    ASSUME NEW r \in Requests, NEW t, NEW by, NEW result, Leaves(r, by, result, t),
           by = "redis" => t.start = take[r].start,
           NEW q \in Requests, NEW l, NEW key, NEW s
    PROVE  HasAnswer(q, l, key, s)' <=>
              \/ HasAnswer(q, l, key, s)
              \/ /\ by = "redis" /\ result # "error"
                 /\ q = r /\ l = take[r].lim /\ key = take[r].key /\ s = take[r].start
<1>1. /\ \A p \in Requests \ {r} : took'[p] = took[p]
      /\ took'[r] = took[r] \union {t}
      /\ t.lim = take[r].lim /\ t.key = take[r].key /\ t.by = by /\ t.result = result
  BY Zenon DEF Leaves
<1>2. CASE q # r
  BY <1>1, <1>2, Zenon DEF HasAnswer
<1>3. CASE q = r
  <2> DEFINE Is(u) == u.lim = l /\ u.key = key /\ u.by = "redis" /\ u.start = s /\ u.result # "error"
  <2>1. Is(t) <=> /\ by = "redis" /\ result # "error"
                  /\ l = take[r].lim /\ key = take[r].key /\ s = take[r].start
    BY <1>1, Zenon
  <2> HIDE DEF Is
  <2>2. (\E u \in took'[r] : Is(u)) <=> (\E u \in took[r] : Is(u)) \/ Is(t)
    BY <1>1, Zenon
  <2>3. /\ HasAnswer(q, l, key, s)' <=> \E u \in took'[r] : Is(u)
        /\ HasAnswer(q, l, key, s) <=> \E u \in took[r] : Is(u)
    BY <1>3, Zenon DEF HasAnswer, Is
  <2> QED
    BY <1>3, <2>1, <2>2, <2>3, Zenon
<1> QED
  BY <1>2, <1>3, Zenon

\* Every step calls Redis for nobody or for one request.
LEMMA CalledSteps ==
    ASSUME BaseInv, LimitsInv, [Next]_vars
    PROVE  CalledQuiet \/ \E r \in Requests : CallsRedis(r)
<1>0. CounterTypes
  BY Zenon DEF BaseInv
<1>1. ASSUME UNCHANGED took, UNCHANGED failures,
             \A k \in DOMAIN redis' : k \in DOMAIN redis /\ redis'[k].count = redis[k].count
      PROVE  CalledQuiet
  BY <1>1, Zenon DEF CalledQuiet, HasAnswer
<1>2. CASE UNCHANGED vars
  <2>1. UNCHANGED <<took, failures>> /\ redis' = redis
    BY <1>2, Zenon DEF vars, limiterVars
  <2> QED
    BY <1>1, <2>1, Zenon
<1>3. CASE Tick
  <2>1. UNCHANGED <<took, failures>>
    BY <1>3, Zenon DEF Tick
  <2>2. ASSUME NEW k \in DOMAIN redis' PROVE k \in DOMAIN redis /\ redis'[k].count = redis[k].count
    <3>1. k \in DOMAIN redis /\ redis'[k] = [redis[k] EXCEPT !.left = @ - 1]
      BY <1>3, Zenon DEF Tick
    <3>2. redis[k] \in Entries
      BY <1>0, <3>1, Zenon DEF CounterTypes
    <3> QED
      BY <3>1, <3>2, Zenon DEF Entries
  <2> QED
    BY <1>1, <2>1, <2>2, Zenon
<1>4. ASSUME NEW r \in Requests, TakeStep(r) PROVE CalledQuiet \/ CallsRedis(r)
  <2>1. TakeDoes(r)
    BY <1>4, TakeStepDoes, Zenon
  <2>2. CASE take[r].pc = "pipeline" /\ PipelineDoes(r)
    <3>1. PICK t \in Results, result \in {"ok", "over"} :
             Leaves(r, "redis", result, t) /\ (result = "over" => Max[take[r].lim] <= CountOf(FullKey(r)))
      <4>1. "ok" # "over"
        BY Zenon
      <4> QED
        BY <2>2, <4>1, Zenon DEF PipelineDoes
    <3>2. result # "error" /\ t.start = take[r].start
      BY <3>1, Zenon DEF Leaves
    <3>3. \A q \in Requests : \A l, key, s :
             HasAnswer(q, l, key, s)' <=>
                 \/ HasAnswer(q, l, key, s)
                 \/ q = r /\ l = take[r].lim /\ key = take[r].key /\ s = take[r].start
      BY <3>1, <3>2, LeavesAnswer, ZenonT(40)
    <3>4. ASSUME NEW q \in Requests, NEW u \in took'[q], u.by = "redis", u.result = "over", u \notin took[q]
          PROVE  /\ q = r /\ u.lim = take[r].lim /\ u.key = take[r].key /\ u.start = take[r].start
                 /\ Max[take[r].lim] <= CountOf(FullKey(r))
      <4>1. q = r /\ u = t
        BY <3>1, <3>4, Zenon DEF Leaves
      <4> QED
        BY <3>1, <3>4, <4>1, Zenon DEF Leaves
    <3>5. IsAnswered(r)
      BY <2>2, <3>3, <3>4, Zenon DEF IsAnswered, PipelineDoes
    <3> QED
      BY <2>2, <3>5, Zenon DEF CallsRedis, PipelineDoes
  <2>3. CASE take[r].pc = "pipeline" /\ FailureDoes(r)
    <3>1. /\ \A q \in Requests : \A l, key, s : HasAnswer(q, l, key, s)' <=> HasAnswer(q, l, key, s)
          /\ \A q \in Requests : \A u \in took'[q] : u.by = "redis" /\ u.result = "over" => u \in took[q]
      <4>1. CASE UNCHANGED took
        BY <4>1, Zenon DEF HasAnswer
      <4>2. CASE \E t \in Results : Leaves(r, "redis", "error", t)
        <5>1. PICK t : Leaves(r, "redis", "error", t) /\ t.start = take[r].start
          BY <4>2, Zenon DEF Leaves
        <5>2. \A q \in Requests : \A l, key, s : HasAnswer(q, l, key, s)' <=> HasAnswer(q, l, key, s)
          BY <5>1, LeavesAnswer, Zenon
        <5>3. \A q \in Requests : \A u \in took'[q] : u.by = "redis" /\ u.result = "over" => u \in took[q]
          BY <5>1, Zenon DEF Leaves
        <5> QED
          BY <5>2, <5>3, Zenon
      <4> QED
        BY <2>3, <4>1, <4>2, Zenon DEF FailureDoes, GoesOn
    <3>2. IsFailed(r)
      BY <2>3, <3>1, Zenon DEF IsFailed, FailureDoes
    <3> QED
      BY <2>3, <3>2, Zenon DEF CallsRedis, FailureDoes
  <2>4. CASE PullOutDoes(r)
    BY <1>1, <2>4, Zenon DEF PullOutDoes, PullsOut, GoesOn
  <2>5. CASE CountingDoes(r)
    <3>1. PICK t \in Results, result \in {"ok", "over"} : Leaves(r, "memory", result, t)
      BY <2>5, Zenon DEF CountingDoes
    <3>2. redis' = redis /\ UNCHANGED failures
      BY <2>5, Zenon DEF CountingDoes
    <3>3. \A q \in Requests : \A l, key, s : HasAnswer(q, l, key, s)' <=> HasAnswer(q, l, key, s)
      BY <3>1, LeavesAnswer, Zenon
    <3>4. \A q \in Requests : \A u \in took'[q] : u.by = "redis" => u \in took[q]
      BY <3>1, Zenon DEF Leaves
    <3> QED
      BY <3>2, <3>3, <3>4, Zenon DEF CalledQuiet
  <2> QED
    BY <2>1, <2>2, <2>3, <2>4, <2>5, Zenon DEF TakeDoes
<1>5. ASSUME NEW r \in Requests, Handle(r) PROVE CalledQuiet
  <2>1. UNCHANGED <<took, failures>> /\ redis' = redis
    BY <1>0, <1>5, HandleEffect, Zenon DEF HandleTakes
  <2> QED
    BY <1>1, <2>1, Zenon
<1> QED
  BY <1>2, <1>3, <1>4, <1>5, Zenon DEF Next

\* Before the first request nobody has called Redis.
LEMMA CalledInit ==
    ASSUME CardinalityLaws
    PROVE  Init => CalledInv
<1> SUFFICES ASSUME Init PROVE CalledInv
  BY Zenon
<1>1. redis = <<>> /\ failures = <<>> /\ \A r \in Requests : took[r] = {}
  BY Zenon DEF Init, LimiterInit
<1>2. \A k : k \notin DOMAIN redis /\ k \notin DOMAIN failures
  BY <1>1
<1>3. \A l, key, s : AnsweredTo(l, key, s) = {} /\ Failed(l, key, s) = {}
  BY <1>1, <1>2, Zenon DEF AnsweredTo, HasAnswer, Failed
<1>4. IsFiniteSet({})
  BY Zenon DEF CardinalityLaws
<1>5. \A l, key, s : CountedOnce(l, key, s)
  BY <1>2, <1>3, <1>4, Zenon DEF CountedOnce
<1>6. failures \in Seq([lim : Limiters, key : Keys, start : Int])
  BY <1>1
<1> QED
  BY <1>1, <1>5, <1>6, Zenon DEF CalledInv, RefusedByRedis

\* More calls do not make fewer others.
LEMMA MoreCalls ==
    ASSUME CardinalityLaws, NEW A, NEW B, IsFiniteSet(B), A \subseteq B,
           NEW F, NEW G, IsFiniteSet(G), F \subseteq G, NEW q, NEW m \in Nat,
           m <= Cardinality(A \ {q}) + Cardinality(F)
    PROVE  m <= Cardinality(B \ {q}) + Cardinality(G)
<1>1. IsFiniteSet(B \ {q})
  <2>1. B \ {q} \subseteq B
    BY Zenon
  <2> QED
    BY <2>1, Zenon DEF CardinalityLaws
<1>2. A \ {q} \subseteq B \ {q}
  BY Zenon
<1>3. IsFiniteSet(A \ {q}) /\ Cardinality(A \ {q}) <= Cardinality(B \ {q})
  BY <1>1, <1>2, Zenon DEF CardinalityLaws
<1>4. IsFiniteSet(F) /\ Cardinality(F) <= Cardinality(G)
  BY Zenon DEF CardinalityLaws
<1>5. /\ Cardinality(A \ {q}) \in Nat /\ Cardinality(B \ {q}) \in Nat
      /\ Cardinality(F) \in Nat /\ Cardinality(G) \in Nat
  BY <1>1, <1>3, <1>4, Zenon DEF CardinalityLaws
<1> QED
  BY <1>3, <1>4, <1>5

\* A step that calls Redis for nobody changes nothing of this.
LEMMA NobodyCalls ==
    ASSUME CalledInv, CalledQuiet
    PROVE  CalledInv'
<1>1. ASSUME NEW l, NEW key, NEW s
      PROVE  AnsweredTo(l, key, s)' = AnsweredTo(l, key, s) /\ Failed(l, key, s)' = Failed(l, key, s)
  BY Zenon DEF CalledQuiet, AnsweredTo, Failed, CallOf
<1>2. ASSUME NEW l \in Limiters, NEW key \in Keys, NEW s \in Windows(l) PROVE CountedOnce(l, key, s)'
  <2>1. CountedOnce(l, key, s) /\ EntryOf(l, key, s)' = EntryOf(l, key, s)
    BY Zenon DEF CalledInv, EntryOf, Truncated
  <2> QED
    BY <1>1, <2>1, Zenon DEF CountedOnce, CalledQuiet
<1>3. ASSUME NEW q \in Requests, NEW t \in took'[q], t.by = "redis", t.result = "over"
      PROVE  Max[t.lim] <= Cardinality(AnsweredTo(t.lim, t.key, t.start)' \ {q})
                           + Cardinality(Failed(t.lim, t.key, t.start)')
  <2>1. t \in took[q]
    BY <1>3, Zenon DEF CalledQuiet
  <2>2. Max[t.lim] <= Cardinality(AnsweredTo(t.lim, t.key, t.start) \ {q})
                      + Cardinality(Failed(t.lim, t.key, t.start))
    BY <1>3, <2>1, Zenon DEF CalledInv, RefusedByRedis
  <2> QED
    BY <1>1, <2>2, Zenon
<1>4. \A l : Windows(l)' = Windows(l)
  BY Zenon DEF Windows
<1>5. (failures \in Seq([lim : Limiters, key : Keys, start : Int]))'
  BY Zenon DEF CalledInv, CalledQuiet, Keys
<1> QED
  BY <1>2, <1>3, <1>4, <1>5, Zenon DEF CalledInv, RefusedByRedis

\* A call that fails is one more for its key and window, and for no other.
LEMMA FailedGrows ==
    ASSUME failures \in Seq([lim : Limiters, key : Keys, start : Int]),
           NEW m \in Limiters, NEW k0 \in Keys, NEW s0 \in Int,
           failures' = Append(failures, CallOf(m, k0, s0))
    PROVE  /\ failures' \in Seq([lim : Limiters, key : Keys, start : Int])
           /\ \E n : n \notin Failed(m, k0, s0) /\ Failed(m, k0, s0)' = Failed(m, k0, s0) \union {n}
           /\ \A l, key, s : (l = m /\ key = k0 /\ s = s0) \/ Failed(l, key, s)' = Failed(l, key, s)
<1>1. PICK c \in [lim : Limiters, key : Keys, start : Int] : c = CallOf(m, k0, s0)
  BY DEF CallOf
<1>2. \A l, key, s : c = CallOf(l, key, s) => l = m /\ key = k0 /\ s = s0
  BY <1>1 DEF CallOf
<1>3. PICK n : n = Len(failures) + 1
  BY Zenon
<1>4. /\ failures' \in Seq([lim : Limiters, key : Keys, start : Int])
      /\ DOMAIN failures' = DOMAIN failures \union {n} /\ n \notin DOMAIN failures
      /\ failures'[n] = c /\ \A i \in DOMAIN failures : failures'[i] = failures[i]
  BY <1>1, <1>3
<1>5. \A l, key, s : CallOf(l, key, s)' = CallOf(l, key, s)
  BY Zenon DEF CallOf
<1>6. n \notin Failed(m, k0, s0) /\ Failed(m, k0, s0)' = Failed(m, k0, s0) \union {n}
  BY <1>1, <1>4, <1>5, ZenonT(60) DEF Failed
<1>7. ASSUME NEW l, NEW key, NEW s, ~(l = m /\ key = k0 /\ s = s0)
      PROVE  Failed(l, key, s)' = Failed(l, key, s)
  <2>1. PICK d : d = CallOf(l, key, s) /\ d # c
    BY <1>2, <1>7
  <2>2. \A i : i \in DOMAIN failures' /\ failures'[i] = d <=> i \in DOMAIN failures /\ failures[i] = d
    BY <1>4, <2>1, Zenon
  <2> QED
    BY <1>5, <2>1, <2>2, Zenon DEF Failed
<1> QED
  BY <1>4, <1>6, <1>7, Zenon

\* A call that is answered is one more for its key and window, and for no other.
LEMMA AnsweredGrows ==
    ASSUME FirstInv, NEW r \in Requests, take[r].pc = "pipeline", IsAnswered(r),
           NEW m, NEW k0, NEW s0, m = take[r].lim, k0 = take[r].key, s0 = take[r].start
    PROVE  /\ r \notin AnsweredTo(m, k0, s0)
           /\ AnsweredTo(m, k0, s0)' = AnsweredTo(m, k0, s0) \union {r}
           /\ \A l, key, s : (l = m /\ key = k0 /\ s = s0) \/ AnsweredTo(l, key, s)' = AnsweredTo(l, key, s)
<1>1. \A l, key, s : \A q \in Requests :
         HasAnswer(q, l, key, s)' <=> HasAnswer(q, l, key, s) \/ (q = r /\ l = m /\ key = k0 /\ s = s0)
  BY Zenon DEF IsAnswered
<1>2. ~HasAnswer(r, m, k0, s0)
  BY Zenon DEF HasAnswer, FirstInv, Pending
<1>3. \A q \in Requests : HasAnswer(q, m, k0, s0)' <=> HasAnswer(q, m, k0, s0) \/ q = r
  BY <1>1, Zenon
<1>4. ASSUME NEW l, NEW key, NEW s, ~(l = m /\ key = k0 /\ s = s0)
      PROVE  AnsweredTo(l, key, s)' = AnsweredTo(l, key, s)
  <2>1. \A q \in Requests : HasAnswer(q, l, key, s)' <=> HasAnswer(q, l, key, s)
    BY <1>1, <1>4, Zenon
  <2> QED
    BY <2>1, Zenon DEF AnsweredTo
<1>5. AnsweredTo(m, k0, s0)' = AnsweredTo(m, k0, s0) \union {r}
  BY <1>3, Zenon DEF AnsweredTo
<1>6. r \notin AnsweredTo(m, k0, s0)
  BY <1>2, Zenon DEF AnsweredTo
<1> QED
  BY <1>4, <1>5, <1>6, Zenon

\* A call of Redis counts once, and refuses only when max others have been made.
LEMMA CallCounts ==
    ASSUME CardinalityLaws, WholeSeconds, BaseInv, StampInv, FirstInv, CalledInv,
           NEW r \in Requests, CallsRedis(r)
    PROVE  CalledInv'
<1>1. PICK m \in Limiters, k0 \in Keys, s0 \in Nat :
         m = take[r].lim /\ k0 = take[r].key /\ s0 = take[r].start /\ s0 \in Windows(m)
  <2>1. take[r].lim \in Limiters /\ take[r].key \in Keys
    BY Zenon DEF CallsRedis, BaseInv, CounterTypes, Pending, Takes
  <2>2. take[r].start \in Nat /\ take[r].start \in Windows(take[r].lim)
    BY Zenon DEF CallsRedis, StampInv, Starts, Windows
  <2> QED
    BY <2>1, <2>2, Zenon
<1>2. \A l : Windows(l)' = Windows(l)
  BY Zenon DEF Windows
<1>3. PICK f : f = FullKey(r) /\ f = EntryOf(m, k0, s0)
  BY <1>1, Zenon DEF FullKey, EntryOf
<1>4. PICK C, F : C = AnsweredTo(m, k0, s0) /\ F = Failed(m, k0, s0)
  BY Zenon
<1>5. PICK C2, F2 : C2 = AnsweredTo(m, k0, s0)' /\ F2 = Failed(m, k0, s0)'
  BY Zenon
<1>6. /\ (failures \in Seq([lim : Limiters, key : Keys, start : Int]))'
      /\ \/ C2 = C \union {r} /\ r \notin C /\ F2 = F
         \/ C2 = C /\ \E n : n \notin F /\ F2 = F \union {n}
      /\ \A l, key, s : \/ l = m /\ key = k0 /\ s = s0
                        \/ /\ AnsweredTo(l, key, s)' = AnsweredTo(l, key, s)
                           /\ Failed(l, key, s)' = Failed(l, key, s)
  <2>1. CASE IsAnswered(r)
    <3>1. failures' = failures /\ \A l, key, s : Failed(l, key, s)' = Failed(l, key, s)
      BY <2>1, Zenon DEF IsAnswered, Failed, CallOf
    <3>2. /\ r \notin C /\ C2 = C \union {r}
          /\ \A l, key, s : (l = m /\ key = k0 /\ s = s0) \/ AnsweredTo(l, key, s)' = AnsweredTo(l, key, s)
      <4>1. take[r].pc = "pipeline"
        BY Zenon DEF CallsRedis
      <4>2. /\ r \notin AnsweredTo(m, k0, s0)
            /\ AnsweredTo(m, k0, s0)' = AnsweredTo(m, k0, s0) \union {r}
            /\ \A l, key, s : (l = m /\ key = k0 /\ s = s0) \/ AnsweredTo(l, key, s)' = AnsweredTo(l, key, s)
        BY <1>1, <2>1, <4>1, AnsweredGrows
      <4> QED
        BY <1>4, <1>5, <4>2, Zenon
    <3>3. (failures \in Seq([lim : Limiters, key : Keys, start : Int]))'
      BY <3>1, Zenon DEF CalledInv, Keys
    <3> QED
      BY <1>4, <1>5, <3>1, <3>2, <3>3, Zenon
  <2>2. CASE IsFailed(r)
    <3>1. \A l, key, s : AnsweredTo(l, key, s)' = AnsweredTo(l, key, s)
      BY <2>2, Zenon DEF IsFailed, AnsweredTo
    <3>2. /\ failures \in Seq([lim : Limiters, key : Keys, start : Int]) /\ s0 \in Int
          /\ failures' = Append(failures, CallOf(m, k0, s0))
      BY <1>1, <2>2 DEF CalledInv, IsFailed
    <3>3. /\ failures' \in Seq([lim : Limiters, key : Keys, start : Int])
          /\ \E n : n \notin F /\ F2 = F \union {n}
          /\ \A l, key, s : (l = m /\ key = k0 /\ s = s0) \/ Failed(l, key, s)' = Failed(l, key, s)
      <4>1. /\ failures' \in Seq([lim : Limiters, key : Keys, start : Int])
            /\ \E n : n \notin Failed(m, k0, s0) /\ Failed(m, k0, s0)' = Failed(m, k0, s0) \union {n}
            /\ \A l, key, s : (l = m /\ key = k0 /\ s = s0) \/ Failed(l, key, s)' = Failed(l, key, s)
        BY <3>2, FailedGrows
      <4> QED
        BY <1>4, <1>5, <4>1, Zenon
    <3>4. (failures \in Seq([lim : Limiters, key : Keys, start : Int]))'
      BY <3>3, Zenon DEF Keys
    <3> QED
      BY <1>4, <1>5, <3>1, <3>3, <3>4, Zenon
  <2> QED
    BY <2>1, <2>2, Zenon DEF CallsRedis
<1>7. CountedOnce(m, k0, s0)
  BY <1>1, Zenon DEF CalledInv
<1>8. IsFiniteSet(C) /\ IsFiniteSet(F) /\ Cardinality(C) \in Nat /\ Cardinality(F) \in Nat
  BY <1>4, <1>7, Zenon DEF CountedOnce, CardinalityLaws
<1>9. CountOf(f) \in Nat /\ CountOf(f) <= Cardinality(C) + Cardinality(F)
  <2>1. CASE f \in DOMAIN redis
    <3>1. CountOf(f) = redis[f].count /\ redis[f].count <= Cardinality(C) + Cardinality(F)
      BY <1>3, <1>4, <1>7, <2>1, Zenon DEF CountOf, CountedOnce
    <3>2. redis[f].count \in Nat
      BY <2>1, Zenon DEF BaseInv, CounterTypes, Entries
    <3> QED
      BY <3>1, <3>2, Zenon
  <2>2. CASE f \notin DOMAIN redis
    BY <1>8, <2>2 DEF CountOf
  <2> QED
    BY <2>1, <2>2, Zenon
<1>10. /\ IsFiniteSet(C2) /\ IsFiniteSet(F2)
       /\ Cardinality(C2) + Cardinality(F2) = Cardinality(C) + Cardinality(F) + 1
  <2>1. CASE C2 = C \union {r} /\ r \notin C /\ F2 = F
    <3>1. IsFiniteSet(C2) /\ Cardinality(C2) = Cardinality(C) + 1
      BY <1>8, <2>1, GainsOne, Zenon
    <3> QED
      BY <1>8, <2>1, <3>1
  <2>2. CASE C2 = C /\ \E n : n \notin F /\ F2 = F \union {n}
    <3>1. IsFiniteSet(F2) /\ Cardinality(F2) = Cardinality(F) + 1
      BY <1>8, <2>2, GainsOne, Zenon
    <3> QED
      BY <1>8, <2>2, <3>1
  <2> QED
    BY <1>6, <2>1, <2>2, Zenon
<1>11. \A k \in DOMAIN redis' :
          \/ k \in DOMAIN redis /\ redis'[k] = redis[k]
          \/ k = f /\ redis'[k].count = CountOf(f) + 1
  <2>1. CASE redis' = redis
    BY <2>1, Zenon
  <2>2. CASE redis' = Incr(f, Dur[m])
    BY <2>2, IncrTypes, Zenon DEF BaseInv, CounterTypes
  <2> QED
    BY <1>1, <1>3, <2>1, <2>2, Zenon DEF CallsRedis
<1>12. ASSUME NEW l \in Limiters, NEW key \in Keys, NEW s \in Windows(l) PROVE CountedOnce(l, key, s)'
  <2>1. CountedOnce(l, key, s) /\ EntryOf(l, key, s)' = EntryOf(l, key, s)
    BY Zenon DEF CalledInv, EntryOf, Truncated
  <2>2. PICK k : k = EntryOf(l, key, s)
    BY Zenon
  <2>3. CASE l = m /\ key = k0 /\ s = s0
    <3>1. k = f
      BY <1>3, <2>2, <2>3, Zenon
    <3>2. AnsweredTo(l, key, s)' = C2 /\ Failed(l, key, s)' = F2
      BY <1>5, <2>3, Zenon
    <3>3. ASSUME f \in DOMAIN redis' PROVE redis'[f].count <= Cardinality(C2) + Cardinality(F2)
      <4>1. CASE f \in DOMAIN redis /\ redis'[f] = redis[f]
        <5>1. redis'[f].count = CountOf(f)
          BY <4>1, Zenon DEF CountOf
        <5> QED
          BY <1>8, <1>9, <1>10, <5>1, SMTT(60)
      <4>2. CASE redis'[f].count = CountOf(f) + 1
        BY <1>8, <1>9, <1>10, <4>2, SMTT(60)
      <4> QED
        BY <1>11, <3>3, <4>1, <4>2, Zenon
    <3> QED
      BY <1>10, <2>1, <2>2, <3>1, <3>2, <3>3, Zenon DEF CountedOnce
  <2>4. CASE ~(l = m /\ key = k0 /\ s = s0)
    <3>1. AnsweredTo(l, key, s)' = AnsweredTo(l, key, s) /\ Failed(l, key, s)' = Failed(l, key, s)
      BY <1>6, <2>4, Zenon
    <3>2. k # f
      <4>1. ASSUME k = f PROVE FALSE
        <5>1. l = m /\ key = k0 /\ Truncated(s) = Truncated(s0)
          BY <1>3, <2>2, <4>1, SMTT(60) DEF EntryOf
        <5>2. s = s0
          BY <1>1, <5>1, TruncatedDiffers, Zenon
        <5> QED
          BY <2>4, <5>1, <5>2, Zenon
      <4> QED
        BY <4>1, Zenon
    <3> QED
      BY <1>11, <2>1, <2>2, <3>1, <3>2, Zenon DEF CountedOnce
  <2> QED
    BY <2>3, <2>4, Zenon
<1>13. ASSUME NEW q \in Requests, NEW t \in took'[q], t.by = "redis", t.result = "over"
       PROVE  Max[t.lim] <= Cardinality(AnsweredTo(t.lim, t.key, t.start)' \ {q})
                            + Cardinality(Failed(t.lim, t.key, t.start)')
  <2>1. CASE t \in took[q]
    <3>1. PICK l \in Limiters, key \in Keys, s \in Nat :
             l = t.lim /\ key = t.key /\ s = t.start /\ s \in Windows(l)
      <4>1. t \in Results /\ t.start \in Windows(t.lim) /\ t.start \in Nat
        BY <1>13, <2>1, Zenon DEF BaseInv, CounterTypes, StampInv, Starts, Windows
      <4>2. t.lim \in Limiters /\ t.key \in Keys
        BY <4>1, Zenon DEF Results
      <4> QED
        BY <4>1, <4>2, Zenon
    <3>2. /\ Max[l] <= Cardinality(AnsweredTo(l, key, s) \ {q}) + Cardinality(Failed(l, key, s))
          /\ Max[l] \in Nat
      BY <1>13, <2>1, <3>1, LimiterAssumption, Zenon DEF CalledInv, RefusedByRedis
    <3>3. IsFiniteSet(AnsweredTo(l, key, s)') /\ IsFiniteSet(Failed(l, key, s)')
      BY <1>12, <3>1, Zenon DEF CountedOnce
    <3>4. /\ AnsweredTo(l, key, s) \subseteq AnsweredTo(l, key, s)'
          /\ Failed(l, key, s) \subseteq Failed(l, key, s)'
      <4>1. C \subseteq C2 /\ F \subseteq F2
        BY <1>6, Zenon
      <4> QED
        BY <1>4, <1>5, <1>6, <4>1, Zenon
    <3>5. Max[l] <= Cardinality(AnsweredTo(l, key, s)' \ {q}) + Cardinality(Failed(l, key, s)')
      BY <3>2, <3>3, <3>4, MoreCalls, Zenon
    <3> QED
      BY <3>1, <3>5, Zenon
  <2>2. CASE t \notin took[q]
    <3>1. /\ IsAnswered(r) /\ q = r /\ t.lim = m /\ t.key = k0 /\ t.start = s0
          /\ Max[m] <= CountOf(f)
      BY <1>1, <1>3, <1>13, <2>2, Zenon DEF CallsRedis, IsAnswered, IsFailed
    <3>2. F2 = F
      BY <1>4, <1>5, <3>1, Zenon DEF IsAnswered, Failed, CallOf
    <3>3. C2 = C \union {r} /\ r \notin C
      BY <1>6, <3>2, Zenon
    <3>4. C2 \ {r} = C
      BY <3>3, Zenon
    <3>5. Max[m] <= Cardinality(C) + Cardinality(F)
      BY <1>8, <1>9, <3>1, LimiterAssumption, SMTT(60)
    <3>6. AnsweredTo(t.lim, t.key, t.start)' = C2 /\ Failed(t.lim, t.key, t.start)' = F2
      BY <1>5, <3>1, Zenon
    <3> QED
      BY <3>1, <3>2, <3>4, <3>5, <3>6, Zenon
  <2> QED
    BY <2>1, <2>2, Zenon
<1> QED
  BY <1>2, <1>6, <1>12, <1>13, Zenon DEF CalledInv, RefusedByRedis

\* Every step preserves what has been called.
LEMMA CalledNext ==
    ASSUME CardinalityLaws, WholeSeconds, BaseInv, LimitsInv, StampInv, FirstInv, CalledInv,
           [Next]_vars
    PROVE  CalledInv'
BY CalledSteps, NobodyCalls, CallCounts, Zenon

-----------------------------------------------------------------------------
(* The theorems *)

FS == INSTANCE FiniteSetTheorems

\* The instance speaks of the same finite sets and of the same cardinality.
LEMMA SameCardinality ==
    \A A : (FS!IsFiniteSet(A) <=> IsFiniteSet(A)) /\ FS!Cardinality(A) = Cardinality(A)
<1>1. \A A : FS!IsFiniteSet(A) <=> IsFiniteSet(A)
  BY Zenon DEF FS!IsFiniteSet, IsFiniteSet
<1>2. \A A : FS!Cardinality(A) = Cardinality(A)
  BY Zenon DEF FS!Cardinality, Cardinality
<1> QED
  BY <1>1, <1>2, Zenon

\* The laws hold.
LEMMA CardinalityFacts == CardinalityLaws
<1>1. IsFiniteSet({}) /\ Cardinality({}) = 0
  BY FS!FS_EmptySet, SameCardinality, Zenon
<1>2. ASSUME NEW A, IsFiniteSet(A) PROVE Cardinality(A) \in Nat
  BY <1>2, FS!FS_CardinalityType, SameCardinality, ZenonT(40)
<1>3. ASSUME NEW A, NEW x, IsFiniteSet(A)
      PROVE  /\ IsFiniteSet(A \union {x})
             /\ Cardinality(A \union {x}) = IF x \in A THEN Cardinality(A) ELSE Cardinality(A) + 1
  BY <1>3, FS!FS_AddElement, SameCardinality, ZenonT(60)
<1>4. ASSUME NEW A, NEW B, IsFiniteSet(A), B \subseteq A
      PROVE  IsFiniteSet(B) /\ Cardinality(B) <= Cardinality(A)
  BY <1>4, FS!FS_Subset, SameCardinality, Zenon
<1> QED
  BY <1>1, <1>2, <1>3, <1>4, ZenonT(60) DEF CardinalityLaws

\* For any limiters, keys, windows and instances, and however the requests of an
\* instance interleave: the memory of an instance admits no more than max requests
\* per key and window, although a request counts itself after the mutex of the
\* limiter is released (MemoryFrontendRateLimiter.Take, limitedKeys.Take).
THEOREM MemoryLimitHoldsAlways == Spec => []MemoryLimitHolds
<1>1. BaseInv /\ MemoryInv => MemoryLimitHolds
  <2> SUFFICES ASSUME BaseInv, MemoryInv, NEW r \in Requests, NEW t \in took[r], t.by = "memory"
               PROVE  Cardinality(Admitted(t) \intersect OfInstance(InstanceOf[r])) <= Max[t.lim]
    BY Zenon DEF MemoryLimitHolds
  <2>1. InstanceOf[r] \in Instances /\ t \in Results
    BY LimiterAssumption, Zenon DEF BaseInv, CounterTypes
  <2>2. t.lim \in Limiters /\ t.key \in Keys
    BY <2>1, Zenon DEF Results
  <2>3. PICK g \in DOMAIN gens[InstanceOf[r]][t.lim] : t.start = gens[InstanceOf[r]][t.lim][g].start
    BY Zenon DEF MemoryInv, InGeneration
  <2>4. Counted(InstanceOf[r], t.lim, g, t.key)
    BY <2>1, <2>2, Zenon DEF MemoryInv
  <2>5. Admitted(t) \intersect OfInstance(InstanceOf[r]) = MemoryAdmitted(InstanceOf[r], t.lim, t.key, t.start)
    BY Zenon DEF Admitted, MemoryAdmitted, OfInstance
  <2> QED
    BY <2>3, <2>4, <2>5, ZenonT(60) DEF Counted
<1>2. BaseInv /\ BaseInv' /\ LimitsInv /\ MemoryInv /\ [Next]_vars => MemoryInv'
  BY MemoryNext, CardinalityFacts, Zenon
<1> QED
  BY <1>1, <1>2, MemoryInit, BaseAlways, LimitsInit, LimitsNext, PTL DEF Spec

\* For any limiters, keys, windows and instances, any failures of Redis and however
\* the Takes of the instances interleave with the clock: Redis admits no more than
\* max requests of a key and window, up to the last millisecond of the window
\* (RedisFrontendRateLimiter.Take: INCR, and PEXPIRE of dur - 1ms).
THEOREM RedisLimitHoldsAlways == Spec => []RedisLimitHolds
<1>1. BaseInv /\ StampInv /\ RedisInv => RedisLimitHolds
  <2> SUFFICES ASSUME BaseInv, StampInv, RedisInv, NEW r \in Requests, NEW t \in took[r], t.by = "redis",
                      now < t.start + Dur[t.lim] - 1
               PROVE  Cardinality(Admitted(t)) <= Max[t.lim]
    BY Zenon DEF RedisLimitHolds
  <2>1. t \in Results
    BY Zenon DEF BaseInv, CounterTypes
  <2>2. t.lim \in Limiters /\ t.key \in Keys
    BY <2>1, Zenon DEF Results
  <2>3. t.start \in Nat
    BY Zenon DEF StampInv, Starts, Windows
  <2>4. EntryCounts(t.lim, t.key, t.start)
    BY <2>2, <2>3, Zenon DEF RedisInv
  <2>5. Admitted(t) = RedisAdmitted(t.lim, t.key, t.start)
    BY Zenon DEF Admitted, RedisAdmitted
  <2> QED
    BY <2>4, <2>5, Zenon DEF EntryCounts
<1>2. BaseInv /\ LimitsInv /\ StampInv /\ [Next]_vars => StampInv'
  BY StampNext, Zenon
<1>3. BaseInv /\ BaseInv' /\ LimitsInv /\ StampInv /\ RedisInv /\ [Next]_vars => RedisInv'
  BY RedisNext, CardinalityFacts, Zenon
<1>4. Init => StampInv /\ RedisInv
  BY RedisInit, CardinalityFacts, Zenon
<1> QED
  BY <1>1, <1>2, <1>3, <1>4, BaseAlways, LimitsInit, LimitsNext, PTL DEF Spec

\* For any limiters with windows of a second or more and names of their own, any
\* callers, instances and failures of Redis: a Take is refused only when the limit
\* of its key and window is used up.  No call of Redis is counted twice, and none is
\* counted for another key, limiter or window (RedisFrontendRateLimiter.Take,
\* limitedKeys.Take); a call that fails may be counted, and sent again, so that a
\* request is refused for calls of its own only when some of them have failed.
THEOREM RefusedOnlyWhenUsedUpAlways ==
    ASSUME SendersApart, WholeSeconds
    PROVE  Spec => []RefusedOnlyWhenUsedUp
<1>1. BaseInv /\ StampInv /\ UsedUpInv /\ CalledInv => RefusedOnlyWhenUsedUp
  <2> SUFFICES ASSUME BaseInv, StampInv, UsedUpInv, CalledInv, NEW r \in Requests, NEW t \in took[r],
                      t.result = "over"
               PROVE  Max[t.lim] <= IF t.by = "redis" THEN Cardinality(Answered(t) \ {r}) + Cardinality(FailedFor(t))
                                    ELSE Cardinality(Admitted(t) \intersect OfInstance(InstanceOf[r]))
    BY Zenon DEF RefusedOnlyWhenUsedUp
  <2>1. t.by \in {"redis", "memory"}
    BY DEF BaseInv, CounterTypes, Results
  <2>2. CASE t.by = "redis"
    <3>1. /\ Answered(t) = AnsweredTo(t.lim, t.key, t.start)
          /\ FailedFor(t) = Failed(t.lim, t.key, t.start)
      BY Zenon DEF Answered, AnsweredTo, HasAnswer, FailedFor, Failed, CallOf
    <3> QED
      BY <2>2, <3>1, ZenonT(60) DEF CalledInv, RefusedByRedis
  <2>3. CASE t.by = "memory"
    <3>1. Admitted(t) \intersect OfInstance(InstanceOf[r]) =
             MemoryAdmitted(InstanceOf[r], t.lim, t.key, t.start)
      BY <2>3, Zenon DEF Admitted, MemoryAdmitted, OfInstance
    <3>2. Max[t.lim] <= Cardinality(MemoryAdmitted(InstanceOf[r], t.lim, t.key, t.start))
      BY <2>3, Zenon DEF UsedUpInv, RefusedInMemory
    <3>3. t.by # "redis"
      BY <2>3, Zenon
    <3> QED
      BY <3>1, <3>2, <3>3, ZenonT(60)
  <2> QED
    BY <2>1, <2>2, <2>3, ZenonT(60)
<1>2. BaseInv /\ LimitsInv /\ StampInv /\ [Next]_vars => StampInv'
  BY StampNext, Zenon
<1>3. BaseInv /\ BaseInv' /\ LimitsInv /\ MemoryInv /\ [Next]_vars => MemoryInv'
  BY MemoryNext, CardinalityFacts, Zenon
<1>4. BaseInv /\ LimitsInv /\ FirstInv /\ [Next]_vars => FirstInv'
  BY FirstNext, Zenon
<1>5. /\ BaseInv /\ BaseInv' /\ LimitsInv /\ MemoryInv /\ MemoryInv' /\ FirstInv /\ UsedUpInv
      /\ [Next]_vars
      => UsedUpInv'
  BY UsedUpNext, CardinalityFacts, Zenon
<1>6. BaseInv /\ LimitsInv /\ StampInv /\ FirstInv /\ CalledInv /\ [Next]_vars => CalledInv'
  BY CalledNext, CardinalityFacts, Zenon
<1>7. Init => StampInv /\ RedisInv
  BY RedisInit, CardinalityFacts, Zenon
<1>8. Init => CalledInv
  BY CalledInit, CardinalityFacts, Zenon
<1> QED
  BY <1>1, <1>2, <1>3, <1>4, <1>5, <1>6, <1>7, MemoryInit, RefusedInit, <1>8, BaseAlways,
     LimitsInit, LimitsNext, PTL DEF Spec
=============================================================================
