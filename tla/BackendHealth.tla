---------------------------- MODULE BackendHealth ----------------------------
(***************************************************************************)
(* The calls to one backend (doForward, DoWithSemaphore in backend.go) and *)
(* what they leave in its three sliding windows, while IsHealthy and       *)
(* IsDegraded read the windows.                                            *)
(*                                                                         *)
(* A call counts itself, waits for a permit of its semaphore, sends, and   *)
(* records an error or a latency.  Calls of users and of the consensus     *)
(* poller have semaphores of their own.  Every Add reads the clock, evicts *)
(* under the mutex, and takes the mutex again to insert.  A verdict takes  *)
(* several reads, each of them outside the mutex; a read of one number is  *)
(* atomic.  One step are: the clock read and the eviction that follows it; *)
(* an insertion and the evictions that the metrics cause; a read and the   *)
(* eviction before the next one, which is of another window.               *)
(***************************************************************************)
EXTENDS AvgSlidingWindow, FiniteSets

CONSTANTS
    UserCalls, PollCalls,   \* the calls, each made once
    MaxRPCs, MaxPolls,      \* max_concurrent_rpcs, max_concurrent_consensus_rpcs
    Latencies,
    MinRequests,            \* 10 in the code
    RateNum, RateDen,       \* maxErrorRateThreshold, as a fraction
    MaxLatency, MaxDegradedLatency,
    MaxTime                 \* bound: the clock stops here

ASSUME SettingsAssumption ==
    /\ UserCalls \intersect PollCalls = {}
    /\ MaxRPCs \in Nat \ {0} /\ MaxPolls \in Nat \ {0}
    /\ Latencies \subseteq Nat /\ MinRequests \in Nat \ {0}
    /\ RateNum \in Nat \ {0} /\ RateDen \in Nat \ {0}
    /\ MaxLatency \in Nat \ {0} /\ MaxDegradedLatency \in Nat \ {0} /\ MaxTime \in Nat

Calls == UserCalls \union PollCalls
Windows == {"requests", "errors", "latency"}
Semaphores == {"user", "consensus"}
Capacity == [s \in Semaphores |-> IF s = "user" THEN MaxRPCs ELSE MaxPolls]

VARIABLES
    now,
    win,        \* the windows of the backend
    permits,    \* what is left of each semaphore
    others,     \* per semaphore, the permits that calls to other backends hold
    call,       \* each call: what it does, and the data point it is adding
    reader,     \* a call of IsHealthy or IsDegraded: what it does, and what it has read
    newest      \* the key of the youngest error and latency ever inserted

vars == <<now, win, permits, others, call, reader, newest>>

At(l) == [pc |-> l, win |-> "requests", t |-> 0, val |-> 0]
NoReader == [pc |-> "idle", ask |-> "IsHealthy", start |-> 0, e |-> 0, sum |-> 0,
             rate |-> FALSE, slow |-> FALSE]

Init ==
    /\ now = 0
    /\ win = [w \in Windows |-> EmptyWindow]
    /\ permits = Capacity
    /\ others = [s \in Semaphores |-> 0]
    /\ call = [c \in Calls |-> At("idle")]
    /\ reader = NoReader
    /\ newest = [w \in {"errors", "latency"} |-> 0]

Tick ==
    /\ now < MaxTime
    /\ now' = now + 1
    /\ UNCHANGED <<win, permits, others, call, reader, newest>>

-----------------------------------------------------------------------------
(* doForward *)

Evict(ws, w) == [ws EXCEPT ![w] = Advance(@, now)]

Goto(c, l) == call' = [call EXCEPT ![c] = At(l)] /\ UNCHANGED win

\* Add and Incr read the clock and evict; l says where the insertion is from.
Adding(c, w, v, l) ==
    /\ call' = [call EXCEPT ![c] = [pc |-> l, win |-> w, t |-> now, val |-> v]]
    /\ win' = Evict(win, w)

\* ErrorRate is computed for the metrics, which evicts.
EvictForRate(ws) ==
    LET rs == Evict(ws, "requests") IN
    IF rs["requests"].sum >= MinRequests THEN Evict(rs, "errors") ELSE rs

\* The window after the insertion, and after the metrics of an error or an answer.
Recorded(ws, c) ==
    CASE call[c].pc = "error"  -> EvictForRate(ws)
      [] call[c].pc = "answer" -> EvictForRate(Evict(ws, "latency"))
      [] OTHER                 -> ws

AfterInsert(c) ==
    CASE call[c].pc = "request"                   -> "acquire"
      [] call[c].pc = "answer" /\ c \in PollCalls -> "polled"
      [] OTHER                                    -> "done"

AddInserts(c) ==
    LET w  == call[c].win
        ws == [win EXCEPT ![w] = Insert(@, call[c].t, call[c].val, now)]
    IN /\ call[c].pc \in {"request", "error", "answer", "zero"}
       /\ win' = Recorded(ws, c)
       /\ newest' = IF w # "requests" /\ ws # win
                    THEN [newest EXCEPT ![w] = IF @ < Round(call[c].t) THEN Round(call[c].t) ELSE @]
                    ELSE newest
       /\ call' = [call EXCEPT ![c] = At(AfterInsert(c))]
       /\ UNCHANGED <<now, permits, others, reader>>

\* "we record 1 request independently of how many are in the batch"
Begin(c) ==
    /\ call[c].pc = "idle"
    /\ Adding(c, "requests", 1, "request")
    /\ UNCHANGED <<now, permits, others, reader, newest>>

\* Receipts that cannot be translated: nothing is sent, and no error is counted.
Untranslated(c) ==
    /\ call[c].pc = "acquire" /\ c \in UserCalls
    /\ Goto(c, "done")
    /\ UNCHANGED <<now, permits, others, reader, newest>>

MutantSemaphoreOf(c) == "user"

\* ForwardRPC has a semaphore of its own, "so they don't contend with user traffic".
SemaphoreOf(c) == IF c \in PollCalls THEN "consensus" ELSE "user"

Acquire(c) ==
    /\ call[c].pc = "acquire" /\ permits[SemaphoreOf(c)] > 0
    /\ permits' = [permits EXCEPT ![SemaphoreOf(c)] = @ - 1]
    /\ Goto(c, "sent")
    /\ UNCHANGED <<now, others, reader, newest>>

\* All backends have the same two semaphores (Start).
OtherAcquires(s) ==
    /\ permits[s] > 0
    /\ permits' = [permits EXCEPT ![s] = @ - 1]
    /\ others' = [others EXCEPT ![s] = @ + 1]
    /\ UNCHANGED <<now, win, call, reader, newest>>

OtherReleases(s) ==
    /\ others[s] > 0
    /\ permits' = [permits EXCEPT ![s] = @ + 1]
    /\ others' = [others EXCEPT ![s] = @ - 1]
    /\ UNCHANGED <<now, win, call, reader, newest>>

\* The request cannot be created, or its context ends before there is a permit:
\* this counts as an error of the backend.
NotSent(c) ==
    /\ call[c].pc = "acquire"
    /\ Adding(c, "errors", 1, "error")
    /\ UNCHANGED <<now, permits, others, reader, newest>>

\* Do returns, with the headers or with an error: the body is read without a permit.
DoReturns(c) ==
    /\ call[c].pc = "sent"
    /\ permits' = [permits EXCEPT ![SemaphoreOf(c)] = @ + 1]
    /\ Goto(c, "returned")
    /\ UNCHANGED <<now, others, reader, newest>>

\* Do has failed, the status is neither 200 nor 400, the body cannot be read or is
\* not a batch of the right length.
CountedError(c) ==
    /\ call[c].pc = "returned"
    /\ Adding(c, "errors", 1, "error")
    /\ UNCHANGED <<now, permits, others, reader, newest>>

\* A response that is too large, and a bad response to a single request, are
\* errors that are not counted.  A 400 without an error object panics.
UncountedError(c) ==
    /\ call[c].pc = "returned"
    /\ Goto(c, "done")
    /\ UNCHANGED <<now, permits, others, reader, newest>>

GoodAnswer(c) ==
    /\ call[c].pc = "returned"
    /\ \E v \in Latencies : Adding(c, "latency", v, "answer")
    /\ UNCHANGED <<now, permits, others, reader, newest>>

\* UpdateBackend counts an answer with no peers or with block 0 as an error.
PollEnds(c) ==
    /\ call[c].pc = "polled"
    /\ Goto(c, "done") \/ Adding(c, "errors", 1, "zero")
    /\ UNCHANGED <<now, permits, others, reader, newest>>

Call(c) ==
    \/ Begin(c) \/ AddInserts(c) \/ Untranslated(c) \/ Acquire(c) \/ NotSent(c)
    \/ DoReturns(c) \/ CountedError(c) \/ UncountedError(c) \/ GoodAnswer(c) \/ PollEnds(c)

-----------------------------------------------------------------------------
(* IsHealthy and IsDegraded, asked once *)

AskHealthy ==
    /\ reader.pc = "idle"
    /\ win' = Evict(win, "requests")
    /\ reader' = [reader EXCEPT !.pc = "min", !.start = now]
    /\ UNCHANGED <<now, permits, others, call, newest>>

\* Fewer than MinRequests: the error rate is 0.
ReadMin ==
    /\ reader.pc = "min"
    /\ IF win["requests"].sum >= MinRequests
       THEN win' = Evict(win, "errors") /\ reader' = [reader EXCEPT !.pc = "errors"]
       ELSE win' = Evict(win, "latency") /\ reader' = [reader EXCEPT !.pc = "avg"]
    /\ UNCHANGED <<now, permits, others, call, newest>>

ReadErrors ==
    /\ reader.pc = "errors"
    /\ win' = Evict(win, "requests")
    /\ reader' = [reader EXCEPT !.pc = "requests", !.e = win["errors"].sum]
    /\ UNCHANGED <<now, permits, others, call, newest>>

\* 0/0 is not a number and not above any threshold, e/0 is above every one.
OverRate(e, d) == e > 0 /\ e * RateDen >= RateNum * d

ReadRequests ==
    /\ reader.pc = "requests"
    /\ win' = Evict(win, "latency")
    /\ reader' = [reader EXCEPT !.pc = "avg", !.e = 0,
                                !.rate = OverRate(reader.e, win["requests"].sum)]
    /\ UNCHANGED <<now, permits, others, call, newest>>

AskDegraded ==
    /\ reader.pc = "idle"
    /\ win' = Evict(win, "latency")
    /\ reader' = [reader EXCEPT !.pc = "avg", !.ask = "IsDegraded", !.start = now]
    /\ UNCHANGED <<now, permits, others, call, newest>>

\* Avg: an empty window has the average 0.
AvgChecks ==
    /\ reader.pc = "avg"
    /\ reader' = [reader EXCEPT !.pc = IF win["latency"].qty = 0 THEN "verdict" ELSE "sum"]
    /\ UNCHANGED <<now, win, permits, others, call, newest>>

AvgReadsSum ==
    /\ reader.pc = "sum"
    /\ reader' = [reader EXCEPT !.pc = "qty", !.sum = win["latency"].sum]
    /\ UNCHANGED <<now, win, permits, others, call, newest>>

Threshold == IF reader.ask = "IsHealthy" THEN MaxLatency ELSE MaxDegradedLatency

\* Division by a qty that has become 0 is not a duration: the conversion yields
\* what the processor makes of it.
AvgReadsQty ==
    /\ reader.pc = "qty"
    /\ \E slow \in BOOLEAN :
          /\ win["latency"].qty > 0 => (slow <=> reader.sum >= Threshold * win["latency"].qty)
          /\ reader' = [reader EXCEPT !.pc = "verdict", !.sum = 0, !.slow = slow]
    /\ UNCHANGED <<now, win, permits, others, call, newest>>

Read ==
    \/ AskHealthy \/ ReadMin \/ ReadErrors \/ ReadRequests \/ AskDegraded
    \/ AvgChecks \/ AvgReadsSum \/ AvgReadsQty

Next ==
    \/ Tick \/ Read
    \/ \E c \in Calls : Call(c)
    \/ \E s \in Semaphores : OtherAcquires(s) \/ OtherReleases(s)

Spec == Init /\ [][Next]_vars

-----------------------------------------------------------------------------
(* Properties *)

\* The values the variables take; no bucket is empty and no key occurs twice.
TypeOK ==
    /\ now \in 0..MaxTime
    /\ permits \in [Semaphores -> Nat]
    /\ \A w \in Windows : \A i, j \in DOMAIN win[w].buckets :
          /\ win[w].buckets[i].key \in 0..Round(now) /\ win[w].buckets[i].qty > 0
          /\ win[w].buckets[i].key = win[w].buckets[j].key => i = j
    /\ \A c \in Calls : call[c].win \in Windows /\ call[c].t \in 0..now

\* The totals of a window are those of its buckets: what every Add has put in and
\* every eviction has taken out, in whatever order they came (an unsigned qty that
\* went below zero would be huge).
TotalsMatchBuckets ==
    \A w \in Windows : win[w].qty = Qty(win[w].buckets) /\ win[w].sum = Sum(win[w].buckets)

\* A backend that is left alone is healthy again after one window: IsHealthy blames
\* the error rate only if an error, and the latency only if an answer, was recorded
\* in the window before it was asked, although late data points hide from eviction
\* behind younger ones, the numbers it divides are of different moments, and the
\* division may be by zero.
HealthyAgain ==
    reader.pc = "verdict" =>
        /\ reader.rate => newest["errors"] > Round(reader.start) - WindowLength
        /\ reader.slow => newest["latency"] > Round(reader.start) - WindowLength

\* A call holds a permit of its own semaphore from Acquire until Do returns, and
\* on no other path: permits are neither lost nor returned twice, and the polls
\* of the consensus poller wait for no user's call.
PermitsAreReturned ==
    \A s \in Semaphores :
        /\ permits[s] >= 0
        /\ permits[s] = Capacity[s] - others[s] - Cardinality(
               {c \in Calls : call[c].pc = "sent" /\ (s = "consensus" <=> c \in PollCalls)})
=============================================================================
