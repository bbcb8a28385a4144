---------------------------- MODULE RequestLimits ----------------------------
(***************************************************************************)
(* Which limits a request meets on its way to a backend (server.go): the   *)
(* checks of HandleRPC and of handleBatchRPC, isLimited, and the limit per *)
(* sender of a transaction, with the limiters that NewServer makes.        *)
(*                                                                         *)
(* A request is one call of a body; the calls of a batch go through the    *)
(* same steps one after the other.                                         *)
(***************************************************************************)
EXTENDS FrontendRateLimiter

CONSTANTS
    Calls,              \* what each request may be: [authorized, ip, origin, agent, method, tx]
    LocalMethods,       \* answered by proxyd
    MappedMethods,      \* the domain of the method mappings
    BaseRate,           \* rate_limit.base_rate, 0 for none
    ExemptOrigins, ExemptUserAgents,    \* patterns; a caller is the pattern it matches, or ""
    MethodOverrides, GlobalMethods,     \* methods with a limit of their own; for all callers
    SenderRateLimit     \* sender_rate_limit.enabled

ASSUME CallsAssumption ==
    /\ BaseRate \in Nat /\ SenderRateLimit \in BOOLEAN
    /\ GlobalMethods \subseteq MethodOverrides
    /\ "" \notin ExemptOrigins \union ExemptUserAgents
    /\ MethodOverrides \union ExemptOrigins \union {"main", "senders"} \subseteq Limiters

VARIABLES
    call,       \* the call each request makes
    stage       \* "idle", "limit", "sender", or how it has ended

vars == <<limiterVars, call, stage>>

NoCall == [authorized |-> FALSE, ip |-> "", origin |-> "", agent |-> "", method |-> "", tx |-> ""]

Init ==
    /\ LimiterInit
    /\ call = [r \in Requests |-> NoCall]
    /\ stage = [r \in Requests |-> "idle"]

Enter(r, s) == stage' = [stage EXCEPT ![r] = s]

-----------------------------------------------------------------------------
(* NewServer: there are exempt callers only if there is a base rate *)

Matches(patterns, name) == BaseRate > 0 /\ name \in patterns

isUnlimitedOrigin(c) == Matches(ExemptOrigins, c.origin)
isUnlimitedUserAgent(c) == Matches(ExemptUserAgents, c.agent)

NoLimiter == [lim |-> "none", key |-> ""]

\* All exempt traffic of a pattern has one key.  Only the patterns of origins have
\* limiters.
ExemptLimiter(c) ==
    LET matchedKey == IF isUnlimitedOrigin(c) THEN c.origin ELSE c.agent IN
    IF matchedKey \in ExemptOrigins THEN [lim |-> matchedKey, key |-> "exempt"] ELSE NoLimiter

\* isLimited: the limiter and the key that it takes from.
LimiterOf(c) ==
    IF c.method \notin GlobalMethods /\ (isUnlimitedOrigin(c) \/ isUnlimitedUserAgent(c))
    THEN ExemptLimiter(c)
    ELSE IF c.method \in MethodOverrides THEN [lim |-> c.method, key |-> c.ip]
    ELSE IF BaseRate > 0 THEN [lim |-> "main", key |-> c.ip]
    ELSE NoLimiter

-----------------------------------------------------------------------------
(* handleBatchRPC *)

NeedsSender(c) == c.method = "eth_sendRawTransaction" /\ SenderRateLimit

isAllowedChainId(tx) == tx # "other chain"

ValidTx(tx) == tx # "malformed" /\ isAllowedChainId(tx)

MutantRateLimitSender(r, c) ==
    IF ~ValidTx(c.tx) THEN Enter(r, "answered") /\ take' = [take EXCEPT ![r] = NoTake]
    ELSE IF isUnlimitedOrigin(c) \/ isUnlimitedUserAgent(c)
    THEN Enter(r, "forwarded") /\ take' = [take EXCEPT ![r] = NoTake]
    ELSE Enter(r, "sender") /\ StartTake(r, "senders", c.tx)

\* The key is the sender with the nonce of the transaction, which has to be of an
\* allowed chain.
RateLimitSender(r, c) ==
    IF ValidTx(c.tx) THEN Enter(r, "sender") /\ StartTake(r, "senders", c.tx)
    ELSE Enter(r, "answered") /\ take' = [take EXCEPT ![r] = NoTake]

\* What follows isLimited.
NotLimited(r, c) ==
    IF NeedsSender(c) THEN RateLimitSender(r, c)
    ELSE Enter(r, "forwarded") /\ take' = [take EXCEPT ![r] = NoTake]

\* populateContext and HandleRPC: no authorization, or no remote address.
Blocked(c) == ~c.authorized \/ c.ip = ""

\* Answered by proxyd, or not in the mappings.
NeedsNoBackend(c) == c.method \in LocalMethods \/ c.method \notin MappedMethods

\* HandleRPC and handleBatchRPC up to isLimited.
Arrive(r) ==
    /\ stage[r] = "idle"
    /\ \E c \in Calls[r] :
          /\ call' = [call EXCEPT ![r] = c]
          /\ IF Blocked(c) \/ NeedsNoBackend(c)
             THEN Enter(r, "answered") /\ UNCHANGED take
             ELSE IF LimiterOf(c) = NoLimiter THEN NotLimited(r, c)
             ELSE Enter(r, "limit") /\ StartTake(r, LimiterOf(c).lim, LimiterOf(c).key)
    /\ UNCHANGED <<now, redis, gens, took, failures>>

\* An error of the limiter limits, too.
Limited(r) ==
    /\ stage[r] = "limit" /\ take[r].pc \in {"ok", "over", "error"}
    /\ IF take[r].pc = "ok" THEN NotLimited(r, call[r])
       ELSE Enter(r, "limited") /\ take' = [take EXCEPT ![r] = NoTake]
    /\ UNCHANGED <<now, redis, gens, took, failures, call>>

SenderLimited(r) ==
    /\ stage[r] = "sender" /\ take[r].pc \in {"ok", "over", "error"}
    /\ Enter(r, IF take[r].pc = "ok" THEN "forwarded" ELSE "limited")
    /\ take' = [take EXCEPT ![r] = NoTake]
    /\ UNCHANGED <<now, redis, gens, took, failures, call>>

Handle(r) == Arrive(r) \/ Limited(r) \/ SenderLimited(r)

Next ==
    \/ Tick /\ UNCHANGED <<call, stage>>
    \/ \E r \in Requests : Handle(r) \/ (TakeStep(r) /\ UNCHANGED <<call, stage>>)

Spec == Init /\ [][Next]_vars

-----------------------------------------------------------------------------
(* Properties *)

\* The values the variables take.
TypeOK ==
    /\ now \in 0..MaxTime
    /\ stage \in [Requests -> {"idle", "limit", "sender", "answered", "limited", "forwarded"}]
    /\ \A r \in Requests : call[r] \in Calls[r] \union {NoCall}
    /\ \A r \in Requests : take[r].lim \in Limiters \union {"none"}

AdmittedBy(r, l, key) == \E t \in took[r] : t.lim = l /\ t.key = key /\ t.result = "ok"

\* What no caller is exempt from: a transaction reaches a backend only if the
\* limiter of its sender has admitted it, "regardless of origin or user-agent",
\* and a globally limited method only if the limiter of the method has; and a
\* request that is refused by address spends nothing of its sender's limit.
NobodyIsExempt ==
    \A r \in Requests :
        /\ stage[r] = "forwarded" /\ NeedsSender(call[r]) => AdmittedBy(r, "senders", call[r].tx)
        /\ stage[r] = "forwarded" /\ call[r].method \in GlobalMethods =>
              AdmittedBy(r, call[r].method, call[r].ip)
        /\ \A t, u \in took[r] : t.lim = "senders" /\ u.lim # "senders" => u.result = "ok"

\* example.config.toml, of exempt_base_rate: "Set to 0 to allow exempt traffic to
\* bypass limiting entirely".
ZeroExemptsEntirely ==
    \A r \in Requests :
        isUnlimitedOrigin(call[r]) /\ Max[call[r].origin] = 0 /\ call[r].method \notin GlobalMethods =>
            \A t \in took[r] : t.lim = call[r].origin => t.result = "ok"
=============================================================================
