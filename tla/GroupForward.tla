---------------------------- MODULE GroupForward -----------------------------
(***************************************************************************)
(* BackendGroup.Forward as a whole: a request is ordered and rewritten as  *)
(* in module BackendGroup, and then either goes from backend to backend as *)
(* it does there, or, with the multicall strategy, to all of them at once  *)
(* as in module Multicall, whose goroutines outlive the request.           *)
(***************************************************************************)
EXTENDS Multicall, Functions

CONSTANTS
    BackendList, Strategies, MaxRetries, ReceiptsTarget, Height, Methods, MaxBatch, NoGroup

VARIABLES
    at,         \* where the handler is: the pc of module BackendGroup
    strategy, tip, group, pending, isBatch, asked, reqs, overridden, order, preferred,
    next, tries, res, err

groupVars == <<strategy, tip, group, pending, at, isBatch, asked, reqs, overridden, order,
               preferred, next, tries, res, err>>
allVars == <<vars, groupVars>>

G == INSTANCE BackendGroup WITH pc <- at

ASSUME GroupAssumption ==
    /\ BackendList \in Seq(Backends) /\ Range(BackendList) = Backends
    /\ \A i, j \in DOMAIN BackendList : BackendList[i] = BackendList[j] => i = j
    /\ G!Proxyd \notin Backends
    /\ Strategies \subseteq {"plain", "weighted", "consensus", "multicall"}
    /\ MaxRetries \in Nat /\ MaxBatch \in Nat \ {0}
    /\ Height \in [Backends -> Nat]
    /\ Methods \subseteq G!Answered \union {"call", "receipts", "transaction"}

ForwardInit == Init /\ G!Init

\* A transaction that comes alone, and not in a batch.
IsValidMulticallTx == Len(reqs) = 1 /\ reqs[1].method = "transaction"

ToMulticall == strategy = "multicall" /\ IsValidMulticallTx /\ ~isBatch

\* The request is multicalled once its backends are ordered.
Multicalled == at \notin {"order", "rewrite"} /\ ToMulticall

\* Forward returns what the multicall returns.
Return(answered) ==
    /\ at' = "done"
    /\ IF answered = NoAnswer \/ answered.kind = "error" THEN err' = "multicall" /\ UNCHANGED res
       ELSE /\ res' = <<[id |-> reqs[1].id, by |-> answered.by, method |-> reqs[1].method, enriched |-> FALSE]>>
            /\ UNCHANGED err
    /\ UNCHANGED <<strategy, tip, group, pending, isBatch, asked, reqs, overridden, order,
                   preferred, next, tries>>

WithReturn ==
    IF pc # "returned" /\ pc' = "returned" THEN Return(finalResp') ELSE UNCHANGED groupVars

Handler == ~Multicalled /\ G!Handle /\ UNCHANGED vars

\* A request that is ordered and rewritten reads nothing of what the poller sets.
Publish == at \in {"order", "rewrite"} /\ G!Publish /\ UNCHANGED vars

Begin == Multicalled /\ ExecuteMulticall /\ UNCHANGED groupVars
Worker(b) == Work(b) /\ UNCHANGED groupVars
Closer == Close /\ UNCHANGED groupVars
Receiver == (Receive \/ ReceiveClosed) /\ WithReturn

ForwardNext ==
    \/ Handler \/ Publish
    \/ Begin \/ Closer \/ Receiver
    \/ \E b \in Backends : Worker(b)

\* The goroutine that handles the request and those of a multicall keep running:
\* every call ends with the client's timeout at the latest, and every sleep with
\* its timer.
ForwardSpec ==
    /\ ForwardInit /\ [][ForwardNext]_allVars
    /\ WF_allVars(Handler) /\ WF_allVars(Begin) /\ WF_allVars(Closer) /\ WF_allVars(Receiver)
    /\ \A b \in Backends : WF_allVars(Worker(b))

-----------------------------------------------------------------------------
(* Properties; those of a multicall are in module Multicall *)

\* A request that is served gets one response per request of the batch, in the
\* order of the batch and under the ids of the batch, whatever order a backend
\* answers in and whichever of the requests proxyd answers itself
\* (sortBatchRPCResponse, OverwriteConsensusResponses, OverrideResponses).
AnswersMatchRequests == G!AnswersMatchRequests

\* An unhealthy backend, or a degraded one of a consensus group, is called only
\* after every backend that was found in a better state has been called and has
\* failed (orderedBackendsForRequest, loadBalancedConsensusGroup).
LastResort == G!LastResort

\* ErrNoBackends is returned only when every backend of the order has failed:
\* either all its attempts did, or the answer to a batch was not a batch
\* (ForwardRequestToBackendGroup).
GivesUpWhenAllFailed == G!GivesUpWhenAllFailed

\* Every request is answered, with a response or with an error, whichever way it
\* takes: neither the retries nor the failover run for ever, and no multicall
\* waits for an answer that does not come.
EveryRequestReturns == <>(at = "done")

\* No goroutine of a multicall is left behind: each one ends and the channel is
\* closed, also after Forward has returned and nobody receives any more.
NothingIsLeftBehind ==
    [](pc # "start" => <>(closed /\ \A b \in Backends : worker[b] \in {"none", "done"}))
=============================================================================
