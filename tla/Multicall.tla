----------------------------- MODULE Multicall ------------------------------
(***************************************************************************)
(* The multicall routing strategy (ExecuteMulticall, MulticallRequest and  *)
(* ProcessMulticallResponses of backend.go): a transaction is sent to      *)
(* every healthy backend at once and the first success is returned.        *)
(*                                                                         *)
(* One goroutine per target forwards the request and puts the answer into  *)
(* a buffered channel; one more waits for all of them and closes it; the   *)
(* handler receives until it has a success or the channel is closed.  The  *)
(* targets keep running after the handler has returned.                    *)
(***************************************************************************)
EXTENDS Integers, Sequences, FiniteSets

CONSTANTS
    Backends,       \* bg.Backends
    RPCErrorCheck,  \* multicallRPCErrorCheck
    NoAnswer        \* no response: the nil of finalResp

\* What ForwardRequestToBackendGroup returns for one backend: an error, a
\* response that carries a JSON-RPC error, or a result.
Kinds == {"error", "rpc error", "result"}
Answers == [by : Backends, kind : Kinds]

ASSUME BackendsAssumption == IsFiniteSet(Backends) /\ Backends # {}
ASSUME SettingsAssumption == RPCErrorCheck \in BOOLEAN /\ NoAnswer \notin Answers

VARIABLES
    pc,         \* the handler: "start", "receive" or "returned"
    targets,
    worker,     \* each MulticallRequest goroutine
    answer,     \* what its backend answered
    ch,         \* the channel, oldest first
    closed,     \* whether it is closed
    count,      \* i of ProcessMulticallResponses
    finalResp   \* finalResp, and what is returned once pc is "returned"

vars == <<pc, targets, worker, answer, ch, closed, count, finalResp>>

Init ==
    /\ pc = "start"
    /\ targets = {}
    /\ worker = [b \in Backends |-> "none"]
    /\ answer = [b \in Backends |-> NoAnswer]
    /\ ch = <<>>
    /\ closed = FALSE
    /\ count = 0
    /\ finalResp = NoAnswer

-----------------------------------------------------------------------------
(* ExecuteMulticall: the targets, the channel and the goroutines *)

MutantTargets(healthy) == healthy

\* The healthy backends, or all of them when none is.
Targets(healthy) == IF healthy = {} THEN Backends ELSE healthy

ExecuteMulticall ==
    /\ pc = "start"
    /\ \E healthy \in SUBSET Backends :
          /\ targets' = Targets(healthy)
          /\ worker' = [b \in Backends |-> IF b \in Targets(healthy) THEN "asking" ELSE "none"]
    /\ pc' = "receive"
    /\ UNCHANGED <<answer, ch, closed, count, finalResp>>

MutantOneShort == Cardinality(targets) - 1

Capacity == Cardinality(targets)

-----------------------------------------------------------------------------
(* MulticallRequest, for backend b *)

\* The backend is asked with its own retries, without the cancellation of the
\* client's request.
Ask(b) ==
    /\ worker[b] = "asking"
    /\ \E k \in Kinds : answer' = [answer EXCEPT ![b] = [by |-> b, kind |-> k]]
    /\ worker' = [worker EXCEPT ![b] = "sending"]
    /\ UNCHANGED <<pc, targets, ch, closed, count, finalResp>>

Send(b) ==
    /\ worker[b] = "sending"
    /\ Len(ch) < Capacity
    /\ ch' = Append(ch, answer[b])
    /\ worker' = [worker EXCEPT ![b] = "sent"]
    /\ UNCHANGED <<pc, targets, answer, closed, count, finalResp>>

MutantDone(b) ==
    /\ worker[b] = "sent" /\ answer[b].kind # "result"
    /\ RPCErrorCheck \/ answer[b].kind # "rpc error"
    /\ worker' = [worker EXCEPT ![b] = "done"]
    /\ UNCHANGED <<pc, targets, answer, ch, closed, count, finalResp>>

\* The deferred wg.Done.
Done(b) ==
    /\ worker[b] = "sent"
    /\ worker' = [worker EXCEPT ![b] = "done"]
    /\ UNCHANGED <<pc, targets, answer, ch, closed, count, finalResp>>

-----------------------------------------------------------------------------
(* The goroutine that closes the channel *)

AllDone == \A b \in targets : worker[b] = "done"

Close ==
    /\ pc # "start" /\ ~closed
    /\ AllDone
    /\ closed' = TRUE
    /\ UNCHANGED <<pc, targets, worker, answer, ch, count, finalResp>>

-----------------------------------------------------------------------------
(* ProcessMulticallResponses *)

MutantIsSuccess(a) == a.kind # "error"

IsSuccess(a) == a.kind = "result" \/ (a.kind = "rpc error" /\ ~RPCErrorCheck)

Receive ==
    /\ pc = "receive" /\ ch # <<>>
    /\ ch' = Tail(ch)
    /\ count' = count + 1
    /\ finalResp' = Head(ch)
    /\ pc' = IF IsSuccess(Head(ch)) THEN "returned" ELSE pc
    /\ UNCHANGED <<targets, worker, answer, closed>>

\* finalResp, if there was any answer, else "no multicall response received".
ReceiveClosed ==
    /\ pc = "receive" /\ ch = <<>> /\ closed
    /\ finalResp' = IF count > 0 THEN finalResp ELSE NoAnswer
    /\ pc' = "returned"
    /\ UNCHANGED <<targets, worker, answer, ch, closed, count>>

Work(b) == Ask(b) \/ Send(b) \/ Done(b)

Next ==
    \/ ExecuteMulticall
    \/ \E b \in Backends : Work(b)
    \/ Close
    \/ Receive
    \/ ReceiveClosed

Spec == Init /\ [][Next]_vars

-----------------------------------------------------------------------------
(* Properties *)

\* The values the variables take.
TypeOK ==
    /\ pc \in {"start", "receive", "returned"}
    /\ targets \in SUBSET Backends
    /\ worker \in [Backends -> {"none", "asking", "sending", "sent", "done"}]
    /\ answer \in [Backends -> Answers \union {NoAnswer}]
    /\ ch \in Seq(Answers)
    /\ closed \in BOOLEAN
    /\ count \in Nat
    /\ finalResp \in Answers \union {NoAnswer}

\* No goroutine has to wait for room in the channel, however many have sent before
\* it and whether or not the handler still receives (the channel that
\* ExecuteMulticall makes, the send of MulticallRequest): it would hold the
\* channel open for ever.
SendsNeverBlock == \A b \in Backends : worker[b] = "sending" => Len(ch) < Capacity

Failed(a) == a.kind = "error" \/ (RPCErrorCheck /\ a.kind = "rpc error")

\* A failure is returned only when every target has failed: as long as one of
\* them may still succeed the handler keeps waiting ("return the first
\* successful response").
SuccessWins ==
    pc = "returned" /\ (finalResp = NoAnswer \/ Failed(finalResp)) =>
        \A b \in targets : answer[b] # NoAnswer /\ Failed(answer[b])

\* What is returned is what one of the targets answered: never the missing
\* finalResp, and never "no multicall response received".
ReturnsAnAnswer ==
    pc = "returned" => \E b \in targets : finalResp = answer[b] /\ answer[b] # NoAnswer
=============================================================================
