-------------------------- MODULE GroupForwardProofs --------------------------
(***************************************************************************)
(* Proofs about BackendGroup.Forward, for every set and order of backends, *)
(* every number of retries and every batch: the multicall, the order in    *)
(* which backends are tried, and the answers that are put together.        *)
(***************************************************************************)
EXTENDS GroupForward, FiniteSetTheorems, TLAPS

-----------------------------------------------------------------------------
(* The multicall, by itself *)

\* The goroutine of b has put its answer into the channel.
Sent(b) == worker[b] \in {"sent", "done"}

\* A goroutine has an answer, that of its own backend, from the time it is
\* about to send it.
HasAnswer ==
    \A b \in Backends :
        worker[b] \in {"sending", "sent", "done"} => answer[b] \in Answers

TypeInv == TypeOK /\ HasAnswer

\* The types hold throughout, and who sends has an answer to send.
LEMMA TypeInvariant == Spec => []TypeInv
<1>1. Init => TypeInv
  <2> SUFFICES ASSUME Init PROVE TypeInv
    BY Zenon
  <2>1. /\ pc \in {"start", "receive", "returned"} /\ targets \in SUBSET Backends
        /\ worker \in [Backends -> {"none", "asking", "sending", "sent", "done"}]
        /\ answer \in [Backends -> Answers \union {NoAnswer}]
        /\ finalResp \in Answers \union {NoAnswer}
    BY Zenon DEF Init
  <2>2. closed \in BOOLEAN
    BY Zenon DEF Init
  <2>3. ch \in Seq(Answers) /\ count \in Nat
    BY DEF Init
  <2>4. HasAnswer
    BY Zenon DEF Init, HasAnswer
  <2> QED BY <2>1, <2>2, <2>3, <2>4 DEF TypeInv, TypeOK
<1>2. TypeInv /\ [Next]_vars => TypeInv'
  <2> SUFFICES ASSUME TypeInv, [Next]_vars PROVE TypeInv'
    BY Zenon
  <2> USE DEF TypeInv, TypeOK, HasAnswer
  <2>1. CASE ExecuteMulticall
    <3>1. PICK healthy \in SUBSET Backends :
             /\ targets' = Targets(healthy)
             /\ worker' = [b \in Backends |-> IF b \in Targets(healthy) THEN "asking" ELSE "none"]
      BY <2>1, Zenon DEF ExecuteMulticall
    <3>2. Targets(healthy) \in SUBSET Backends
      BY Zenon DEF Targets
    <3>3. UNCHANGED <<answer, ch, closed, count, finalResp>> /\ pc' = "receive"
      BY <2>1, Zenon DEF ExecuteMulticall
    <3>4. \A b \in Backends : worker'[b] \in {"asking", "none"}
      BY <3>1, Zenon
    <3>5. worker' \in [Backends -> {"none", "asking", "sending", "sent", "done"}]
      BY <3>1, Zenon
    <3>6. HasAnswer'
      BY <3>4, Zenon
    <3> QED BY <3>1, <3>2, <3>3, <3>5, <3>6
  <2>2. ASSUME NEW b \in Backends, Ask(b) PROVE TypeInv'
    <3>1. PICK k \in Kinds : answer' = [answer EXCEPT ![b] = [by |-> b, kind |-> k]]
      BY <2>2, Zenon DEF Ask
    <3>2. [by |-> b, kind |-> k] \in Answers
      BY Zenon DEF Answers
    <3>3. answer' \in [Backends -> Answers \union {NoAnswer}]
      BY <3>1, <3>2, Zenon
    <3>4. /\ worker' = [worker EXCEPT ![b] = "sending"]
          /\ UNCHANGED <<pc, targets, ch, closed, count, finalResp>>
      BY <2>2, Zenon DEF Ask
    <3>5. HasAnswer'
      BY <3>1, <3>2, <3>4, Zenon
    <3> QED BY <3>3, <3>4, <3>5
  <2>3. ASSUME NEW b \in Backends, Send(b) PROVE TypeInv'
    BY <2>3 DEF Send
  <2>4. ASSUME NEW b \in Backends, Done(b) PROVE TypeInv'
    BY <2>4, Zenon DEF Done
  <2>5. CASE Close
    BY <2>5, Zenon DEF Close
  <2>6. CASE Receive
    BY <2>6 DEF Receive
  <2>7. CASE ReceiveClosed
    BY <2>7, Zenon DEF ReceiveClosed
  <2>8. CASE UNCHANGED vars
    BY <2>8, Zenon DEF vars
  <2> QED BY <2>1, <2>2, <2>3, <2>4, <2>5, <2>6, <2>7, <2>8 DEF Next, Work
<1> HIDE DEF TypeInv
<1> QED BY <1>1, <1>2, PTL DEF Spec

\* Every variable of the multicall keeps to its type.
THEOREM TypeCorrect == Spec => []TypeOK
<1>1. TypeInv => TypeOK
  BY Zenon DEF TypeInv
<1> QED BY <1>1, TypeInvariant, PTL

-----------------------------------------------------------------------------
(* The argument: an answer that has been sent is in the channel until it is *)
(* received, and the handler goes on after it only if it is a failure.      *)

\* Before the goroutines are started nothing has happened; afterwards there is
\* at least one target, and only targets have a goroutine.
Started ==
    /\ pc = "start" => /\ \A b \in Backends : worker[b] = "none"
                       /\ ch = <<>> /\ ~closed /\ count = 0
    /\ pc # "start" => targets # {}
    /\ \A b \in Backends : worker[b] # "none" => b \in targets

\* What is in the channel is the answer of a target that has sent it.
ChannelHoldsAnswers ==
    \A i \in 1..Len(ch) : \E b \in targets : Sent(b) /\ ch[i] = answer[b]

InChannel(b) == \E i \in 1..Len(ch) : ch[i] = answer[b]

\* While the handler receives, a sent answer that is no longer in the channel
\* has been received, and is a failure.
ReceivedAreFailures ==
    pc = "receive" =>
        \A b \in targets : Sent(b) => InChannel(b) \/ (count > 0 /\ Failed(answer[b]))

\* finalResp is the answer of a target once the handler has received one.
FinalIsAnswer ==
    count > 0 => \E b \in targets : Sent(b) /\ finalResp = answer[b]

\* The handler returns with an answer, and with a failure only after every
\* target has sent one.
ReturnedAfter ==
    pc = "returned" =>
        /\ count > 0
        /\ Failed(finalResp) => closed /\ \A b \in targets : Failed(answer[b])

\* The channel is closed only once every goroutine is past its send.
ClosedLast == closed => \A b \in targets : worker[b] = "done"

Inv == /\ Started /\ ChannelHoldsAnswers /\ ReceivedAreFailures /\ FinalIsAnswer
       /\ ReturnedAfter /\ ClosedLast

\* ProcessMulticallResponses returns an answer or goes on after it.
LEMMA SuccessOrFailed == \A a \in Answers : IsSuccess(a) <=> ~Failed(a)
BY SettingsAssumption, Zenon DEF Answers, Kinds, IsSuccess, Failed

\* The invariant holds before the targets are started.
LEMMA InvInit == Init => Inv
BY DEF Init, Inv, Started, ChannelHoldsAnswers, ReceivedAreFailures, FinalIsAnswer,
       ReturnedAfter, ClosedLast, Sent

\* Every step keeps the invariant.
LEMMA InvNext == TypeInv /\ Inv /\ [Next]_vars => Inv'
<1> SUFFICES ASSUME TypeInv, Inv, [Next]_vars PROVE Inv'
  BY Zenon
<1> USE DEF TypeInv, TypeOK
<1> USE DEF Inv
<1>1. CASE ExecuteMulticall
  <2>1. PICK healthy \in SUBSET Backends :
           /\ targets' = Targets(healthy)
           /\ worker' = [b \in Backends |-> IF b \in Targets(healthy) THEN "asking" ELSE "none"]
    BY <1>1, Zenon DEF ExecuteMulticall
  <2>2. /\ pc = "start" /\ pc' = "receive"
        /\ UNCHANGED <<answer, ch, closed, count, finalResp>>
    BY <1>1, Zenon DEF ExecuteMulticall
  <2>3. ch' = <<>> /\ count' = 0
    BY <2>2, Zenon DEF Started
  <2>4. targets' # {} /\ targets' \subseteq Backends
    BY <2>1, BackendsAssumption, Zenon DEF Targets
  <2>5. \A b \in Backends : worker'[b] # "none" => b \in targets'
    BY <2>1, Zenon
  <2>6. \A b \in Backends : ~Sent(b)'
    BY <2>1, Zenon DEF Sent
  <2>7. Started' /\ ChannelHoldsAnswers' /\ FinalIsAnswer'
    BY <2>2, <2>3, <2>4, <2>5 DEF Started, ChannelHoldsAnswers, FinalIsAnswer
  <2>8. ReceivedAreFailures'
    BY <2>4, <2>6, Zenon DEF ReceivedAreFailures
  <2>9. ~closed
    BY <2>2, Zenon DEF Started
  <2> QED BY <2>2, <2>7, <2>8, <2>9 DEF ClosedLast, ReturnedAfter
<1>2. ASSUME NEW b \in Backends, Ask(b) PROVE Inv'
  <2>1. /\ worker[b] = "asking" /\ worker' = [worker EXCEPT ![b] = "sending"]
        /\ UNCHANGED <<pc, targets, ch, closed, count, finalResp>>
        /\ \A c \in Backends : c # b => answer'[c] = answer[c]
    BY <1>2, Zenon DEF Ask
  <2>2. \A c \in Backends : Sent(c) => c # b /\ answer'[c] = answer[c] /\ Sent(c)'
    BY <2>1, Zenon DEF Sent
  <2>3. \A c \in Backends : Sent(c)' => Sent(c)
    BY <2>1, Zenon DEF Sent
  <2>4. Started'
    BY <2>1, Zenon DEF Started
  <2>5. ChannelHoldsAnswers'
    BY <2>1, <2>2 DEF ChannelHoldsAnswers
  <2>6. ReceivedAreFailures'
    <3> SUFFICES ASSUME pc' = "receive", NEW c \in targets', Sent(c)'
                 PROVE  (InChannel(c) \/ (count > 0 /\ Failed(answer[c])))'
      BY Zenon DEF ReceivedAreFailures
    <3>1. Sent(c) /\ answer'[c] = answer[c] /\ c \in targets /\ pc = "receive"
      BY <2>1, <2>2, <2>3, Zenon
    <3>2. InChannel(c) \/ (count > 0 /\ Failed(answer[c]))
      BY <3>1, Zenon DEF ReceivedAreFailures
    <3> QED BY <2>1, <3>1, <3>2, Zenon DEF InChannel, Failed
  <2>7. FinalIsAnswer'
    BY <2>1, <2>2, Zenon DEF FinalIsAnswer
  <2>8. ClosedLast'
    BY <2>1, <2>2, Zenon DEF ClosedLast, Started
  <2>9. ReturnedAfter'
    <3>1. b \in targets /\ ~closed
      BY <2>1, Zenon DEF Started, ClosedLast
    <3> QED BY <2>1, <3>1, Zenon DEF ReturnedAfter, Failed
  <2> QED BY <2>4, <2>5, <2>6, <2>7, <2>8, <2>9
<1>3. ASSUME NEW b \in Backends, Send(b) PROVE Inv'
  <2>1. /\ worker[b] = "sending" /\ worker' = [worker EXCEPT ![b] = "sent"]
        /\ ch' = Append(ch, answer[b])
        /\ UNCHANGED <<pc, targets, answer, closed, count, finalResp>>
    BY <1>3, Zenon DEF Send
  <2>2. b \in targets /\ ~closed /\ pc # "start" /\ answer[b] \in Answers
    BY <2>1, Zenon DEF Started, ClosedLast, HasAnswer
  <2>3. \A c \in Backends : Sent(c)' <=> (Sent(c) \/ c = b)
    BY <2>1, Zenon DEF Sent
  <2>4. /\ Len(ch') = Len(ch) + 1 /\ ch'[Len(ch) + 1] = answer[b]
        /\ \A i \in 1..Len(ch) : ch'[i] = ch[i]
    BY <2>1, <2>2
  <2>5. Started'
    BY <2>1, <2>2, Zenon DEF Started
  <2>6. ChannelHoldsAnswers'
    <3> SUFFICES ASSUME NEW i \in 1..Len(ch')
                 PROVE  \E c \in targets' : Sent(c)' /\ ch'[i] = answer'[c]
      BY Zenon DEF ChannelHoldsAnswers
    <3>1. CASE i \in 1..Len(ch)
      <4>1. PICK c \in targets : Sent(c) /\ ch[i] = answer[c]
        BY <3>1, Zenon DEF ChannelHoldsAnswers
      <4> QED BY <4>1, <3>1, <2>1, <2>3, <2>4
    <3>2. CASE i = Len(ch) + 1
      BY <3>2, <2>1, <2>2, <2>3, <2>4, Zenon
    <3> QED BY <3>1, <3>2, <2>4
  <2>7. ReceivedAreFailures'
    <3> SUFFICES ASSUME pc' = "receive", NEW c \in targets', Sent(c)'
                 PROVE  (InChannel(c) \/ (count > 0 /\ Failed(answer[c])))'
      BY Zenon DEF ReceivedAreFailures
    <3>1. CASE c = b
      <4>1. Len(ch) + 1 \in 1..Len(ch')
        BY <2>4
      <4> QED BY <4>1, <3>1, <2>1, <2>4 DEF InChannel
    <3>2. CASE c # b
      <4>1. Sent(c) /\ c \in targets /\ pc = "receive"
        BY <3>2, <2>1, <2>3, Zenon
      <4>2. CASE InChannel(c)
        <5>1. PICK i \in 1..Len(ch) : ch[i] = answer[c]
          BY <4>2, Zenon DEF InChannel
        <5>2. i \in 1..Len(ch') /\ ch'[i] = answer'[c]
          BY <5>1, <2>1, <2>4
        <5> QED BY <5>2 DEF InChannel
      <4>3. CASE count > 0 /\ Failed(answer[c])
        BY <4>3, <2>1, Zenon DEF Failed
      <4> QED BY <4>1, <4>2, <4>3 DEF ReceivedAreFailures
    <3> QED BY <3>1, <3>2
  <2>8. FinalIsAnswer' /\ ReturnedAfter'
    BY <2>1, <2>3, Zenon DEF FinalIsAnswer, ReturnedAfter, Failed
  <2>9. ClosedLast'
    BY <2>1, <2>2, Zenon DEF ClosedLast
  <2> QED BY <2>5, <2>6, <2>7, <2>8, <2>9
<1>4. ASSUME NEW b \in Backends, Done(b) PROVE Inv'
  <2>1. /\ worker[b] = "sent" /\ worker' = [worker EXCEPT ![b] = "done"]
        /\ UNCHANGED <<pc, targets, answer, ch, closed, count, finalResp>>
    BY <1>4, Zenon DEF Done
  <2>2. \A c \in Backends : Sent(c)' <=> Sent(c)
    BY <2>1, Zenon DEF Sent
  <2> QED BY <2>1, <2>2, Zenon DEF Started, ChannelHoldsAnswers, ReceivedAreFailures, InChannel,
                            FinalIsAnswer, ReturnedAfter, ClosedLast, Failed
<1>5. CASE Close
  <2>1. /\ pc # "start" /\ AllDone /\ closed' = TRUE
        /\ UNCHANGED <<pc, targets, worker, answer, ch, count, finalResp>>
    BY <1>5, Zenon DEF Close
  <2> QED BY <2>1, Zenon DEF Started, ChannelHoldsAnswers, ReceivedAreFailures, InChannel, Sent,
                      FinalIsAnswer, ReturnedAfter, ClosedLast, AllDone, Failed
<1>6. CASE Receive
  <2>1. /\ pc = "receive" /\ ch # <<>> /\ ch' = Tail(ch) /\ count' = count + 1
        /\ finalResp' = Head(ch)
        /\ pc' = IF IsSuccess(Head(ch)) THEN "returned" ELSE pc
        /\ UNCHANGED <<targets, worker, answer, closed>>
    BY <1>6, Zenon DEF Receive
  <2>2. /\ Len(ch) > 0 /\ Len(ch') = Len(ch) - 1 /\ Head(ch) = ch[1] /\ Head(ch) \in Answers
        /\ \A i \in 1..Len(ch') : ch'[i] = ch[i + 1]
    BY <2>1
  <2>3. PICK b \in targets : Sent(b) /\ Head(ch) = answer[b]
    BY <2>2 DEF ChannelHoldsAnswers
  <2>4. \A c \in Backends : Sent(c)' <=> Sent(c)
    BY <2>1, Zenon DEF Sent
  <2>5. Started'
    BY <2>1, Zenon DEF Started
  <2>6. ChannelHoldsAnswers'
    <3> SUFFICES ASSUME NEW i \in 1..Len(ch')
                 PROVE  \E c \in targets' : Sent(c)' /\ ch'[i] = answer'[c]
      BY Zenon DEF ChannelHoldsAnswers
    <3>1. i + 1 \in 1..Len(ch)
      BY <2>2
    <3>2. PICK c \in targets : Sent(c) /\ ch[i + 1] = answer[c]
      BY <3>1, Zenon DEF ChannelHoldsAnswers
    <3> QED BY <3>2, <2>1, <2>2, <2>4
  <2>7. ReceivedAreFailures'
    <3> SUFFICES ASSUME pc' = "receive", NEW c \in targets', Sent(c)'
                 PROVE  (InChannel(c) \/ (count > 0 /\ Failed(answer[c])))'
      BY Zenon DEF ReceivedAreFailures
    <3>1. Failed(Head(ch)) /\ count' > 0
      BY <2>1, <2>2, SuccessOrFailed
    <3>2. Sent(c) /\ c \in targets
      BY <2>1, <2>4, Zenon
    <3>3. CASE InChannel(c)
      <4>1. PICK i \in 1..Len(ch) : ch[i] = answer[c]
        BY <3>3, Zenon DEF InChannel
      <4>2. CASE i = 1
        BY <4>1, <4>2, <3>1, <2>1, <2>2, Zenon DEF Failed
      <4>3. CASE i > 1
        <5>1. i - 1 \in 1..Len(ch') /\ ch'[i - 1] = answer'[c]
          BY <4>1, <4>3, <2>1, <2>2
        <5> QED BY <5>1 DEF InChannel
      <4> QED BY <4>2, <4>3
    <3>4. CASE Failed(answer[c])
      BY <3>1, <3>4, <2>1, Zenon DEF Failed
    <3> QED BY <3>2, <3>3, <3>4, <2>1 DEF ReceivedAreFailures
  <2>8. FinalIsAnswer'
    BY <2>1, <2>3, <2>4, Zenon DEF FinalIsAnswer
  <2>9. ReturnedAfter'
    <3>1. count' > 0 /\ (Failed(finalResp)' <=> Failed(Head(ch)))
      BY <2>1 DEF Failed
    <3>2. pc' = "returned" => ~Failed(Head(ch))
      BY <2>1, <2>2, SuccessOrFailed, Zenon
    <3> QED BY <3>1, <3>2 DEF ReturnedAfter
  <2>10. ClosedLast'
    BY <2>1, Zenon DEF ClosedLast
  <2> QED BY <2>5, <2>6, <2>7, <2>8, <2>9, <2>10
<1>7. CASE ReceiveClosed
  <2>1. /\ pc = "receive" /\ ch = <<>> /\ closed /\ pc' = "returned"
        /\ finalResp' = IF count > 0 THEN finalResp ELSE NoAnswer
        /\ UNCHANGED <<targets, worker, answer, ch, closed, count>>
    BY <1>7, Zenon DEF ReceiveClosed
  <2>2. \A b \in targets : Sent(b) /\ ~InChannel(b)
    BY <2>1 DEF ClosedLast, Sent, InChannel
  <2>3. targets # {} /\ \A b \in targets : count > 0 /\ Failed(answer[b])
    BY <2>1, <2>2, Zenon DEF ReceivedAreFailures, Started
  <2>4. count > 0 /\ finalResp' = finalResp
    BY <2>1, <2>3, Zenon
  <2>5. \A c \in Backends : Sent(c)' <=> Sent(c)
    BY <2>1, Zenon DEF Sent
  <2>6. FinalIsAnswer'
    BY <2>1, <2>4, <2>5, Zenon DEF FinalIsAnswer
  <2>7. ReturnedAfter'
    BY <2>1, <2>3, <2>4, Zenon DEF ReturnedAfter, Failed
  <2> QED BY <2>1, <2>6, <2>7 DEF Started, ChannelHoldsAnswers, ReceivedAreFailures, ClosedLast
<1>8. CASE UNCHANGED vars
  BY <1>8, ZenonT(60) DEF vars, Started, ChannelHoldsAnswers, ReceivedAreFailures, InChannel, Sent,
              FinalIsAnswer, ReturnedAfter, ClosedLast, Failed
<1> QED BY <1>1, <1>2, <1>3, <1>4, <1>5, <1>6, <1>7, <1>8 DEF Next, Work

\* The invariant holds throughout.
LEMMA Invariant == Spec => [](TypeInv /\ Inv)
<1> HIDE DEF TypeInv, Inv
<1> QED BY InvInit, InvNext, TypeInvariant, PTL DEF Spec

-----------------------------------------------------------------------------
(* The channel has room for every answer *)

\* The targets whose answer has been put into the channel.
SentTargets == {b \in targets : Sent(b)}

\* No more answers are in the channel than have been sent.
InChannelAreSent == Len(ch) <= Cardinality(SentTargets)

\* There are finitely many targets, and each sends once.
LEMMA SentAreFinite ==
    ASSUME TypeInv
    PROVE  /\ IsFiniteSet(targets) /\ Cardinality(targets) \in Nat
           /\ IsFiniteSet(SentTargets) /\ Cardinality(SentTargets) \in Nat
<1>1. targets \in SUBSET Backends /\ SentTargets \in SUBSET Backends
  BY Zenon DEF TypeInv, TypeOK, SentTargets
<1>2. IsFiniteSet(targets) /\ IsFiniteSet(SentTargets)
  BY <1>1, BackendsAssumption, FS_Subset, Zenon
<1> QED
  BY <1>2, FS_CardinalityType, Zenon

\* Every step keeps the channel within what has been sent: only a target that has
\* not sent yet adds to it.
LEMMA InChannelStep ==
    ASSUME TypeInv, TypeInv', Inv, InChannelAreSent, [Next]_vars
    PROVE  InChannelAreSent'
<1>0. /\ ch \in Seq(Answers) /\ Cardinality(SentTargets) \in Nat /\ Cardinality(SentTargets') \in Nat
      /\ IsFiniteSet(SentTargets) /\ targets \in SUBSET Backends /\ Len(ch) <= Cardinality(SentTargets)
      /\ worker \in [Backends -> {"none", "asking", "sending", "sent", "done"}]
  <2>1. SentTargets' \in SUBSET Backends
    BY Zenon DEF TypeInv, TypeOK, SentTargets
  <2>2. Cardinality(SentTargets') \in Nat
    BY <2>1, BackendsAssumption, FS_Subset, FS_CardinalityType, Zenon
  <2> QED
    BY <2>2, SentAreFinite, Zenon DEF TypeInv, TypeOK, InChannelAreSent
<1>1. CASE ExecuteMulticall
  <2>1. ch' = ch /\ ch = <<>>
    BY <1>1, Zenon DEF ExecuteMulticall, Inv, Started
  <2> QED
    BY <1>0, <2>1 DEF InChannelAreSent
<1>2. ASSUME NEW b \in Backends, Send(b) PROVE InChannelAreSent'
  <2>1. /\ worker[b] = "sending" /\ worker' = [worker EXCEPT ![b] = "sent"]
        /\ targets' = targets /\ ch' = Append(ch, answer[b])
    BY <1>2, Zenon DEF Send
  <2>2. b \in targets /\ b \notin SentTargets
    BY <2>1, Zenon DEF Inv, Started, SentTargets, Sent
  <2>3. SentTargets' = SentTargets \union {b}
    BY <1>0, <2>1, <2>2 DEF SentTargets, Sent
  <2>4. Cardinality(SentTargets') = Cardinality(SentTargets) + 1
    BY <1>0, <2>2, <2>3, FS_AddElement, Zenon
  <2>5. Len(ch') = Len(ch) + 1 /\ Len(ch) \in Nat
    BY <1>0, <2>1
  <2> QED
    BY <1>0, <2>4, <2>5 DEF InChannelAreSent
<1>3. ASSUME NEW b \in Backends, Ask(b) \/ Done(b) PROVE InChannelAreSent'
  <2>1. /\ targets' = targets /\ ch' = ch
        /\ \/ worker[b] = "asking" /\ worker' = [worker EXCEPT ![b] = "sending"]
           \/ worker[b] = "sent" /\ worker' = [worker EXCEPT ![b] = "done"]
    BY <1>3, Zenon DEF Ask, Done
  <2>2. SentTargets' = SentTargets
    BY <1>0, <2>1 DEF SentTargets, Sent
  <2> QED
    BY <2>1, <2>2, Zenon DEF InChannelAreSent
<1>4. CASE Receive
  <2>1. UNCHANGED <<targets, worker>> /\ ch # <<>> /\ ch' = Tail(ch)
    BY <1>4, Zenon DEF Receive
  <2>2. SentTargets' = SentTargets
    BY <2>1, Zenon DEF SentTargets, Sent
  <2>3. Len(ch') <= Len(ch) /\ Len(ch) \in Nat /\ Len(ch') \in Nat
    BY <1>0, <2>1
  <2> QED
    BY <1>0, <2>2, <2>3 DEF InChannelAreSent
<1>5. CASE UNCHANGED <<targets, worker, ch>>
  BY <1>5, Zenon DEF InChannelAreSent, SentTargets, Sent
<1> QED
  BY <1>1, <1>2, <1>3, <1>4, <1>5, Zenon DEF Next, Work, Close, ReceiveClosed, vars

\* Whoever is about to send has not sent, so that the channel is not full.
LEMMA RoomForEverybody ==
    ASSUME TypeInv, Inv, InChannelAreSent
    PROVE  SendsNeverBlock
<1> SUFFICES ASSUME NEW b \in Backends, worker[b] = "sending" PROVE Len(ch) < Cardinality(targets)
  BY Zenon DEF SendsNeverBlock, Capacity
<1>1. b \in targets /\ b \notin SentTargets /\ SentTargets \in SUBSET targets
  BY Zenon DEF Inv, Started, SentTargets, Sent
<1>2. /\ Cardinality(SentTargets) <= Cardinality(targets)
      /\ Cardinality(SentTargets) # Cardinality(targets)
  BY <1>1, SentAreFinite, FS_Subset, Zenon
<1>3. Len(ch) \in Nat
  BY DEF TypeInv, TypeOK
<1> QED
  BY <1>2, <1>3, SentAreFinite DEF InChannelAreSent

-----------------------------------------------------------------------------
(* The multicall, as a part of Forward *)

\* What Forward does with a multicall is what module Multicall says.
LEMMA MulticallPart == ForwardSpec => Spec
<1>1. ForwardInit => Init
  BY Zenon DEF ForwardInit
<1>2. [ForwardNext]_allVars => [Next]_vars
  BY Zenon DEF ForwardNext, allVars, Handler, Publish, Begin, Worker, Closer, Receiver, Next
<1> QED
  BY <1>1, <1>2, PTL DEF ForwardSpec, Spec

\* A multicall fails only when every backend it was sent to has failed.
THEOREM AnySuccessWins == ForwardSpec => []SuccessWins
<1>1. TypeInv /\ Inv => SuccessWins
  <2> SUFFICES ASSUME TypeInv, Inv, pc = "returned", finalResp = NoAnswer \/ Failed(finalResp),
                      NEW b \in targets
               PROVE  answer[b] # NoAnswer /\ Failed(answer[b])
    BY Zenon DEF SuccessWins
  <2>1. PICK c \in targets : Sent(c) /\ finalResp = answer[c]
    BY Zenon DEF Inv, ReturnedAfter, FinalIsAnswer
  <2>2. finalResp # NoAnswer
    BY <2>1, SettingsAssumption, Zenon DEF TypeInv, TypeOK, HasAnswer, Sent
  <2>3. closed /\ Failed(answer[b])
    BY <2>2, Zenon DEF Inv, ReturnedAfter
  <2>4. answer[b] \in Answers
    BY <2>3, Zenon DEF TypeInv, TypeOK, HasAnswer, Inv, ClosedLast
  <2> QED BY <2>3, <2>4, SettingsAssumption
<1> QED BY <1>1, Invariant, MulticallPart, PTL

\* A multicall returns what one of its targets answered.
THEOREM AlwaysReturnsAnAnswer == ForwardSpec => []ReturnsAnAnswer
<1>1. TypeInv /\ Inv => ReturnsAnAnswer
  <2> SUFFICES ASSUME TypeInv, Inv, pc = "returned"
               PROVE  \E b \in targets : finalResp = answer[b] /\ answer[b] # NoAnswer
    BY Zenon DEF ReturnsAnAnswer
  <2>1. PICK b \in targets : Sent(b) /\ finalResp = answer[b]
    BY Zenon DEF Inv, ReturnedAfter, FinalIsAnswer
  <2>2. answer[b] \in Answers
    BY <2>1, Zenon DEF TypeInv, TypeOK, HasAnswer, Sent
  <2> QED BY <2>1, <2>2, SettingsAssumption
<1> QED BY <1>1, Invariant, MulticallPart, PTL

\* For any number of targets: no goroutine of a multicall ever waits to send, also
\* after Forward has returned and nobody receives any more (MulticallRequest).
THEOREM SendsNeverBlockAlways == ForwardSpec => []SendsNeverBlock
<1>1. TypeInv /\ Inv /\ Init => InChannelAreSent
  <2> SUFFICES ASSUME TypeInv, Init PROVE InChannelAreSent
    BY Zenon
  <2>1. ch = <<>>
    BY Zenon DEF Init
  <2> QED
    BY <2>1, SentAreFinite DEF InChannelAreSent
<1>2. TypeInv /\ TypeInv' /\ Inv /\ InChannelAreSent /\ [Next]_vars => InChannelAreSent'
  BY InChannelStep, Zenon
<1>3. TypeInv /\ Inv /\ InChannelAreSent => SendsNeverBlock
  BY RoomForEverybody, Zenon
<1> QED
  BY <1>1, <1>2, <1>3, Invariant, MulticallPart, PTL DEF Spec

-----------------------------------------------------------------------------
(* The order in which backends are tried *)

\* What a shuffle returns has every backend of its set, and each one once.
LEMMA OrdersAre == \A S : G!Orders(S) = Injection(1..Cardinality(S), S)
  BY Zenon DEF G!Orders, G!Injection, G!IsInjective, G!Cardinality, Cardinality, Injection, IsInjective

\* An order of a finite set has each of its elements, once.
LEMMA OrderOf ==
    ASSUME NEW S, IsFiniteSet(S), NEW s \in G!Orders(S)
    PROVE  /\ Cardinality(S) \in Nat
           /\ s \in Seq(S) /\ Len(s) = Cardinality(S)
           /\ \A i, j \in DOMAIN s : s[i] = s[j] => i = j
           /\ \A x \in S : \E i \in DOMAIN s : s[i] = x
<1> DEFINE n == Cardinality(S)
<1>1. n \in Nat
  BY FS_CardinalityType, Zenon
<1>2. s \in Injection(1..n, S)
  BY OrdersAre, Zenon
<1>3. s \in [1..n -> S] /\ \A i, j \in DOMAIN s : s[i] = s[j] => i = j
  BY <1>2, Zenon DEF Injection, IsInjective
<1>4. IsFiniteSet(1..n) /\ Cardinality(1..n) = n
  BY <1>1, FS_Interval
<1>5. s \in Surjection(1..n, S)
  BY <1>2, <1>4, FS_Injection, Zenon
<1>6. \A x \in S : \E i \in DOMAIN s : s[i] = x
  BY <1>3, <1>5, Zenon DEF Surjection
<1>7. s \in Seq(S) /\ Len(s) = n
  BY <1>1, <1>3
<1> QED
  BY <1>1, <1>3, <1>6, <1>7, Zenon

\* Every backend is in the order once, those that are preferred are in it, and
\* they come first.
Ordered ==
    /\ order \in Seq(Backends)
    /\ \A i, j \in DOMAIN order : order[i] = order[j] => i = j
    /\ \A c \in preferred : \E i \in DOMAIN order : order[i] = c
    /\ \A i, j \in DOMAIN order : i < j /\ order[j] \in preferred => order[i] \in preferred

\* orderedBackendsForRequest puts the backends in two tiers, each in some order.
LEMMA OrderStep ==
    ASSUME G!OrderBackends
    PROVE  Ordered'
<1>0. G!AllBackends = Backends
  BY GroupAssumption, Zenon DEF G!AllBackends, G!Range, Range
<1>1. PICK healthy \in SUBSET Backends, degraded \in SUBSET Backends :
         /\ \E s \in G!Shuffles(G!Tiers(healthy, degraded).first),
               t \in G!Shuffles(G!Tiers(healthy, degraded).last) : order' = s \o t
         /\ preferred' = IF G!Consensus THEN group \intersect (healthy \ degraded) ELSE healthy
  BY <1>0, Zenon DEF G!OrderBackends
<1> DEFINE F == G!Tiers(healthy, degraded).first
           L == G!Tiers(healthy, degraded).last
<1>2. F \in SUBSET Backends /\ L \in SUBSET Backends /\ F \intersect L = {} /\ preferred' = F
  <2>1. CASE G!Consensus
    <3>1. F = (group \intersect healthy) \ degraded /\ L = group \intersect healthy \intersect degraded
      BY <2>1, Zenon DEF G!Tiers
    <3> QED
      BY <1>1, <2>1, <3>1, Zenon
  <2>2. CASE ~G!Consensus
    <3>1. F = healthy /\ L = Backends \ healthy
      BY <1>0, <2>2, Zenon DEF G!Tiers
    <3> QED
      BY <1>1, <2>2, <3>1, Zenon
  <2> QED
    BY <2>1, <2>2, Zenon
<1> HIDE DEF F, L
<1>3. PICK s \in G!Shuffles(F), t \in G!Shuffles(L) : order' = s \o t
  BY <1>1, Zenon DEF F, L
<1>4. s \in G!Orders(F) /\ t \in G!Orders(L) /\ IsFiniteSet(F) /\ IsFiniteSet(L)
  BY <1>2, <1>3, BackendsAssumption, FS_Subset, Zenon DEF G!Shuffles
<1>5. /\ s \in Seq(F) /\ \A i, j \in DOMAIN s : s[i] = s[j] => i = j
      /\ \A x \in F : \E i \in DOMAIN s : s[i] = x
      /\ t \in Seq(L) /\ \A i, j \in DOMAIN t : t[i] = t[j] => i = j
  BY <1>4, OrderOf, Zenon
<1> DEFINE o == order'
<1>6. /\ o \in Seq(Backends) /\ Len(s) \in Nat /\ Len(t) \in Nat /\ Len(o) = Len(s) + Len(t)
      /\ DOMAIN o = 1..(Len(s) + Len(t)) /\ DOMAIN s = 1..Len(s) /\ DOMAIN t = 1..Len(t)
      /\ \A i \in 1..Len(s) : o[i] = s[i]
      /\ \A i \in 1..Len(t) : o[Len(s) + i] = t[i]
  <2>1. s \in Seq(Backends) /\ t \in Seq(Backends)
    BY <1>2, <1>5, SMTT(60)
  <2> QED
    BY <1>3, <2>1
<1>7. \A i \in DOMAIN o : \/ i \in DOMAIN s /\ o[i] = s[i] /\ o[i] \in F
                          \/ i > Len(s) /\ i - Len(s) \in DOMAIN t /\ o[i] = t[i - Len(s)] /\ o[i] \in L
  <2> SUFFICES ASSUME NEW i \in DOMAIN o
               PROVE  \/ i \in DOMAIN s /\ o[i] = s[i] /\ o[i] \in F
                      \/ i > Len(s) /\ i - Len(s) \in DOMAIN t /\ o[i] = t[i - Len(s)] /\ o[i] \in L
    BY Zenon
  <2>1. CASE i <= Len(s)
    BY <1>5, <1>6, <2>1, SMTT(60)
  <2>2. CASE i > Len(s)
    <3>1. i - Len(s) \in 1..Len(t) /\ Len(s) + (i - Len(s)) = i
      BY <1>6, <2>2, SMTT(60)
    <3> QED
      BY <1>5, <1>6, <2>2, <3>1, SMTT(60)
  <2> QED
    BY <1>6, <2>1, <2>2
<1> HIDE DEF o
<1>8. \A i, j \in DOMAIN o : o[i] = o[j] => i = j
  <2> SUFFICES ASSUME NEW i \in DOMAIN o, NEW j \in DOMAIN o, o[i] = o[j] PROVE i = j
    BY Zenon
  <2>1. o[i] \in F => i \in DOMAIN s /\ j \in DOMAIN s /\ s[i] = s[j]
    BY <1>2, <1>7, Zenon
  <2>2. o[i] \notin F => i - Len(s) \in DOMAIN t /\ j - Len(s) \in DOMAIN t
                         /\ t[i - Len(s)] = t[j - Len(s)]
    BY <1>7, Zenon
  <2>3. o[i] \notin F => i - Len(s) = j - Len(s)
    BY <1>5, <2>2, Zenon
  <2> QED
    BY <1>5, <1>6, <2>1, <2>3, SMTT(60)
<1>9. \A c \in F : \E i \in DOMAIN o : o[i] = c
  <2>1. \A i \in DOMAIN s : i \in DOMAIN o
    BY <1>6, SMTT(60)
  <2> QED
    BY <1>5, <1>6, <2>1, Zenon
<1>10. \A i, j \in DOMAIN o : i < j /\ o[j] \in F => o[i] \in F
  <2> SUFFICES ASSUME NEW i \in DOMAIN o, NEW j \in DOMAIN o, i < j, o[j] \in F PROVE o[i] \in F
    BY Zenon
  <2>1. j \in DOMAIN s
    BY <1>2, <1>7, Zenon
  <2>2. i \in DOMAIN s
    BY <1>6, <2>1
  <2> QED
    BY <1>5, <1>6, <2>2
<1> QED
  BY <1>2, <1>6, <1>8, <1>9, <1>10, Zenon DEF Ordered, o

\* How far the attempts have come: every backend before the current one has
\* failed for good, none after it has been called.
Tried ==
    /\ next \in Nat \ {0} /\ tries \in [Backends -> Nat]
    /\ at \in {"order", "rewrite"} => next = 1 /\ \A b \in Backends : tries[b] = 0
    /\ \A j \in DOMAIN order : j < next =>
          tries[order[j]] = MaxRetries + 1 \/ (Len(reqs) > 1 /\ tries[order[j]] > 0)
    /\ \A j \in DOMAIN order : j > next => tries[order[j]] = 0
    /\ \A b \in Backends : tries[b] > 0 => \E i \in DOMAIN order : order[i] = b
    /\ at = "forward" /\ next \in DOMAIN order => tries[order[next]] <= MaxRetries
    /\ err = "ErrNoBackends" => at = "done" /\ next > Len(order)

TriedInv == Ordered /\ Tried

\* A call of a backend, by its effect: it fails for good when its attempts are
\* used up or the answer to a batch was not a batch.
LEMMA CallStep ==
    ASSUME TriedInv, NEW b \in Backends, G!At(b),
           tries' = [tries EXCEPT ![b] = @ + 1], UNCHANGED <<order, preferred>>,
           Len(reqs') = Len(reqs),
           at' \notin {"order", "rewrite"}, err' = err \/ err' # "ErrNoBackends",
           \/ next' = next /\ (at' # "forward" \/ tries[b] < MaxRetries)
           \/ next' = next + 1 /\ (tries[b] >= MaxRetries \/ Len(reqs) > 1)
    PROVE  TriedInv'
<1>1. Ordered'
  BY Zenon DEF TriedInv, Ordered
<1>2. /\ MaxRetries \in Nat /\ next \in Nat \ {0} /\ tries \in [Backends -> Nat]
      /\ order \in Seq(Backends) /\ next <= Len(order) /\ b = order[next] /\ at = "forward"
      /\ \A i, j \in DOMAIN order : order[i] = order[j] => i = j
  BY GroupAssumption, Zenon DEF TriedInv, Ordered, Tried, G!At
<1>3. /\ Len(order) \in Nat /\ DOMAIN order = 1..Len(order) /\ next \in DOMAIN order
      /\ \A i \in DOMAIN order : i \in Nat /\ order[i] \in Backends /\ (order[i] = b => i = next)
  BY <1>2, SMTT(60)
<1>4. tries[b] <= MaxRetries
  BY <1>2, <1>3, Zenon DEF TriedInv, Tried
<1>5. /\ tries' \in [Backends -> Nat] /\ tries'[b] = tries[b] + 1
      /\ \A c \in Backends : c # b => tries'[c] = tries[c]
  BY <1>2
<1>6. next' \in Nat \ {0}
  BY <1>2, SMTT(60)
<1>7. \A j \in DOMAIN order' : j < next' =>
         tries'[order'[j]] = MaxRetries + 1 \/ (Len(reqs') > 1 /\ tries'[order'[j]] > 0)
  <2> SUFFICES ASSUME NEW j \in DOMAIN order, j < next'
               PROVE  tries'[order[j]] = MaxRetries + 1 \/ (Len(reqs) > 1 /\ tries'[order[j]] > 0)
    BY Zenon
  <2>1. CASE j = next
    BY <1>2, <1>3, <1>4, <1>5, <2>1, SMTT(60)
  <2>2. CASE j # next
    <3>1. j < next /\ order[j] # b /\ order[j] \in Backends
      BY <1>2, <1>3, <2>2, SMTT(60)
    <3> QED
      BY <1>5, <3>1, Zenon DEF TriedInv, Tried
  <2> QED
    BY <2>1, <2>2, Zenon
<1>8. \A j \in DOMAIN order' : j > next' => tries'[order'[j]] = 0
  <2> SUFFICES ASSUME NEW j \in DOMAIN order, j > next' PROVE tries'[order[j]] = 0
    BY Zenon
  <2>1. j > next /\ order[j] # b /\ order[j] \in Backends
    BY <1>2, <1>3
  <2> QED
    BY <1>5, <2>1, Zenon DEF TriedInv, Tried
<1>9. \A c \in Backends : tries'[c] > 0 => \E i \in DOMAIN order' : order'[i] = c
  BY <1>2, <1>3, <1>5, ZenonT(60) DEF TriedInv, Tried
<1>10. at' = "forward" /\ next' \in DOMAIN order' => tries'[order'[next']] <= MaxRetries
  <2>1. CASE next' = next
    BY <1>2, <1>3, <1>4, <1>5, <2>1
  <2>2. CASE next' = next + 1 /\ next + 1 \in DOMAIN order
    <3>1. order[next + 1] # b /\ order[next + 1] \in Backends /\ next + 1 > next
      BY <1>2, <1>3, <2>2, SMTT(60)
    <3>2. tries[order[next + 1]] = 0
      BY <2>2, <3>1, Zenon DEF TriedInv, Tried
    <3> QED
      BY <1>2, <1>5, <2>2, <3>1, <3>2, SMTT(60)
  <2> QED
    BY <2>1, <2>2, Zenon
<1>11. err' # "ErrNoBackends"
  BY <1>2, Zenon DEF TriedInv, Tried
<1> QED
  BY <1>1, <1>5, <1>6, <1>7, <1>8, <1>9, <1>10, <1>11, Zenon DEF TriedInv, Tried

\* Translating the receipts requests of a batch keeps their number.
LEMMA SameLength == \A b : Len(G!Translate(b)) = Len(reqs)
<1> SUFFICES ASSUME NEW b PROVE Len(G!Translate(b)) = Len(reqs)
  BY Zenon
<1>1. DOMAIN G!Translate(b) = DOMAIN reqs
  BY Zenon DEF G!Translate
<1> QED
  BY <1>1

\* A step of the handler, action by action.
LEMMA HandleTried ==
    ASSUME TriedInv, G!Handle
    PROVE  TriedInv'
<1>0. MaxRetries \in Nat /\ next \in Nat \ {0} /\ tries \in [Backends -> Nat] /\ G!AllBackends = Backends
  BY GroupAssumption, Zenon DEF TriedInv, Tried, G!AllBackends, G!Range, Range
<1>1. CASE G!OrderBackends
  <2>1. Ordered'
    BY <1>1, OrderStep, Zenon
  <2>2. /\ UNCHANGED <<next, tries, reqs, err>> /\ at = "order"
        /\ at' \in {"rewrite", "forward"}
    BY <1>1, Zenon DEF G!OrderBackends
  <2>3. next = 1 /\ \A b \in Backends : tries[b] = 0
    BY <2>2, Zenon DEF TriedInv, Tried
  <2>4. \A j \in DOMAIN order' : order'[j] \in Backends /\ ~(j < next)
    BY <2>1, <2>3 DEF Ordered
  <2>5. err' # "ErrNoBackends"
    BY <2>2, Zenon DEF TriedInv, Tried
  <2> QED
    BY <1>0, <2>1, <2>2, <2>3, <2>4, <2>5, SMTT(60) DEF TriedInv, Tried
<1>2. CASE G!OverwriteConsensusResponses
  <2>1. /\ UNCHANGED <<next, tries, order, preferred, err>> /\ at = "rewrite" /\ at' = "forward"
        /\ next = 1 /\ \A b \in Backends : tries[b] = 0
    BY <1>2, Zenon DEF G!OverwriteConsensusResponses, TriedInv, Tried
  <2>2. \A j \in DOMAIN order : order[j] \in Backends /\ ~(j < next)
    BY <2>1 DEF TriedInv, Ordered
  <2> QED
    BY <1>0, <2>1, <2>2 DEF TriedInv, Ordered, Tried
<1>3. ASSUME NEW b \in Backends, G!Attempt(b)
      PROVE  TriedInv'
  <2>1. CASE G!DoForward(b)
    <3>1. /\ G!At(b) /\ tries' = [tries EXCEPT ![b] = @ + 1] /\ reqs' = G!Translate(b)
          /\ UNCHANGED <<order, preferred, next, err>> /\ at' = "override"
      BY <2>1, Zenon DEF G!DoForward, G!Reaches
    <3> QED
      BY <3>1, SameLength, CallStep, Zenon
  <2>2. CASE G!FailedAttempt(b)
    <3>1. /\ G!At(b) /\ tries' = [tries EXCEPT ![b] = @ + 1] /\ reqs' = G!Translate(b)
          /\ UNCHANGED <<order, preferred, at, err>> /\ at = "forward"
          /\ next' = IF tries[b] >= MaxRetries THEN next + 1 ELSE next
      BY <2>2, Zenon DEF G!FailedAttempt, G!Reaches, G!At, G!IsLastTry
    <3>2. \/ next' = next /\ tries[b] < MaxRetries
          \/ next' = next + 1 /\ tries[b] >= MaxRetries
      BY <1>0, <3>1
    <3> QED
      BY <3>1, <3>2, SameLength, CallStep, Zenon
  <2>3. CASE G!UnexpectedJSONRPC(b)
    <3>1. /\ G!At(b) /\ tries' = [tries EXCEPT ![b] = @ + 1] /\ reqs' = G!Translate(b)
          /\ UNCHANGED <<order, preferred, at, err>> /\ at = "forward"
          /\ next' = next + 1 /\ Len(reqs) > 1
      BY <2>3, Zenon DEF G!UnexpectedJSONRPC, G!Reaches, G!At
    <3> QED
      BY <3>1, SameLength, CallStep, Zenon
  <2>4. CASE G!ResponseTooLarge(b) \/ G!InvalidTarget(b) \/ G!CantBeBatched(b)
    <3>1. /\ G!At(b) /\ tries' = [tries EXCEPT ![b] = @ + 1] /\ reqs' \in {reqs, G!Translate(b)}
          /\ UNCHANGED <<order, preferred, next>> /\ at' = "done"
          /\ err' \in {"ErrBackendResponseTooLarge", "ErrConsensusGetReceiptsInvalidTarget",
                       "ErrConsensusGetReceiptsCantBeBatched"}
      BY <2>4, Zenon DEF G!ResponseTooLarge, G!InvalidTarget, G!CantBeBatched, G!Abort, G!Reaches
    <3> QED
      BY <3>1, SameLength, CallStep, Zenon
  <2> QED
    BY <1>3, <2>1, <2>2, <2>3, <2>4, Zenon DEF G!Attempt
<1>4. CASE G!NoBackends
  BY <1>4, Zenon DEF G!NoBackends, G!Abort, TriedInv, Ordered, Tried
<1>5. CASE G!NothingToForward \/ G!OverrideResponses
  <2>1. /\ UNCHANGED <<order, preferred, next, tries, reqs, err>>
        /\ at \in {"forward", "override"} /\ at' \in {"override", "done"}
    BY <1>5, Zenon DEF G!NothingToForward, G!OverrideResponses
  <2> QED
    BY <2>1, Zenon DEF TriedInv, Ordered, Tried
<1> QED
  BY <1>0, <1>1, <1>2, <1>3, <1>4, <1>5, Zenon DEF G!Handle

\* Whatever happens, the tries are those of the order chosen at first.
LEMMA TriedInvariant == ForwardSpec => []TriedInv
<1>1. ForwardInit => TriedInv
  <2> SUFFICES ASSUME ForwardInit PROVE TriedInv
    BY Zenon
  <2>1. /\ at = "order" /\ order = <<>> /\ preferred = {} /\ next = 1 /\ err = "none"
        /\ tries = [b \in Backends |-> 0]
    BY GroupAssumption, Zenon DEF ForwardInit, G!Init, G!AllBackends, G!Range, Range
  <2> QED
    BY <2>1 DEF TriedInv, Ordered, Tried
<1>2. TriedInv /\ [ForwardNext]_allVars => TriedInv'
  <2> SUFFICES ASSUME TriedInv, [ForwardNext]_allVars PROVE TriedInv'
    BY Zenon
  <2>1. CASE Handler
    BY <2>1, HandleTried, Zenon DEF Handler
  <2>2. CASE Publish
    <3>1. UNCHANGED <<at, order, preferred, next, tries, reqs, err>>
      BY <2>2, Zenon DEF Publish, G!Publish, G!SetLatest, G!SetGroup
    <3> QED
      BY <3>1, Zenon DEF TriedInv, Ordered, Tried
  <2>3. CASE UNCHANGED groupVars
    BY <2>3, Zenon DEF groupVars, TriedInv, Ordered, Tried
  <2>4. CASE Return(finalResp')
    <3>1. /\ UNCHANGED <<order, preferred, next, tries, reqs>> /\ at' = "done"
          /\ err' \in {err, "multicall"}
      BY <2>4, Zenon DEF Return
    <3> QED
      BY <3>1, Zenon DEF TriedInv, Ordered, Tried
  <2> QED
    BY <2>1, <2>2, <2>3, <2>4, Zenon
    DEF ForwardNext, allVars, Begin, Closer, Receiver, Worker, WithReturn
<1> QED
  BY <1>1, <1>2, PTL DEF ForwardSpec

\* An unhealthy backend, or a degraded one of a consensus group, is called only
\* after every backend that was found in a better state has been called and has
\* failed (orderedBackendsForRequest, loadBalancedConsensusGroup): for any number
\* of backends and of retries.
THEOREM LastResortAlways == ForwardSpec => []LastResort
<1>1. TriedInv => LastResort
  <2> SUFFICES ASSUME TriedInv, NEW b \in Backends, b \notin preferred, tries[b] > 0, NEW c \in preferred
               PROVE  tries[c] > 0
    BY GroupAssumption, Zenon DEF LastResort, G!LastResort, G!AllBackends, G!Range, Range
  <2>0. MaxRetries \in Nat /\ next \in Nat /\ order \in Seq(Backends)
    BY GroupAssumption, Zenon DEF TriedInv, Ordered, Tried
  <2>1. PICK j \in DOMAIN order : order[j] = b
    BY Zenon DEF TriedInv, Tried
  <2>2. PICK i \in DOMAIN order : order[i] = c
    BY Zenon DEF TriedInv, Ordered
  <2>3. i \in Nat /\ j \in Nat
    BY <2>0
  <2>4. ~(j > next)
    BY <2>1 DEF TriedInv, Tried
  <2>5. ~(j < i) /\ i # j
    BY <2>1, <2>2, Zenon DEF TriedInv, Ordered
  <2>6. i < next
    BY <2>0, <2>3, <2>4, <2>5, SMTT(60)
  <2>7. tries[order[i]] = MaxRetries + 1 \/ tries[order[i]] > 0
    BY <2>2, <2>6, Zenon DEF TriedInv, Tried
  <2> QED
    BY <2>0, <2>2, <2>7
<1> QED
  BY <1>1, TriedInvariant, PTL

\* ErrNoBackends is returned only when every backend of the order has failed for
\* good (ForwardRequestToBackendGroup), for any number of backends and of retries.
THEOREM GivesUpWhenAllFailedAlways == ForwardSpec => []GivesUpWhenAllFailed
<1>1. TriedInv => GivesUpWhenAllFailed
  <2> SUFFICES ASSUME TriedInv, err = "ErrNoBackends", NEW b \in Range(order)
               PROVE  tries[b] = MaxRetries + 1 \/ (Len(reqs) > 1 /\ tries[b] > 0)
    BY Zenon DEF GivesUpWhenAllFailed, G!GivesUpWhenAllFailed, G!Range, Range
  <2>1. PICK j \in DOMAIN order : order[j] = b
    BY Zenon DEF Range
  <2>2. j < next
    BY DEF TriedInv, Ordered, Tried
  <2> QED
    BY <2>1, <2>2, Zenon DEF TriedInv, Tried
<1> QED
  BY <1>1, TriedInvariant, PTL

\* A backend is called at most once and max_retries times again for a request, batch
\* or not, whatever it answers and however often the others fail: with the order
\* fixed, this bounds the attempts of a request (Backend.Forward: i <= maxRetries).
TriesAreBounded == \A b \in Backends : tries[b] <= MaxRetries + 1

\* What a step does to the tries: a call adds one, to the backend whose turn it is
\* while it has attempts left.
LEMMA TriesStep ==
    ASSUME TriedInv, [ForwardNext]_allVars
    PROVE  \/ tries' = tries
           \/ \E b \in Backends : tries[b] <= MaxRetries /\ tries' = [tries EXCEPT ![b] = @ + 1]
<1>0. G!AllBackends = Backends
  BY GroupAssumption, Zenon DEF G!AllBackends, G!Range, Range
<1>1. ASSUME NEW b \in Backends, G!Attempt(b)
      PROVE  tries[b] <= MaxRetries /\ tries' = [tries EXCEPT ![b] = @ + 1]
  <2>1. G!At(b) /\ tries' = [tries EXCEPT ![b] = @ + 1]
    BY <1>1, Zenon DEF G!Attempt, G!DoForward, G!FailedAttempt, G!UnexpectedJSONRPC,
                       G!ResponseTooLarge, G!InvalidTarget, G!CantBeBatched, G!Reaches
  <2>2. at = "forward" /\ next <= Len(order) /\ order[next] = b
    BY <2>1, Zenon DEF G!At
  <2>3. next \in DOMAIN order
    BY <2>2 DEF TriedInv, Tried, Ordered
  <2> QED
    BY <2>1, <2>2, <2>3, Zenon DEF TriedInv, Tried
<1>2. CASE Handler
  <2>1. G!Handle
    BY <1>2, Zenon DEF Handler
  <2>2. CASE \E b \in Backends : G!Attempt(b)
    BY <1>1, <2>2, Zenon
  <2>3. CASE ~\E b \in Backends : G!Attempt(b)
    BY <1>0, <2>1, <2>3, Zenon DEF G!Handle, G!OrderBackends, G!OverwriteConsensusResponses,
       G!NoBackends, G!NothingToForward, G!OverrideResponses
  <2> QED
    BY <2>2, <2>3, Zenon
<1>3. CASE Publish
  BY <1>3, Zenon DEF Publish, G!Publish, G!SetLatest, G!SetGroup
<1>4. CASE UNCHANGED groupVars \/ Return(finalResp')
  BY <1>4, Zenon DEF groupVars, Return
<1> QED
  BY <1>2, <1>3, <1>4, Zenon
  DEF ForwardNext, allVars, Begin, Closer, Receiver, Worker, WithReturn

\* No backend gets more than max_retries + 1 calls of one request, for any number of
\* backends and of retries (Backend.Forward, ForwardRequestToBackendGroup).
THEOREM TriesAreBoundedAlways == ForwardSpec => []TriesAreBounded
<1>1. ForwardInit => TriesAreBounded
  <2> SUFFICES ASSUME ForwardInit PROVE TriesAreBounded
    BY Zenon
  <2>1. tries = [b \in Backends |-> 0] /\ MaxRetries \in Nat
    BY GroupAssumption, Zenon DEF ForwardInit, G!Init, G!AllBackends, G!Range, Range
  <2> QED
    BY <2>1 DEF TriesAreBounded
<1>2. TriedInv /\ TriesAreBounded /\ [ForwardNext]_allVars => TriesAreBounded'
  <2> SUFFICES ASSUME TriedInv, TriesAreBounded, [ForwardNext]_allVars, NEW c \in Backends
               PROVE  tries'[c] <= MaxRetries + 1
    BY Zenon DEF TriesAreBounded
  <2>1. tries \in [Backends -> Nat] /\ MaxRetries \in Nat /\ tries[c] <= MaxRetries + 1
    BY GroupAssumption, Zenon DEF TriedInv, Tried, TriesAreBounded
  <2> QED
    BY <2>1, TriesStep
<1> QED
  BY <1>1, <1>2, TriedInvariant, PTL DEF ForwardSpec

-----------------------------------------------------------------------------
(* Numbers in ascending order *)

\* Of the numbers with a property one is the least.
LEMMA LeastNumber ==
    ASSUME NEW S \in SUBSET Nat, S # {}
    PROVE  \E n \in S : \A m \in S : n <= m
<1> DEFINE To(n) == 1..n
           T == {To(n) : n \in S}
<1>1. \A n \in S : To(n) \in SUBSET Nat /\ IsFiniteSet(To(n))
  BY FS_Interval
<1>2. T \subseteq FiniteSubsetsOf(Nat) /\ T # {}
  BY <1>1, Zenon DEF FiniteSubsetsOf
<1>3. PICK x \in T : \A y \in T : ~(<<y, x>> \in StrictSubsetOrdering(Nat))
  BY <1>2, FS_StrictSubsetOrderingWellFounded, WFMin, Zenon
<1>4. PICK n \in S : x = To(n)
  BY <1>3, Zenon
<1>5. ASSUME NEW m \in S, m < n
      PROVE  FALSE
  <2>1. To(m) \subseteq To(n) /\ n \in To(n) /\ n \notin To(m)
    BY <1>5
  <2>2. <<To(m), To(n)>> \in StrictSubsetOrdering(Nat)
    BY <1>1, <2>1, Zenon DEF StrictSubsetOrdering
  <2> QED
    BY <1>3, <1>4, <2>2, Zenon
<1> QED
  BY <1>5

\* u has n numbers, each greater than the one before.
Increasing(u, n) ==
    /\ \A i \in 1..n : u[i] \in Nat \ {0}
    /\ \A i, j \in 1..n : i < j => u[i] < u[j]

\* Then none is less than its position.
LEMMA AtLeastItsPosition ==
    ASSUME NEW n \in Nat, NEW u, Increasing(u, n), NEW i \in 1..n
    PROVE  u[i] >= i
<1> DEFINE Bad == {k \in 1..n : u[k] < k}
<1>1. SUFFICES ASSUME Bad # {} PROVE FALSE
  BY DEF Increasing
<1>2. Bad \in SUBSET Nat
  OBVIOUS
<1>3. PICK k \in Bad : \A m \in Bad : k <= m
  BY <1>1, <1>2, LeastNumber, Zenon
<1>4. k \in 1..n /\ u[k] < k /\ u[k] \in Nat \ {0}
  BY Zenon DEF Increasing
<1>5. k - 1 \in 1..n /\ k - 1 < k
  BY <1>4
<1>6. u[k - 1] \in Nat /\ u[k - 1] < u[k]
  BY <1>4, <1>5, Zenon DEF Increasing
<1>7. k - 1 \in Bad
  BY <1>4, <1>5, <1>6
<1> QED
  BY <1>3, <1>4, <1>7, SMTT(60)

\* u has all the numbers up to m among its first n.
HasUpTo(u, n, m) == \A x \in 1..m : \E i \in 1..n : u[i] = x

\* Then they are its first m.
LEMMA FirstNumbers ==
    ASSUME NEW n \in Nat, NEW u, Increasing(u, n), NEW m \in Nat, HasUpTo(u, n, m)
    PROVE  m <= n /\ \A i \in 1..m : u[i] = i
<1> DEFINE Bad == {k \in 1..m : ~(k <= n /\ u[k] = k)}
<1>1. ASSUME Bad # {} PROVE FALSE
  <2>1. Bad \in SUBSET Nat
    OBVIOUS
  <2>2. PICK k \in Bad : \A l \in Bad : k <= l
    BY <1>1, <2>1, LeastNumber, Zenon
  <2>3. PICK j \in 1..n : u[j] = k
    BY Zenon DEF HasUpTo
  <2>4. u[j] >= j
    BY AtLeastItsPosition, Zenon
  <2>5. j <= k /\ k \in 1..m /\ ~(k <= n /\ u[k] = k)
    BY <2>3, <2>4, Zenon
  <2>6. j # k
    BY <2>3, <2>5
  <2>7. j < k /\ j \in 1..m /\ j \notin Bad
    BY <2>2, <2>5, <2>6
  <2> QED
    BY <2>3, <2>7, Zenon
<1>2. \A i \in 1..m : i <= n /\ u[i] = i
  BY <1>1, Zenon
<1>3. m <= n
  <2>1. CASE m = 0
    BY <2>1
  <2>2. CASE m # 0
    <3>1. m \in 1..m
      BY <2>2
    <3> QED
      BY <1>2, <3>1, Zenon
  <2> QED
    BY <2>1, <2>2, Zenon
<1> QED
  BY <1>2, <1>3, Zenon

\* A set of positions can be put in ascending order.
LEMMA AscendingExists ==
    ASSUME NEW n \in Nat, NEW P \in SUBSET (1..n)
    PROVE  \E s \in Injection(1..Cardinality(P), P) : \A i, j \in DOMAIN s : i < j => s[i] < s[j]
<1> DEFINE Upto(m) == {i \in P : i <= m}
           Lists(s, m) == /\ s \in Seq(Upto(m))
                          /\ \A i, j \in DOMAIN s : i < j => s[i] < s[j]
                          /\ \A x \in Upto(m) : \E i \in DOMAIN s : s[i] = x
           Bad == {m \in 0..n : ~ \E s : Lists(s, m)}
<1>0. \A x \in P : x \in Nat /\ 1 <= x /\ x <= n
  OBVIOUS
<1>1. ASSUME Bad # {} PROVE FALSE
  <2>1. Bad \in SUBSET Nat
    OBVIOUS
  <2>2. PICK m \in Bad : \A l \in Bad : m <= l
    BY <1>1, <2>1, LeastNumber, Zenon
  <2>3. m \in 0..n /\ ~ \E s : Lists(s, m)
    BY Zenon
  <2>4. CASE m = 0
    <3>1. Upto(m) = {}
      <4>1. \A x \in P : ~(x <= m)
        BY <1>0, <2>4
      <4> QED
        BY <4>1, Zenon
    <3>2. Lists(<<>>, m)
      BY <3>1
    <3> QED
      BY <2>3, <3>2, Zenon
  <2>5. CASE m # 0
    <3>1. m - 1 \in 0..n /\ ~(m <= m - 1)
      BY <2>3, <2>5
    <3>2. m - 1 \notin Bad
      BY <2>2, <3>1, Zenon
    <3>3. PICK s : Lists(s, m - 1)
      BY <3>1, <3>2, Zenon
    <3>4. CASE m \notin P
      <4>1. Upto(m) = Upto(m - 1)
        <5>1. \A x \in P : x <= m <=> x <= m - 1
          BY <1>0, <2>3, <3>4
        <5> QED
          BY <5>1, Zenon
      <4>2. Lists(s, m)
        BY <3>3, <4>1, Zenon
      <4> QED
        BY <2>3, <4>2, Zenon
    <3>5. CASE m \in P
      <4> DEFINE t == Append(s, m)
      <4>1. Upto(m) = Upto(m - 1) \union {m} /\ \A x \in Upto(m - 1) : x \in Nat /\ x < m
        <5>1. \A x \in P : (x <= m <=> x <= m - 1 \/ x = m) /\ (x <= m - 1 => x < m)
          BY <1>0, <2>3
        <5>2. m <= m
          BY <2>3
        <5> QED
          BY <1>0, <3>5, <5>1, <5>2, Zenon
      <4>2. /\ s \in Seq(Upto(m - 1)) /\ s \in Seq(Upto(m)) /\ Len(s) \in Nat /\ DOMAIN s = 1..Len(s)
            /\ \A i \in 1..Len(s) : s[i] \in Upto(m - 1)
        <5>1. s \in Seq(Upto(m - 1)) /\ Upto(m - 1) \subseteq Upto(m)
          BY <3>3, <4>1, Zenon
        <5> HIDE DEF Upto
        <5> QED
          BY <5>1
      <4>3. /\ t \in Seq(Upto(m)) /\ DOMAIN t = 1..(Len(s) + 1) /\ t[Len(s) + 1] = m
            /\ \A i \in 1..Len(s) : t[i] = s[i]
        BY <4>1, <4>2
      <4> HIDE DEF t
      <4>4. \A i, j \in DOMAIN t : i < j => t[i] < t[j]
        <5> SUFFICES ASSUME NEW i \in DOMAIN t, NEW j \in DOMAIN t, i < j PROVE t[i] < t[j]
          BY Zenon
        <5>1. i \in 1..Len(s) /\ t[i] = s[i] /\ s[i] \in Upto(m - 1)
          BY <4>2, <4>3
        <5>2. CASE j = Len(s) + 1
          BY <4>1, <4>3, <5>1, <5>2, Zenon
        <5>3. CASE j # Len(s) + 1
          <6>1. j \in 1..Len(s) /\ t[j] = s[j]
            BY <4>2, <4>3, <5>3
          <6> QED
            BY <3>3, <4>2, <5>1, <6>1, Zenon
        <5> QED
          BY <5>2, <5>3, Zenon
      <4>5. \A x \in Upto(m) : \E i \in DOMAIN t : t[i] = x
        <5> SUFFICES ASSUME NEW x \in Upto(m) PROVE \E i \in DOMAIN t : t[i] = x
          BY Zenon
        <5>1. CASE x = m
          BY <4>2, <4>3, <5>1
        <5>2. CASE x \in Upto(m - 1)
          <6>1. PICK i \in DOMAIN s : s[i] = x
            BY <3>3, <5>2, Zenon
          <6>2. i \in DOMAIN t /\ t[i] = x
            BY <4>2, <4>3, <6>1
          <6> QED
            BY <6>2, Zenon
        <5> QED
          BY <4>1, <5>1, <5>2, Zenon
      <4>6. Lists(t, m)
        BY <4>3, <4>4, <4>5, Zenon
      <4> QED
        BY <2>3, <4>6, Zenon
    <3> QED
      BY <3>4, <3>5, Zenon
  <2> QED
    BY <2>4, <2>5, Zenon
<1>2. PICK s : Lists(s, n)
  <2>1. n \in 0..n
    OBVIOUS
  <2> QED
    BY <1>1, <2>1, Zenon
<1>3. Upto(n) = P
  BY <1>0, Zenon
<1>4. /\ s \in [1..Len(s) -> P] /\ DOMAIN s = 1..Len(s) /\ Len(s) \in Nat
      /\ \A i, j \in DOMAIN s : i < j => s[i] < s[j]
      /\ \A x \in P : \E i \in DOMAIN s : s[i] = x
  BY <1>2, <1>3
<1>5. s \in Injection(1..Len(s), P) /\ s \in Surjection(1..Len(s), P)
  <2>1. ASSUME NEW i \in DOMAIN s, NEW j \in DOMAIN s, s[i] = s[j] PROVE i = j
    <3>1. s[i] \in Nat /\ s[j] \in Nat
      BY <1>0, <1>4, Zenon
    <3>2. ~(s[i] < s[j]) /\ ~(s[j] < s[i])
      BY <2>1, <3>1
    <3>3. ~(i < j) /\ ~(j < i)
      BY <1>4, <3>2, Zenon
    <3> QED
      BY <1>4, <3>3
  <2> QED
    BY <1>4, <2>1, Zenon DEF Injection, IsInjective, Surjection
<1>6. Cardinality(P) = Len(s)
  <2>1. IsFiniteSet(P)
    <3>1. IsFiniteSet(1..n)
      BY FS_Interval
    <3> QED
      BY <3>1, FS_Subset, Zenon
  <2>2. Cardinality(1..Len(s)) = Cardinality(P)
    BY <1>5, <2>1, FS_Injection, Zenon
  <2>3. Cardinality(1..Len(s)) = Len(s)
    <3> DEFINE k == Len(s)
    <3>1. k \in Nat
      BY <1>4, Zenon
    <3> HIDE DEF k
    <3>2. Cardinality(1..k) = k
      BY <3>1, FS_Interval, SMTT(40)
    <3> QED
      BY <3>2, Zenon DEF k
  <2> QED
    BY <2>2, <2>3, Zenon
<1> QED
  BY <1>4, <1>5, <1>6, Zenon

-----------------------------------------------------------------------------
(* The insertion of proxyd's own answers *)

\* What an insertion does to the positions.
LEMMA InsertOne ==
    ASSUME NEW V, NEW s \in Seq(V), NEW ov, ov.res \in V, ov.index \in 1..(Len(s) + 1)
    PROVE  LET t == G!Insert(s, ov) x == ov.index IN
           /\ t \in Seq(V) /\ Len(t) = Len(s) + 1 /\ t[x] = ov.res
           /\ \A i \in 1..(x - 1) : t[i] = s[i]
           /\ \A i \in (x + 1)..(Len(s) + 1) : t[i] = s[i - 1]
<1> DEFINE t == G!Insert(s, ov)
           x == ov.index
           v == ov.res
<1>1. CASE s = <<>>
  <2>1. t = <<v>> /\ x = 1 /\ Len(s) = 0
    BY <1>1 DEF G!Insert
  <2> HIDE DEF t, x, v
  <2>2. t \in Seq(V) /\ Len(t) = Len(s) + 1 /\ t[x] = v
    BY <2>1, SMTT(40) DEF v
  <2> QED
    BY <2>1, <2>2 DEF t, x, v
<1>2. CASE s # <<>>
  <2> DEFINE a == SubSeq(s, 1, x - 1)
             c == SubSeq(s, x, Len(s))
  <2>1. t = (a \o <<v>>) \o c
    BY <1>2, Zenon DEF G!Insert
  <2>2. x \in 1..(Len(s) + 1) /\ v \in V /\ Len(s) \in Nat
    OBVIOUS
  <2> HIDE DEF t, x, v
  <2>3. a \in Seq(V) /\ Len(a) = x - 1 /\ \A i \in 1..(x - 1) : a[i] = s[i]
    BY <2>2
  <2>4. c \in Seq(V) /\ Len(c) = Len(s) + 1 - x /\ \A i \in 1..(Len(s) + 1 - x) : c[i] = s[x + i - 1]
    BY <2>2
  <2> HIDE DEF a, c
  <2> DEFINE d == a \o <<v>>
  <2>5. d \in Seq(V) /\ Len(d) = x /\ d[x] = v /\ \A i \in 1..(x - 1) : d[i] = a[i]
    BY <2>2, <2>3
  <2> HIDE DEF d
  <2>6. t = d \o c
    BY <2>1, Zenon DEF d
  <2>7. /\ t \in Seq(V) /\ Len(t) = Len(s) + 1
        /\ \A i \in 1..x : t[i] = d[i]
        /\ \A i \in (x + 1)..(Len(s) + 1) : t[i] = c[i - x]
    <3>1. Len(d) \in Nat /\ Len(c) \in Nat /\ x \in Nat /\ Len(d) + Len(c) = Len(s) + 1
      BY <2>2, <2>4, <2>5, SMTT(60)
    <3>2. /\ t \in Seq(V) /\ Len(t) = Len(d) + Len(c)
          /\ \A i \in 1..Len(d) : t[i] = d[i]
          /\ \A i \in (Len(d) + 1)..(Len(d) + Len(c)) : t[i] = c[i - Len(d)]
      <4>1. c \in Seq(V) /\ d \in Seq(V)
        BY <2>4, <2>5, Zenon
      <4> QED
        BY <2>6, <4>1
    <3> QED
      BY <2>5, <3>1, <3>2, Zenon
  <2>8. t[x] = v /\ \A i \in 1..(x - 1) : t[i] = s[i]
    BY <2>2, <2>3, <2>5, <2>7, SMTT(60)
  <2>9. \A i \in (x + 1)..(Len(s) + 1) : t[i] = s[i - 1]
    <3> SUFFICES ASSUME NEW i \in (x + 1)..(Len(s) + 1) PROVE t[i] = s[i - 1]
      BY Zenon
    <3>1. i - x \in 1..(Len(s) + 1 - x) /\ x + (i - x) - 1 = i - 1
      BY <2>2
    <3> QED
      BY <2>4, <2>7, <3>1, Zenon
  <2> QED
    BY <2>7, <2>8, <2>9, Zenon DEF t, x, v
<1> QED
  BY <1>1, <1>2, Zenon

\* The answers rs and the first k of proxyd's own, in the order of the batch.
Merged(s, rs, ovs, k, n) ==
    /\ s \in Seq(Range(rs) \union {ovs[j].res : j \in DOMAIN ovs})
    /\ \A i \in DOMAIN s : s[i].id \in 1..n
    /\ \A i, j \in DOMAIN s : i < j => s[i].id < s[j].id
    /\ \A i \in DOMAIN s : \/ \E j \in DOMAIN rs : s[i] = rs[j]
                           \/ \E j \in 1..k : s[i] = ovs[j].res
    /\ \A j \in DOMAIN rs : \E i \in DOMAIN s : s[i] = rs[j]
    /\ \A j \in 1..k : \E i \in DOMAIN s : s[i] = ovs[j].res

\* The answers of a backend and proxyd's own: every position of a batch of n has
\* one, and both are in the order of the batch.
Parts(rs, ovs, n) ==
    /\ rs \in Seq(Range(rs)) /\ ovs \in Seq(Range(ovs))
    /\ \A j \in DOMAIN rs : rs[j].id \in 1..n
    /\ \A i, j \in DOMAIN rs : i < j => rs[i].id < rs[j].id
    /\ \A j \in DOMAIN ovs : ovs[j].index \in 1..n /\ ovs[j].res.id = ovs[j].index
    /\ \A i, j \in DOMAIN ovs : i < j => ovs[i].index < ovs[j].index
    /\ \A i \in DOMAIN rs, j \in DOMAIN ovs : rs[i].id # ovs[j].index
    /\ \A x \in 1..n : \/ \E j \in DOMAIN rs : rs[j].id = x
                       \/ \E j \in DOMAIN ovs : ovs[j].index = x

\* When the next of proxyd's own answers is inserted all answers before it are in
\* place.
LEMMA MergeStep ==
    ASSUME NEW n \in Nat, NEW rs, NEW ovs, Parts(rs, ovs, n),
           NEW k \in Nat, k + 1 \in DOMAIN ovs, NEW s, Merged(s, rs, ovs, k, n)
    PROVE  Merged(G!Insert(s, ovs[k + 1]), rs, ovs, k + 1, n)
<1> DEFINE V == Range(rs) \union {ovs[j].res : j \in DOMAIN ovs}
           x == ovs[k + 1].index
           v == ovs[k + 1].res
           u == [i \in 1..Len(s) |-> s[i].id]
           t == G!Insert(s, ovs[k + 1])
<1>1. /\ s \in Seq(V) /\ v \in V /\ x \in 1..n /\ v.id = x
      /\ \A i \in DOMAIN s : s[i].id \in 1..n
      /\ \A i, j \in DOMAIN s : i < j => s[i].id < s[j].id
  BY Zenon DEF Merged, Parts
<1>2. /\ Len(ovs) \in Nat /\ DOMAIN ovs = 1..Len(ovs) /\ k + 1 <= Len(ovs)
  <2>1. ovs \in Seq(Range(ovs))
    BY Zenon DEF Parts
  <2> QED
    BY <2>1, SMTT(40)
<1> HIDE DEF V, x, v, t
<1>3. Len(s) \in Nat /\ DOMAIN s = 1..Len(s)
  BY <1>1
<1>4. Increasing(u, Len(s))
  <2>1. \A i \in 1..Len(s) : u[i] = s[i].id
    BY Zenon
  <2> HIDE DEF u
  <2> QED
    <3>1. \A i \in 1..Len(s) : u[i] \in Nat \ {0}
      BY <1>1, <1>3, <2>1, SMTT(60)
    <3>2. \A i, j \in 1..Len(s) : i < j => u[i] < u[j]
      BY <1>1, <1>3, <2>1, Zenon
    <3> QED
      BY <3>1, <3>2, Zenon DEF Increasing
<1>5. \A j \in 1..k : j \in DOMAIN ovs /\ ovs[j].index < x
  <2> SUFFICES ASSUME NEW j \in 1..k PROVE j \in DOMAIN ovs /\ ovs[j].index < x
    BY Zenon
  <2>1. j \in DOMAIN ovs /\ j < k + 1
    BY <1>2
  <2> QED
    BY <2>1, Zenon DEF Parts, x
<1>6. \A y \in 1..(x - 1) : \E i \in 1..Len(s) : u[i] = y
  <2> SUFFICES ASSUME NEW y \in 1..(x - 1) PROVE \E i \in 1..Len(s) : s[i].id = y
    BY Zenon
  <2>1. y \in 1..n /\ y < x
    BY <1>1
  <2>2. CASE \E j \in DOMAIN rs : rs[j].id = y
    BY <1>3, <2>2, Zenon DEF Merged
  <2>3. ASSUME NEW j \in DOMAIN ovs, ovs[j].index = y
        PROVE  \E i \in 1..Len(s) : s[i].id = y
    <3>1. j # k + 1
      BY <1>1, <2>1, <2>3, SMTT(60) DEF x
    <3>2. ~(k + 1 < j)
      <4>1. k + 1 < j => x < y
        BY <2>3, Zenon DEF Parts, x
      <4> QED
        BY <1>1, <2>1, <4>1
    <3>3. j \in 1..k
      BY <1>2, <3>1, <3>2
    <3>4. ovs[j].res.id = y
      BY <2>3, Zenon DEF Parts
    <3> QED
      BY <1>3, <3>3, <3>4, Zenon DEF Merged
  <2> QED
    BY <2>1, <2>2, <2>3, Zenon DEF Parts
<1>7. x - 1 <= Len(s) /\ \A i \in 1..(x - 1) : u[i] = i
  <2>1. PICK m \in Nat : m = x - 1
    BY <1>1
  <2> HIDE DEF u
  <2>2. HasUpTo(u, Len(s), m)
    BY <1>6, <2>1, Zenon DEF HasUpTo
  <2>3. m <= Len(s) /\ \A i \in 1..m : u[i] = i
    BY <1>3, <1>4, <2>2, FirstNumbers, Zenon
  <2> QED
    BY <2>1, <2>3, Zenon
<1>8. \A i \in 1..(x - 1) : i \in DOMAIN s /\ s[i].id = i
  <2> SUFFICES ASSUME NEW i \in 1..(x - 1) PROVE i \in DOMAIN s /\ s[i].id = i
    BY Zenon
  <2>1. i \in 1..Len(s)
    BY <1>1, <1>3, <1>7
  <2> QED
    BY <1>3, <1>7, <2>1, Zenon
<1>9. \A i \in DOMAIN s : s[i].id # x
  <2> SUFFICES ASSUME NEW i \in DOMAIN s PROVE s[i].id # x
    BY Zenon
  <2>1. ASSUME NEW j \in DOMAIN rs, s[i] = rs[j]
        PROVE  s[i].id # x
    <3>1. rs[j].id # ovs[k + 1].index
      BY Zenon DEF Parts
    <3> QED
      BY <2>1, <3>1, Zenon DEF x
  <2>2. ASSUME NEW j \in 1..k, s[i] = ovs[j].res
        PROVE  s[i].id # x
    <3>1. s[i].id = ovs[j].index
      BY <1>5, <2>2, Zenon DEF Parts
    <3>2. ovs[j].index < x
      BY <1>5, Zenon
    <3> QED
      BY <1>1, <3>1, <3>2
  <2> QED
    BY <2>1, <2>2, Zenon DEF Merged
<1>10. \A i \in DOMAIN s : i >= x => s[i].id > x
  <2> SUFFICES ASSUME NEW i \in DOMAIN s, i >= x PROVE s[i].id > x
    BY Zenon
  <2>1. u[i] >= i
    <3> HIDE DEF u
    <3> QED
      BY <1>3, <1>4, AtLeastItsPosition, Zenon
  <2>2. u[i] = s[i].id
    BY <1>3, Zenon
  <2>3. s[i].id \in Nat /\ s[i].id # x
    BY <1>1, <1>9, SMTT(60)
  <2> QED
    BY <1>1, <1>3, <2>1, <2>2, <2>3, SMTT(60)
<1>11. /\ t \in Seq(V) /\ Len(t) = Len(s) + 1 /\ t[x] = v
       /\ \A i \in 1..(x - 1) : t[i] = s[i]
       /\ \A i \in (x + 1)..(Len(s) + 1) : t[i] = s[i - 1]
  <2>1. x \in 1..(Len(s) + 1)
    BY <1>1, <1>3, <1>7, SMTT(60)
  <2> QED
    BY <1>1, <2>1, InsertOne, SMTT(60) DEF t, x, v
<1>12. DOMAIN t = 1..(Len(s) + 1) /\ x \in DOMAIN t
  BY <1>1, <1>3, <1>7, <1>11, SMTT(60)
<1>13. \A i \in DOMAIN t : \/ i < x /\ i \in DOMAIN s /\ t[i] = s[i] /\ t[i].id < x
                           \/ i = x /\ t[i] = v
                           \/ i > x /\ i - 1 \in DOMAIN s /\ t[i] = s[i - 1] /\ t[i].id > x
  <2> SUFFICES ASSUME NEW i \in DOMAIN t
               PROVE  \/ i < x /\ i \in DOMAIN s /\ t[i] = s[i] /\ t[i].id < x
                      \/ i = x /\ t[i] = v
                      \/ i > x /\ i - 1 \in DOMAIN s /\ t[i] = s[i - 1] /\ t[i].id > x
    BY Zenon
  <2>1. CASE i < x
    <3>1. i \in 1..(x - 1)
      BY <1>1, <1>12, <2>1, SMTT(60)
    <3> QED
      BY <1>8, <1>11, <2>1, <3>1, Zenon
  <2>2. CASE i > x
    <3>1. i \in (x + 1)..(Len(s) + 1) /\ i - 1 \in DOMAIN s /\ i - 1 >= x
      BY <1>1, <1>3, <1>12, <2>2, SMTT(60)
    <3> QED
      BY <1>10, <1>11, <2>2, <3>1, Zenon
  <2> QED
    BY <1>1, <1>11, <1>12, <2>1, <2>2, SMTT(60)
<1>14. \A i \in DOMAIN s : \E j \in DOMAIN t : t[j] = s[i]
  <2> SUFFICES ASSUME NEW i \in DOMAIN s PROVE \E j \in DOMAIN t : t[j] = s[i]
    BY Zenon
  <2>1. CASE i < x
    <3>1. i \in DOMAIN t /\ i \in 1..(x - 1)
      BY <1>1, <1>3, <1>12, <2>1, SMTT(60)
    <3> QED
      BY <1>11, <3>1, Zenon
  <2>2. CASE i >= x
    <3>1. i + 1 \in DOMAIN t /\ i + 1 \in (x + 1)..(Len(s) + 1) /\ (i + 1) - 1 = i
      BY <1>1, <1>3, <1>12, <2>2, SMTT(60)
    <3>2. t[i + 1] = s[i]
      BY <1>11, <3>1, Zenon
    <3> QED
      BY <3>1, <3>2, Zenon
  <2> QED
    BY <1>1, <1>3, <2>1, <2>2, SMTT(60)
<1>15. \A i \in DOMAIN t : t[i].id \in 1..n
  BY <1>1, <1>13, Zenon
<1>16. \A i, j \in DOMAIN t : i < j => t[i].id < t[j].id
  <2> SUFFICES ASSUME NEW i \in DOMAIN t, NEW j \in DOMAIN t, i < j PROVE t[i].id < t[j].id
    BY Zenon
  <2>1. i \in Int /\ j \in Int /\ x \in Int /\ t[i].id \in Int /\ t[j].id \in Int
    BY <1>1, <1>12, <1>15
  <2>2. CASE i < x /\ j < x
    <3>1. i \in DOMAIN s /\ j \in DOMAIN s /\ t[i] = s[i] /\ t[j] = s[j]
      BY <1>13, <2>1, <2>2
    <3> QED
      BY <1>1, <3>1, Zenon
  <2>3. CASE i > x /\ j > x
    <3>1. i - 1 \in DOMAIN s /\ j - 1 \in DOMAIN s /\ t[i] = s[i - 1] /\ t[j] = s[j - 1]
      BY <1>13, <2>1, <2>3
    <3>2. i - 1 < j - 1
      BY <2>1
    <3> QED
      BY <1>1, <3>1, <3>2, Zenon
  <2>4. CASE i <= x /\ j >= x
    <3>1. t[i].id <= x /\ (i < x => t[i].id < x)
      BY <1>1, <1>13, <2>1, <2>4, SMTT(60)
    <3>2. t[j].id >= x /\ (j > x => t[j].id > x)
      BY <1>1, <1>13, <2>1, <2>4, SMTT(60)
    <3> QED
      BY <2>1, <2>4, <3>1, <3>2, SMTT(60)
  <2> QED
    BY <2>1, <2>2, <2>3, <2>4, SMTT(60)
<1>17. 1..(k + 1) = 1..k \union {k + 1}
  OBVIOUS
<1>18. \A i \in DOMAIN t : \/ \E j \in DOMAIN rs : t[i] = rs[j]
                           \/ \E j \in 1..(k + 1) : t[i] = ovs[j].res
  <2> SUFFICES ASSUME NEW i \in DOMAIN t
               PROVE  \/ \E j \in DOMAIN rs : t[i] = rs[j]
                      \/ \E j \in 1..(k + 1) : t[i] = ovs[j].res
    BY Zenon
  <2>1. (\E l \in DOMAIN s : t[i] = s[l]) \/ t[i] = ovs[k + 1].res
    BY <1>13, Zenon DEF v
  <2> QED
    <3>1. CASE t[i] = ovs[k + 1].res
      BY <1>17, <3>1, Zenon
    <3>2. ASSUME NEW l \in DOMAIN s, t[i] = s[l]
          PROVE  \/ \E j \in DOMAIN rs : t[i] = rs[j]
                 \/ \E j \in 1..(k + 1) : t[i] = ovs[j].res
      <4>1. (\E j \in DOMAIN rs : s[l] = rs[j]) \/ (\E j \in 1..k : s[l] = ovs[j].res)
        BY Zenon DEF Merged
      <4> QED
        BY <1>17, <3>2, <4>1, Zenon
    <3> QED
      BY <2>1, <3>1, <3>2, Zenon
<1>19. \A j \in DOMAIN rs : \E i \in DOMAIN t : t[i] = rs[j]
  <2>1. \A j \in DOMAIN rs : \E i \in DOMAIN s : s[i] = rs[j]
    BY Zenon DEF Merged
  <2> QED
    BY <1>14, <2>1, Zenon
<1>20. \A j \in 1..(k + 1) : \E i \in DOMAIN t : t[i] = ovs[j].res
  <2>1. \A j \in 1..k : \E i \in DOMAIN s : s[i] = ovs[j].res
    BY Zenon DEF Merged
  <2>2. t[x] = ovs[k + 1].res
    BY <1>11, Zenon DEF v
  <2> QED
    BY <1>12, <1>14, <1>17, <2>1, <2>2, ZenonT(60)
<1> QED
  BY <1>11, <1>15, <1>16, <1>18, <1>19, <1>20, Zenon DEF Merged, V, t

\* InsertAll is the last of the sequences its loop makes.
LEMMA InsertAllIsLast ==
    ASSUME NEW rs, NEW ovs, Len(ovs) \in Nat
    PROVE  \E f : /\ G!InsertAll(rs, ovs) = f[Len(ovs)]
                  /\ f[0] = rs
                  /\ \A k \in 1..Len(ovs) : f[k] = G!Insert(f[k - 1], ovs[k])
<1> DEFINE N == Len(ovs)
           Step(u, m) == [k \in 0..m |-> IF k = 0 THEN rs ELSE G!Insert(u[k - 1], ovs[k])]
           Has(m) == \E u : u = Step(u, m)
           Bad == {m \in 0..N : ~Has(m)}
           c == CHOOSE u : u = Step(u, N)
<1>1. Has(0)
  <2> DEFINE z == [k \in 0..0 |-> rs]
  <2>1. z = Step(z, 0)
    OBVIOUS
  <2> QED
    BY <2>1, Zenon
<1>2. ASSUME NEW m \in Nat, Has(m)
      PROVE  Has(m + 1)
  <2>1. PICK u : u = Step(u, m)
    BY <1>2, Zenon
  <2>2. \A k \in 0..m : u[k] = IF k = 0 THEN rs ELSE G!Insert(u[k - 1], ovs[k])
    BY <2>1, Zenon
  <2> DEFINE t == [k \in 0..(m + 1) |-> IF k = m + 1 THEN G!Insert(u[m], ovs[m + 1]) ELSE u[k]]
  <2>3. ASSUME NEW k \in 0..(m + 1)
        PROVE  t[k] = IF k = 0 THEN rs ELSE G!Insert(t[k - 1], ovs[k])
    <3>1. CASE k = m + 1
      <4>1. k # 0 /\ k - 1 = m /\ m \in 0..(m + 1) /\ m # m + 1
        BY <3>1
      <4>2. t[k] = G!Insert(u[m], ovs[m + 1]) /\ t[k - 1] = u[m]
        BY <3>1, <4>1, Zenon
      <4> HIDE DEF t
      <4> QED
        BY <3>1, <4>1, <4>2, Zenon
    <3>2. CASE k # m + 1
      <4>1. k \in 0..m /\ (k # 0 => k - 1 \in 0..(m + 1) /\ k - 1 # m + 1)
        BY <3>2
      <4>2. t[k] = u[k] /\ (k # 0 => t[k - 1] = u[k - 1])
        BY <3>2, <4>1, Zenon
      <4> HIDE DEF t
      <4> QED
        BY <2>2, <4>1, <4>2, Zenon
    <3> QED
      BY <3>1, <3>2, Zenon
  <2>4. t = Step(t, m + 1)
    <3>1. t = [k \in 0..(m + 1) |-> t[k]]
      BY Zenon
    <3> HIDE DEF t
    <3> QED
      BY <2>3, <3>1, Zenon
  <2> QED
    BY <2>4, Zenon
<1> HIDE DEF Has
<1>3. Has(N)
  <2> SUFFICES ASSUME Bad # {} PROVE FALSE
    OBVIOUS
  <2>1. Bad \in SUBSET Nat
    OBVIOUS
  <2>2. PICK m \in Bad : \A l \in Bad : m <= l
    BY <2>1, LeastNumber, Zenon
  <2>3. m \in 0..N /\ ~Has(m) /\ m # 0
    BY <1>1, <2>2, Zenon
  <2>4. m - 1 \in Nat /\ m - 1 \in 0..N /\ ~(m <= m - 1) /\ (m - 1) + 1 = m
    BY <2>3
  <2>5. Has(m - 1)
    BY <2>2, <2>4, Zenon
  <2> QED
    BY <1>2, <2>3, <2>4, <2>5, Zenon
<1>4. c = Step(c, N)
  BY <1>3, Zenon DEF Has
<1>5. G!InsertAll(rs, ovs) = c[N]
  BY Zenon DEF G!InsertAll
<1> HIDE DEF c
<1>6. c[0] = rs /\ \A k \in 1..N : c[k] = G!Insert(c[k - 1], ovs[k])
  <2>1. \A k \in 0..N : c[k] = IF k = 0 THEN rs ELSE G!Insert(c[k - 1], ovs[k])
    BY <1>4, Zenon
  <2>2. 0 \in 0..N /\ \A k \in 1..N : k \in 0..N /\ k # 0
    OBVIOUS
  <2> QED
    BY <2>1, <2>2, Zenon
<1> QED
  BY <1>5, <1>6, Zenon

\* With all of proxyd's own answers inserted every position of the batch has its
\* answer.
LEMMA InsertAllMerges ==
    ASSUME NEW n \in Nat, NEW rs, NEW ovs, Parts(rs, ovs, n)
    PROVE  LET t == G!InsertAll(rs, ovs) IN
           /\ Len(t) = n /\ DOMAIN t = 1..n
           /\ \A i \in 1..n : /\ t[i].id = i
                              /\ \/ \E j \in DOMAIN rs : t[i] = rs[j]
                                 \/ \E j \in DOMAIN ovs : t[i] = ovs[j].res
<1> DEFINE N == Len(ovs)
           t == G!InsertAll(rs, ovs)
           u == [i \in 1..Len(t) |-> t[i].id]
<1>1. rs \in Seq(Range(rs)) /\ ovs \in Seq(Range(ovs))
  BY Zenon DEF Parts
<1>2. N \in Nat /\ DOMAIN ovs = 1..N /\ DOMAIN rs = 1..Len(rs) /\ Len(rs) \in Nat
  BY <1>1
<1>3. PICK f : t = f[N] /\ f[0] = rs /\ \A k \in 1..N : f[k] = G!Insert(f[k - 1], ovs[k])
  <2>1. \E f : /\ G!InsertAll(rs, ovs) = f[Len(ovs)]
               /\ f[0] = rs
               /\ \A k \in 1..Len(ovs) : f[k] = G!Insert(f[k - 1], ovs[k])
    BY <1>2, InsertAllIsLast, SMTT(60)
  <2> QED
    BY <2>1, Zenon
<1> DEFINE Bad == {k \in 0..N : ~Merged(f[k], rs, ovs, k, n)}
<1>4. Merged(f[0], rs, ovs, 0, n)
  <2>1. rs \in Seq(Range(rs) \union {ovs[j].res : j \in DOMAIN ovs})
    <3> DEFINE R == Range(rs)
               O == {ovs[j].res : j \in DOMAIN ovs}
    <3> HIDE DEF R, O
    <3>1. rs \in Seq(R)
      BY <1>1, Zenon DEF R
    <3>2. rs \in Seq(R \union O)
      BY <3>1
    <3> QED
      BY <3>2, Zenon DEF R, O
  <2>2. 1..0 = {}
    OBVIOUS
  <2> QED
    BY <1>3, <2>1, <2>2, Zenon DEF Merged, Parts
<1>5. Merged(t, rs, ovs, N, n)
  <2> SUFFICES ASSUME Bad # {} PROVE FALSE
    <3>1. N \in 0..N
      BY <1>2
    <3> QED
      BY <1>3, <3>1, Zenon
  <2>1. Bad \in SUBSET Nat
    OBVIOUS
  <2>2. PICK m \in Bad : \A l \in Bad : m <= l
    BY <2>1, LeastNumber, Zenon
  <2>3. m \in 0..N /\ ~Merged(f[m], rs, ovs, m, n) /\ m # 0
    BY <1>4, <2>2, Zenon
  <2>4. m - 1 \in Nat /\ m - 1 \in 0..N /\ ~(m <= m - 1) /\ (m - 1) + 1 = m /\ m \in 1..N
    BY <1>2, <2>3
  <2>5. Merged(f[m - 1], rs, ovs, m - 1, n)
    BY <2>2, <2>4, Zenon
  <2>6. PICK k \in Nat : k = m - 1 /\ k + 1 = m
    BY <2>4, Zenon
  <2>7. Merged(G!Insert(f[k], ovs[k + 1]), rs, ovs, k + 1, n)
    BY <1>2, <2>4, <2>5, <2>6, MergeStep, Zenon
  <2>8. f[m] = G!Insert(f[k], ovs[k + 1])
    BY <1>3, <2>4, <2>6, Zenon
  <2> QED
    BY <2>3, <2>6, <2>7, <2>8, Zenon
<1> HIDE DEF t
<1>6. Len(t) \in Nat /\ DOMAIN t = 1..Len(t)
  <2> DEFINE V == Range(rs) \union {ovs[j].res : j \in DOMAIN ovs}
  <2>1. t \in Seq(V)
    BY <1>5, ZenonT(40) DEF Merged
  <2> HIDE DEF V
  <2> QED
    BY <2>1
<1>7. PICK l \in Nat : l = Len(t)
  BY <1>6, Zenon
<1>8. \A i \in 1..l : u[i] = t[i].id
  BY <1>7, Zenon
<1> HIDE DEF u
<1>9. Increasing(u, l)
  <2>1. \A i \in 1..l : u[i] \in Nat \ {0}
    <3>1. \A i \in 1..l : t[i].id \in 1..n
      BY <1>5, <1>6, <1>7, Zenon DEF Merged
    <3> QED
      BY <1>8, <3>1, SMTT(60)
  <2>2. \A i, j \in 1..l : i < j => u[i] < u[j]
    <3>1. \A i, j \in 1..l : i < j => t[i].id < t[j].id
      BY <1>5, <1>6, <1>7, Zenon DEF Merged
    <3> QED
      BY <1>8, <3>1, Zenon
  <2> QED
    BY <2>1, <2>2, Zenon DEF Increasing
<1>10. \A x \in 1..n : \E i \in 1..l : u[i] = x
  <2> SUFFICES ASSUME NEW x \in 1..n PROVE \E i \in 1..l : t[i].id = x
    BY <1>8, Zenon
  <2>1. CASE \E j \in DOMAIN rs : rs[j].id = x
    BY <1>5, <1>6, <1>7, <2>1, Zenon DEF Merged
  <2>2. ASSUME NEW j \in DOMAIN ovs, ovs[j].index = x
        PROVE  \E i \in 1..l : t[i].id = x
    <3>1. ovs[j].res.id = x
      BY <2>2, Zenon DEF Parts
    <3>2. \E i \in DOMAIN t : t[i] = ovs[j].res
      BY <1>2, <1>5, Zenon DEF Merged
    <3> QED
      BY <1>6, <1>7, <3>1, <3>2, Zenon
  <2> QED
    BY <2>1, <2>2, Zenon DEF Parts
<1>11. n <= l /\ \A i \in 1..n : u[i] = i
  <2>1. HasUpTo(u, l, n)
    BY <1>10, Zenon DEF HasUpTo
  <2> QED
    BY <1>9, <2>1, FirstNumbers, Zenon
<1>12. l = n
  <2> SUFFICES ASSUME l > n PROVE FALSE
    BY <1>11
  <2>1. l \in 1..l
    BY <1>7
  <2>2. u[l] >= l
    BY <1>9, <2>1, AtLeastItsPosition, Zenon
  <2>3. u[l] \in 1..n
    BY <1>5, <1>6, <1>7, <1>8, <2>1, Zenon DEF Merged
  <2> QED
    BY <2>2, <2>3, SMTT(60)
<1>13. \A i \in 1..n : t[i].id = i
  BY <1>8, <1>11, <1>12, Zenon
<1>14. \A i \in 1..n : \/ \E j \in DOMAIN rs : t[i] = rs[j]
                       \/ \E j \in DOMAIN ovs : t[i] = ovs[j].res
  BY <1>2, <1>5, <1>6, <1>7, <1>12, Zenon DEF Merged
<1> QED
  BY <1>6, <1>7, <1>12, <1>13, <1>14, Zenon DEF t

-----------------------------------------------------------------------------
(* The answers and the requests they belong to *)

IsRequest(r) == r = [id |-> r.id, method |-> r.method, at |-> r.at]

IsSeq(s) == s \in Seq(Range(s))

\* The positions that proxyd answers itself.
OwnPositions == {i \in DOMAIN asked : G!Consensus /\ asked[i].method \in G!Answered}

\* The ids are the positions in the batch.
Batch == IsSeq(asked) /\ \A i \in DOMAIN asked : IsRequest(asked[i]) /\ asked[i].id = i

\* Every position is either forwarded or answered by proxyd, and both in the
\* order of the batch.
Forwarded ==
    /\ IsSeq(reqs) /\ \A k \in DOMAIN reqs : IsRequest(reqs[k])
    /\ \A j, k \in DOMAIN reqs : j < k => reqs[j].id < reqs[k].id
    /\ \A k \in DOMAIN reqs : reqs[k].id \in DOMAIN asked \ OwnPositions
    /\ \A i \in DOMAIN asked \ OwnPositions : \E k \in DOMAIN reqs : reqs[k].id = i

Overridden ==
    /\ IsSeq(overridden)
    /\ \A j, k \in DOMAIN overridden : j < k => overridden[j].index < overridden[k].index
    /\ \A k \in DOMAIN overridden :
          /\ overridden[k].index \in OwnPositions
          /\ overridden[k].res.id = overridden[k].index /\ overridden[k].res.by = G!Proxyd
    /\ \A i \in OwnPositions : \E k \in DOMAIN overridden : overridden[k].index = i

\* What the backend has answered, before proxyd adds its own answers.
Responses ==
    /\ IsSeq(res) /\ DOMAIN res = DOMAIN reqs
    /\ \A k \in DOMAIN res : res[k].id = reqs[k].id /\ res[k].by \in Backends

AnswersInv ==
    /\ Batch
    /\ at \in {"order", "rewrite"} => reqs = asked /\ overridden = <<>>
    /\ at = "rewrite" => G!Consensus
    /\ at \notin {"order", "rewrite"} => Forwarded /\ Overridden
    /\ at \in {"order", "rewrite", "forward"} => res = <<>>
    /\ at = "override" => Responses
    /\ AnswersMatchRequests
    /\ pc # "start" => Multicalled

\* The length of a sequence is its domain.
LEMMA SeqFacts == \A s : IsSeq(s) => Len(s) \in Nat /\ DOMAIN s = 1..Len(s)
<1> SUFFICES ASSUME NEW s, IsSeq(s) PROVE Len(s) \in Nat /\ DOMAIN s = 1..Len(s)
  BY Zenon
<1> DEFINE R == Range(s)
<1>1. s \in Seq(R)
  BY Zenon DEF IsSeq
<1> HIDE DEF R
<1> QED
  BY <1>1

\* A function on 1..n is a sequence of length n.
LEMMA FunctionIsSeq ==
    ASSUME NEW n \in Nat, NEW f, DOMAIN f = 1..n, f = [i \in 1..n |-> f[i]]
    PROVE  IsSeq(f) /\ Len(f) = n
<1> DEFINE R == Range(f)
<1>1. \A i \in 1..n : f[i] \in R
  BY Zenon DEF Range
<1> HIDE DEF R
<1>2. f \in [1..n -> R]
  BY <1>1, Zenon
<1>3. f \in Seq(R) /\ Len(f) = n
  BY <1>2
<1> QED
  BY <1>3, Zenon DEF IsSeq, R

\* Ascending gives the positions of a set, all of them and in order.
LEMMA AscendingOf ==
    ASSUME NEW n \in Nat, NEW P \in SUBSET (1..n)
    PROVE  LET s == G!Ascending(P) IN
           /\ Len(s) \in Nat /\ DOMAIN s = 1..Len(s)
           /\ \A i \in DOMAIN s : s[i] \in P
           /\ \A i, j \in DOMAIN s : i < j => s[i] < s[j]
           /\ \A x \in P : \E i \in DOMAIN s : s[i] = x
<1> DEFINE s == G!Ascending(P)
<1>1. \E t \in G!Orders(P) : \A i, j \in DOMAIN t : i < j => t[i] < t[j]
  BY AscendingExists, OrdersAre, Zenon
<1>2. s \in G!Orders(P) /\ \A i, j \in DOMAIN s : i < j => s[i] < s[j]
  BY <1>1, Zenon DEF G!Ascending
<1> HIDE DEF s
<1>3. IsFiniteSet(P)
  <2>1. IsFiniteSet(1..n)
    BY FS_Interval
  <2> QED
    BY <2>1, FS_Subset, Zenon
<1>4. s \in Seq(P) /\ \A x \in P : \E i \in DOMAIN s : s[i] = x
  BY <1>2, <1>3, OrderOf, Zenon
<1>5. Len(s) \in Nat /\ DOMAIN s = 1..Len(s) /\ \A i \in DOMAIN s : s[i] \in P
  BY <1>4
<1> QED
  BY <1>2, <1>4, <1>5, Zenon DEF s

\* The answers of a backend, sorted, are under the ids of the requests, in order.
LEMMA SortedAnswers ==
    ASSUME IsSeq(reqs), \A j, k \in DOMAIN reqs : reqs[j].id = reqs[k].id => j = k,
           NEW b, NEW rs \in G!Answers(b)
    PROVE  LET s == G!SortBatchRPCResponse(rs) IN
           /\ IsSeq(s) /\ DOMAIN s = DOMAIN reqs
           /\ \A k \in DOMAIN s : s[k].id = reqs[k].id /\ s[k].by = b
<1> DEFINE r == Len(reqs)
           pos(e) == CHOOSE i \in DOMAIN reqs : reqs[i].id = e.id
           permuted == {[i \in DOMAIN rs |-> rs[p[i]]] : p \in G!Orders(DOMAIN rs)}
           s == G!SortBatchRPCResponse(rs)
<1>1. r \in Nat /\ DOMAIN reqs = 1..r
  BY SeqFacts, Zenon
<1>2. PICK p \in G!Orders(DOMAIN reqs) :
         rs = [i \in DOMAIN reqs |->
                 [id |-> reqs[p[i]].id, by |-> b, method |-> G!Translate(b)[p[i]].method,
                  enriched |-> reqs[p[i]].method = "receipts"]]
  BY Zenon DEF G!Answers
<1>3. DOMAIN rs = 1..r /\ \A i \in 1..r : rs[i].id = reqs[p[i]].id /\ rs[i].by = b
  BY <1>1, <1>2, Zenon
<1>4. IsFiniteSet(1..r) /\ Cardinality(1..r) = r
  BY <1>1, FS_Interval, SMTT(60)
<1>5. ASSUME NEW q \in G!Orders(1..r)
      PROVE  /\ DOMAIN q = 1..r /\ \A i \in 1..r : q[i] \in 1..r
             /\ \A i, j \in 1..r : q[i] = q[j] => i = j
             /\ \A x \in 1..r : \E i \in 1..r : q[i] = x
  <2> HIDE DEF r
  <2>1. /\ q \in Seq(1..r) /\ Len(q) = r
        /\ \A i, j \in DOMAIN q : q[i] = q[j] => i = j
        /\ \A x \in 1..r : \E i \in DOMAIN q : q[i] = x
    BY <1>4, <1>5, OrderOf, Zenon
  <2>2. DOMAIN q = 1..r /\ \A i \in 1..r : q[i] \in 1..r
    BY <2>1, SMTT(40)
  <2> QED
    BY <2>1, <2>2, Zenon
<1> HIDE DEF r
<1>6. /\ DOMAIN p = 1..r /\ \A i \in 1..r : p[i] \in 1..r
      /\ \A i, j \in 1..r : p[i] = p[j] => i = j
      /\ \A x \in 1..r : \E i \in 1..r : p[i] = x
  BY <1>1, <1>2, <1>5, Zenon
<1>7. \A i \in 1..r : pos(rs[i]) = p[i]
  <2> SUFFICES ASSUME NEW i \in 1..r PROVE pos(rs[i]) = p[i]
    BY Zenon
  <2>1. p[i] \in DOMAIN reqs /\ reqs[p[i]].id = rs[i].id
    BY <1>1, <1>3, <1>6, Zenon
  <2>2. \A k \in DOMAIN reqs : reqs[k].id = rs[i].id => k = p[i]
    BY <2>1, Zenon
  <2> QED
    BY <2>1, <2>2, Zenon
<1>7a. s = CHOOSE t \in permuted : \A i, j \in DOMAIN t : i < j => pos(t[i]) <= pos(t[j])
  BY Zenon DEF G!SortBatchRPCResponse
<1> HIDE DEF pos
<1>8. \E t \in permuted : \A i, j \in DOMAIN t : i < j => pos(t[i]) <= pos(t[j])
  <2> DEFINE q == [i \in 1..r |-> CHOOSE j \in 1..r : p[j] = i]
             t == [i \in DOMAIN rs |-> rs[q[i]]]
  <2>1. \A i \in 1..r : q[i] \in 1..r /\ p[q[i]] = i
    BY <1>6, Zenon
  <2>2. q \in [1..r -> 1..r] /\ \A i, j \in DOMAIN q : q[i] = q[j] => i = j
    <3>1. \A i \in 1..r : (CHOOSE j \in 1..r : p[j] = i) \in 1..r
      BY <1>6, Zenon
    <3>2. q \in [1..r -> 1..r]
      BY <3>1, Zenon
    <3> HIDE DEF q
    <3>3. \A i, j \in 1..r : q[i] = q[j] => i = j
      BY <2>1, Zenon
    <3> QED
      BY <3>2, <3>3, Zenon
  <2>3. q \in G!Orders(1..r)
    BY <1>4, <2>2, OrdersAre, Zenon DEF Injection, IsInjective
  <2> HIDE DEF q
  <2>4. t \in permuted
    BY <1>3, <2>3, Zenon
  <2>5. DOMAIN t = 1..r /\ \A i \in 1..r : pos(t[i]) = i
    BY <1>3, <1>7, <2>1, Zenon
  <2>6. \A i, j \in DOMAIN t : i < j => pos(t[i]) <= pos(t[j])
    <3> HIDE DEF t
    <3> QED
      BY <1>1, <2>5
  <2> QED
    BY <2>4, <2>6, Zenon
<1>9. s \in permuted /\ \A i, j \in DOMAIN s : i < j => pos(s[i]) <= pos(s[j])
  <2> HIDE DEF permuted, s
  <2> QED
    BY <1>7a, <1>8, Zenon
<1> HIDE DEF s
<1>10. PICK q \in G!Orders(DOMAIN rs) : s = [i \in DOMAIN rs |-> rs[q[i]]]
  BY <1>9, Zenon
<1>10a. q \in G!Orders(1..r)
  BY <1>3, Zenon
<1>11. /\ \A i \in 1..r : q[i] \in 1..r
       /\ \A i, j \in 1..r : q[i] = q[j] => i = j
       /\ \A x \in 1..r : \E i \in 1..r : q[i] = x
  BY <1>5, <1>10a, Zenon
<1>12. DOMAIN s = 1..r /\ s = [i \in 1..r |-> s[i]] /\ \A i \in 1..r : s[i] = rs[q[i]]
  <2>1. DOMAIN s = DOMAIN rs /\ \A i \in DOMAIN rs : s[i] = rs[q[i]]
    BY <1>10, Zenon
  <2>2. s = [i \in DOMAIN s |-> s[i]]
    BY <1>10, Zenon
  <2> QED
    BY <1>3, <2>1, <2>2, Zenon
<1> DEFINE u == [i \in 1..r |-> p[q[i]]]
<1>13. \A i \in 1..r : u[i] = p[q[i]] /\ u[i] \in 1..r /\ u[i] = pos(s[i])
  BY <1>6, <1>7, <1>11, <1>12, Zenon
<1>14. \A i, j \in 1..r : u[i] = u[j] => i = j
  <2> SUFFICES ASSUME NEW i \in 1..r, NEW j \in 1..r, u[i] = u[j] PROVE i = j
    BY Zenon
  <2>1. q[i] \in 1..r /\ q[j] \in 1..r /\ p[q[i]] = p[q[j]]
    BY <1>11, <1>13, Zenon
  <2>2. q[i] = q[j]
    BY <1>6, <2>1, Zenon
  <2> QED
    BY <1>11, <2>2, Zenon
<1> HIDE DEF u
<1>15. \A x \in 1..r : \E i \in 1..r : u[i] = x
  <2> SUFFICES ASSUME NEW x \in 1..r PROVE \E i \in 1..r : u[i] = x
    BY Zenon
  <2>1. PICK j \in 1..r : p[j] = x
    BY <1>6, Zenon
  <2>2. PICK i \in 1..r : q[i] = j
    BY <1>11, Zenon
  <2>3. u[i] = x
    BY <1>13, <2>1, <2>2, Zenon
  <2> QED
    BY <2>3, Zenon
<1>16. Increasing(u, r)
  <2>1. \A i \in 1..r : u[i] \in Nat \ {0}
    BY <1>1, <1>13, SMTT(60)
  <2>2. ASSUME NEW i \in 1..r, NEW j \in 1..r, i < j
        PROVE  u[i] < u[j]
    <3>1. pos(s[i]) <= pos(s[j])
      BY <1>9, <1>12, <2>2, Zenon
    <3>2. u[i] <= u[j] /\ u[i] # u[j]
      BY <1>1, <1>13, <1>14, <2>2, <3>1, SMTT(60)
    <3> QED
      BY <2>1, <3>2
  <2> QED
    BY <2>1, <2>2, Zenon DEF Increasing
<1>17. \A i \in 1..r : u[i] = i
  <2>1. r \in Nat
    BY <1>1, Zenon
  <2>2. HasUpTo(u, r, r)
    BY <1>15, Zenon DEF HasUpTo
  <2> QED
    BY <1>16, <2>1, <2>2, FirstNumbers, ZenonT(60)
<1>18. \A i \in 1..r : s[i].id = reqs[i].id /\ s[i].by = b
  <2> SUFFICES ASSUME NEW i \in 1..r PROVE s[i].id = reqs[i].id /\ s[i].by = b
    BY Zenon
  <2>1. s[i] = rs[q[i]] /\ q[i] \in 1..r
    BY <1>11, <1>12, Zenon
  <2>2. p[q[i]] = i
    BY <1>13, <1>17, Zenon
  <2>3. rs[q[i]].id = reqs[p[q[i]]].id /\ rs[q[i]].by = b
    BY <1>3, <2>1, Zenon
  <2> QED
    BY <2>1, <2>2, <2>3, ZenonT(40)
<1>19. IsSeq(s)
  BY <1>1, <1>12, FunctionIsSeq, Zenon
<1> QED
  BY <1>1, <1>12, <1>18, <1>19, Zenon DEF s

\* The requests that proxyd answers itself are taken out of the batch, and the
\* others keep their ids and their order.
LEMMA OverwriteSplits ==
    ASSUME Batch, G!Consensus, G!OverwriteConsensusResponses, UNCHANGED strategy
    PROVE  Forwarded' /\ Overridden'
<1> DEFINE n == Len(asked)
           K == {i \in DOMAIN asked : asked[i].method \notin G!Answered}
           O == {i \in DOMAIN asked : asked[i].method \in G!Answered}
           kept == G!Ascending(K)
           own == G!Ascending(O)
<1>1. n \in Nat /\ DOMAIN asked = 1..n
  BY SeqFacts, Zenon DEF Batch
<1>2. K \in SUBSET (1..n) /\ O \in SUBSET (1..n)
  BY <1>1, Zenon
<1>3. /\ overridden' = [k \in DOMAIN own |->
                           [index |-> own[k],
                            res |-> [id |-> asked[own[k]].id, by |-> G!Proxyd,
                                     method |-> asked[own[k]].method, enriched |-> FALSE]]]
      /\ reqs' = [k \in DOMAIN kept |-> [asked[kept[k]] EXCEPT !.at = tip]]
      /\ asked' = asked
  BY Zenon DEF G!OverwriteConsensusResponses, G!Own, G!Kept, G!Rewrite
<1>4. OwnPositions' = O /\ (DOMAIN asked)' = 1..n /\ (1..n) \ O = K
  BY <1>1, <1>3, Zenon DEF OwnPositions, G!Consensus
<1>4a. \A i \in 1..n : IsRequest(asked[i]) /\ asked[i].id = i
  BY <1>1, Zenon DEF Batch
<1> HIDE DEF n, K, O
<1>5. /\ Len(kept) \in Nat /\ DOMAIN kept = 1..Len(kept)
      /\ \A i \in DOMAIN kept : kept[i] \in K
      /\ \A i, j \in DOMAIN kept : i < j => kept[i] < kept[j]
      /\ \A x \in K : \E i \in DOMAIN kept : kept[i] = x
  BY <1>1, <1>2, AscendingOf, Zenon
<1>6. /\ Len(own) \in Nat /\ DOMAIN own = 1..Len(own)
      /\ \A i \in DOMAIN own : own[i] \in O
      /\ \A i, j \in DOMAIN own : i < j => own[i] < own[j]
      /\ \A x \in O : \E i \in DOMAIN own : own[i] = x
  BY <1>1, <1>2, AscendingOf, Zenon
<1> HIDE DEF kept, own
<1>7. Forwarded'
  <2> DEFINE rq == reqs'
  <2>1. rq = [k \in 1..Len(kept) |-> [asked[kept[k]] EXCEPT !.at = tip]]
    BY <1>3, <1>5, Zenon
  <2> HIDE DEF rq
  <2>2. DOMAIN rq = 1..Len(kept) /\ rq = [k \in 1..Len(kept) |-> rq[k]]
    BY <2>1, Zenon
  <2>3. IsSeq(rq)
    BY <1>5, <2>2, FunctionIsSeq, Zenon
  <2>4. \A k \in DOMAIN rq : IsRequest(rq[k]) /\ rq[k].id = kept[k]
    <3> SUFFICES ASSUME NEW k \in DOMAIN rq PROVE IsRequest(rq[k]) /\ rq[k].id = kept[k]
      BY Zenon
    <3>1. kept[k] \in 1..n
      BY <1>2, <1>5, <2>2, Zenon
    <3>2. PICK a : a = asked[kept[k]] /\ IsRequest(a) /\ a.id = kept[k]
      BY <1>4a, <3>1, Zenon
    <3>3. rq[k] = [a EXCEPT !.at = tip]
      BY <2>1, <2>2, <3>2, Zenon
    <3>4. IsRequest([a EXCEPT !.at = tip]) /\ [a EXCEPT !.at = tip].id = a.id
      BY <3>2 DEF IsRequest
    <3> QED
      BY <3>2, <3>3, <3>4, Zenon
  <2>5. ASSUME NEW j \in DOMAIN rq, NEW k \in DOMAIN rq, j < k
        PROVE  rq[j].id < rq[k].id
    <3>1. kept[j] < kept[k]
      BY <1>5, <2>2, <2>5, Zenon
    <3> QED
      BY <2>4, <3>1, Zenon
  <2>6. \A k \in DOMAIN rq : rq[k].id \in K
    BY <1>5, <2>2, <2>4, Zenon
  <2>7. \A i \in K : \E k \in DOMAIN rq : rq[k].id = i
    BY <1>5, <2>2, <2>4, Zenon
  <2> QED
    BY <1>4, <2>3, <2>4, <2>5, <2>6, <2>7, Zenon DEF Forwarded, rq
<1>8. Overridden'
  <2> DEFINE ov == overridden'
  <2>1. ov = [k \in 1..Len(own) |->
                 [index |-> own[k],
                  res |-> [id |-> asked[own[k]].id, by |-> G!Proxyd,
                           method |-> asked[own[k]].method, enriched |-> FALSE]]]
    BY <1>3, <1>6, ZenonT(40)
  <2> HIDE DEF ov
  <2>2. DOMAIN ov = 1..Len(own) /\ ov = [k \in 1..Len(own) |-> ov[k]]
    BY <2>1, Zenon
  <2>3. IsSeq(ov)
    BY <1>6, <2>2, FunctionIsSeq, Zenon
  <2>4. \A k \in DOMAIN ov : /\ ov[k].index = own[k] /\ ov[k].res.by = G!Proxyd
                             /\ ov[k].res.id = asked[own[k]].id
    BY <2>1, <2>2, Zenon
  <2>5. \A k \in DOMAIN ov : ov[k].res.id = ov[k].index
    <3>1. \A k \in DOMAIN ov : own[k] \in 1..n
      BY <1>2, <1>6, <2>2, Zenon
    <3> QED
      BY <1>4a, <2>4, <3>1, ZenonT(60)
  <2>6. ASSUME NEW j \in DOMAIN ov, NEW k \in DOMAIN ov, j < k
        PROVE  ov[j].index < ov[k].index
    <3>1. own[j] < own[k]
      BY <1>6, <2>2, <2>6, Zenon
    <3>2. ov[j].index = own[j] /\ ov[k].index = own[k]
      BY <2>4, Zenon
    <3> QED
      BY <3>1, <3>2, Zenon
  <2>7. \A k \in DOMAIN ov : ov[k].index \in O
    BY <1>6, <2>2, <2>4, Zenon
  <2>8. ASSUME NEW i \in O
        PROVE  \E k \in DOMAIN ov : ov[k].index = i
    <3>1. PICK k \in DOMAIN own : own[k] = i
      BY <1>6, Zenon
    <3>2. k \in DOMAIN ov /\ ov[k].index = i
      BY <1>6, <2>2, <2>4, <3>1, Zenon
    <3> QED
      BY <3>2, Zenon
  <2> QED
    BY <1>4, <2>3, <2>4, <2>5, <2>6, <2>7, <2>8, Zenon DEF Overridden, ov
<1> QED
  BY <1>7, <1>8, Zenon

\* Without consensus all requests are forwarded as they are.
LEMMA PlainSplits ==
    ASSUME Batch, ~G!Consensus, reqs = asked, overridden = <<>>
    PROVE  Forwarded /\ Overridden
<1>1. OwnPositions = {}
  BY Zenon DEF OwnPositions
<1>2. IsSeq(asked) /\ \A i \in DOMAIN asked : IsRequest(asked[i]) /\ asked[i].id = i
  BY Zenon DEF Batch
<1>3. Forwarded
  <2>1. \A j, k \in DOMAIN asked : j < k => asked[j].id < asked[k].id
    BY <1>2, Zenon
  <2> QED
    BY <1>1, <1>2, <2>1, Zenon DEF Forwarded
<1>4. IsSeq(<<>>) /\ DOMAIN <<>> = {}
  BY DEF IsSeq
<1> QED
  BY <1>1, <1>3, <1>4, Zenon DEF Overridden

\* doForward changes no id.
LEMMA TranslateKeeps ==
    ASSUME Forwarded, NEW b, reqs' = G!Translate(b), UNCHANGED <<asked, strategy>>
    PROVE  /\ Forwarded' /\ DOMAIN reqs' = DOMAIN reqs
           /\ \A k \in DOMAIN reqs : reqs'[k].id = reqs[k].id
<1> DEFINE rq == reqs'
<1>1. rq = [i \in DOMAIN reqs |->
              IF reqs[i].method = "receipts" THEN [reqs[i] EXCEPT !.method = ReceiptsTarget[b]]
              ELSE reqs[i]]
  BY Zenon DEF G!Translate
<1>2. OwnPositions' = OwnPositions
  BY Zenon DEF OwnPositions, G!Consensus
<1> HIDE DEF rq
<1>3. DOMAIN rq = DOMAIN reqs /\ rq = [i \in DOMAIN reqs |-> rq[i]]
  BY <1>1, Zenon
<1>4. Len(reqs) \in Nat /\ DOMAIN reqs = 1..Len(reqs)
  BY SeqFacts, Zenon DEF Forwarded
<1>5. IsSeq(rq)
  BY <1>3, <1>4, FunctionIsSeq, Zenon
<1>6. \A k \in DOMAIN reqs : IsRequest(rq[k]) /\ rq[k].id = reqs[k].id
  <2> SUFFICES ASSUME NEW k \in DOMAIN reqs PROVE IsRequest(rq[k]) /\ rq[k].id = reqs[k].id
    BY Zenon
  <2>1. PICK a : a = reqs[k] /\ IsRequest(a)
    BY Zenon DEF Forwarded
  <2>2. rq[k] = a \/ rq[k] = [a EXCEPT !.method = ReceiptsTarget[b]]
    BY <1>1, <2>1, Zenon
  <2>3. \A v : IsRequest([a EXCEPT !.method = v]) /\ [a EXCEPT !.method = v].id = a.id
    BY <2>1 DEF IsRequest
  <2> QED
    BY <2>1, <2>2, <2>3, Zenon
<1>7. Forwarded'
  <2>1. /\ \A j, k \in DOMAIN reqs : j < k => reqs[j].id < reqs[k].id
        /\ \A k \in DOMAIN reqs : reqs[k].id \in DOMAIN asked \ OwnPositions
        /\ \A i \in DOMAIN asked \ OwnPositions : \E k \in DOMAIN reqs : reqs[k].id = i
    BY Zenon DEF Forwarded
  <2>2. \A j, k \in DOMAIN rq : j < k => rq[j].id < rq[k].id
    BY <1>3, <1>6, <2>1, Zenon
  <2>3. \A k \in DOMAIN rq : rq[k].id \in DOMAIN asked \ OwnPositions
    BY <1>3, <1>6, <2>1, Zenon
  <2>4. \A i \in DOMAIN asked \ OwnPositions : \E k \in DOMAIN rq : rq[k].id = i
    BY <1>3, <1>6, <2>1, Zenon
  <2>5. \A k \in DOMAIN rq : IsRequest(rq[k])
    BY <1>3, <1>6, Zenon
  <2> QED
    BY <1>2, <1>5, <2>2, <2>3, <2>4, <2>5, Zenon DEF Forwarded, rq
<1> QED
  BY <1>3, <1>6, <1>7, Zenon DEF rq

\* With proxyd's own answers inserted the answers match the requests.
LEMMA InsertedMatch ==
    ASSUME Batch, Forwarded, Overridden, Responses, res' = G!InsertAll(res, overridden),
           UNCHANGED <<asked, strategy>>
    PROVE  AnswersMatchRequests'
<1> DEFINE n == Len(asked)
           t == res'
<1>1. n \in Nat /\ DOMAIN asked = 1..n
  BY SeqFacts, Zenon DEF Batch
<1>2. \A j \in DOMAIN res : /\ j \in DOMAIN reqs /\ res[j].id = reqs[j].id /\ res[j].by \in Backends
                            /\ res[j].id \in DOMAIN asked \ OwnPositions
  BY Zenon DEF Responses, Forwarded
<1>3. Parts(res, overridden, n)
  <2>1. res \in Seq(Range(res)) /\ overridden \in Seq(Range(overridden))
    BY Zenon DEF Responses, Overridden, IsSeq
  <2>2. \A i, j \in DOMAIN res : i < j => res[i].id < res[j].id
    <3>1. \A i, j \in DOMAIN reqs : i < j => reqs[i].id < reqs[j].id
      BY Zenon DEF Forwarded
    <3> QED
      BY <1>2, <3>1, Zenon
  <2>3. \A j \in DOMAIN overridden : /\ overridden[j].index \in OwnPositions
                                     /\ overridden[j].res.id = overridden[j].index
    BY Zenon DEF Overridden
  <2>4. OwnPositions \subseteq DOMAIN asked
    BY Zenon DEF OwnPositions
  <2>5. \A x \in DOMAIN asked \ OwnPositions : \E j \in DOMAIN res : res[j].id = x
    <3>1. DOMAIN res = DOMAIN reqs
      BY Zenon DEF Responses
    <3>2. \A x \in DOMAIN asked \ OwnPositions : \E j \in DOMAIN reqs : reqs[j].id = x
      BY Zenon DEF Forwarded
    <3> QED
      BY <1>2, <3>1, <3>2, Zenon
  <2>6. \A x \in OwnPositions : \E j \in DOMAIN overridden : overridden[j].index = x
    BY Zenon DEF Overridden
  <2>7. \A i \in DOMAIN res, j \in DOMAIN overridden : res[i].id # overridden[j].index
    BY <1>2, <2>3, Zenon
  <2>8. \A i, j \in DOMAIN overridden : i < j => overridden[i].index < overridden[j].index
    BY Zenon DEF Overridden
  <2>9. \A x \in 1..n : \/ \E j \in DOMAIN res : res[j].id = x
                        \/ \E j \in DOMAIN overridden : overridden[j].index = x
    BY <1>1, <2>5, <2>6, Zenon
  <2>10. \A j \in DOMAIN res : res[j].id \in 1..n
    BY <1>1, <1>2, Zenon
  <2>11. \A j \in DOMAIN overridden : /\ overridden[j].index \in 1..n
                                      /\ overridden[j].res.id = overridden[j].index
    BY <1>1, <2>3, <2>4, Zenon
  <2> HIDE DEF n
  <2> QED
    BY <2>1, <2>2, <2>7, <2>8, <2>9, <2>10, <2>11, Zenon DEF Parts
<1> HIDE DEF n
<1>4. /\ Len(t) = n
      /\ \A i \in 1..n : /\ t[i].id = i
                         /\ \/ \E j \in DOMAIN res : t[i] = res[j]
                            \/ \E j \in DOMAIN overridden : t[i] = overridden[j].res
  <2> DEFINE z == G!InsertAll(res, overridden)
  <2>1. /\ Len(z) = n
        /\ \A i \in 1..n : /\ z[i].id = i
                           /\ \/ \E j \in DOMAIN res : z[i] = res[j]
                              \/ \E j \in DOMAIN overridden : z[i] = overridden[j].res
    BY <1>1, <1>3, InsertAllMerges
  <2>2. t = z
    BY Zenon
  <2> HIDE DEF t, z
  <2> QED
    BY <2>1, <2>2, Zenon
<1> HIDE DEF t
<1>5. \A i \in 1..n : (t[i].by = G!Proxyd) = (G!Consensus /\ asked[i].method \in G!Answered)
  <2> SUFFICES ASSUME NEW i \in 1..n
               PROVE  (t[i].by = G!Proxyd) = (G!Consensus /\ asked[i].method \in G!Answered)
    BY Zenon
  <2>0. i \in OwnPositions <=> G!Consensus /\ asked[i].method \in G!Answered
    BY <1>1, Zenon DEF OwnPositions
  <2>1. ASSUME NEW j \in DOMAIN res, t[i] = res[j]
        PROVE  (t[i].by = G!Proxyd) = (G!Consensus /\ asked[i].method \in G!Answered)
    <3>1. t[i].by \in Backends /\ i \notin OwnPositions
      BY <1>2, <1>4, <2>1, ZenonT(60)
    <3>2. t[i].by # G!Proxyd
      BY <3>1, GroupAssumption, Zenon
    <3> QED
      BY <2>0, <3>1, <3>2, Zenon
  <2>2. ASSUME NEW j \in DOMAIN overridden, t[i] = overridden[j].res
        PROVE  (t[i].by = G!Proxyd) = (G!Consensus /\ asked[i].method \in G!Answered)
    <3>1. /\ overridden[j].index \in OwnPositions
          /\ overridden[j].res.id = overridden[j].index /\ overridden[j].res.by = G!Proxyd
      BY Zenon DEF Overridden
    <3>2. i \in OwnPositions /\ t[i].by = G!Proxyd
      BY <1>4, <2>2, <3>1, Zenon
    <3> QED
      BY <2>0, <3>2, Zenon
  <2> QED
    BY <1>4, <2>1, <2>2, Zenon
<1>6. \A i \in 1..n : asked[i].id = i
  BY <1>1, Zenon DEF Batch
<1>7. /\ Len(t) = Len(asked)
      /\ \A i \in DOMAIN asked :
            /\ t[i].id = asked[i].id
            /\ (t[i].by = G!Proxyd) = (G!Consensus /\ asked[i].method \in G!Answered)
  BY <1>1, <1>4, <1>5, <1>6, Zenon DEF n
<1> QED
  BY <1>7, Zenon DEF AnswersMatchRequests, G!AnswersMatchRequests, G!Consensus, t

\* A step of the handler, action by action.
LEMMA HandleAnswers ==
    ASSUME AnswersInv, G!Handle, ~Multicalled, UNCHANGED vars
    PROVE  AnswersInv'
<1>0. pc' = "start" /\ UNCHANGED <<asked, strategy>>
  <2>1. pc = "start" /\ pc' = pc
    BY Zenon DEF AnswersInv, vars
  <2>2. UNCHANGED <<asked, strategy>>
    BY Zenon DEF G!Handle, G!OrderBackends, G!OverwriteConsensusResponses, G!Attempt, G!DoForward,
             G!FailedAttempt, G!UnexpectedJSONRPC, G!ResponseTooLarge, G!InvalidTarget,
             G!CantBeBatched, G!Abort, G!NoBackends, G!NothingToForward, G!OverrideResponses
  <2> QED
    BY <2>1, <2>2, Zenon
<1>1. Batch'
  BY <1>0, Zenon DEF AnswersInv, Batch
<1>2. Batch
  BY Zenon DEF AnswersInv
<1>3. CASE G!OrderBackends
  <2>1. /\ UNCHANGED <<reqs, overridden, res>> /\ at = "order"
        /\ at' = IF G!Consensus THEN "rewrite" ELSE "forward"
    BY <1>3, Zenon DEF G!OrderBackends
  <2>2. reqs = asked /\ overridden = <<>> /\ res = <<>>
    BY <2>1, Zenon DEF AnswersInv
  <2>3. CASE G!Consensus
    <3>1. at' = "rewrite" /\ G!Consensus'
      BY <1>0, <2>1, <2>3, Zenon DEF G!Consensus
    <3>2. AnswersMatchRequests'
      BY <3>1, Zenon DEF AnswersMatchRequests, G!AnswersMatchRequests
    <3> QED
      BY <1>0, <1>1, <2>1, <2>2, <3>1, <3>2, Zenon DEF AnswersInv
  <2>4. CASE ~G!Consensus
    <3>1. at' = "forward"
      BY <2>1, <2>4, Zenon
    <3>2. Forwarded /\ Overridden
      BY <1>2, <2>2, <2>4, PlainSplits, Zenon
    <3>3. Forwarded' /\ Overridden'
      BY <1>0, <2>1, <3>2, ZenonT(60) DEF Forwarded, Overridden, OwnPositions, G!Consensus
    <3>4. AnswersMatchRequests'
      BY <3>1, Zenon DEF AnswersMatchRequests, G!AnswersMatchRequests
    <3> QED
      BY <1>0, <1>1, <2>1, <2>2, <3>1, <3>3, <3>4, Zenon DEF AnswersInv
  <2> QED
    BY <2>3, <2>4, Zenon
<1>4. CASE G!OverwriteConsensusResponses
  <2>1. at = "rewrite" /\ at' = "forward" /\ res' = res
    BY <1>4, Zenon DEF G!OverwriteConsensusResponses
  <2>2. G!Consensus /\ res = <<>>
    BY <2>1, Zenon DEF AnswersInv
  <2>3. Forwarded' /\ Overridden'
    BY <1>0, <1>2, <1>4, <2>2, OverwriteSplits, ZenonT(40)
  <2>4. AnswersMatchRequests'
    BY <2>1, Zenon DEF AnswersMatchRequests, G!AnswersMatchRequests
  <2> QED
    BY <1>0, <1>1, <2>1, <2>2, <2>3, <2>4, Zenon DEF AnswersInv
<1>5. ASSUME NEW b \in G!AllBackends, G!Attempt(b)
      PROVE  AnswersInv'
  <2>0. at = "forward" /\ overridden' = overridden /\ reqs' \in {reqs, G!Translate(b)}
    BY <1>5, Zenon DEF G!Attempt, G!DoForward, G!FailedAttempt, G!UnexpectedJSONRPC,
         G!ResponseTooLarge, G!InvalidTarget, G!CantBeBatched, G!Abort, G!Reaches, G!At
  <2>1. Forwarded /\ Overridden /\ res = <<>>
    BY <2>0, Zenon DEF AnswersInv
  <2>2. OwnPositions' = OwnPositions
    BY <1>0, Zenon DEF OwnPositions, G!Consensus
  <2>3. Overridden'
    BY <2>0, <2>1, <2>2, Zenon DEF Overridden
  <2>4. Forwarded'
    <3>1. CASE reqs' = reqs
      BY <1>0, <2>1, <2>2, <3>1, ZenonT(40) DEF Forwarded
    <3>2. CASE reqs' = G!Translate(b)
      BY <1>0, <2>1, <3>2, TranslateKeeps, Zenon
    <3> QED
      BY <2>0, <3>1, <3>2, Zenon
  <2>5. CASE G!DoForward(b)
    <3>1. PICK rs \in G!Answers(b) : res' = G!SortBatchRPCResponse(rs)
      BY <2>5, Zenon DEF G!DoForward
    <3>2. reqs' = G!Translate(b) /\ at' = "override"
      BY <2>5, Zenon DEF G!DoForward, G!Reaches
    <3>3. IsSeq(reqs) /\ \A j, k \in DOMAIN reqs : reqs[j].id = reqs[k].id => j = k
      <4>1. /\ IsSeq(reqs) /\ Len(asked) \in Nat /\ DOMAIN asked = 1..Len(asked)
            /\ Len(reqs) \in Nat /\ DOMAIN reqs = 1..Len(reqs)
        BY <1>2, <2>1, SeqFacts, Zenon DEF Forwarded, Batch
      <4>2. \A k \in DOMAIN reqs : reqs[k].id \in DOMAIN asked
        BY <2>1, Zenon DEF Forwarded
      <4>3. \A k \in DOMAIN reqs : reqs[k].id \in Int /\ k \in Int
        BY <4>1, <4>2
      <4>4. \A j, k \in DOMAIN reqs : j < k => reqs[j].id < reqs[k].id
        BY <2>1, Zenon DEF Forwarded
      <4> QED
        BY <4>1, <4>3, <4>4, SMTT(60)
    <3>4. /\ IsSeq(res') /\ DOMAIN res' = DOMAIN reqs
          /\ \A k \in DOMAIN res' : res'[k].id = reqs[k].id /\ res'[k].by = b
      <4> DEFINE s == G!SortBatchRPCResponse(rs)
      <4>1. /\ IsSeq(s) /\ DOMAIN s = DOMAIN reqs
            /\ \A k \in DOMAIN s : s[k].id = reqs[k].id /\ s[k].by = b
        BY <3>3, SortedAnswers, Zenon
      <4> QED
        BY <3>1, <4>1, Zenon
    <3>5. DOMAIN reqs' = DOMAIN reqs /\ \A k \in DOMAIN reqs : reqs'[k].id = reqs[k].id
      BY <1>0, <2>1, <3>2, TranslateKeeps, Zenon
    <3>6. b \in Backends
      BY GroupAssumption, Zenon DEF G!AllBackends, G!Range, Range
    <3>7. Responses'
      BY <3>4, <3>5, <3>6, ZenonT(40) DEF Responses
    <3>8. AnswersMatchRequests'
      BY <3>2, Zenon DEF AnswersMatchRequests, G!AnswersMatchRequests
    <3> QED
      BY <1>0, <1>1, <2>3, <2>4, <3>2, <3>7, <3>8, Zenon DEF AnswersInv
  <2>6. CASE G!FailedAttempt(b) \/ G!UnexpectedJSONRPC(b)
    <3>1. at' = "forward" /\ res' = <<>>
      BY <2>0, <2>1, <2>6, Zenon DEF G!FailedAttempt, G!UnexpectedJSONRPC
    <3>2. AnswersMatchRequests'
      BY <3>1, Zenon DEF AnswersMatchRequests, G!AnswersMatchRequests
    <3> QED
      BY <1>0, <1>1, <2>3, <2>4, <3>1, <3>2, Zenon DEF AnswersInv
  <2>7. CASE G!ResponseTooLarge(b) \/ G!InvalidTarget(b) \/ G!CantBeBatched(b)
    <3>1. /\ at' = "done"
          /\ err' \in {"ErrBackendResponseTooLarge", "ErrConsensusGetReceiptsInvalidTarget",
                       "ErrConsensusGetReceiptsCantBeBatched"}
      BY <2>7, Zenon DEF G!ResponseTooLarge, G!InvalidTarget, G!CantBeBatched, G!Abort
    <3>2. AnswersMatchRequests'
      BY <3>1, Zenon DEF AnswersMatchRequests, G!AnswersMatchRequests
    <3> QED
      BY <1>0, <1>1, <2>3, <2>4, <3>1, <3>2, Zenon DEF AnswersInv
  <2> QED
    BY <1>5, <2>5, <2>6, <2>7, Zenon DEF G!Attempt
<1>6. CASE G!NoBackends \/ G!NothingToForward \/ G!OverrideResponses
  <2>0. UNCHANGED <<reqs, overridden>> /\ at \in {"forward", "override"}
    BY <1>6, Zenon DEF G!NoBackends, G!Abort, G!NothingToForward, G!OverrideResponses
  <2>1. Forwarded /\ Overridden
    BY <2>0, Zenon DEF AnswersInv
  <2>2. Forwarded' /\ Overridden'
    BY <1>0, <2>0, <2>1, ZenonT(60) DEF Forwarded, Overridden, OwnPositions, G!Consensus
  <2>3. CASE G!NoBackends
    <3>1. at' = "done" /\ err' = "ErrNoBackends"
      BY <2>3, Zenon DEF G!NoBackends, G!Abort
    <3>2. AnswersMatchRequests'
      BY <3>1, Zenon DEF AnswersMatchRequests, G!AnswersMatchRequests
    <3> QED
      BY <1>0, <1>1, <2>2, <3>1, <3>2, Zenon DEF AnswersInv
  <2>4. CASE G!NothingToForward
    <3>1. at = "forward" /\ at' = "override" /\ reqs' = <<>> /\ res' = res
      BY <2>0, <2>4, Zenon DEF G!NothingToForward
    <3>2. res' = <<>>
      BY <3>1, Zenon DEF AnswersInv
    <3>3. Responses'
      <4>1. IsSeq(<<>>) /\ DOMAIN <<>> = {}
        BY DEF IsSeq
      <4> QED
        BY <3>1, <3>2, <4>1, Zenon DEF Responses
    <3>4. AnswersMatchRequests'
      BY <3>1, Zenon DEF AnswersMatchRequests, G!AnswersMatchRequests
    <3> QED
      BY <1>0, <1>1, <2>2, <3>1, <3>3, <3>4, Zenon DEF AnswersInv
  <2>5. CASE G!OverrideResponses
    <3>1. at = "override" /\ at' = "done" /\ res' = G!InsertAll(res, overridden)
      BY <2>5, Zenon DEF G!OverrideResponses
    <3>2. Responses
      BY <3>1, Zenon DEF AnswersInv
    <3>3. AnswersMatchRequests'
      BY <1>0, <1>2, <2>1, <3>1, <3>2, InsertedMatch, Zenon
    <3> QED
      BY <1>0, <1>1, <2>2, <3>1, <3>3, Zenon DEF AnswersInv
  <2> QED
    BY <1>6, <2>3, <2>4, <2>5, Zenon
<1> QED
  BY <1>3, <1>4, <1>5, <1>6, Zenon DEF G!Handle

\* The answer of a multicall is the answer to its only request.
LEMMA ReturnAnswers ==
    ASSUME AnswersInv, Multicalled, TypeOK', Return(finalResp')
    PROVE  AnswersInv'
<1>0. at' = "done" /\ UNCHANGED <<asked, reqs, overridden, strategy, isBatch>>
  BY Zenon DEF Return
<1>1. at \notin {"order", "rewrite"} /\ ToMulticall /\ ~G!Consensus /\ Len(reqs) = 1
  BY Zenon DEF Multicalled, ToMulticall, IsValidMulticallTx, G!Consensus
<1>2. Batch /\ Forwarded /\ Overridden
  BY <1>1, Zenon DEF AnswersInv
<1>3. Batch' /\ Forwarded' /\ Overridden'
  BY <1>0, <1>2, Zenon DEF Batch, Forwarded, Overridden, OwnPositions, G!Consensus
<1>4. Multicalled'
  BY <1>0, <1>1, Zenon DEF Multicalled, ToMulticall, IsValidMulticallTx
<1>5. AnswersMatchRequests'
  <2> SUFFICES ASSUME err' = "none" PROVE AnswersMatchRequests'
    BY Zenon DEF AnswersMatchRequests, G!AnswersMatchRequests
  <2>1. ~(finalResp' = NoAnswer \/ finalResp'.kind = "error")
    BY Zenon DEF Return
  <2>2. res' = <<[id |-> reqs[1].id, by |-> finalResp'.by, method |-> reqs[1].method, enriched |-> FALSE]>>
    BY <2>1, Zenon DEF Return
  <2>3. finalResp'.by \in Backends
    <3>1. finalResp' \in Answers
      BY <2>1, Zenon DEF TypeOK
    <3> QED
      BY <3>1, Zenon DEF Answers
  <2>4. PICK x : x = reqs[1].id
    BY Zenon
  <2>5. Len(res') = 1 /\ res'[1].id = x /\ res'[1].by = finalResp'.by
    BY <2>2, <2>4, Zenon
  <2>6. OwnPositions = {} /\ DOMAIN reqs = {1}
    <3>1. DOMAIN reqs = 1..1
      BY <1>1, <1>2, SeqFacts, Zenon DEF Forwarded
    <3> QED
      BY <1>1, <3>1 DEF OwnPositions
  <2>7. Len(asked) \in Nat /\ DOMAIN asked = 1..Len(asked)
    BY <1>2, SeqFacts, Zenon DEF Batch
  <2>8. x \in DOMAIN asked /\ \A i \in DOMAIN asked : i = x
    BY <1>2, <2>4, <2>6, Zenon DEF Forwarded
  <2>9. Len(asked) = 1 /\ x = 1
    <3>1. 1 \in 1..Len(asked) /\ Len(asked) \in 1..Len(asked)
      BY <2>7, <2>8
    <3> QED
      BY <2>7, <2>8, <3>1, Zenon
  <2>10. asked[1].id = 1
    BY <1>2, <2>8, <2>9, Zenon DEF Batch
  <2>11. finalResp'.by # G!Proxyd
    BY <2>3, GroupAssumption, Zenon
  <2>12. ~G!Consensus'
    BY <1>0, <1>1, Zenon DEF G!Consensus
  <2>13. Len(res') = Len(asked') /\ DOMAIN asked' = {1}
    BY <1>0, <2>5, <2>7, <2>9, SMTT(60)
  <2>14. res'[1].id = asked'[1].id /\ res'[1].by # G!Proxyd
    BY <1>0, <2>5, <2>9, <2>10, <2>11, ZenonT(40)
  <2> QED
    BY <2>12, <2>13, <2>14, Zenon DEF AnswersMatchRequests, G!AnswersMatchRequests
<1> QED
  BY <1>0, <1>3, <1>4, <1>5, Zenon DEF AnswersInv

\* A request starts with no answer and its ids as they came.
LEMMA AnswersInit == ForwardInit => AnswersInv
<1> SUFFICES ASSUME ForwardInit PROVE AnswersInv
  BY Zenon
<1>1. /\ at = "order" /\ reqs = asked /\ overridden = <<>> /\ res = <<>> /\ pc = "start"
      /\ isBatch \in BOOLEAN
  BY Zenon DEF ForwardInit, Init, G!Init
<1>2. PICK n \in 1..(IF isBatch THEN MaxBatch ELSE 1), m \in [1..MaxBatch -> Methods] :
         asked = [i \in 1..n |-> [id |-> i, method |-> m[i], at |-> G!NoBlock]]
  BY Zenon DEF ForwardInit, G!Init, G!Request
<1>3. n \in Nat
  <2>1. MaxBatch \in Nat
    BY GroupAssumption, Zenon
  <2> QED
    BY <1>2, <2>1
<1>4. DOMAIN asked = 1..n /\ asked = [i \in 1..n |-> asked[i]]
  BY <1>2, Zenon
<1>5. IsSeq(asked)
  BY <1>3, <1>4, FunctionIsSeq, Zenon
<1>6. \A i \in DOMAIN asked : IsRequest(asked[i]) /\ asked[i].id = i
  <2> SUFFICES ASSUME NEW i \in 1..n PROVE IsRequest(asked[i]) /\ asked[i].id = i
    BY <1>4, Zenon
  <2>1. asked[i] = [id |-> i, method |-> m[i], at |-> G!NoBlock]
    BY <1>2, Zenon
  <2> QED
    BY <2>1 DEF IsRequest
<1>7. AnswersMatchRequests
  BY <1>1, Zenon DEF AnswersMatchRequests, G!AnswersMatchRequests
<1> QED
  BY <1>1, <1>5, <1>6, <1>7, Zenon DEF AnswersInv, Batch

\* The invariant of the answers survives every step, of a multicall too.
LEMMA AnswersNext ==
    ASSUME AnswersInv, TypeOK', [ForwardNext]_allVars
    PROVE  AnswersInv'
<1>1. CASE Handler
  BY <1>1, HandleAnswers, Zenon DEF Handler
<1>2. CASE Publish
  <2>1. UNCHANGED <<strategy, at, isBatch, asked, reqs, overridden, res, err, pc>>
    BY <1>2, Zenon DEF Publish, G!Publish, G!SetLatest, G!SetGroup, vars
  <2>2. /\ Batch' = Batch /\ Forwarded' = Forwarded /\ Overridden' = Overridden
        /\ Responses' = Responses /\ AnswersMatchRequests' = AnswersMatchRequests
        /\ Multicalled' = Multicalled /\ G!Consensus' = G!Consensus
    BY <2>1, Zenon DEF Batch, Forwarded, Overridden, OwnPositions, Responses, AnswersMatchRequests,
         G!AnswersMatchRequests, G!Consensus, Multicalled, ToMulticall, IsValidMulticallTx
  <2> QED
    BY <2>1, <2>2, Zenon DEF AnswersInv
<1>3. ASSUME UNCHANGED groupVars, pc' # "start" => pc # "start" \/ Multicalled
      PROVE  AnswersInv'
  <2>1. UNCHANGED <<strategy, at, isBatch, asked, reqs, overridden, res, err>>
    BY <1>3, Zenon DEF groupVars
  <2>2. /\ Batch' = Batch /\ Forwarded' = Forwarded /\ Overridden' = Overridden
        /\ Responses' = Responses /\ AnswersMatchRequests' = AnswersMatchRequests
        /\ Multicalled' = Multicalled /\ G!Consensus' = G!Consensus
    BY <2>1, Zenon DEF Batch, Forwarded, Overridden, OwnPositions, Responses, AnswersMatchRequests,
         G!AnswersMatchRequests, G!Consensus, Multicalled, ToMulticall, IsValidMulticallTx
  <2> QED
    BY <1>3, <2>1, <2>2, Zenon DEF AnswersInv
<1>4. CASE Begin
  BY <1>3, <1>4, Zenon DEF Begin
<1>5. CASE Closer \/ \E b \in Backends : Worker(b)
  <2>1. UNCHANGED groupVars /\ pc' = pc
    BY <1>5, Zenon DEF Closer, Close, Worker, Work, Ask, Send, Done
  <2> QED
    BY <1>3, <2>1, Zenon
<1>6. CASE Receiver
  <2>1. pc = "receive" /\ WithReturn
    BY <1>6, Zenon DEF Receiver, Receive, ReceiveClosed
  <2>2. Multicalled
    BY <2>1, Zenon DEF AnswersInv
  <2>3. UNCHANGED groupVars \/ Return(finalResp')
    BY <2>1, Zenon DEF WithReturn
  <2> QED
    BY <1>3, <2>2, <2>3, ReturnAnswers, Zenon
<1>7. CASE UNCHANGED allVars
  <2>1. UNCHANGED groupVars /\ pc' = pc
    BY <1>7, Zenon DEF allVars, vars
  <2> QED
    BY <1>3, <2>1, Zenon
<1> QED
  BY <1>1, <1>2, <1>4, <1>5, <1>6, <1>7, Zenon DEF ForwardNext

\* A request that is served gets one response per request of the batch, in the
\* order of the batch and under its ids, whatever order a backend answers in and
\* whichever of the requests proxyd answers itself (sortBatchRPCResponse,
\* OverwriteConsensusResponses, OverrideResponses): for batches of any size, and
\* for multicalls.
THEOREM AnswersMatchRequestsAlways == ForwardSpec => []AnswersMatchRequests
<1>1. ForwardSpec => []TypeOK
  <2>1. TypeInv => TypeOK
    BY Zenon DEF TypeInv
  <2> QED
    BY <2>1, MulticallPart, TypeInvariant, PTL
<1>2. AnswersInv /\ TypeOK' /\ [ForwardNext]_allVars => AnswersInv'
  BY AnswersNext, Zenon
<1>3. AnswersInv => AnswersMatchRequests
  BY Zenon DEF AnswersInv
<1> QED
  BY <1>1, <1>2, <1>3, AnswersInit, PTL DEF ForwardSpec
=============================================================================
