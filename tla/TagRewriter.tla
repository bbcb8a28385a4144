---------------------------- MODULE TagRewriter -----------------------------
(***************************************************************************)
(* What rewriter.go makes of the block a request asks for, with the        *)
(* numbers of the group's consensus.                                       *)
(*                                                                         *)
(* The handler reads the latest, the safe and the finalized number with    *)
(* three calls; the poller sets them with three calls, in between.  A      *)
(* block number is an int64 and a range a uint64.                          *)
(*                                                                         *)
(* Methods are classes: "range" is eth_getLogs and eth_newFilter,          *)
(* "receipts" needs its parameter, "account" also takes an object with a   *)
(* number or a hash (EIP-1898), "block" takes a string, "number" is        *)
(* eth_blockNumber and "other" is not rewritten.                           *)
(***************************************************************************)
EXTENDS Integers, Sequences

CONSTANTS
    SignBit,            \* the first number that is no int64: 2^63, half of a word
    MaxBlockRange,      \* 0 when ranges are not limited
    Numbers,            \* bound: the numbers a round can publish
    MaxRounds           \* bound: rounds published during the request

Tags == {"latest", "safe", "finalized"}
Classes == {"range", "receipts", "account", "block", "number", "other"}
Ints == 0..(SignBit - 1)
Word == 2 * SignBit

\* The shortest distance of an inverted range is SignBit in a word.
ASSUME SettingsAssumption ==
    /\ SignBit \in Nat \ {0}
    /\ MaxBlockRange \in 0..(SignBit - 1)
    /\ Numbers \subseteq Ints /\ MaxRounds \in Nat

\* A parameter: "absent" when it is the next one after those given, "short"
\* when others are missing before it, "null" also for an object with neither
\* number nor hash, "other" for what is neither string nor such an object.
\* A "bad" string is no block; a "" is one that rewriteTagMap skips.
Forms == {"string", "object", "null", "other", "absent", "short"}
Kinds == Tags \union {"earliest", "pending", "hash", "bad", "empty", "number"}

Block(form, kind, n) == [form |-> form, kind |-> kind, n |-> n]
NoKind == "bad"
Blocks == {Block(f, k, 0) : f \in {"string", "object"}, k \in Kinds \ {"number"}}
          \union {Block(f, "number", n) : f \in {"string", "object"}, n \in Ints}
          \union {Block(f, NoKind, 0) : f \in Forms \ {"string", "object"}}

VARIABLES
    published,  \* what the tracker's getters return
    round,      \* the numbers of the round that is being published
    rounds,     \* rounds begun
    shown,      \* ghost: the numbers published for each tag since the request came
    pc, rctx,
    class, asked,   \* the request: the blocks it names
    sent,           \* the blocks it names when it is forwarded
    outcome

vars == <<published, round, rounds, shown, pc, rctx, class, asked, sent, outcome>>

Zero == [t \in Tags |-> 0]

\* A range names two blocks, unless it has no parameter at all; any other request
\* names one.
Init ==
    /\ published = Zero /\ round = [n |-> Zero, step |-> "none"] /\ rounds = 0
    /\ shown = [t \in Tags |-> {0}]
    /\ pc = "latest" /\ rctx = Zero
    /\ class \in Classes
    /\ asked \in IF class = "range"
                 THEN {<<>>} \union {<<f, t>> : f, t \in {b \in Blocks : b.form # "short"}}
                 ELSE {<<b>> : b \in Blocks}
    /\ sent = asked
    /\ outcome = "none"

-----------------------------------------------------------------------------
(* The poller sets the three numbers one after the other *)

Publish(t, n) ==
    /\ published' = [published EXCEPT ![t] = n]
    /\ shown' = [shown EXCEPT ![t] = @ \union {n}]

\* The latest number is that of the block the walk back has ended at, the others are
\* the lowest of the candidates: after a fork they can be above the latest.
BeginRound ==
    /\ round.step = "none" /\ rounds < MaxRounds
    /\ \E n \in [Tags -> Numbers] :
          /\ round' = [n |-> n, step |-> "safe"]
          /\ Publish("latest", n["latest"])
    /\ rounds' = rounds + 1
    /\ UNCHANGED <<pc, rctx, class, asked, sent, outcome>>

SetSafeOrFinalized ==
    /\ round.step # "none"
    /\ Publish(round.step, round.n[round.step])
    /\ round' = IF round.step = "safe" THEN [n |-> round.n, step |-> "finalized"]
                ELSE [n |-> Zero, step |-> "none"]
    /\ UNCHANGED <<rounds, pc, rctx, class, asked, sent, outcome>>

\* The handler builds its RewriteContext.
ReadNumber ==
    /\ pc \in Tags
    /\ rctx' = [rctx EXCEPT ![pc] = published[pc]]
    /\ pc' = CASE pc = "latest" -> "safe" [] pc = "safe" -> "finalized"
               [] pc = "finalized" -> "rewrite"
    /\ UNCHANGED <<published, round, rounds, shown, class, asked, sent, outcome>>

-----------------------------------------------------------------------------
(* What becomes of one block *)

Same(b) == [err |-> "none", rw |-> FALSE, val |-> b]
Changed(b) == [err |-> "none", rw |-> TRUE, val |-> b]
Fail(e, b) == [err |-> e, rw |-> FALSE, val |-> b]
Latest == Block("string", "latest", 0)

MutantRewriteTag(b) ==
    CASE b.kind \in {"bad", "empty"} -> Fail("parse", b)
      [] b.kind \in {"hash", "pending", "earliest"} -> Same(b)
      [] b.kind \in Tags -> Changed(Block(b.form, "number", rctx[b.kind]))
      [] b.kind = "number" -> IF b.n > rctx["latest"] + 1 THEN Fail("out of range", b) ELSE Same(b)

\* rewriteTag and rewriteTagBlockNumberOrHash.
RewriteTag(b) ==
    CASE b.kind \in {"bad", "empty"} -> Fail("parse", b)
      [] b.kind \in {"hash", "pending", "earliest"} -> Same(b)
      [] b.kind \in Tags -> Changed(Block(b.form, "number", rctx[b.kind]))
      [] b.kind = "number" -> IF b.n > rctx["latest"] THEN Fail("out of range", b) ELSE Same(b)

MutantRewriteParam(b) ==
    CASE b.form \in {"absent", "short"} -> Same(b)
      [] b.form = "null" /\ class = "account" -> Same(b)
      [] b.form = "string" \/ (b.form = "object" /\ class = "account") -> RewriteTag(b)
      [] OTHER -> Fail("parse", b)

\* Latest is assumed if the parameter is missing and not required.
RewriteParam(b) ==
    CASE b.form = "absent" /\ class # "receipts" -> RewriteTag(Latest)
      [] b.form = "short" \/ (b.form = "absent" /\ class = "receipts") -> Same(b)
      [] b.form = "null" /\ class = "account" -> Same(b)
      [] b.form = "string" \/ (b.form = "object" /\ class = "account") -> RewriteTag(b)
      [] OTHER -> Fail("parse", b)

RewriteTagMap(b) ==
    CASE b.form \in {"null", "absent"} -> Same(b)
      [] b.form = "string" /\ b.kind = "empty" -> Same(b)
      [] b.form = "string" /\ b.kind # "empty" -> RewriteTag(b)
      [] OTHER -> Fail("parse", b)

-----------------------------------------------------------------------------
(* What becomes of a range *)

Has(b) == b.form # "absent"

IsNumbered(b) == b.form = "string" /\ b.kind \in {"earliest", "pending", "number"}

BlockNumber(b) ==
    CASE b.kind = "earliest" -> 0
      [] b.kind = "pending" -> (rctx["latest"] + 1) % Word
      [] b.kind = "number" -> b.n

MutantTooLarge(from, to) == BlockNumber(to) - BlockNumber(from) > MaxBlockRange

TooLarge(from, to) == (BlockNumber(to) - BlockNumber(from)) % Word > MaxBlockRange

\* The error of a range whose blocks have been rewritten.
RangeError(from, to) ==
    IF MaxBlockRange = 0 \/ ~(Has(asked[1]) \/ Has(asked[2])) THEN "none"
    ELSE IF ~(IsNumbered(from) /\ IsNumbered(to)) THEN "parse"
    ELSE IF TooLarge(from, to) THEN "range" ELSE "none"

\* One of the blocks defaults to latest if the other one is given.
RewriteRange ==
    LET given == Has(asked[1]) \/ Has(asked[2])
        block(i) == IF given /\ ~Has(asked[i]) THEN Latest ELSE asked[i]
        from == RewriteTagMap(block(1))
        to == RewriteTagMap(block(2))
        err == IF from.err # "none" THEN from.err
               ELSE IF to.err # "none" THEN to.err
               ELSE RangeError(from.val, to.val)
    IN [err |-> err, rw |-> from.rw \/ to.rw, val |-> <<from.val, to.val>>]

RewriteRequest ==
    CASE class = "range" -> RewriteRange
      [] class \in {"receipts", "account", "block"} ->
            LET r == RewriteParam(asked[1]) IN [err |-> r.err, rw |-> r.rw, val |-> <<r.val>>]
      [] OTHER -> Same(asked)

\* rewriteRange takes the first parameter without looking whether there is one.
Panics == class = "range" /\ asked = <<>>

\* The handler answers itself, or forwards; only a rewritten request is
\* marshalled again.
RewriteTags ==
    /\ pc = "rewrite"
    /\ IF class = "number" THEN outcome' = "answered" /\ UNCHANGED sent
       ELSE IF Panics THEN outcome' = "panicked" /\ UNCHANGED sent
       ELSE LET r == RewriteRequest IN
            IF r.err # "none" THEN outcome' = r.err /\ UNCHANGED sent
            ELSE /\ outcome' = "forwarded"
                 /\ sent' = IF r.rw THEN r.val ELSE asked
    /\ pc' = "done"
    /\ UNCHANGED <<published, round, rounds, shown, rctx, class, asked>>

Next == BeginRound \/ SetSafeOrFinalized \/ ReadNumber \/ RewriteTags

Spec == Init /\ [][Next]_vars

-----------------------------------------------------------------------------
(* Properties *)

\* The values the variables take.
TypeOK ==
    /\ published \in [Tags -> Ints] /\ rctx \in [Tags -> Ints]
    /\ round.step \in {"none", "safe", "finalized"} /\ round.n \in [Tags -> Ints]
    /\ pc \in Tags \union {"rewrite", "done"}
    /\ outcome \in {"none", "answered", "forwarded", "panicked", "parse", "out of range",
                   "range"}
    /\ shown \in [Tags -> SUBSET Ints]
    /\ \A i \in DOMAIN sent : sent[i] \in Blocks

\* No backend is left to choose what a tag stands for: in a forwarded request
\* of a rewritten method no block is given by a tag of consensus, and none is
\* missing where latest would be assumed (a range may miss both).  A block that is
\* null is forwarded as it is.
NoTagIsForwarded ==
    outcome = "forwarded" /\ class \in {"range", "receipts", "account", "block"} =>
        \A i \in DOMAIN sent :
            /\ sent[i].kind \notin Tags
            /\ sent[i].form = "absent" =>
                  class = "receipts" \/ (class = "range" /\ asked = sent)

\* The tag that block b stands for.
TagOf(b) == IF b.form = "absent" THEN "latest" ELSE b.kind

\* Whatever rounds are published between the three reads of the handler, a number
\* is forwarded for a tag only if a round since the request came has published it
\* for this very tag, and a number that the client names only if it is not above a
\* latest block published since then.
NumbersArePublished ==
    outcome = "forwarded" /\ class \in {"range", "receipts", "account", "block"} =>
        \A i \in DOMAIN sent :
            sent[i].kind = "number" =>
                IF asked[i].kind = "number"
                THEN sent[i] = asked[i] /\ \E n \in shown["latest"] : sent[i].n <= n
                ELSE TagOf(asked[i]) \in Tags /\ sent[i].n \in shown[TagOf(asked[i])]

\* A range that is forwarded under a limit is in order and within the limit;
\* an inverted one is a huge unsigned difference and refused.
RangeIsBounded ==
    outcome = "forwarded" /\ class = "range" /\ MaxBlockRange > 0
        /\ (\E i \in DOMAIN asked : asked[i].form # "absent") =>
        /\ \A i \in DOMAIN sent : IsNumbered(sent[i])
        /\ BlockNumber(sent[2]) - BlockNumber(sent[1]) \in 0..MaxBlockRange
=============================================================================
