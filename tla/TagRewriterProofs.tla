-------------------------- MODULE TagRewriterProofs --------------------------
(***************************************************************************)
(* Proofs that no tag is forwarded, that the numbers forwarded had been    *)
(* published, and that ranges are bounded, for words of any size, any      *)
(* limit, and any rounds published meanwhile (module TagRewriter).         *)
(***************************************************************************)
EXTENDS TagRewriter, TLAPS

\* The request never changes: a range names two blocks or has no parameter, any
\* other request names one block.
Request ==
    /\ class \in Classes
    /\ class = "range" => asked = <<>> \/ \E f, t \in Blocks : asked = <<f, t>>
    /\ class # "range" => \E b \in Blocks : asked = <<b>>
    /\ pc \in Tags \union {"rewrite", "done"}
    /\ pc # "done" => outcome = "none"

\* Every number that a getter returns, or that was read, has been published for its
\* tag.
Published ==
    /\ published \in [Tags -> Ints] /\ rctx \in [Tags -> Ints]
    /\ round.n \in [Tags -> Ints] /\ round.step \in {"none", "safe", "finalized"}
    /\ shown \in [Tags -> SUBSET Ints]
    /\ \A t \in Tags : published[t] \in shown[t] /\ rctx[t] \in shown[t]

IInv == Request /\ Published /\ NoTagIsForwarded /\ NumbersArePublished /\ RangeIsBounded

-----------------------------------------------------------------------------
(* One block *)

\* A block is a record of a form, a kind and a number.
LEMMA BlockTypes ==
    ASSUME NEW b \in Blocks
    PROVE  /\ b.form \in Forms /\ b.kind \in Kinds /\ b.n \in Ints
           /\ b.form \notin {"string", "object"} => b.kind = "bad"
BY SettingsAssumption DEF Blocks, Block, Forms, Kinds, NoKind, Ints

\* The block that is assumed where none is given.
LEMMA LatestIsABlock == Latest \in Blocks /\ Latest.form = "string" /\ Latest.kind = "latest"
BY DEF Latest, Blocks, Block, Kinds, Tags

\* The number v that is forwarded for block b is the one it names, or that of its
\* tag.
Numbered(b, v) ==
    /\ v.n \in Ints
    /\ IF b.kind = "number" THEN v = b /\ v.n <= rctx["latest"]
       ELSE TagOf(b) \in Tags /\ v.n = rctx[TagOf(b)]

\* What may be forwarded in place of block b.
Forwardable(b, r) ==
    /\ r.rw \in BOOLEAN
    /\ ~r.rw => r.val = b
    /\ r.val.kind \notin Tags
    /\ r.val.form = b.form
    /\ r.val.n \in Int
    /\ r.val.kind = "number" => Numbered(b, r.val)

\* The errors of the rewriter; none of them is the name of another outcome.
Errors == {"none", "parse", "out of range", "range"}

\* What the functions of rewriter.go return for a block has one of these errors.
LEMMA KnownErrors ==
    ASSUME NEW b \in Blocks
    PROVE  RewriteTag(b).err \in Errors /\ RewriteParam(b).err \in Errors /\ RewriteTagMap(b).err \in Errors
<1>1. ASSUME NEW c \in Blocks
      PROVE  RewriteTag(c).err \in Errors
  <2>1. c.kind \in Kinds
    BY BlockTypes, Zenon
  <2> QED
    BY <2>1, Zenon DEF RewriteTag, Same, Changed, Fail, Errors, Kinds
<1>2. RewriteParam(b).err \in Errors
  <2>1. \/ RewriteParam(b) = RewriteTag(Latest) \/ RewriteParam(b) = RewriteTag(b)
        \/ RewriteParam(b) = Same(b) \/ RewriteParam(b) = Fail("parse", b)
    BY Zenon DEF RewriteParam
  <2>2. Same(b).err \in Errors /\ Fail("parse", b).err \in Errors
    BY Zenon DEF Same, Fail, Errors
  <2> QED
    BY <1>1, <2>1, <2>2, LatestIsABlock, Zenon
<1>3. RewriteTagMap(b).err \in Errors
  <2>1. \/ RewriteTagMap(b) = RewriteTag(b) \/ RewriteTagMap(b) = Same(b)
        \/ RewriteTagMap(b) = Fail("parse", b)
    BY Zenon DEF RewriteTagMap
  <2>2. Same(b).err \in Errors /\ Fail("parse", b).err \in Errors
    BY Zenon DEF Same, Fail, Errors
  <2> QED
    BY <1>1, <2>1, <2>2, Zenon
<1> QED
  BY <1>1, <1>2, <1>3, Zenon

\* rewriteTag leaves no tag and lets no number pass that is higher than the latest.
LEMMA TagIsRewritten ==
    ASSUME NEW b \in Blocks, rctx \in [Tags -> Ints], RewriteTag(b).err = "none"
    PROVE  /\ Forwardable(b, RewriteTag(b))
           /\ b.kind \in Tags => RewriteTag(b).rw
<1>0. b.kind \in Kinds /\ b.n \in Ints
  BY BlockTypes, Zenon
<1>1. CASE b.kind \in {"bad", "empty"}
  <2>1. RewriteTag(b) = [err |-> "parse", rw |-> FALSE, val |-> b]
    BY <1>1, Zenon DEF RewriteTag, Fail, Tags
  <2> QED
    BY <2>1
<1>2. CASE b.kind \in {"hash", "pending", "earliest"}
  <2>1. RewriteTag(b) = [err |-> "none", rw |-> FALSE, val |-> b]
    BY <1>2, Zenon DEF RewriteTag, Same, Tags
  <2> QED
    BY <1>0, <1>2, <2>1 DEF Forwardable, Tags, Ints
<1>3. CASE b.kind \in Tags
  <2>1. RewriteTag(b) = [err |-> "none", rw |-> TRUE,
                         val |-> [form |-> b.form, kind |-> "number", n |-> rctx[b.kind]]]
    BY <1>3, Zenon DEF RewriteTag, Changed, Block, Tags
  <2>2. rctx[b.kind] \in Ints /\ rctx[b.kind] \in Int
    BY <1>3 DEF Ints
  <2>3. b.form # "absent" /\ b.kind # "number"
    BY <1>3, BlockTypes, Zenon DEF Tags
  <2>4. Numbered(b, RewriteTag(b).val)
    <3>1. RewriteTag(b).val.n = rctx[b.kind]
      BY <2>1
    <3> QED
      BY <1>3, <2>2, <2>3, <3>1, Zenon DEF Numbered, TagOf
  <2> QED
    BY <1>3, <2>1, <2>2, <2>4 DEF Forwardable, Tags
<1>4. CASE b.kind = "number"
  <2>1. RewriteTag(b) = [err |-> "none", rw |-> FALSE, val |-> b] /\ ~(b.n > rctx["latest"])
    BY <1>4, Zenon DEF RewriteTag, Same, Fail, Tags
  <2>2. "latest" \in Tags /\ b.n <= rctx["latest"] /\ b.n \in Int
    BY <1>0, <2>1 DEF Tags, Ints
  <2>3. Numbered(b, RewriteTag(b).val)
    <3>1. RewriteTag(b).val = b
      BY <2>1
    <3> QED
      BY <1>0, <1>4, <2>2, <3>1, Zenon DEF Numbered
  <2> QED
    BY <1>0, <1>4, <2>1, <2>2, <2>3 DEF Forwardable, Tags
<1> QED
  BY <1>0, <1>1, <1>2, <1>3, <1>4, Zenon DEF Kinds

\* A block that is missing stands for the latest.
LEMMA LatestStandsFor ==
    ASSUME NEW b \in Blocks, b.form = "absent", NEW v
    PROVE  Numbered(b, v) <=> Numbered(Latest, v)
<1>1. b.kind # "number" /\ Latest.kind # "number"
  BY BlockTypes, LatestIsABlock, Zenon
<1>2. TagOf(b) = "latest" /\ TagOf(Latest) = "latest"
  BY LatestIsABlock, Zenon DEF TagOf
<1> QED
  BY <1>1, <1>2, Zenon DEF Numbered

\* rewriteParam: the parameter that is forwarded is a block without a tag, and is
\* missing only where the method needs it.
LEMMA ParamIsRewritten ==
    ASSUME NEW b \in Blocks, rctx \in [Tags -> Ints], RewriteParam(b).err = "none"
    PROVE  LET r == RewriteParam(b) IN
           /\ r.rw \in BOOLEAN
           /\ ~r.rw => r.val = b
           /\ r.val.kind \notin Tags
           /\ r.val.form = "absent" => class = "receipts"
           /\ r.val.kind = "number" => Numbered(b, r.val)
<1> DEFINE r == RewriteParam(b)
<1>0. b.form \in Forms /\ (b.form \notin {"string", "object"} => b.kind = "bad")
  BY BlockTypes, Zenon
<1>1. CASE b.form = "absent" /\ class # "receipts"
  <2>1. r = RewriteTag(Latest)
    BY <1>1, Zenon DEF RewriteParam
  <2>2. Forwardable(Latest, r)
    BY <2>1, LatestIsABlock, TagIsRewritten, Zenon
  <2>3. r.val.kind = "number" => Numbered(b, r.val)
    BY <1>0, <1>1, <2>2, LatestIsABlock, LatestStandsFor, Zenon DEF Forwardable
  <2>4. r.rw /\ r.val.form = "string"
    BY <2>1, <2>2, LatestIsABlock, TagIsRewritten, Zenon DEF Forwardable, Tags
  <2> QED
    BY <2>2, <2>3, <2>4, Zenon DEF Forwardable
<1>2. CASE b.form = "short" \/ (b.form = "absent" /\ class = "receipts") \/ (b.form = "null" /\ class = "account")
  <2>1. r = [err |-> "none", rw |-> FALSE, val |-> b]
    BY <1>2, Zenon DEF RewriteParam, Same
  <2> QED
    BY <1>0, <1>2, <2>1 DEF Tags
<1>3. CASE b.form = "string" \/ (b.form = "object" /\ class = "account")
  <2>1. r = RewriteTag(b)
    BY <1>3, Zenon DEF RewriteParam
  <2> QED
    BY <1>3, <2>1, TagIsRewritten, Zenon DEF Forwardable
<1>4. CASE b.form = "other" \/ (b.form = "null" /\ class # "account") \/ (b.form = "object" /\ class # "account")
  BY <1>4, Zenon DEF RewriteParam, Fail
<1> QED
  BY <1>0, <1>1, <1>2, <1>3, <1>4, Zenon DEF Forms

\* rewriteTagMap: a block of a range that is forwarded is no tag.
LEMMA MapIsRewritten ==
    ASSUME NEW b \in Blocks, rctx \in [Tags -> Ints], RewriteTagMap(b).err = "none"
    PROVE  Forwardable(b, RewriteTagMap(b)) /\ (b.kind \in Tags => RewriteTagMap(b).rw)
<1> DEFINE r == RewriteTagMap(b)
<1>0. b.form \in Forms /\ (b.form \notin {"string", "object"} => b.kind = "bad") /\ b.n \in Int
  BY BlockTypes DEF Ints
<1>1. CASE b.form \in {"null", "absent"} \/ (b.form = "string" /\ b.kind = "empty")
  <2>1. r = [err |-> "none", rw |-> FALSE, val |-> b]
    BY <1>1, Zenon DEF RewriteTagMap, Same
  <2> QED
    BY <1>0, <1>1, <2>1 DEF Tags, Forwardable
<1>2. CASE b.form = "string" /\ b.kind # "empty"
  <2>1. r = RewriteTag(b)
    BY <1>2, Zenon DEF RewriteTagMap
  <2> QED
    BY <2>1, TagIsRewritten, Zenon
<1>3. CASE b.form \in {"other", "short", "object"}
  BY <1>3, Zenon DEF RewriteTagMap, Fail
<1> QED
  BY <1>0, <1>1, <1>2, <1>3, Zenon DEF Forms
-----------------------------------------------------------------------------
(* A range *)

\* In a word, a difference that does not exceed a limit below the sign bit is the
\* difference of the numbers: an inverted range wraps to SignBit at least.
LEMMA WordDifference ==
    ASSUME NEW a \in 0..SignBit, NEW b \in 0..SignBit, ~((a - b) % Word > MaxBlockRange)
    PROVE  a - b \in 0..MaxBlockRange
<1>0. SignBit \in Nat \ {0} /\ Word = 2 * SignBit /\ MaxBlockRange \in Nat /\ MaxBlockRange < SignBit
  BY SettingsAssumption DEF Word
<1>1. CASE a >= b
  <2>1. (a - b) % Word = a - b
    BY <1>0, <1>1
  <2> QED
    BY <1>0, <1>1, <2>1
<1>2. CASE a < b
  <2>1. (a - b) % Word = a - b + Word
    BY <1>0, <1>2
  <2> QED
    BY <1>0, <1>2, <2>1
<1> QED
  BY <1>1, <1>2

\* The number of a block of a range fits, that of the pending block too, which is
\* one more than the latest.
LEMMA BlockNumberFits ==
    ASSUME rctx \in [Tags -> Ints], NEW b, IsNumbered(b), b.kind = "number" => b.n \in Ints
    PROVE  BlockNumber(b) \in 0..SignBit
<1>0. SignBit \in Nat \ {0} /\ Word = 2 * SignBit /\ Ints = 0..(SignBit - 1)
  BY SettingsAssumption, Zenon DEF Word, Ints
<1>1. CASE b.kind = "earliest"
  BY <1>0, <1>1 DEF BlockNumber
<1>2. CASE b.kind = "pending"
  <2>1. rctx["latest"] \in 0..(SignBit - 1)
    BY <1>0, Zenon DEF Tags
  <2>2. (rctx["latest"] + 1) % Word = rctx["latest"] + 1
    BY <1>0, <2>1, SMTT(60)
  <2>3. BlockNumber(b) = (rctx["latest"] + 1) % Word
    BY <1>2, Zenon DEF BlockNumber
  <2> QED
    BY <1>0, <2>1, <2>2, <2>3, SMTT(60)
<1>3. CASE b.kind = "number"
  <2>1. BlockNumber(b) = b.n
    BY <1>3, Zenon DEF BlockNumber
  <2> QED
    BY <1>0, <1>3, <2>1
<1> QED
  BY <1>1, <1>2, <1>3, Zenon DEF IsNumbered

\* The error of a range is one of a block or of the range itself.
LEMMA RangeErrors ==
    ASSUME NEW f \in Blocks, NEW t \in Blocks, asked = <<f, t>>
    PROVE  RewriteRange.err \in Errors
<1> DEFINE given == Has(asked[1]) \/ Has(asked[2])
           block(i) == IF given /\ ~Has(asked[i]) THEN Latest ELSE asked[i]
           from == RewriteTagMap(block(1))
           to == RewriteTagMap(block(2))
<1>1. block(1) \in Blocks /\ block(2) \in Blocks
  BY LatestIsABlock, Zenon
<1>2. from.err \in Errors /\ to.err \in Errors /\ RangeError(from.val, to.val) \in Errors
  <2>1. RangeError(from.val, to.val) \in Errors
    BY Zenon DEF RangeError, Errors
  <2> QED
    BY <1>1, <2>1, KnownErrors, Zenon
<1>3. RewriteRange.err = IF from.err # "none" THEN from.err
                         ELSE IF to.err # "none" THEN to.err
                         ELSE RangeError(from.val, to.val)
  BY Zenon DEF RewriteRange
<1> HIDE DEF from, to
<1> QED
  BY <1>2, <1>3, Zenon

\* rewriteRange: both blocks can be forwarded, the one that was missing as well,
\* and under a limit they are numbers within it.
LEMMA RangeIsRewritten ==
    ASSUME NEW f \in Blocks, NEW t \in Blocks, asked = <<f, t>>, rctx \in [Tags -> Ints],
           RewriteRange.err = "none"
    PROVE  \E from, to :
              /\ RewriteRange.val = <<from, to>>
              /\ RewriteRange.rw \in BOOLEAN
              /\ ~RewriteRange.rw => from = f /\ to = t
              /\ \A b \in {from, to} :
                    /\ b.kind \notin Tags
                    /\ b.form = "absent" => f.form = "absent" /\ t.form = "absent"
              /\ from.kind = "number" => Numbered(f, from)
              /\ to.kind = "number" => Numbered(t, to)
              /\ f.form = "absent" /\ t.form = "absent" => ~RewriteRange.rw
              /\ MaxBlockRange > 0 /\ ~(f.form = "absent" /\ t.form = "absent") =>
                    /\ IsNumbered(from) /\ IsNumbered(to)
                    /\ BlockNumber(to) - BlockNumber(from) \in 0..MaxBlockRange
<1> DEFINE given == Has(f) \/ Has(t)
           first  == IF given /\ ~Has(f) THEN Latest ELSE f
           second == IF given /\ ~Has(t) THEN Latest ELSE t
           rf == RewriteTagMap(first)
           rt == RewriteTagMap(second)
           err == IF rf.err # "none" THEN rf.err
                  ELSE IF rt.err # "none" THEN rt.err
                  ELSE RangeError(rf.val, rt.val)
<1>0. asked[1] = f /\ asked[2] = t
  BY Zenon
<1>1. RewriteRange = [err |-> err, rw |-> rf.rw \/ rt.rw, val |-> <<rf.val, rt.val>>]
  BY <1>0, Zenon DEF RewriteRange
<1>2. first \in Blocks /\ second \in Blocks
  BY LatestIsABlock, Zenon
<1>3. rf.err = "none" /\ rt.err = "none" /\ RangeError(rf.val, rt.val) = "none"
  <2>1. err = "none"
    BY <1>1, Zenon
  <2> QED
    BY <2>1, Zenon
<1>4. /\ Forwardable(first, rf) /\ (first.kind \in Tags => rf.rw)
      /\ Forwardable(second, rt) /\ (second.kind \in Tags => rt.rw)
  BY <1>2, <1>3, MapIsRewritten, Zenon
<1> HIDE DEF rf, rt, err
<1>5. /\ RewriteRange.val = <<rf.val, rt.val>>
      /\ RewriteRange.rw = (rf.rw \/ rt.rw)
      /\ rf.rw \in BOOLEAN /\ rt.rw \in BOOLEAN
  BY <1>1, <1>4, Zenon DEF Forwardable
<1>6. ~(rf.rw \/ rt.rw) => rf.val = f /\ rt.val = t
  BY <1>4, LatestIsABlock, Zenon DEF Forwardable, Tags
<1>7. \A b \in {rf.val, rt.val} :
         /\ b.kind \notin Tags
         /\ b.form = "absent" => f.form = "absent" /\ t.form = "absent"
  BY <1>4, LatestIsABlock, Zenon DEF Forwardable, Has
<1>7a. /\ rf.val.kind = "number" => Numbered(f, rf.val)
       /\ rt.val.kind = "number" => Numbered(t, rt.val)
  BY <1>4, LatestStandsFor, Zenon DEF Forwardable, Has
<1>8. ASSUME f.form = "absent", t.form = "absent"
      PROVE  ~(rf.rw \/ rt.rw)
  <2>1. first = f /\ second = t
    BY <1>8, Zenon DEF Has
  <2> QED
    BY <1>8, <2>1, Zenon DEF rf, rt, RewriteTagMap, Same
<1>9. ASSUME MaxBlockRange > 0, ~(f.form = "absent" /\ t.form = "absent")
      PROVE  /\ IsNumbered(rf.val) /\ IsNumbered(rt.val)
             /\ BlockNumber(rt.val) - BlockNumber(rf.val) \in 0..MaxBlockRange
  <2>1. IsNumbered(rf.val) /\ IsNumbered(rt.val) /\ ~TooLarge(rf.val, rt.val)
    BY <1>0, <1>3, <1>9, SettingsAssumption DEF RangeError, Has
  <2>2. BlockNumber(rf.val) \in 0..SignBit /\ BlockNumber(rt.val) \in 0..SignBit
    BY <1>4, <2>1, BlockNumberFits, Zenon DEF Forwardable, Numbered
  <2> QED
    BY <2>1, <2>2, WordDifference, Zenon DEF TooLarge
<1>10. /\ RewriteRange.val = <<rf.val, rt.val>>
       /\ RewriteRange.rw \in BOOLEAN
       /\ ~RewriteRange.rw => rf.val = f /\ rt.val = t
       /\ f.form = "absent" /\ t.form = "absent" => ~RewriteRange.rw
  BY <1>5, <1>6, <1>8, Zenon
<1> WITNESS rf.val, rt.val
<1> QED
  BY <1>7, <1>7a, <1>9, <1>10, Zenon
-----------------------------------------------------------------------------
(* The steps *)

\* The poller: what it sets is published for the tag it sets.
LEMMA PublishStep ==
    ASSUME Published, NEW t \in Tags, NEW n \in Ints, Publish(t, n), UNCHANGED rctx
    PROVE  /\ published' \in [Tags -> Ints] /\ shown' \in [Tags -> SUBSET Ints]
           /\ \A g \in Tags : /\ shown[g] \subseteq shown'[g]
                             /\ published'[g] \in shown'[g] /\ rctx'[g] \in shown'[g]
<1>1. /\ published' = [published EXCEPT ![t] = n]
      /\ shown' = [shown EXCEPT ![t] = shown[t] \union {n}]
  BY Zenon DEF Publish
<1>2. published' \in [Tags -> Ints] /\ shown' \in [Tags -> SUBSET Ints]
  BY <1>1, Zenon DEF Published
<1>3. ASSUME NEW g \in Tags
      PROVE  shown[g] \subseteq shown'[g] /\ published'[g] \in shown'[g] /\ rctx'[g] \in shown'[g]
  <2>1. CASE g = t
    BY <1>1, <2>1, Zenon DEF Published
  <2>2. CASE g # t
    BY <1>1, <2>2, Zenon DEF Published
  <2> QED
    BY <2>1, <2>2, Zenon
<1> QED
  BY <1>2, <1>3, Zenon

\* A round publishes its numbers one after the other, whatever they are.
LEMMA RoundStep ==
    ASSUME Published, BeginRound \/ SetSafeOrFinalized
    PROVE  Published' /\ \A t \in Tags : shown[t] \subseteq shown'[t]
<1>1. CASE BeginRound
  <2>1. PICK n \in [Tags -> Numbers] : round' = [n |-> n, step |-> "safe"] /\ Publish("latest", n["latest"])
    BY <1>1, Zenon DEF BeginRound
  <2>2. UNCHANGED rctx
    BY <1>1, Zenon DEF BeginRound
  <2>3. n \in [Tags -> Ints] /\ "latest" \in Tags /\ n["latest"] \in Ints
    BY SettingsAssumption, Zenon DEF Tags
  <2>4. round'.n = n /\ round'.step = "safe"
    BY <2>1, Zenon
  <2> QED
    BY <2>1, <2>2, <2>3, <2>4, PublishStep, Zenon DEF Published
<1>2. CASE SetSafeOrFinalized
  <2>1. /\ round.step \in {"safe", "finalized"}
        /\ Publish(round.step, round.n[round.step])
        /\ UNCHANGED rctx
    BY <1>2, Zenon DEF SetSafeOrFinalized, Published
  <2>2. /\ round'.step \in {"none", "finalized"}
        /\ round'.n = round.n \/ round'.n = Zero
    BY <1>2, Zenon DEF SetSafeOrFinalized
  <2>3. Zero \in [Tags -> Ints]
    BY SettingsAssumption DEF Zero, Ints
  <2>4. round.step \in Tags /\ round.n[round.step] \in Ints
    BY <2>1, Zenon DEF Published, Tags
  <2> QED
    BY <2>1, <2>2, <2>3, <2>4, PublishStep, Zenon DEF Published
<1> QED
  BY <1>1, <1>2, Zenon

\* A number that the rewriter may forward has been published.
LEMMA NumberedIsPublished ==
    ASSUME Published, NEW b, NEW v, Numbered(b, v)
    PROVE  IF b.kind = "number" THEN v = b /\ \E n \in shown["latest"] : v.n <= n
           ELSE TagOf(b) \in Tags /\ v.n \in shown[TagOf(b)]
<1>1. "latest" \in Tags
  BY Zenon DEF Tags
<1> QED
  BY <1>1, Zenon DEF Numbered, Published

\* RewriteTags ends the request with what the lemmas above say of its blocks.
LEMMA RewriteStep ==
    ASSUME IInv, RewriteTags
    PROVE  NoTagIsForwarded' /\ NumbersArePublished' /\ RangeIsBounded'
<1>0. /\ UNCHANGED <<shown, rctx, class, asked>>
      /\ rctx \in [Tags -> Ints] /\ Published
  BY Zenon DEF RewriteTags, IInv, Published
<1>1. CASE outcome' # "forwarded" \/ class \in {"number", "other"}
  BY <1>0, <1>1, Zenon DEF NoTagIsForwarded, NumbersArePublished, RangeIsBounded
<1>2. CASE outcome' = "forwarded" /\ class = "range"
  <2>0. ~Panics
    BY <1>2, Zenon DEF RewriteTags
  <2>1. PICK f \in Blocks, t \in Blocks : asked = <<f, t>>
    BY <1>2, <2>0, Zenon DEF IInv, Request, Panics
  <2>2. RewriteRange.err = "none" /\ sent' = IF RewriteRange.rw THEN RewriteRange.val ELSE asked
    <3>1. RewriteRequest = RewriteRange
      BY <1>2, Zenon DEF RewriteRequest
    <3>2. RewriteRange.err \in Errors
      BY <2>1, RangeErrors, Zenon
    <3> QED
      BY <1>2, <2>0, <3>1, <3>2, Zenon DEF RewriteTags, Errors
  <2>3. PICK from, to :
              /\ RewriteRange.val = <<from, to>>
              /\ RewriteRange.rw \in BOOLEAN
              /\ ~RewriteRange.rw => from = f /\ to = t
              /\ \A b \in {from, to} :
                    /\ b.kind \notin Tags
                    /\ b.form = "absent" => f.form = "absent" /\ t.form = "absent"
              /\ from.kind = "number" => Numbered(f, from)
              /\ to.kind = "number" => Numbered(t, to)
              /\ f.form = "absent" /\ t.form = "absent" => ~RewriteRange.rw
              /\ MaxBlockRange > 0 /\ ~(f.form = "absent" /\ t.form = "absent") =>
                    /\ IsNumbered(from) /\ IsNumbered(to)
                    /\ BlockNumber(to) - BlockNumber(from) \in 0..MaxBlockRange
    BY <1>0, <2>1, <2>2, RangeIsRewritten
  <2>4. sent' = <<from, to>> /\ DOMAIN sent' = {1, 2} /\ sent'[1] = from /\ sent'[2] = to
    BY <2>1, <2>2, <2>3
  <2>5. NoTagIsForwarded'
    BY <1>0, <1>2, <2>1, <2>2, <2>3, <2>4, Zenon DEF NoTagIsForwarded
  <2>6. NumbersArePublished'
    <3>1. asked[1] = f /\ asked[2] = t
      BY <2>1, Zenon
    <3>2. ASSUME NEW i \in {1, 2}, sent'[i].kind = "number"
          PROVE  Numbered(asked[i], sent'[i])
      BY <2>3, <2>4, <3>1, <3>2, Zenon
    <3> QED
      BY <1>0, <2>4, <3>2, NumberedIsPublished, Zenon DEF NumbersArePublished
  <2>7. RangeIsBounded'
    BY <1>0, <2>1, <2>3, <2>4, Zenon DEF RangeIsBounded, IsNumbered, BlockNumber
  <2> QED
    BY <2>5, <2>6, <2>7, Zenon
<1>3. CASE outcome' = "forwarded" /\ class \in {"receipts", "account", "block"}
  <2>1. PICK b \in Blocks : asked = <<b>>
    BY <1>3, Zenon DEF IInv, Request
  <2> DEFINE r == RewriteParam(b)
  <2>2. RewriteRequest = [err |-> r.err, rw |-> r.rw, val |-> <<r.val>>]
    BY <1>3, <2>1, Zenon DEF RewriteRequest
  <2>3. RewriteRequest.err = "none" /\ sent' = IF RewriteRequest.rw THEN RewriteRequest.val ELSE asked
    <3>1. RewriteRequest.err \in Errors
      BY <2>2, KnownErrors, Zenon
    <3> QED
      BY <1>3, <3>1, Zenon DEF RewriteTags, Panics, Errors
  <2>4. /\ r.rw \in BOOLEAN
        /\ ~r.rw => r.val = b
        /\ r.val.kind \notin Tags
        /\ r.val.form = "absent" => class = "receipts"
        /\ r.val.kind = "number" => Numbered(b, r.val)
    BY <1>0, <2>2, <2>3, ParamIsRewritten, Zenon
  <2>5. sent' = <<r.val>> /\ DOMAIN sent' = {1} /\ sent'[1] = r.val
    BY <2>1, <2>2, <2>3, <2>4
  <2> HIDE DEF r
  <2>6. NoTagIsForwarded'
    BY <1>0, <2>4, <2>5, Zenon DEF NoTagIsForwarded
  <2>7. NumbersArePublished'
    <3>1. asked[1] = b
      BY <2>1, Zenon
    <3>2. ASSUME NEW i \in {1}, sent'[i].kind = "number"
          PROVE  Numbered(asked[i], sent'[i])
      BY <2>4, <2>5, <3>1, <3>2, Zenon
    <3> QED
      BY <1>0, <2>5, <3>2, NumberedIsPublished, Zenon DEF NumbersArePublished
  <2>8. RangeIsBounded'
    BY <1>0, <1>3, Zenon DEF RangeIsBounded
  <2> QED
    BY <2>6, <2>7, <2>8, Zenon
<1> QED
  BY <1>1, <1>2, <1>3, Zenon DEF IInv, Request, Classes

\* The initial states satisfy the inductive invariant.
LEMMA InitInvariant == Init => IInv
<1> SUFFICES ASSUME Init PROVE IInv
  BY Zenon
<1>1. Request
  <2>1. CASE class = "range"
    BY <2>1 DEF Init, Request, Tags
  <2>2. CASE class # "range"
    BY <2>2 DEF Init, Request, Tags
  <2> QED
    BY <2>1, <2>2, Zenon
<1>2. Zero \in [Tags -> Ints] /\ 0 \in Ints
  BY SettingsAssumption DEF Zero, Ints
<1>3. round.n = Zero /\ round.step = "none"
  BY Zenon DEF Init
<1>4. Published
  BY <1>2, <1>3, Zenon DEF Init, Published, Zero
<1>5. NoTagIsForwarded /\ NumbersArePublished /\ RangeIsBounded
  BY Zenon DEF Init, NoTagIsForwarded, NumbersArePublished, RangeIsBounded
<1> QED
  BY <1>1, <1>4, <1>5, Zenon DEF IInv

\* Every step preserves it; once the request is done, the rounds only add to what
\* has been shown.
LEMMA NextInvariant == IInv /\ [Next]_vars => IInv'
<1> SUFFICES ASSUME IInv, [Next]_vars PROVE IInv'
  BY Zenon
<1>1. CASE BeginRound \/ SetSafeOrFinalized
  <2>1. UNCHANGED <<pc, rctx, class, asked, sent, outcome>>
    BY <1>1, Zenon DEF BeginRound, SetSafeOrFinalized
  <2>2. Published' /\ \A t \in Tags : shown[t] \subseteq shown'[t]
    BY <1>1, RoundStep, Zenon DEF IInv
  <2>3. Request'
    BY <2>1, Zenon DEF IInv, Request
  <2>4. NoTagIsForwarded'
    BY <2>1, Zenon DEF IInv, NoTagIsForwarded
  <2>4a. NumbersArePublished'
    <3>1. "latest" \in Tags
      BY Zenon DEF Tags
    <3> QED
      BY <2>1, <2>2, <3>1, Zenon DEF IInv, NumbersArePublished
  <2>5. RangeIsBounded'
    BY <2>1, Zenon DEF IInv, RangeIsBounded, IsNumbered, BlockNumber
  <2> QED
    BY <2>2, <2>3, <2>4, <2>4a, <2>5, Zenon DEF IInv
<1>2. CASE ReadNumber
  <2>1. /\ pc \in Tags /\ rctx' = [rctx EXCEPT ![pc] = published[pc]]
        /\ UNCHANGED <<published, round, shown, class, asked, sent, outcome>>
    BY <1>2, Zenon DEF ReadNumber
  <2>2. pc' \in {"safe", "finalized", "rewrite"}
    BY <1>2, Zenon DEF ReadNumber, Tags
  <2>3. outcome = "none"
    BY <2>1, Zenon DEF IInv, Request, Tags
  <2>4. Request'
    BY <2>1, <2>2, <2>3, Zenon DEF IInv, Request, Tags
  <2>5. Published'
    BY <2>1, Zenon DEF IInv, Published
  <2>6. NoTagIsForwarded' /\ NumbersArePublished' /\ RangeIsBounded'
    BY <2>1, <2>3, Zenon DEF NoTagIsForwarded, NumbersArePublished, RangeIsBounded
  <2> QED
    BY <2>4, <2>5, <2>6, Zenon DEF IInv
<1>3. CASE RewriteTags
  <2>1. pc' = "done" /\ UNCHANGED <<published, round, shown, rctx, class, asked>>
    BY <1>3, Zenon DEF RewriteTags
  <2>2. Request' /\ Published'
    BY <2>1, Zenon DEF IInv, Request, Published
  <2> QED
    BY <1>3, <2>2, RewriteStep, Zenon DEF IInv
<1>4. CASE UNCHANGED vars
  BY <1>4, Zenon DEF IInv, Request, Published, NoTagIsForwarded, NumbersArePublished, RangeIsBounded,
             IsNumbered, BlockNumber, vars
<1> QED
  BY <1>1, <1>2, <1>3, <1>4, Zenon DEF Next

-----------------------------------------------------------------------------
(* The theorems *)

\* Whatever block a request names, in whatever form, no tag of consensus reaches a
\* backend (RewriteRequest and what it calls).
THEOREM NoTagIsForwardedAlways == Spec => []NoTagIsForwarded
<1>1. IInv => NoTagIsForwarded
  BY Zenon DEF IInv
<1> QED
  BY <1>1, InitInvariant, NextInvariant, PTL DEF Spec

\* However the rounds of the poller come between the three reads of the handler, and
\* whatever numbers they publish, a tag becomes a number that was published for it
\* since the request came, and no number above the latest passes
\* (OverwriteConsensusResponses, rewriteTag).
THEOREM NumbersArePublishedAlways == Spec => []NumbersArePublished
<1>1. IInv => NumbersArePublished
  BY Zenon DEF IInv
<1> QED
  BY <1>1, InitInvariant, NextInvariant, PTL DEF Spec

\* With any limit that is an int64 and words of any size, the unsigned difference of
\* rewriteRange lets no inverted range pass and none that is larger than the limit.
THEOREM RangeIsBoundedAlways == Spec => []RangeIsBounded
<1>1. IInv => RangeIsBounded
  BY Zenon DEF IInv
<1> QED
  BY <1>1, InitInvariant, NextInvariant, PTL DEF Spec
=============================================================================
