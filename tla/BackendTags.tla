---------------------------- MODULE BackendTags ----------------------------
(***************************************************************************)
(* What UpdateBackend promises about the block tags it trusts: whatever a  *)
(* backend answers, the tags the poller has accepted from it are ordered,  *)
(* its safe and finalized numbers never go back, and the only other thing  *)
(* that can happen to them is that they are all forgotten (a ban).         *)
(***************************************************************************)
EXTENDS Naturals

CONSTANTS Backends, Numbers

VARIABLES latest, safe, finalized

vars == <<latest, safe, finalized>>

Init ==
    /\ latest = [b \in Backends |-> 0]
    /\ safe = [b \in Backends |-> 0]
    /\ finalized = [b \in Backends |-> 0]

Accept(b) ==
    \E l, s, f \in Numbers :
      /\ finalized[b] <= f /\ safe[b] <= s
      /\ f <= s /\ s <= l
      /\ latest' = [latest EXCEPT ![b] = l]
      /\ safe' = [safe EXCEPT ![b] = s]
      /\ finalized' = [finalized EXCEPT ![b] = f]

Forget(b) ==
    /\ latest' = [latest EXCEPT ![b] = 0]
    /\ safe' = [safe EXCEPT ![b] = 0]
    /\ finalized' = [finalized EXCEPT ![b] = 0]

Next == \E b \in Backends : Accept(b) \/ Forget(b)

Spec == Init /\ [][Next]_vars

=============================================================================
