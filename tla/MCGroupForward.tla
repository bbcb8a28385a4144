--------------------------- MODULE MCGroupForward ----------------------------
(* A small backend group for TLC. *)
EXTENDS GroupForward

CONSTANTS b1, b2

TwoBackends == <<b1, b2>>

\* b1 is one block ahead of b2, which has a receipts target proxyd does not know.
Heights == [b \in Backends |-> IF b = b1 THEN 2 ELSE 1]
MixedTargets == [b \in Backends |-> IF b = b1 THEN "debug" ELSE "other"]

AllMethods == {"call", "receipts", "eth_blockNumber", "out_of_range", "transaction"}
=============================================================================
