----------------------------- MODULE MCBatchRPC -----------------------------
(* Calls and settings for TLC. *)
EXTENDS BatchRPC, TLC

\* Two backend groups: one for the archive methods, one for the rest.
TwoGroups == [k \in AllKinds |->
                 IF k \in {"raw by hash", "raw by number"} \union Receipts THEN "archive" ELSE "main"]

\* A request of each fate, and two that share a key of the cache.
AnyRequests == {"invalid", "local", "unlisted", "healthz", "plain", "raw by hash",
                "receipts by hash"}

\* Ids are only compared for equality.
AnyIds == Permutations(Ids)

=============================================================================
