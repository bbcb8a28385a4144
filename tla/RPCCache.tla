------------------------------ MODULE RPCCache -------------------------------
(***************************************************************************)
(* The cache of RPC responses (cache.go, methods.go): in memory, in Redis, *)
(* read from a replica if there is one, or in Redis with memory behind it, *)
(* as Start puts it together.                                              *)
(*                                                                         *)
(* There is one entry per key of a request.  Compression is undone by      *)
(* every read, and the empty string, which is no compressed value, is a    *)
(* miss.                                                                   *)
(***************************************************************************)
EXTENDS Integers

CONSTANTS
    Backing,        \* "none", "memory", "redis", or "redis and memory"
    ReadReplica     \* whether Redis has a read_url

ASSUME CacheAssumption ==
    Backing \in {"none", "memory", "redis", "redis and memory"} /\ ReadReplica \in BOOLEAN

VARIABLE cache      \* per store and key, the value or None

None == "none"
Stores == {"redis", "replica", "memory"}

\* The requests that have handlers and that filterGet lets in: debug_getRawReceipts
\* only with a block hash.
Keys == {"static", "raw by hash"}
HasKey(kind) == kind \in Keys

CacheInit == cache = [s \in Stores |-> [k \in Keys |-> None]]

ReadClient == IF ReadReplica THEN "replica" ELSE "redis"

\* The stores that may answer a Get: memory is asked only if Redis fails.  None
\* stands for an error, which the handler takes for a miss.
GetFrom ==
    CASE Backing = "none"   -> {None}
      [] Backing = "memory" -> {"memory"}
      [] Backing = "redis"  -> {ReadClient, None}
      [] OTHER              -> {ReadClient, "memory"}

\* The stores a Put may end in: a call of Redis that fails may have had effect.
PutTo ==
    CASE Backing = "none"   -> {{}}
      [] Backing = "memory" -> {{"memory"}}
      [] Backing = "redis"  -> {{}, {"redis"}}
      [] OTHER              -> {{"redis"}, {"memory"}, {"redis", "memory"}}

GetRPC(kind, store) == IF HasKey(kind) /\ store # None THEN cache[store][kind] ELSE None

MutantFilterPut(kind, v) == v \notin {"null", "error", "empty"}

\* No errors, no nulls, and of receipts only a list that is not empty.
FilterPut(kind, v) ==
    /\ v \notin {"null", "error"}
    /\ kind = "raw by hash" => v = "value"

\* PutRPC for one answer after another, by position: kinds, values and stores they
\* end in.
PutAll(kinds, vs, to) ==
    [s \in Stores |-> [k \in Keys |->
        LET new == {i \in DOMAIN kinds : s \in to[i] /\ kinds[i] = k /\ FilterPut(k, vs[i])}
        IN  IF new = {} THEN cache[s][k] ELSE vs[CHOOSE i \in new : \A j \in new : j <= i]]]

\* Redis brings its replica up to date.
Replicate ==
    /\ ReadReplica
    /\ \E k \in Keys : /\ cache["replica"][k] # cache["redis"][k]
                       /\ cache' = [cache EXCEPT !["replica"][k] = cache["redis"][k]]

\* An entry expires in Redis, or is evicted from memory, which holds 4096.
Expire ==
    \E s \in {"redis", "memory"}, k \in Keys :
        cache[s][k] # None /\ cache' = [cache EXCEPT ![s][k] = None]
=============================================================================
