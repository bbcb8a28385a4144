-------------------------- MODULE AvgSlidingWindow --------------------------
(***************************************************************************)
(* The sliding window in which a backend's requests, errors and latencies  *)
(* are counted (pkg/avg-sliding-window/sliding.go), as a data structure:   *)
(* what each critical section of it does to the buckets and the totals.    *)
(* Who enters them, and when, is in module BackendHealth.                  *)
(*                                                                         *)
(* Values are durations or ones, which floating point adds and subtracts   *)
(* exactly.                                                                *)
(***************************************************************************)
EXTENDS Integers, Sequences

CONSTANTS BucketSize, WindowLength

ASSUME WindowAssumption == BucketSize \in Nat \ {0} /\ WindowLength \in Nat \ {0}

\* buckets is the linked hash map: [key, qty, sum], in the order of insertion.
EmptyWindow == [buckets |-> <<>>, qty |-> 0, sum |-> 0]

\* Rounded to the nearest bucket, halfway up.
Round(t) == ((2 * t + BucketSize) \div (2 * BucketSize)) * BucketSize

WindowStart(now) == Round(now) - WindowLength

\* The sum of a sequence of numbers.
Total(ns) ==
    LET upto[i \in 0..Len(ns)] == IF i = 0 THEN 0 ELSE upto[i - 1] + ns[i]
    IN  upto[Len(ns)]

Qty(bs) == Total([i \in DOMAIN bs |-> bs[i].qty])
Sum(bs) == Total([i \in DOMAIN bs |-> bs[i].sum])

\* The loop stops at the first bucket that is in the window.
NumOld(bs, now) ==
    CHOOSE n \in 0..Len(bs) :
        /\ \A i \in 1..n : bs[i].key <= WindowStart(now)
        /\ n < Len(bs) => bs[n + 1].key > WindowStart(now)

MutantAdvance(w, now) ==
    LET left == SubSeq(w.buckets, NumOld(w.buckets, now) + 1, Len(w.buckets)) IN
    IF left = <<>> THEN EmptyWindow ELSE [w EXCEPT !.buckets = left]

MutantAdvanceNothing(w, now) == w

\* What is left, and the totals without what is evicted.
Advance(w, now) ==
    LET old  == SubSeq(w.buckets, 1, NumOld(w.buckets, now))
        left == SubSeq(w.buckets, NumOld(w.buckets, now) + 1, Len(w.buckets))
    IN IF old = <<>> THEN w
       ELSE IF left = <<>> THEN EmptyWindow
       ELSE [buckets |-> left, qty |-> w.qty - Qty(old), sum |-> w.sum - Sum(old)]

InWindow(key, now) == WindowStart(now) < key /\ key <= Round(now)

\* A new bucket comes last, a known one keeps its place.
Put(bs, key, val) ==
    IF \E i \in DOMAIN bs : bs[i].key = key
    THEN [i \in DOMAIN bs |->
             IF bs[i].key = key THEN [key |-> key, qty |-> bs[i].qty + 1, sum |-> bs[i].sum + val]
             ELSE bs[i]]
    ELSE Append(bs, [key |-> key, qty |-> 1, sum |-> val])

\* The second critical section of AddWithTime, with a t that was read earlier.
Insert(w, t, val, now) ==
    IF InWindow(Round(t), now)
    THEN [buckets |-> Put(w.buckets, Round(t), val), qty |-> w.qty + 1, sum |-> w.sum + val]
    ELSE w
=============================================================================
