------------------------ MODULE BackendHealthProofs -------------------------
(***************************************************************************)
(* Proofs about the calls to one backend, its sliding windows and the      *)
(* verdict of IsHealthy (modules AvgSlidingWindow and BackendHealth), for  *)
(* any number of calls, any capacity of the semaphores and any window.     *)
(***************************************************************************)
EXTENDS BackendHealth, FiniteSetTheorems, TLAPS

-----------------------------------------------------------------------------
(* Sums of sequences of numbers *)

\* Of some natural numbers one is the least.
LEMMA LeastNumber ==
    ASSUME NEW S \in SUBSET Nat, S # {}
    PROVE  \E n \in S : \A m \in S : n <= m
<1> DEFINE To(n) == 1..n
           T == {To(n) : n \in S}
<1>1. \A n \in S : To(n) \in SUBSET Nat /\ IsFiniteSet(To(n))
  BY FS_Interval
<1>2. T \subseteq FiniteSubsetsOf(Nat) /\ T # {}
  BY <1>1, Zenon DEF FiniteSubsetsOf
<1>3. PICK x \in T : \A y \in T : ~(<<y, x>> \in StrictSubsetOrdering(Nat))
  BY <1>2, FS_StrictSubsetOrderingWellFounded, WFMin, Zenon
<1>4. PICK n \in S : x = To(n)
  BY <1>3, Zenon
<1>5. ASSUME NEW m \in S, m < n
      PROVE  FALSE
  <2>1. To(m) \subseteq To(n) /\ n \in To(n) /\ n \notin To(m)
    BY <1>5
  <2>2. <<To(m), To(n)>> \in StrictSubsetOrdering(Nat)
    BY <1>1, <2>1, Zenon DEF StrictSubsetOrdering
  <2> QED
    BY <1>3, <1>4, <2>2, Zenon
<1> QED
  BY <1>5

\* s has the sums of the first numbers of ns.
Sums(s, ns) ==
    /\ s \in [0..Len(ns) -> Int]
    /\ s[0] = 0
    /\ \A i \in 1..Len(ns) : s[i] = s[i - 1] + ns[i]

\* There are such sums.
LEMMA SumsExist ==
    ASSUME NEW ns \in Seq(Int)
    PROVE  \E s : Sums(s, ns)
<1> DEFINE Has(m) == \E s \in [0..m -> Int] :
                        s[0] = 0 /\ \A i \in 1..m : s[i] = s[i - 1] + ns[i]
           Bad == {m \in 0..Len(ns) : ~Has(m)}
<1>1. Has(0)
  <2> DEFINE z == [i \in 0..0 |-> 0]
  <2>1. z \in [0..0 -> Int] /\ z[0] = 0 /\ \A i \in 1..0 : z[i] = z[i - 1] + ns[i]
    OBVIOUS
  <2> QED
    BY <2>1, Zenon
<1>2. ASSUME NEW m \in Nat, m < Len(ns), Has(m)
      PROVE  Has(m + 1)
  <2>1. PICK s \in [0..m -> Int] : s[0] = 0 /\ \A i \in 1..m : s[i] = s[i - 1] + ns[i]
    BY <1>2, Zenon
  <2>2. ns[m + 1] \in Int
    BY <1>2, SMTT(60)
  <2> DEFINE t == [i \in 0..(m + 1) |-> IF i = m + 1 THEN s[m] + ns[m + 1] ELSE s[i]]
  <2>3. t \in [0..(m + 1) -> Int]
    BY <2>2
  <2>4. t[0] = 0
    BY <2>1
  <2>5. ASSUME NEW i \in 1..(m + 1)
        PROVE  t[i] = t[i - 1] + ns[i]
    BY <2>1, SMTT(60)
  <2> HIDE DEF t
  <2> QED
    BY <2>3, <2>4, <2>5, Zenon
<1> HIDE DEF Has
<1>3. Bad = {}
  <2> SUFFICES ASSUME Bad # {} PROVE FALSE
    BY Zenon
  <2>0. Bad \in SUBSET Nat
    OBVIOUS
  <2>1. PICK m \in Bad : \A k \in Bad : m <= k
    BY <2>0, LeastNumber, Zenon
  <2>2. m \in Nat /\ m <= Len(ns) /\ m # 0 /\ ~Has(m)
    BY <1>1, <2>1
  <2>3. m - 1 \in Nat /\ m - 1 < Len(ns) /\ m - 1 \in 0..Len(ns) /\ m - 1 \notin Bad
    BY <2>1, <2>2
  <2>4. Has(m - 1)
    BY <2>3, Zenon
  <2>5. Has((m - 1) + 1)
    BY <1>2, <2>3, <2>4, Zenon
  <2> QED
    BY <2>2, <2>5
<1>4. Has(Len(ns))
  BY <1>3
<1> QED
  BY <1>4, Zenon DEF Has, Sums

\* There is only one such function.
LEMMA SumsAreUnique ==
    ASSUME NEW ns \in Seq(Int), NEW s, NEW t, Sums(s, ns), Sums(t, ns)
    PROVE  s = t
<1> DEFINE Bad == {m \in 0..Len(ns) : s[m] # t[m]}
<1>1. Bad = {}
  <2> SUFFICES ASSUME Bad # {} PROVE FALSE
    BY Zenon
  <2>0. Bad \in SUBSET Nat
    OBVIOUS
  <2>1. PICK m \in Bad : \A k \in Bad : m <= k
    BY <2>0, LeastNumber, Zenon
  <2>2. m # 0 /\ m \in 1..Len(ns) /\ m - 1 \in 0..Len(ns)
    BY <2>1 DEF Sums
  <2>3. s[m - 1] = t[m - 1]
    BY <2>1, <2>2
  <2> QED
    BY <2>1, <2>2, <2>3, Zenon DEF Sums
<1> QED
  BY <1>1, SMTT(60) DEF Sums

\* A total is the last of the sums.
LEMMA TotalIsLastSum ==
    ASSUME NEW ns \in Seq(Int), NEW s, Sums(s, ns)
    PROVE  Total(ns) = s[Len(ns)]
<1> DEFINE Step(u) == [i \in 0..Len(ns) |-> IF i = 0 THEN 0 ELSE u[i - 1] + ns[i]]
           c == CHOOSE u : u = Step(u)
<1>1. s = Step(s)
  <2>1. \A i \in 0..Len(ns) : s[i] = Step(s)[i]
    BY DEF Sums
  <2>2. s \in [0..Len(ns) -> Int]
    BY Zenon DEF Sums
  <2> QED
    BY <2>1, <2>2, Zenon
<1>2. c = Step(c)
  BY <1>1, Zenon
<1> HIDE DEF c
<1> DEFINE Bad == {m \in 0..Len(ns) : c[m] # s[m]}
<1>3. \A m \in 0..Len(ns) : c[m] = IF m = 0 THEN 0 ELSE c[m - 1] + ns[m]
  BY <1>2, Zenon
<1>4. Bad = {}
  <2> SUFFICES ASSUME Bad # {} PROVE FALSE
    BY Zenon
  <2>0. Bad \in SUBSET Nat
    OBVIOUS
  <2>1. PICK m \in Bad : \A k \in Bad : m <= k
    BY <2>0, LeastNumber, Zenon
  <2>2. m # 0 /\ m \in 1..Len(ns) /\ m - 1 \in 0..Len(ns)
    BY <1>3, <2>1 DEF Sums
  <2>3. c[m - 1] = s[m - 1]
    BY <2>1, <2>2
  <2> QED
    BY <1>3, <2>1, <2>2, <2>3, Zenon DEF Sums
<1>5. Total(ns) = c[Len(ns)]
  BY Zenon DEF Total, c
<1> QED
  BY <1>4, <1>5

\* The total of no numbers.
LEMMA TotalOfNone == Total(<<>>) = 0
<1>1. <<>> \in Seq(Int) /\ Len(<<>>) = 0
  OBVIOUS
<1>2. PICK s : Sums(s, <<>>)
  BY <1>1, SumsExist, Zenon
<1>3. Total(<<>>) = s[Len(<<>>)]
  BY <1>1, <1>2, TotalIsLastSum, Zenon
<1> QED
  BY <1>1, <1>2, <1>3, Zenon DEF Sums

\* A total is a number.
LEMMA TotalType ==
    ASSUME NEW ns \in Seq(Int)
    PROVE  Total(ns) \in Int
<1>1. PICK s : Sums(s, ns)
  BY SumsExist, Zenon
<1>2. Total(ns) = s[Len(ns)]
  BY <1>1, TotalIsLastSum, Zenon
<1> QED
  BY <1>1, <1>2 DEF Sums

\* One more number adds to the total.
LEMMA TotalAppend ==
    ASSUME NEW ns \in Seq(Int), NEW x \in Int
    PROVE  Total(Append(ns, x)) = Total(ns) + x
<1> DEFINE ms == Append(ns, x)
<1>1. PICK s : Sums(s, ns)
  BY SumsExist, Zenon
<1> DEFINE t == [i \in 0..Len(ms) |-> IF i = Len(ms) THEN s[Len(ns)] + x ELSE s[i]]
<1>2. ms \in Seq(Int) /\ Len(ms) = Len(ns) + 1 /\ Len(ns) \in Nat /\ ms[Len(ns) + 1] = x
      /\ \A i \in 1..Len(ns) : ms[i] = ns[i]
  OBVIOUS
<1> HIDE DEF ms
<1>3. Sums(t, ms)
  <2>1. t \in [0..Len(ms) -> Int] /\ t[0] = 0
    BY <1>1, <1>2, SMTT(60) DEF Sums
  <2>2. ASSUME NEW i \in 1..Len(ms)
        PROVE  t[i] = t[i - 1] + ms[i]
    BY <1>1, <1>2 DEF Sums
  <2> QED
    BY <2>1, <2>2, Zenon DEF Sums
<1>4. Total(ms) = t[Len(ms)] /\ Total(ns) = s[Len(ns)]
  BY <1>1, <1>2, <1>3, TotalIsLastSum, Zenon
<1> QED
  BY <1>2, <1>4 DEF ms

\* More in one place adds to the total.
LEMMA TotalUpdate ==
    ASSUME NEW ns \in Seq(Int), NEW ms \in Seq(Int), NEW k \in 1..Len(ns), NEW x \in Int,
           Len(ms) = Len(ns),
           \A i \in 1..Len(ns) : ms[i] = IF i = k THEN ns[i] + x ELSE ns[i]
    PROVE  Total(ms) = Total(ns) + x
<1>1. PICK s : Sums(s, ns)
  BY SumsExist, Zenon
<1> DEFINE t == [i \in 0..Len(ms) |-> IF i < k THEN s[i] ELSE s[i] + x]
<1>2. Sums(t, ms)
  <2>1. t \in [0..Len(ms) -> Int] /\ t[0] = 0
    BY <1>1, SMTT(60) DEF Sums
  <2>2. ASSUME NEW i \in 1..Len(ms)
        PROVE  t[i] = t[i - 1] + ms[i]
    <3>0. i \in 1..Len(ns) /\ i \in 0..Len(ns) /\ i - 1 \in 0..Len(ns) /\ k \in Int /\ i \in Int
      OBVIOUS
    <3>1. s[i] = s[i - 1] + ns[i] /\ s[i] \in Int /\ s[i - 1] \in Int
      BY <1>1, <3>0, Zenon DEF Sums
    <3>3. ns[i] \in Int /\ ms[i] = IF i = k THEN ns[i] + x ELSE ns[i]
      BY <3>0
    <3>2. t[i] = (IF i < k THEN s[i] ELSE s[i] + x)
          /\ t[i - 1] = (IF i - 1 < k THEN s[i - 1] ELSE s[i - 1] + x)
      BY SMTT(60)
    <3> HIDE DEF t
    <3>4. CASE i < k
      BY <3>0, <3>1, <3>2, <3>3, <3>4
    <3>5. CASE i = k
      <4>1. t[i] = s[i] + x /\ t[i - 1] = s[i - 1] /\ ms[i] = ns[i] + x
        BY <3>0, <3>2, <3>3, <3>5
      <4>2. \A a, b \in Int : (a + b) + x = a + (b + x)
        OBVIOUS
      <4>3. (s[i - 1] + ns[i]) + x = s[i - 1] + (ns[i] + x)
        BY <3>1, <3>3, <4>2, Zenon
      <4> QED
        BY <3>1, <4>1, <4>3, Zenon
    <3>6. CASE i > k
      <4>1. t[i] = s[i] + x /\ t[i - 1] = s[i - 1] + x /\ ms[i] = ns[i]
        BY <3>0, <3>2, <3>3, <3>6
      <4>2. \A a, b \in Int : (a + b) + x = (a + x) + b
        OBVIOUS
      <4>3. (s[i - 1] + ns[i]) + x = (s[i - 1] + x) + ns[i]
        BY <3>1, <3>3, <4>2, Zenon
      <4> QED
        BY <3>1, <4>1, <4>3, Zenon
    <3> QED
      BY <3>0, <3>4, <3>5, <3>6
  <2> QED
    BY <2>1, <2>2, Zenon DEF Sums
<1>3. Total(ms) = t[Len(ms)] /\ Total(ns) = s[Len(ns)]
  BY <1>1, <1>2, TotalIsLastSum, Zenon
<1> QED
  BY <1>1, <1>3

\* The totals of two parts add up.
LEMMA TotalParts ==
    ASSUME NEW ns \in Seq(Int), NEW fs \in Seq(Int), NEW ls \in Seq(Int),
           Len(ns) = Len(fs) + Len(ls),
           \A i \in 1..Len(fs) : fs[i] = ns[i],
           \A i \in 1..Len(ls) : ls[i] = ns[Len(fs) + i]
    PROVE  Total(ns) = Total(fs) + Total(ls)
<1>1. PICK s : Sums(s, ns)
  BY SumsExist, Zenon
<1>0. Len(fs) \in Nat /\ Len(ls) \in Nat /\ Len(ns) \in Nat
  OBVIOUS
<1> DEFINE k == Len(fs)
           f == [i \in 0..k |-> s[i]]
           l == [i \in 0..Len(ls) |-> s[k + i] - s[k]]
<1>2. Sums(f, fs)
  BY <1>0, <1>1, SMTT(60) DEF Sums
<1>3. Sums(l, ls)
  <2>0. ASSUME NEW i \in 0..Len(ls)
        PROVE  s[k + i] - s[k] \in Int /\ l[i] = s[k + i] - s[k]
    <3>1. k + i \in 0..Len(ns) /\ k \in 0..Len(ns)
      BY <1>0
    <3>2. s[k + i] \in Int /\ s[k] \in Int
      BY <1>1, <3>1, Zenon DEF Sums
    <3> QED
      BY <3>2, SMTT(60)
  <2>1. l \in [0..Len(ls) -> Int] /\ l[0] = 0
    <3>1. l \in [0..Len(ls) -> Int]
      BY <2>0, Zenon
    <3>2. l[0] = s[k + 0] - s[k] /\ k + 0 = k /\ s[k] \in Int
      BY <1>0, <1>1, <2>0 DEF Sums
    <3> QED
      BY <3>1, <3>2
  <2>2. ASSUME NEW i \in 1..Len(ls)
        PROVE  l[i] = l[i - 1] + ls[i]
    <3>1. k + i \in 1..Len(ns) /\ (k + i) - 1 = k + (i - 1) /\ k + (i - 1) \in 0..Len(ns)
          /\ k + i \in 0..Len(ns) /\ k \in 0..Len(ns) /\ ls[i] \in Int
      BY <1>0, SMTT(60)
    <3>2. s[k + i] = s[k + (i - 1)] + ls[i]
      BY <1>1, <3>1, Zenon DEF Sums
    <3>3. s[k + i] \in Int /\ s[k + (i - 1)] \in Int /\ s[k] \in Int
      BY <1>1, <3>1, Zenon DEF Sums
    <3>4. l[i] = s[k + i] - s[k] /\ l[i - 1] = s[k + (i - 1)] - s[k]
      <4>1. i \in 0..Len(ls) /\ i - 1 \in 0..Len(ls)
        BY <1>0
      <4> QED
        BY <2>0, <4>1, Zenon
    <3>5. \A a, b, x \in Int : (a + x) - b = (a - b) + x
      OBVIOUS
    <3> HIDE DEF l, k
    <3>6. (s[k + (i - 1)] + ls[i]) - s[k] = (s[k + (i - 1)] - s[k]) + ls[i]
      BY <3>1, <3>3, <3>5, ZenonT(60)
    <3> QED
      BY <3>2, <3>4, <3>6, Zenon
  <2> QED
    BY <2>1, <2>2, Zenon DEF Sums
<1>4. Total(fs) = f[k] /\ Total(ls) = l[Len(ls)] /\ Total(ns) = s[Len(ns)]
  BY <1>1, <1>2, <1>3, TotalIsLastSum, Zenon
<1>5. s[k] \in Int /\ s[Len(ns)] \in Int
  <2>1. k \in 0..Len(ns) /\ Len(ns) \in 0..Len(ns)
    BY <1>0
  <2> QED
    BY <1>1, <2>1, Zenon DEF Sums
<1>6. f[k] = s[k] /\ l[Len(ls)] = s[Len(ns)] - s[k]
  BY <1>0
<1> QED
  BY <1>4, <1>5, <1>6

-----------------------------------------------------------------------------
(* The sliding window *)

Bucket == [key : Int, qty : Int, sum : Int]
Window == [buckets : Seq(Bucket), qty : Int, sum : Int]

OneBucketPerKey(bs) == \A i, j \in DOMAIN bs : bs[i].key = bs[j].key => i = j

\* A window whose totals are those of its buckets.
Sound(w) ==
    /\ w \in Window
    /\ OneBucketPerKey(w.buckets)
    /\ w.qty = Qty(w.buckets) /\ w.sum = Sum(w.buckets)

\* No bucket is younger than a key.
Ceiling(w, key) == \A i \in DOMAIN w.buckets : w.buckets[i].key <= key

\* Rounding is monotone, and so is where the window starts.
LEMMA RoundMonotone ==
    ASSUME NEW s \in Nat, NEW t \in Nat
    PROVE  /\ Round(t) \in Int /\ WindowStart(t) \in Int
           /\ s <= t => Round(s) <= Round(t) /\ WindowStart(s) <= WindowStart(t)
<1> DEFINE d == 2 * BucketSize
           a == (2 * s + BucketSize) \div d
           b == (2 * t + BucketSize) \div d
<1>1. a \in Int /\ b \in Int /\ (s <= t => a <= b)
  BY WindowAssumption
<1> HIDE DEF a, b
<1>2. a * BucketSize \in Int /\ b * BucketSize \in Int
      /\ (s <= t => a * BucketSize <= b * BucketSize)
  BY <1>1, WindowAssumption
<1>3. Round(s) = a * BucketSize /\ Round(t) = b * BucketSize
  BY Zenon DEF Round, a, b
<1> QED
  BY <1>2, <1>3, WindowAssumption DEF WindowStart

\* The columns of the buckets.
Qtys(bs) == [i \in DOMAIN bs |-> bs[i].qty]
Vals(bs) == [i \in DOMAIN bs |-> bs[i].sum]

\* The columns are sequences of numbers, and their totals are Qty and Sum.
LEMMA Columns ==
    ASSUME NEW bs \in Seq(Bucket)
    PROVE  /\ Qtys(bs) \in Seq(Int) /\ Len(Qtys(bs)) = Len(bs)
           /\ Vals(bs) \in Seq(Int) /\ Len(Vals(bs)) = Len(bs)
           /\ \A i \in 1..Len(bs) : Qtys(bs)[i] = bs[i].qty /\ Vals(bs)[i] = bs[i].sum
           /\ Qty(bs) = Total(Qtys(bs)) /\ Sum(bs) = Total(Vals(bs))
           /\ Qty(bs) \in Int /\ Sum(bs) \in Int
<1>1. \A i \in 1..Len(bs) : bs[i] \in Bucket
  OBVIOUS
<1>2. \A i \in 1..Len(bs) : bs[i].qty \in Int /\ bs[i].sum \in Int
  BY <1>1, Zenon DEF Bucket
<1>3. Len(bs) \in Nat /\ DOMAIN bs = 1..Len(bs)
  OBVIOUS
<1>4. Qtys(bs) \in [1..Len(bs) -> Int] /\ Vals(bs) \in [1..Len(bs) -> Int]
  BY <1>2, <1>3, Zenon DEF Qtys, Vals
<1>5. /\ Qtys(bs) \in Seq(Int) /\ Len(Qtys(bs)) = Len(bs)
      /\ Vals(bs) \in Seq(Int) /\ Len(Vals(bs)) = Len(bs)
  BY <1>3, <1>4, SMTT(60)
<1>6. \A i \in 1..Len(bs) : Qtys(bs)[i] = bs[i].qty /\ Vals(bs)[i] = bs[i].sum
  BY <1>3, Zenon DEF Qtys, Vals
<1>7. Qty(bs) = Total(Qtys(bs)) /\ Sum(bs) = Total(Vals(bs))
  BY Zenon DEF Qty, Sum, Qtys, Vals
<1> QED
  BY <1>5, <1>6, <1>7, TotalType, Zenon

\* The eviction stops at the first bucket in the window (advance).
LEMMA NumOldIs ==
    ASSUME NEW bs \in Seq(Bucket), NEW t \in Nat
    PROVE  /\ NumOld(bs, t) \in 0..Len(bs)
           /\ NumOld(bs, t) < Len(bs) => bs[NumOld(bs, t) + 1].key > WindowStart(t)
<1> DEFINE Stops(n) == /\ \A i \in 1..n : bs[i].key <= WindowStart(t)
                       /\ n < Len(bs) => bs[n + 1].key > WindowStart(t)
           S == {n \in 0..Len(bs) : n < Len(bs) => bs[n + 1].key > WindowStart(t)}
<1>1. Len(bs) \in Nat /\ WindowStart(t) \in Int /\ \A i \in 1..Len(bs) : bs[i].key \in Int
  <2>1. \A i \in 1..Len(bs) : bs[i] \in Bucket
    OBVIOUS
  <2>2. \A i \in 1..Len(bs) : bs[i].key \in Int
    BY <2>1, Zenon DEF Bucket
  <2> QED
    BY <2>2, RoundMonotone
<1>2. S \in SUBSET Nat /\ Len(bs) \in S
  BY <1>1
<1>3. PICK n \in S : \A m \in S : n <= m
  BY <1>2, LeastNumber, Zenon
<1>4. ASSUME NEW i \in 1..n
      PROVE  bs[i].key <= WindowStart(t)
  <2>1. i - 1 \in 0..Len(bs) /\ i - 1 < n /\ i - 1 < Len(bs) /\ (i - 1) + 1 = i /\ i \in 1..Len(bs)
    BY <1>1, <1>3
  <2>2. i - 1 \notin S
    BY <1>3, <2>1
  <2>3. ~(bs[(i - 1) + 1].key > WindowStart(t))
    BY <2>1, <2>2, Zenon
  <2> QED
    BY <1>1, <2>1, <2>3
<1>5. n \in 0..Len(bs) /\ Stops(n)
  BY <1>3, <1>4, Zenon
<1> HIDE DEF S
<1>6. NumOld(bs, t) \in 0..Len(bs) /\ Stops(NumOld(bs, t))
  BY <1>5, Zenon DEF NumOld
<1> QED
  BY <1>6, Zenon

\* Cutting the buckets in two cuts the totals.
LEMMA PartsOfBuckets ==
    ASSUME NEW bs \in Seq(Bucket), NEW n \in 0..Len(bs)
    PROVE  LET old  == SubSeq(bs, 1, n)
               left == SubSeq(bs, n + 1, Len(bs))
           IN  /\ old \in Seq(Bucket) /\ left \in Seq(Bucket)
               /\ Qty(old) \in Int /\ Qty(left) \in Int /\ Qty(bs) = Qty(old) + Qty(left)
               /\ Sum(old) \in Int /\ Sum(left) \in Int /\ Sum(bs) = Sum(old) + Sum(left)
<1> DEFINE old == SubSeq(bs, 1, n)
           left == SubSeq(bs, n + 1, Len(bs))
<1>1. /\ old \in Seq(Bucket) /\ Len(old) = n /\ \A i \in 1..n : old[i] = bs[i]
      /\ left \in Seq(Bucket) /\ Len(left) = Len(bs) - n
      /\ \A i \in 1..(Len(bs) - n) : left[i] = bs[n + i]
  OBVIOUS
<1>2. Len(bs) \in Nat /\ n \in Nat /\ n <= Len(bs)
  OBVIOUS
<1> HIDE DEF old, left
<1>3. Total(Qtys(bs)) = Total(Qtys(old)) + Total(Qtys(left))
  <2>1. \A b \in {bs, old, left} :
           Qtys(b) \in Seq(Int) /\ Len(Qtys(b)) = Len(b) /\ \A i \in 1..Len(b) : Qtys(b)[i] = b[i].qty
    BY <1>1, Columns, Zenon
  <2>2. Len(Qtys(bs)) = Len(Qtys(old)) + Len(Qtys(left))
    BY <1>1, <1>2, <2>1
  <2>3. ASSUME NEW i \in 1..Len(Qtys(old))
        PROVE  Qtys(old)[i] = Qtys(bs)[i]
    <3>1. i \in 1..n /\ i \in 1..Len(old) /\ i \in 1..Len(bs)
      BY <1>1, <1>2, <2>1
    <3> QED
      BY <1>1, <2>1, <3>1, Zenon
  <2>4. ASSUME NEW i \in 1..Len(Qtys(left))
        PROVE  Qtys(left)[i] = Qtys(bs)[Len(Qtys(old)) + i]
    <3>1. i \in 1..(Len(bs) - n) /\ i \in 1..Len(left) /\ n + i \in 1..Len(bs) /\ Len(Qtys(old)) = n
      BY <1>1, <1>2, <2>1
    <3> QED
      BY <1>1, <2>1, <3>1, Zenon
  <2> QED
    BY <2>1, <2>2, <2>3, <2>4, TotalParts, Zenon
<1>4. Total(Vals(bs)) = Total(Vals(old)) + Total(Vals(left))
  <2>1. \A b \in {bs, old, left} :
           Vals(b) \in Seq(Int) /\ Len(Vals(b)) = Len(b) /\ \A i \in 1..Len(b) : Vals(b)[i] = b[i].sum
    BY <1>1, Columns, Zenon
  <2>2. Len(Vals(bs)) = Len(Vals(old)) + Len(Vals(left))
    BY <1>1, <1>2, <2>1
  <2>3. ASSUME NEW i \in 1..Len(Vals(old))
        PROVE  Vals(old)[i] = Vals(bs)[i]
    <3>1. i \in 1..n /\ i \in 1..Len(old) /\ i \in 1..Len(bs)
      BY <1>1, <1>2, <2>1
    <3> QED
      BY <1>1, <2>1, <3>1, Zenon
  <2>4. ASSUME NEW i \in 1..Len(Vals(left))
        PROVE  Vals(left)[i] = Vals(bs)[Len(Vals(old)) + i]
    <3>1. i \in 1..(Len(bs) - n) /\ i \in 1..Len(left) /\ n + i \in 1..Len(bs) /\ Len(Vals(old)) = n
      BY <1>1, <1>2, <2>1
    <3> QED
      BY <1>1, <2>1, <3>1, Zenon
  <2> QED
    BY <2>1, <2>2, <2>3, <2>4, TotalParts, Zenon
<1>5. /\ old \in Seq(Bucket) /\ left \in Seq(Bucket)
      /\ Qty(old) \in Int /\ Qty(left) \in Int /\ Qty(bs) = Qty(old) + Qty(left)
      /\ Sum(old) \in Int /\ Sum(left) \in Int /\ Sum(bs) = Sum(old) + Sum(left)
  BY <1>1, <1>3, <1>4, Columns, Zenon
<1> QED
  BY <1>5, Zenon DEF old, left

\* No buckets have the totals 0.
LEMMA NoBuckets == Qty(<<>>) = 0 /\ Sum(<<>>) = 0
<1>1. <<>> \in Seq(Bucket) /\ Len(<<>>) = 0
  OBVIOUS
<1>2. /\ Qtys(<<>>) \in Seq(Int) /\ Len(Qtys(<<>>)) = 0
      /\ Vals(<<>>) \in Seq(Int) /\ Len(Vals(<<>>)) = 0
      /\ Qty(<<>>) = Total(Qtys(<<>>)) /\ Sum(<<>>) = Total(Vals(<<>>))
  BY <1>1, Columns, Zenon
<1>3. \A s \in Seq(Int) : Len(s) = 0 => s = <<>>
  OBVIOUS
<1> QED
  BY <1>2, <1>3, TotalOfNone, Zenon

\* An eviction keeps the totals right; what it leaves begins in the window.
LEMMA AdvanceIsSound ==
    ASSUME NEW w, Sound(w), NEW t \in Nat
    PROVE  /\ Sound(Advance(w, t))
           /\ \A key : Ceiling(w, key) => Ceiling(Advance(w, t), key)
           /\ Advance(w, t).buckets # <<>> =>
                 /\ w.buckets # <<>>
                 /\ \E i \in DOMAIN Advance(w, t).buckets :
                        Advance(w, t).buckets[i].key > WindowStart(t)
<1> DEFINE bs == w.buckets
           n == NumOld(bs, t)
           old == SubSeq(bs, 1, n)
           left == SubSeq(bs, n + 1, Len(bs))
<1>1. bs \in Seq(Bucket) /\ w.qty \in Int /\ w.sum \in Int /\ OneBucketPerKey(bs)
      /\ w.qty = Qty(bs) /\ w.sum = Sum(bs)
  BY Zenon DEF Sound, Window
<1> HIDE DEF bs
<1>2. n \in 0..Len(bs) /\ (n < Len(bs) => bs[n + 1].key > WindowStart(t))
  BY <1>1, NumOldIs, Zenon
<1> HIDE DEF n
<1>3. /\ old \in Seq(Bucket) /\ Len(old) = n /\ Len(bs) \in Nat
      /\ left \in Seq(Bucket) /\ Len(left) = Len(bs) - n
      /\ \A i \in 1..(Len(bs) - n) : left[i] = bs[n + i]
  BY <1>1, <1>2
<1>4. /\ Qty(old) \in Int /\ Qty(left) \in Int /\ Qty(bs) = Qty(old) + Qty(left)
      /\ Sum(old) \in Int /\ Sum(left) \in Int /\ Sum(bs) = Sum(old) + Sum(left)
  BY <1>1, <1>2, PartsOfBuckets, Zenon
<1> HIDE DEF old, left
<1>5. Advance(w, t) = IF old = <<>> THEN w
                      ELSE IF left = <<>> THEN EmptyWindow
                      ELSE [buckets |-> left, qty |-> w.qty - Qty(old), sum |-> w.sum - Sum(old)]
  BY Zenon DEF Advance, old, left, n, bs
<1>6. CASE old = <<>>
  <2>1. Advance(w, t) = w /\ n = 0
    BY <1>3, <1>5, <1>6, Zenon
  <2>2. bs # <<>> => 1 \in DOMAIN bs /\ bs[1].key > WindowStart(t)
    BY <1>1, <1>2, <2>1
  <2> QED
    BY <2>1, <2>2, Zenon DEF bs
<1>7. CASE old # <<>> /\ left = <<>>
  <2>1. Advance(w, t) = EmptyWindow
    BY <1>5, <1>7, Zenon
  <2>2. EmptyWindow.buckets = <<>> /\ DOMAIN <<>> = {}
    BY DEF EmptyWindow
  <2>4. Sound(EmptyWindow)
    BY <2>2, NoBuckets DEF Sound, EmptyWindow, Window, OneBucketPerKey
  <2> QED
    BY <2>1, <2>2, <2>4, Zenon DEF Ceiling
<1>8. CASE old # <<>> /\ left # <<>>
  <2> DEFINE a == [buckets |-> left, qty |-> w.qty - Qty(old), sum |-> w.sum - Sum(old)]
  <2>1. Advance(w, t) = a
    BY <1>5, <1>8, Zenon
  <2>2. a.buckets = left /\ a.qty = Qty(left) /\ a.sum = Sum(left) /\ a \in Window
    BY <1>1, <1>3, <1>4, SMTT(60) DEF Window
  <2>0. DOMAIN left = 1..(Len(bs) - n) /\ DOMAIN bs = 1..Len(bs)
    BY <1>1, <1>3
  <2>3. \A i \in DOMAIN left : n + i \in DOMAIN bs /\ left[i] = bs[n + i]
    BY <1>2, <1>3, <2>0
  <2>4. OneBucketPerKey(left)
    <3> SUFFICES ASSUME NEW i \in DOMAIN left, NEW j \in DOMAIN left, left[i].key = left[j].key
                 PROVE  i = j
      BY Zenon DEF OneBucketPerKey
    <3>1. n + i = n + j
      BY <1>1, <2>3, ZenonT(60) DEF OneBucketPerKey
    <3> QED
      BY <1>2, <1>3, <3>1
  <2>5. Sound(a)
    BY <2>2, <2>4, Zenon DEF Sound
  <2>6. \A key : Ceiling(w, key) => Ceiling(a, key)
    BY <2>2, <2>3, Zenon DEF Ceiling, bs
  <2>7. bs # <<>> /\ 1 \in DOMAIN left /\ left[1].key > WindowStart(t)
    <3>1. n < Len(bs) /\ 1 \in 1..(Len(bs) - n) /\ n + 1 \in 1..Len(bs)
      BY <1>2, <1>3, <1>8
    <3> QED
      BY <1>1, <1>2, <1>3, <3>1
  <2> HIDE DEF a
  <2> QED
    BY <2>1, <2>2, <2>5, <2>6, <2>7, Zenon DEF bs
<1> QED
  BY <1>6, <1>7, <1>8, Zenon

\* An empty window has the totals 0.
LEMMA EmptyTotals ==
    ASSUME NEW w, Sound(w), w.buckets = <<>>
    PROVE  w.qty = 0 /\ w.sum = 0
  BY NoBuckets, Zenon DEF Sound

\* Put counts one more value, in the only bucket of its key.
LEMMA PutCounts ==
    ASSUME NEW bs \in Seq(Bucket), OneBucketPerKey(bs), NEW key \in Int, NEW val \in Int
    PROVE  /\ Put(bs, key, val) \in Seq(Bucket) /\ Put(bs, key, val) # <<>>
           /\ OneBucketPerKey(Put(bs, key, val))
           /\ Qty(Put(bs, key, val)) = Qty(bs) + 1
           /\ Sum(Put(bs, key, val)) = Sum(bs) + val
           /\ \A i \in DOMAIN Put(bs, key, val) :
                 \/ Put(bs, key, val)[i].key = key
                 \/ \E j \in DOMAIN bs : Put(bs, key, val)[i].key = bs[j].key
<1> DEFINE ps == Put(bs, key, val)
           Known == \E i \in DOMAIN bs : bs[i].key = key
<1>0. Len(bs) \in Nat /\ DOMAIN bs = 1..Len(bs) /\ \A i \in DOMAIN bs : bs[i] \in Bucket
  OBVIOUS
<1>1. CASE Known
  <2>1. PICK k \in DOMAIN bs : bs[k].key = key
    BY <1>1, Zenon
  <2> DEFINE b == [key |-> key, qty |-> bs[k].qty + 1, sum |-> bs[k].sum + val]
  <2>2. ps = [i \in DOMAIN bs |->
                 IF bs[i].key = key THEN [key |-> key, qty |-> bs[i].qty + 1, sum |-> bs[i].sum + val]
                 ELSE bs[i]]
    BY <1>1, Zenon DEF Put
  <2>3. \A i \in DOMAIN bs : bs[i].key = key <=> i = k
    BY <2>1, Zenon DEF OneBucketPerKey
  <2>4. DOMAIN ps = DOMAIN bs /\ ps[k] = b /\ \A i \in DOMAIN bs : i # k => ps[i] = bs[i]
    BY <2>1, <2>2, <2>3, Zenon
  <2>5. b \in Bucket /\ b.key = key /\ b.qty = bs[k].qty + 1 /\ b.sum = bs[k].sum + val
        /\ bs[k].qty \in Int /\ bs[k].sum \in Int
    BY <1>0, <2>1, SMTT(60) DEF Bucket
  <2> HIDE DEF ps, b
  <2>6. \A i \in DOMAIN bs : ps[i] \in Bucket /\ ps[i].key = bs[i].key
    BY <1>0, <2>1, <2>4, <2>5, Zenon
  <2>7. ps \in Seq(Bucket) /\ Len(ps) = Len(bs) /\ ps # <<>>
    <3>1. ps \in [1..Len(bs) -> Bucket]
      <4>1. ps = [i \in 1..Len(bs) |-> ps[i]]
        BY <1>0, <2>2, Zenon
      <4> QED
        BY <1>0, <2>6, <4>1, Zenon
    <3>2. ps \in Seq(Bucket) /\ Len(ps) = Len(bs)
      BY <1>0, <3>1
    <3> QED
      BY <1>0, <2>1, <3>2
  <2>8. OneBucketPerKey(ps)
    BY <2>4, <2>6, Zenon DEF OneBucketPerKey
  <2>9. Qty(ps) = Qty(bs) + 1
    <3>1. /\ Qtys(ps) \in Seq(Int) /\ Len(Qtys(ps)) = Len(bs) /\ Qty(ps) = Total(Qtys(ps))
          /\ Qtys(bs) \in Seq(Int) /\ Len(Qtys(bs)) = Len(bs) /\ Qty(bs) = Total(Qtys(bs))
          /\ \A i \in 1..Len(bs) : Qtys(ps)[i] = ps[i].qty /\ Qtys(bs)[i] = bs[i].qty
      BY <2>7, Columns, Zenon
    <3>2. \A i \in 1..Len(Qtys(bs)) : Qtys(ps)[i] = IF i = k THEN Qtys(bs)[i] + 1 ELSE Qtys(bs)[i]
      BY <1>0, <2>1, <2>4, <2>5, <3>1, ZenonT(60)
    <3>3. k \in 1..Len(Qtys(bs)) /\ Len(Qtys(ps)) = Len(Qtys(bs))
      BY <1>0, <2>1, <3>1, Zenon
    <3>4. PICK x \in Int : x = 1
      OBVIOUS
    <3>5. \A i \in 1..Len(Qtys(bs)) : Qtys(ps)[i] = IF i = k THEN Qtys(bs)[i] + x ELSE Qtys(bs)[i]
      BY <3>2, <3>4, Zenon
    <3>6. Total(Qtys(ps)) = Total(Qtys(bs)) + x
      BY <3>1, <3>3, <3>5, TotalUpdate, Zenon
    <3> QED
      BY <3>1, <3>4, <3>6, Zenon
  <2>10. Sum(ps) = Sum(bs) + val
    <3>1. /\ Vals(ps) \in Seq(Int) /\ Len(Vals(ps)) = Len(bs) /\ Sum(ps) = Total(Vals(ps))
          /\ Vals(bs) \in Seq(Int) /\ Len(Vals(bs)) = Len(bs) /\ Sum(bs) = Total(Vals(bs))
          /\ \A i \in 1..Len(bs) : Vals(ps)[i] = ps[i].sum /\ Vals(bs)[i] = bs[i].sum
      BY <2>7, Columns, Zenon
    <3>2. \A i \in 1..Len(Vals(bs)) : Vals(ps)[i] = IF i = k THEN Vals(bs)[i] + val ELSE Vals(bs)[i]
      BY <1>0, <2>1, <2>4, <2>5, <3>1, ZenonT(60)
    <3>3. k \in 1..Len(Vals(bs)) /\ Len(Vals(ps)) = Len(Vals(bs))
      BY <1>0, <2>1, <3>1, Zenon
    <3> QED
      BY <3>1, <3>2, <3>3, TotalUpdate, ZenonT(60)
  <2> QED
    BY <2>4, <2>6, <2>7, <2>8, <2>9, <2>10, Zenon DEF ps
<1>2. CASE ~Known
  <2> DEFINE b == [key |-> key, qty |-> 1, sum |-> val]
  <2>1. ps = Append(bs, b)
    BY <1>2, Zenon DEF Put
  <2>2. b \in Bucket /\ b.key = key /\ b.qty = 1 /\ b.sum = val
    BY DEF Bucket
  <2> HIDE DEF ps, b
  <2>3. /\ ps \in Seq(Bucket) /\ Len(ps) = Len(bs) + 1 /\ ps # <<>> /\ DOMAIN ps = 1..(Len(bs) + 1)
        /\ ps[Len(bs) + 1] = b /\ \A i \in 1..Len(bs) : ps[i] = bs[i]
    BY <2>1, <2>2
  <2>4. \A i \in DOMAIN ps : i = Len(bs) + 1 \/ i \in 1..Len(bs)
    BY <1>0, <2>3
  <2>5. OneBucketPerKey(ps)
    BY <1>0, <1>2, <2>2, <2>3, <2>4, Zenon DEF OneBucketPerKey
  <2>6. Qty(ps) = Qty(bs) + 1
    <3>1. /\ Qtys(ps) \in Seq(Int) /\ Len(Qtys(ps)) = Len(bs) + 1 /\ Qty(ps) = Total(Qtys(ps))
          /\ Qtys(bs) \in Seq(Int) /\ Len(Qtys(bs)) = Len(bs) /\ Qty(bs) = Total(Qtys(bs))
          /\ \A i \in 1..Len(ps) : Qtys(ps)[i] = ps[i].qty
          /\ \A i \in 1..Len(bs) : Qtys(bs)[i] = bs[i].qty
      BY <2>3, Columns, Zenon
    <3>2. Qtys(ps)[Len(bs) + 1] = 1 /\ \A i \in 1..Len(bs) : Qtys(ps)[i] = Qtys(bs)[i]
      <4>1. Len(bs) + 1 \in 1..Len(ps) /\ \A i \in 1..Len(bs) : i \in 1..Len(ps)
        BY <1>0, <2>3
      <4> QED
        BY <2>2, <2>3, <3>1, <4>1, Zenon
    <3>3. Qtys(ps) = Append(Qtys(bs), 1)
      BY <1>0, <3>1, <3>2
    <3>4. Total(Append(Qtys(bs), 1)) = Total(Qtys(bs)) + 1
      BY <3>1, TotalAppend
    <3> QED
      BY <3>1, <3>3, <3>4, Zenon
  <2>7. Sum(ps) = Sum(bs) + val
    <3>1. /\ Vals(ps) \in Seq(Int) /\ Len(Vals(ps)) = Len(bs) + 1 /\ Sum(ps) = Total(Vals(ps))
          /\ Vals(bs) \in Seq(Int) /\ Len(Vals(bs)) = Len(bs) /\ Sum(bs) = Total(Vals(bs))
          /\ \A i \in 1..Len(ps) : Vals(ps)[i] = ps[i].sum
          /\ \A i \in 1..Len(bs) : Vals(bs)[i] = bs[i].sum
      BY <2>3, Columns, Zenon
    <3>2. Vals(ps)[Len(bs) + 1] = val /\ \A i \in 1..Len(bs) : Vals(ps)[i] = Vals(bs)[i]
      <4>1. Len(bs) + 1 \in 1..Len(ps) /\ \A i \in 1..Len(bs) : i \in 1..Len(ps)
        BY <1>0, <2>3
      <4> QED
        BY <2>2, <2>3, <3>1, <4>1, Zenon
    <3>3. Vals(ps) = Append(Vals(bs), val)
      BY <1>0, <3>1, <3>2
    <3>4. Total(Append(Vals(bs), val)) = Total(Vals(bs)) + val
      BY <3>1, TotalAppend, Zenon
    <3> QED
      BY <3>1, <3>3, <3>4, Zenon
  <2>8. \A i \in DOMAIN ps : ps[i].key = key \/ \E j \in DOMAIN bs : ps[i].key = bs[j].key
    BY <1>0, <2>2, <2>3, <2>4, Zenon
  <2> QED
    BY <2>3, <2>5, <2>6, <2>7, <2>8, Zenon DEF ps
<1> QED
  BY <1>1, <1>2, Zenon

\* An insertion keeps the totals right; a data point that the window has left behind
\* is dropped (AddWithTime).
LEMMA InsertIsSound ==
    ASSUME NEW w, Sound(w), NEW t \in Nat, NEW val \in Int, NEW m \in Nat
    PROVE  /\ Sound(Insert(w, t, val, m))
           /\ ~InWindow(Round(t), m) => Insert(w, t, val, m) = w
           /\ InWindow(Round(t), m) => Insert(w, t, val, m) # w
           /\ \A key \in Int : Ceiling(w, key) /\ Round(t) <= key => Ceiling(Insert(w, t, val, m), key)
<1>1. CASE ~InWindow(Round(t), m)
  BY <1>1, Zenon DEF Insert
<1>2. CASE InWindow(Round(t), m)
  <2> DEFINE bs == w.buckets
             ps == Put(bs, Round(t), val)
             x == [buckets |-> ps, qty |-> w.qty + 1, sum |-> w.sum + val]
  <2>1. bs \in Seq(Bucket) /\ w.qty \in Int /\ w.sum \in Int /\ OneBucketPerKey(bs)
        /\ w.qty = Qty(bs) /\ w.sum = Sum(bs)
    BY Zenon DEF Sound, Window
  <2>2. Round(t) \in Int
    BY RoundMonotone, Zenon
  <2> HIDE DEF bs
  <2>3. /\ ps \in Seq(Bucket) /\ OneBucketPerKey(ps)
        /\ Qty(ps) = Qty(bs) + 1 /\ Sum(ps) = Sum(bs) + val
        /\ \A i \in DOMAIN ps : ps[i].key = Round(t) \/ \E j \in DOMAIN bs : ps[i].key = bs[j].key
    BY <2>1, <2>2, PutCounts, ZenonT(60)
  <2> HIDE DEF ps
  <2>4. Insert(w, t, val, m) = x
    BY <1>2, Zenon DEF Insert, ps, bs
  <2>5. x.buckets = ps /\ x.qty = Qty(ps) /\ x.sum = Sum(ps) /\ x \in Window /\ x.qty # w.qty
    BY <2>1, <2>3 DEF Window
  <2> HIDE DEF x
  <2>6. Sound(x)
    BY <2>3, <2>5, Zenon DEF Sound
  <2>7. ASSUME NEW key \in Int, Ceiling(w, key), Round(t) <= key
        PROVE  Ceiling(x, key)
    <3>1. \A j \in DOMAIN bs : bs[j].key <= key
      BY <2>7, Zenon DEF Ceiling, bs
    <3> QED
      BY <2>3, <2>5, <2>7, <3>1, Zenon DEF Ceiling
  <2> QED
    BY <1>2, <2>4, <2>5, <2>6, <2>7, Zenon
<1> QED
  BY <1>1, <1>2, Zenon

-----------------------------------------------------------------------------
(* The windows of the backend *)

\* The windows of which the youngest data point matters.
Dated == {"errors", "latency"}

CallState ==
    [pc : {"idle", "request", "acquire", "sent", "returned", "error", "answer", "polled", "zero", "done"},
     win : Windows, t : Nat, val : Nat]

ReaderState ==
    [pc : {"idle", "min", "errors", "requests", "avg", "sum", "qty", "verdict"},
     ask : {"IsHealthy", "IsDegraded"}, start : Nat, e : Int, sum : Int,
     rate : BOOLEAN, slow : BOOLEAN]

Types ==
    /\ now \in Nat
    /\ call \in [Calls -> CallState]
    /\ newest \in [Dated -> Int]

\* The windows ws have the right totals, and nothing younger than ns.
Good(ws, ns) ==
    /\ ws \in [Windows -> Window]
    /\ \A w \in Windows : Sound(ws[w])
    /\ \A w \in Dated : Ceiling(ws[w], ns[w])

\* No window of vs that was empty in ws has something.
Shrinks(ws, vs) == \A w \in Windows : vs[w].buckets # <<>> => ws[w].buckets # <<>>

\* An error, or an answer, was recorded in the window before IsHealthy was asked.
Recent(w) == newest[w] > Round(reader.start) - WindowLength

\* What the verdict rests on at every step: a number that has been read, or still is
\* to be read, is zero unless there is a recent data point behind it.
Reading ==
    /\ reader \in ReaderState /\ reader.start <= now
    /\ reader.pc = "idle" => ~reader.rate /\ ~reader.slow
    /\ reader.pc = "errors" /\ win["errors"].buckets # <<>> => Recent("errors")
    /\ reader.pc = "requests" /\ reader.e > 0 => Recent("errors")
    /\ reader.rate => Recent("errors")
    /\ reader.pc = "avg" /\ win["latency"].buckets # <<>> => Recent("latency")
    /\ reader.pc \in {"sum", "qty"} => Recent("latency")
    /\ reader.slow => Recent("latency")

IInv == Types /\ Good(win, newest) /\ Reading

\* An eviction keeps the windows good, fills none of them, and leaves nothing in a
\* window whose youngest data point is old.
LEMMA EvictStep ==
    ASSUME NEW ws, NEW ns, Good(ws, ns), now \in Nat, NEW w \in Windows
    PROVE  /\ Good(Evict(ws, w), ns) /\ Shrinks(ws, Evict(ws, w))
           /\ w \in Dated /\ ns[w] \in Int /\ Evict(ws, w)[w].buckets # <<>> =>
                 ns[w] > WindowStart(now)
<1> DEFINE a == Advance(ws[w], now)
           vs == Evict(ws, w)
<1>1. Sound(ws[w]) /\ ws \in [Windows -> Window]
  BY Zenon DEF Good
<1>2. /\ Sound(a) /\ \A key : Ceiling(ws[w], key) => Ceiling(a, key)
      /\ a.buckets # <<>> => /\ ws[w].buckets # <<>>
                             /\ \E i \in DOMAIN a.buckets : a.buckets[i].key > WindowStart(now)
  BY <1>1, AdvanceIsSound, Zenon
<1> HIDE DEF a
<1>3. DOMAIN vs = Windows /\ vs[w] = a /\ (\A v \in Windows : v # w => vs[v] = ws[v])
      /\ vs = [v \in Windows |-> vs[v]]
  BY <1>1, Zenon DEF Evict, a
<1> HIDE DEF vs
<1>4. vs \in [Windows -> Window]
  <2>1. \A v \in Windows : vs[v] \in Window
    BY <1>1, <1>2, <1>3, Zenon DEF Sound
  <2> QED
    BY <1>3, <2>1, Zenon
<1>5. Good(vs, ns)
  <2>1. \A v \in Windows : Sound(vs[v])
    BY <1>2, <1>3, Zenon DEF Good
  <2>2. \A v \in Dated : Ceiling(vs[v], ns[v])
    BY <1>2, <1>3, Zenon DEF Good, Dated, Windows
  <2> QED
    BY <1>4, <2>1, <2>2, Zenon DEF Good
<1>6. Shrinks(ws, vs)
  BY <1>2, <1>3, Zenon DEF Shrinks
<1>7. ASSUME w \in Dated, ns[w] \in Int, a.buckets # <<>>
      PROVE  ns[w] > WindowStart(now)
  <2>1. PICK i \in DOMAIN a.buckets : a.buckets[i].key > WindowStart(now)
    BY <1>2, <1>7, Zenon
  <2>2. a.buckets[i].key <= ns[w]
    BY <1>3, <1>5, <1>7, Zenon DEF Good, Ceiling
  <2>3. a.buckets[i].key \in Int /\ WindowStart(now) \in Int
    <3>1. a.buckets \in Seq(Bucket)
      BY <1>2, Zenon DEF Sound, Window
    <3>2. a.buckets[i] \in Bucket
      BY <3>1
    <3> QED
      BY <3>2, RoundMonotone, Zenon DEF Bucket
  <2> QED
    BY <1>7, <2>1, <2>2, <2>3
<1> QED
  BY <1>3, <1>5, <1>6, <1>7, Zenon DEF vs

\* The metrics of a call evict from windows, one after the other.
LEMMA RecordedStep ==
    ASSUME NEW ws, NEW ns, Good(ws, ns), now \in Nat, NEW c \in Calls
    PROVE  Good(Recorded(ws, c), ns) /\ Shrinks(ws, Recorded(ws, c))
<1>1. \A vs : \A w \in Windows : Good(vs, ns) => Good(Evict(vs, w), ns) /\ Shrinks(vs, Evict(vs, w))
  BY EvictStep, Zenon
<1>2. \A us, vs, xs : Shrinks(us, vs) /\ Shrinks(vs, xs) => Shrinks(us, xs)
  BY Zenon DEF Shrinks
<1>3. "requests" \in Windows /\ "errors" \in Windows /\ "latency" \in Windows
  BY Zenon DEF Windows
<1>4. ASSUME NEW vs, Good(vs, ns)
      PROVE  Good(EvictForRate(vs), ns) /\ Shrinks(vs, EvictForRate(vs))
  <2> DEFINE rs == Evict(vs, "requests")
  <2>1. Good(rs, ns) /\ Shrinks(vs, rs)
    BY <1>1, <1>3, <1>4, Zenon
  <2>2. Good(Evict(rs, "errors"), ns) /\ Shrinks(vs, Evict(rs, "errors"))
    BY <1>1, <1>2, <1>3, <2>1, Zenon
  <2>3. EvictForRate(vs) \in {rs, Evict(rs, "errors")}
    BY Zenon DEF EvictForRate
  <2> QED
    BY <2>1, <2>2, <2>3, Zenon
<1>5. Shrinks(ws, ws)
  BY Zenon DEF Shrinks
<1>6. Good(Evict(ws, "latency"), ns) /\ Shrinks(ws, Evict(ws, "latency"))
  BY <1>1, <1>3, Zenon
<1>7. Recorded(ws, c) \in {ws, EvictForRate(ws), EvictForRate(Evict(ws, "latency"))}
  BY Zenon DEF Recorded
<1>8. Good(EvictForRate(ws), ns) /\ Shrinks(ws, EvictForRate(ws))
  BY <1>4, Zenon
<1>9. LET vs == Evict(ws, "latency")
      IN  Good(EvictForRate(vs), ns) /\ Shrinks(ws, EvictForRate(vs))
  BY <1>2, <1>4, <1>6, Zenon
<1> QED
  BY <1>5, <1>7, <1>8, <1>9, Zenon

\* What a step does to the windows: the youngest data points grow no older, and a
\* window that has something had something before or has a recent data point now.
Grows ==
    /\ \A w \in Dated : newest[w] <= newest'[w]
    /\ \A w \in Dated : win'[w].buckets # <<>> =>
          win[w].buckets # <<>> \/ newest'[w] > WindowStart(now)

\* The insertion of a data point.
LEMMA InsertStep ==
    ASSUME Types, Good(win, newest), NEW c \in Calls, AddInserts(c)
    PROVE  Types' /\ Good(win, newest)' /\ Grows
<1> DEFINE w == call[c].win
           k == Round(call[c].t)
           x == Insert(win[w], call[c].t, call[c].val, now)
           ws == [win EXCEPT ![w] = x]
<1>1. w \in Windows /\ call[c].t \in Nat /\ call[c].val \in Int /\ now \in Nat /\ k \in Int
  BY RoundMonotone DEF Types, CallState
<1>2. /\ win' = Recorded(ws, c)
      /\ newest' = IF w # "requests" /\ ws # win
                   THEN [newest EXCEPT ![w] = IF @ < k THEN k ELSE @] ELSE newest
      /\ now' = now /\ call' = [call EXCEPT ![c] = At(AfterInsert(c))]
  BY Zenon DEF AddInserts
<1> HIDE DEF w, k
<1>3. win \in [Windows -> Window] /\ Sound(win[w])
  BY <1>1, Zenon DEF Good
<1>4. /\ Sound(x)
      /\ ~InWindow(k, now) => x = win[w]
      /\ InWindow(k, now) => x # win[w]
      /\ \A key \in Int : Ceiling(win[w], key) /\ k <= key => Ceiling(x, key)
  BY <1>1, <1>3, InsertIsSound, ZenonT(60) DEF k
<1> HIDE DEF x
<1>5. /\ ws[w] = x /\ (\A v \in Windows : v # w => ws[v] = win[v])
      /\ DOMAIN ws = Windows /\ ws = [v \in Windows |-> ws[v]]
  BY <1>1, <1>3, Zenon
<1> HIDE DEF ws
<1>6. ws # win <=> InWindow(k, now)
  BY <1>1, <1>3, <1>4, <1>5, Zenon
<1>7. newest' \in [Dated -> Int] /\ \A v \in Dated : newest[v] <= newest'[v]
  BY <1>1, <1>2 DEF Types, Dated, Windows
<1>8. w \in Dated /\ InWindow(k, now) => k <= newest'[w] /\ newest'[w] > WindowStart(now)
  <2> SUFFICES ASSUME w \in Dated, InWindow(k, now) PROVE k <= newest'[w] /\ newest'[w] > WindowStart(now)
    BY Zenon
  <2>1. k <= newest'[w]
    BY <1>1, <1>2, <1>6 DEF Types, Dated
  <2>2. WindowStart(now) < k /\ WindowStart(now) \in Int /\ newest'[w] \in Int
    BY <1>1, <1>7, RoundMonotone, Zenon DEF InWindow
  <2> QED
    BY <1>1, <2>1, <2>2
<1>9. Good(ws, newest')
  <2>1. \A v \in Windows : Sound(ws[v])
    BY <1>4, <1>5, Zenon DEF Good
  <2>2. ws \in [Windows -> Window]
    <3>1. \A v \in Windows : ws[v] \in Window
      BY <2>1, Zenon DEF Sound
    <3> QED
      BY <1>5, <3>1, Zenon
  <2>3. ASSUME NEW v \in Dated
        PROVE  Ceiling(ws[v], newest'[v])
    <3>1. \A i \in DOMAIN win[v].buckets : win[v].buckets[i].key \in Int
      <4>1. v \in Windows
        BY Zenon DEF Dated, Windows
      <4>2. win[v].buckets \in Seq(Bucket)
        BY <1>3, <4>1, Zenon DEF Window
      <4>3. \A i \in DOMAIN win[v].buckets : win[v].buckets[i] \in Bucket
        BY <4>2
      <4> QED
        BY <4>3, Zenon DEF Bucket
    <3>2. Ceiling(win[v], newest'[v])
      <4>1. newest[v] \in Int /\ newest'[v] \in Int /\ newest[v] <= newest'[v]
        BY <1>7, Zenon DEF Types
      <4> QED
        BY <3>1, <4>1 DEF Good, Ceiling
    <3>3. CASE v # w \/ ~InWindow(k, now)
      BY <1>4, <1>5, <3>2, <3>3, Zenon DEF Dated, Windows
    <3>4. CASE v = w /\ InWindow(k, now)
      BY <1>4, <1>5, <1>7, <1>8, <3>2, <3>4, Zenon
    <3> QED
      BY <3>3, <3>4, Zenon
  <2> QED
    BY <2>1, <2>2, <2>3, Zenon DEF Good
<1>10. Good(win', newest') /\ Shrinks(ws, win')
  BY <1>1, <1>2, <1>9, RecordedStep, Zenon
<1>11. Types'
  <2>1. At(AfterInsert(c)) \in CallState
    <3>1. AfterInsert(c) \in {"acquire", "polled", "done"}
      BY Zenon DEF AfterInsert
    <3> QED
      BY <3>1, Zenon DEF At, Windows, CallState
  <2> QED
    BY <1>2, <1>7, <2>1, Zenon DEF Types
<1>12. ASSUME NEW v \in Dated, win'[v].buckets # <<>>
       PROVE  win[v].buckets # <<>> \/ newest'[v] > WindowStart(now)
  <2>1. ws[v].buckets # <<>>
    BY <1>10, <1>12, Zenon DEF Shrinks, Dated, Windows
  <2>2. CASE v # w \/ ~InWindow(k, now)
    BY <1>4, <1>5, <2>1, <2>2, Zenon DEF Dated, Windows
  <2> QED
    BY <1>8, <2>2, Zenon
<1> QED
  BY <1>7, <1>10, <1>11, <1>12, Zenon DEF Grows, Good

\* Every step keeps the windows good.
LEMMA WindowsStep ==
    ASSUME Types, Good(win, newest), [Next]_vars
    PROVE  Types' /\ Good(win, newest)' /\ Grows
<1>1. ASSUME win' = win, newest' = newest
      PROVE  Good(win, newest)' /\ Grows
  BY <1>1 DEF Types, Grows, Good
<1>2. ASSUME NEW w \in Windows, win' = Evict(win, w), newest' = newest
      PROVE  Good(win, newest)' /\ Grows
  <2>1. Good(Evict(win, w), newest) /\ Shrinks(win, Evict(win, w))
    BY EvictStep, Zenon DEF Types
  <2>2. Good(win', newest')
    BY <1>2, <2>1, Zenon
  <2>3. \A v \in Dated : win'[v].buckets # <<>> => win[v].buckets # <<>>
    BY <1>2, <2>1, Zenon DEF Shrinks, Dated, Windows
  <2> QED
    BY <1>2, <2>2, <2>3 DEF Types, Grows, Good
<1>3. "requests" \in Windows /\ "errors" \in Windows /\ "latency" \in Windows
  BY Zenon DEF Windows
<1>4. CASE UNCHANGED vars
  BY <1>1, <1>4, Zenon DEF vars, Types
<1>5. CASE Tick
  BY <1>1, <1>5 DEF Tick, Types
<1>6. ASSUME NEW s \in Semaphores, OtherAcquires(s) \/ OtherReleases(s)
      PROVE  Types' /\ Good(win, newest)' /\ Grows
  BY <1>1, <1>6, Zenon DEF OtherAcquires, OtherReleases, Types
<1>7. CASE Read
  <2>1. now' = now /\ call' = call /\ newest' = newest
    BY <1>7, Zenon DEF Read, AskHealthy, ReadMin, ReadErrors, ReadRequests, AskDegraded,
       AvgChecks, AvgReadsSum, AvgReadsQty
  <2>2. win' = win \/ \E w \in Windows : win' = Evict(win, w)
    BY <1>3, <1>7, Zenon DEF Read, AskHealthy, ReadMin, ReadErrors, ReadRequests, AskDegraded,
       AvgChecks, AvgReadsSum, AvgReadsQty
  <2> QED
    BY <1>1, <1>2, <2>1, <2>2, Zenon DEF Types
<1>8. ASSUME NEW c \in Calls, Call(c), ~AddInserts(c)
      PROVE  Types' /\ Good(win, newest)' /\ Grows
  <2> DEFINE Moves == \E l \in {"sent", "returned", "done"} : Goto(c, l)
             Adds == \E l \in {"request", "error", "answer", "zero"}, w \in Windows, v \in Nat :
                        Adding(c, w, v, l)
  <2>1. now' = now /\ newest' = newest
    BY <1>8, Zenon DEF Call, Begin, Untranslated, Acquire, NotSent, DoReturns, CountedError,
       UncountedError, GoodAnswer, PollEnds
  <2>2. Moves \/ Adds
    <3>1. 1 \in Nat /\ \A v \in Latencies : v \in Nat
      BY SettingsAssumption, Zenon
    <3> QED
      BY <1>3, <1>8, <3>1, Zenon DEF Call, Begin, Untranslated, Acquire, NotSent, DoReturns,
         CountedError, UncountedError, GoodAnswer, PollEnds
  <2>3. CASE Moves
    <3>1. PICK l \in {"sent", "returned", "done"} : Goto(c, l)
      BY <2>3, Zenon
    <3>2. At(l) \in CallState
      BY Zenon DEF At, CallState, Windows
    <3>3. call' \in [Calls -> CallState] /\ win' = win
      BY <3>1, <3>2, Zenon DEF Goto, Types
    <3> QED
      BY <1>1, <2>1, <3>3, Zenon DEF Types
  <2>4. CASE Adds
    <3>1. PICK l \in {"request", "error", "answer", "zero"}, w \in Windows, v \in Nat : Adding(c, w, v, l)
      BY <2>4, Zenon
    <3>2. [pc |-> l, win |-> w, t |-> now, val |-> v] \in CallState
      BY Zenon DEF CallState, Types
    <3>3. call' \in [Calls -> CallState] /\ win' = Evict(win, w)
      BY <3>1, <3>2, Zenon DEF Adding, Types
    <3> QED
      BY <1>2, <2>1, <3>3, Zenon DEF Types
  <2> QED
    BY <2>2, <2>3, <2>4, Zenon
<1>9. ASSUME NEW c \in Calls, AddInserts(c)
      PROVE  Types' /\ Good(win, newest)' /\ Grows
  BY <1>9, InsertStep, Zenon
<1> QED
  BY <1>4, <1>5, <1>6, <1>7, <1>8, <1>9, Zenon DEF Next

\* Every step keeps what the verdict rests on.
LEMMA ReadingStep ==
    ASSUME IInv, Types', Grows, [Next]_vars
    PROVE  Reading'
<1>0. /\ now \in Nat /\ now' \in Nat /\ reader.start \in Nat /\ reader.start <= now
      /\ Round(reader.start) - WindowLength \in Int /\ WindowStart(now) \in Int
      /\ WindowStart(now) >= Round(reader.start) - WindowLength
  BY RoundMonotone, Zenon DEF IInv, Types, Reading, ReaderState, WindowStart
<1>1. \A w \in Dated : newest[w] \in Int /\ newest'[w] \in Int /\ newest[w] <= newest'[w]
  BY Zenon DEF IInv, Types, Grows
<1>2. now <= now'
  <2>1. now' = now \/ Tick
  BY Zenon DEF Next, Read, AskHealthy, ReadMin, ReadErrors, ReadRequests, AskDegraded,
     AvgChecks, AvgReadsSum, AvgReadsQty, Call, Begin, AddInserts, Untranslated, Acquire, NotSent,
     DoReturns, CountedError, UncountedError, GoodAnswer, PollEnds, OtherAcquires,
     OtherReleases, vars
  <2> QED
    BY <1>0, <2>1 DEF Tick
<1>3. CASE reader' = reader
  <2>1. ASSUME NEW w \in Dated, Recent(w)
        PROVE  Recent(w)'
    BY <1>0, <1>1, <1>3, <2>1 DEF Recent
  <2>2. ASSUME NEW w \in Dated, win'[w].buckets # <<>>, win[w].buckets # <<>> => Recent(w)
        PROVE  Recent(w)'
    <3>1. CASE win[w].buckets # <<>>
      BY <2>1, <2>2, <3>1, Zenon
    <3>2. CASE newest'[w] > WindowStart(now)
      BY <1>0, <1>1, <1>3, <3>2 DEF Recent
    <3> QED
      BY <2>2, <3>1, <3>2, Zenon DEF Grows
  <2>3. "errors" \in Dated /\ "latency" \in Dated
    BY Zenon DEF Dated
  <2>4. reader' \in ReaderState /\ reader'.start <= now'
    BY <1>0, <1>2, <1>3 DEF IInv, Reading
  <2> QED
    BY <1>3, <2>1, <2>2, <2>3, <2>4, Zenon DEF IInv, Reading
<1>4. CASE Read
  <2>0. now' = now /\ newest' = newest
    BY <1>4, Zenon DEF Read, AskHealthy, ReadMin, ReadErrors, ReadRequests, AskDegraded,
       AvgChecks, AvgReadsSum, AvgReadsQty
  <2>1. reader \in ReaderState
    BY Zenon DEF IInv, Reading
  <2>2. ASSUME NEW w \in Dated, win' = Evict(win, w), win'[w].buckets # <<>>
        PROVE  newest'[w] > WindowStart(now)
    <3>1. w \in Windows /\ Good(win, newest)
      BY Zenon DEF Dated, Windows, IInv
    <3> QED
      BY <1>0, <1>1, <2>0, <2>2, <3>1, EvictStep, Zenon
  <2>3. \A w \in Windows : Sound(win[w]) /\ win[w].sum \in Int /\ win[w].qty \in Int
    BY Zenon DEF IInv, Good, Sound, Window
  <2>4. ASSUME NEW w \in Dated, reader'.start = reader.start
        PROVE  Recent(w)' <=> Recent(w)
    BY <2>0, <2>4, Zenon DEF Recent
  <2>5. "errors" \in Dated /\ "latency" \in Dated /\ Dated \subseteq Windows
    BY Zenon DEF Dated, Windows
  <2>6. CASE AskHealthy
    <3>1. reader' = [reader EXCEPT !.pc = "min", !.start = now] /\ reader.pc = "idle"
      BY <2>6, Zenon DEF AskHealthy
    <3>2. /\ reader' \in ReaderState /\ reader'.pc = "min" /\ reader'.start = now
          /\ reader'.rate = reader.rate /\ reader'.slow = reader.slow
      BY <1>0, <2>1, <3>1, Zenon DEF ReaderState
    <3> QED
      BY <1>0, <2>0, <3>1, <3>2 DEF IInv, Reading
  <2>7. CASE ReadMin /\ win["requests"].sum >= MinRequests
    <3>1. reader' = [reader EXCEPT !.pc = "errors"] /\ win' = Evict(win, "errors")
      BY <2>7, Zenon DEF ReadMin
    <3>2. /\ reader' \in ReaderState /\ reader'.pc = "errors" /\ reader'.start = reader.start
          /\ reader'.rate = reader.rate /\ reader'.slow = reader.slow
      BY <2>1, <3>1, Zenon DEF ReaderState
    <3>3. win'["errors"].buckets # <<>> => Recent("errors")'
      BY <1>0, <1>1, <2>0, <2>2, <2>5, <3>1, <3>2, SMTT(60) DEF Recent
    <3> QED
      BY <1>0, <2>0, <2>4, <2>5, <3>2, <3>3, Zenon DEF IInv, Reading
  <2>8. CASE ReadMin /\ ~(win["requests"].sum >= MinRequests)
    <3>1. reader' = [reader EXCEPT !.pc = "avg"] /\ win' = Evict(win, "latency")
      BY <2>8, Zenon DEF ReadMin
    <3>2. /\ reader' \in ReaderState /\ reader'.pc = "avg" /\ reader'.start = reader.start
          /\ reader'.rate = reader.rate /\ reader'.slow = reader.slow
      BY <2>1, <3>1, Zenon DEF ReaderState
    <3>3. win'["latency"].buckets # <<>> => Recent("latency")'
      BY <1>0, <1>1, <2>0, <2>2, <2>5, <3>1, <3>2, SMTT(60) DEF Recent
    <3> QED
      BY <1>0, <2>0, <2>4, <2>5, <3>2, <3>3, Zenon DEF IInv, Reading
  <2>9. CASE ReadErrors
    <3>1. reader' = [reader EXCEPT !.pc = "requests", !.e = win["errors"].sum] /\ reader.pc = "errors"
      BY <2>9, Zenon DEF ReadErrors
    <3>2. /\ reader' \in ReaderState /\ reader'.pc = "requests" /\ reader'.start = reader.start
          /\ reader'.rate = reader.rate /\ reader'.slow = reader.slow
          /\ reader'.e = win["errors"].sum
      BY <2>1, <2>3, <2>5, <3>1, Zenon DEF ReaderState
    <3>3. reader'.e > 0 => Recent("errors")
      <4>1. win["errors"].buckets = <<>> => win["errors"].sum = 0
        BY <2>3, <2>5, EmptyTotals, Zenon
      <4> QED
        BY <3>1, <3>2, <4>1 DEF IInv, Reading
    <3> QED
      BY <1>0, <2>0, <2>4, <2>5, <3>2, <3>3, Zenon DEF IInv, Reading
  <2>10. CASE ReadRequests
    <3>1. /\ reader' = [reader EXCEPT !.pc = "avg", !.e = 0,
                                      !.rate = OverRate(reader.e, win["requests"].sum)]
          /\ win' = Evict(win, "latency") /\ reader.pc = "requests"
      BY <2>10, Zenon DEF ReadRequests
    <3>0. OverRate(reader.e, win["requests"].sum) \in BOOLEAN
      BY Zenon DEF OverRate
    <3>2. /\ reader' \in ReaderState /\ reader'.pc = "avg" /\ reader'.start = reader.start
          /\ reader'.slow = reader.slow /\ reader'.rate = OverRate(reader.e, win["requests"].sum)
      <4>1. reader' \in ReaderState
        <5> DEFINE o == OverRate(reader.e, win["requests"].sum)
        <5>1. \A r \in ReaderState, b \in BOOLEAN : [r EXCEPT !.rate = b] \in ReaderState
          BY ZenonT(60) DEF ReaderState
        <5>0. 0 \in Int
          OBVIOUS
        <5>2. [reader EXCEPT !.pc = "avg", !.e = 0] \in ReaderState
          BY <2>1, <5>0, ZenonT(60) DEF ReaderState
        <5>3. reader' = [[reader EXCEPT !.pc = "avg", !.e = 0] EXCEPT !.rate = o]
          BY <3>1, Zenon
        <5> QED
          BY <3>0, <5>1, <5>2, <5>3, Zenon
      <4>2. reader'.pc = "avg"
        BY <2>1, <3>1, Zenon DEF ReaderState
      <4>3. reader'.start = reader.start /\ reader'.slow = reader.slow
        BY <2>1, <3>1, Zenon DEF ReaderState
      <4>4. reader'.rate = OverRate(reader.e, win["requests"].sum)
        BY <2>1, <3>1, Zenon DEF ReaderState
      <4> QED
        BY <4>1, <4>2, <4>3, <4>4, Zenon
    <3>3. win'["latency"].buckets # <<>> => Recent("latency")'
      BY <1>0, <1>1, <2>0, <2>2, <2>5, <3>1, <3>2, SMTT(60) DEF Recent
    <3>4. reader'.rate => Recent("errors")
      BY <3>1, <3>2, Zenon DEF OverRate, IInv, Reading
    <3> QED
      BY <1>0, <2>0, <2>4, <2>5, <3>2, <3>3, <3>4, Zenon DEF IInv, Reading
  <2>11. CASE AskDegraded
    <3>1. /\ reader' = [reader EXCEPT !.pc = "avg", !.ask = "IsDegraded", !.start = now]
          /\ win' = Evict(win, "latency") /\ reader.pc = "idle"
      BY <2>11, Zenon DEF AskDegraded
    <3>2. /\ reader' \in ReaderState /\ reader'.pc = "avg" /\ reader'.start = now
          /\ reader'.rate = reader.rate /\ reader'.slow = reader.slow
      BY <1>0, <2>1, <3>1, Zenon DEF ReaderState
    <3>3. win'["latency"].buckets # <<>> => Recent("latency")'
      BY <2>0, <2>2, <2>5, <3>1, <3>2, Zenon DEF Recent, WindowStart
    <3> QED
      BY <1>0, <2>0, <3>1, <3>2, <3>3, SMTT(60) DEF IInv, Reading
  <2>12. CASE AvgChecks
    <3>1. /\ reader' = [reader EXCEPT !.pc = IF win["latency"].qty = 0 THEN "verdict" ELSE "sum"]
          /\ reader.pc = "avg"
      BY <2>12, Zenon DEF AvgChecks
    <3>2. /\ reader' \in ReaderState /\ reader'.start = reader.start
          /\ reader'.rate = reader.rate /\ reader'.slow = reader.slow
          /\ reader'.pc = IF win["latency"].qty = 0 THEN "verdict" ELSE "sum"
      BY <2>1, <3>1, Zenon DEF ReaderState
    <3>3. reader'.pc = "sum" => Recent("latency")
      <4>1. win["latency"].buckets = <<>> => win["latency"].qty = 0
        BY <2>3, <2>5, EmptyTotals, Zenon
      <4> QED
        BY <3>1, <3>2, <4>1 DEF IInv, Reading
    <3> QED
      BY <1>0, <2>0, <2>4, <2>5, <3>2, <3>3, Zenon DEF IInv, Reading
  <2>13. CASE AvgReadsSum
    <3>1. reader' = [reader EXCEPT !.pc = "qty", !.sum = win["latency"].sum] /\ reader.pc = "sum"
      BY <2>13, Zenon DEF AvgReadsSum
    <3>2. /\ reader' \in ReaderState /\ reader'.pc = "qty" /\ reader'.start = reader.start
          /\ reader'.rate = reader.rate /\ reader'.slow = reader.slow
      BY <2>1, <2>3, <2>5, <3>1, Zenon DEF ReaderState
    <3> QED
      BY <1>0, <2>0, <2>4, <2>5, <3>1, <3>2, Zenon DEF IInv, Reading
  <2>14. CASE AvgReadsQty
    <3>1. PICK slow \in BOOLEAN : reader' = [reader EXCEPT !.pc = "verdict", !.sum = 0, !.slow = slow]
      BY <2>14, Zenon DEF AvgReadsQty
    <3>2. /\ reader' \in ReaderState /\ reader'.pc = "verdict" /\ reader'.start = reader.start
          /\ reader'.rate = reader.rate
      <4>1. reader' \in ReaderState
        <5>1. \A r \in ReaderState, b \in BOOLEAN : [r EXCEPT !.slow = b] \in ReaderState
          BY ZenonT(60) DEF ReaderState
        <5>0. 0 \in Int
          OBVIOUS
        <5>2. [reader EXCEPT !.pc = "verdict", !.sum = 0] \in ReaderState
          BY <2>1, <5>0, ZenonT(60) DEF ReaderState
        <5>3. reader' = [[reader EXCEPT !.pc = "verdict", !.sum = 0] EXCEPT !.slow = slow]
          BY <3>1, Zenon
        <5> QED
          BY <5>1, <5>2, <5>3, Zenon
      <4>2. reader'.pc = "verdict"
        BY <2>1, <3>1, Zenon DEF ReaderState
      <4>3. reader'.start = reader.start
        BY <2>1, <3>1, Zenon DEF ReaderState
      <4>4. reader'.rate = reader.rate
        BY <2>1, <3>1, Zenon DEF ReaderState
      <4> QED
        BY <4>1, <4>2, <4>3, <4>4, Zenon
    <3>3. reader.pc = "qty"
      BY <2>14, Zenon DEF AvgReadsQty
    <3> QED
      BY <1>0, <2>0, <2>4, <2>5, <3>2, <3>3, Zenon DEF IInv, Reading
  <2> QED
    BY <1>4, <2>6, <2>7, <2>8, <2>9, <2>10, <2>11, <2>12, <2>13, <2>14, Zenon DEF Read
<1> QED
  BY <1>3, <1>4, Zenon DEF Next, Tick, Call, Begin, AddInserts, Untranslated, Acquire, NotSent,
     DoReturns, CountedError, UncountedError, GoodAnswer, PollEnds, OtherAcquires,
     OtherReleases, vars

\* The invariant holds of a new backend.
LEMMA InitInvariant == Init => IInv
<1> SUFFICES ASSUME Init PROVE IInv
  BY Zenon
<1>1. Sound(EmptyWindow) /\ EmptyWindow.buckets = <<>> /\ EmptyWindow \in Window
  BY NoBuckets DEF Sound, EmptyWindow, Window, OneBucketPerKey
<1>2. Good(win, newest)
  BY <1>1 DEF Init, Good, Ceiling, Windows, Dated
<1>3. Types
  BY DEF Init, Types, CallState, At, Windows, Dated
<1>4. Reading
  <2>1. reader = NoReader /\ now = 0
    BY Zenon DEF Init
  <2>2. NoReader \in ReaderState /\ NoReader.start = 0 /\ NoReader.pc = "idle"
        /\ NoReader.rate = FALSE /\ NoReader.slow = FALSE
    BY DEF NoReader, ReaderState
  <2> QED
    BY <2>1, <2>2 DEF Reading
<1> QED
  BY <1>2, <1>3, <1>4, Zenon DEF IInv

\* Every step keeps the invariant.
LEMMA NextInvariant == IInv /\ [Next]_vars => IInv'
  BY WindowsStep, ReadingStep, Zenon DEF IInv

\* The totals of the three windows always are those of their buckets, in whatever
\* order calls add to them and calls, metrics and verdicts evict from them.
THEOREM TotalsMatchBucketsAlways == Spec => []TotalsMatchBuckets
<1>1. IInv => TotalsMatchBuckets
  BY Zenon DEF IInv, Good, Sound, TotalsMatchBuckets
<1> QED
  BY <1>1, InitInvariant, NextInvariant, PTL DEF Spec

\* IsHealthy and IsDegraded never blame a backend for errors or latencies that are
\* older than one window.
THEOREM HealthyAgainAlways == Spec => []HealthyAgain
<1>1. IInv => HealthyAgain
  BY Zenon DEF IInv, Reading, Recent, HealthyAgain
<1> QED
  BY <1>1, InitInvariant, NextInvariant, PTL DEF Spec

-----------------------------------------------------------------------------
(* The semaphores *)

\* The calls to this backend that hold a permit of a semaphore.
Holders(s) == {c \in Calls : call[c].pc = "sent" /\ (s = "consensus" <=> c \in PollCalls)}

\* Finitely many calls hold a permit, and every permit that is not left is held.
Permits ==
    /\ permits \in [Semaphores -> Nat] /\ others \in [Semaphores -> Nat]
    /\ \A s \in Semaphores :
          /\ IsFiniteSet(Holders(s))
          /\ permits[s] = Capacity[s] - others[s] - Cardinality(Holders(s))

PermitInv == Types /\ Good(win, newest) /\ Permits

\* The semaphores have the capacities that are configured.
LEMMA CapacityType == Capacity \in [Semaphores -> Nat]
  BY SettingsAssumption, Zenon DEF Capacity, Semaphores

\* A step that moves no call to or from "sent" keeps the holders.
LEMMA SameHolders ==
    ASSUME \A c \in Calls : call'[c].pc = "sent" <=> call[c].pc = "sent", NEW s
    PROVE  Holders(s)' = Holders(s)
  BY Zenon DEF Holders

\* Every step keeps the account of the permits.
LEMMA PermitsStep ==
    ASSUME PermitInv, [Next]_vars
    PROVE  Permits'
<1> USE DEF PermitInv
<1>1. ASSUME permits' = permits, others' = others,
             \A c \in Calls : call'[c].pc = "sent" <=> call[c].pc = "sent"
      PROVE  Permits'
  BY <1>1, SameHolders, Zenon DEF Permits
<1>2. CASE UNCHANGED vars
  BY <1>1, <1>2, Zenon DEF vars
<1>3. CASE Tick \/ Read
  BY <1>1, <1>3, Zenon DEF Tick, Read, AskHealthy, ReadMin, ReadErrors, ReadRequests, AskDegraded,
     AvgChecks, AvgReadsSum, AvgReadsQty
<1>4. ASSUME NEW s \in Semaphores, OtherAcquires(s) \/ OtherReleases(s)
      PROVE  Permits'
  <2>1. \A r \in Semaphores : Holders(r)' = Holders(r)
    BY <1>4, SameHolders, Zenon DEF OtherAcquires, OtherReleases
  <2>2. \A r \in Semaphores : Capacity[r] \in Nat /\ Cardinality(Holders(r)) \in Nat
    BY CapacityType, FS_CardinalityType, Zenon DEF Permits
  <2>3. /\ permits' \in [Semaphores -> Nat] /\ others' \in [Semaphores -> Nat]
        /\ \A r \in Semaphores : permits'[r] + others'[r] = permits[r] + others[r]
    BY <1>4 DEF OtherAcquires, OtherReleases, Permits
  <2>4. \A r \in Semaphores : permits'[r] = Capacity[r] - others'[r] - Cardinality(Holders(r))
    BY <2>2, <2>3, SMTT(60) DEF Permits
  <2> QED
    BY <2>1, <2>3, <2>4, Zenon DEF Permits
<1>5. ASSUME NEW c \in Calls, Acquire(c)
      PROVE  Permits'
  <2> DEFINE s == SemaphoreOf(c)
  <2>1. s \in Semaphores /\ \A r \in Semaphores : (r = "consensus" <=> c \in PollCalls) <=> r = s
    BY Zenon DEF SemaphoreOf, Semaphores
  <2>2. call'[c].pc = "sent" /\ call[c].pc # "sent" /\ \A d \in Calls : d # c => call'[d] = call[d]
    BY <1>5, Zenon DEF Acquire, Goto, At, Types
  <2>3. c \notin Holders(s) /\ Holders(s)' = Holders(s) \union {c}
    BY <2>1, <2>2, Zenon DEF Holders
  <2>4. \A r \in Semaphores : r # s => Holders(r)' = Holders(r)
    BY <2>1, <2>2, Zenon DEF Holders
  <2>5. /\ IsFiniteSet(Holders(s)') /\ Cardinality(Holders(s)') = Cardinality(Holders(s)) + 1
        /\ Cardinality(Holders(s)) \in Nat
    BY <2>1, <2>3, FS_AddElement, FS_CardinalityType DEF Permits
  <2>6. /\ others' = others /\ permits' = [permits EXCEPT ![s] = permits[s] - 1] /\ permits[s] > 0
    BY <1>5, Zenon DEF Acquire
  <2> HIDE DEF s
  <2>7. /\ permits' \in [Semaphores -> Nat] /\ permits'[s] = permits[s] - 1
        /\ \A r \in Semaphores : r # s => permits'[r] = permits[r]
    BY <2>1, <2>6 DEF Permits
  <2>8. permits'[s] = Capacity[s] - others'[s] - Cardinality(Holders(s)')
    BY <2>1, <2>5, <2>6, <2>7, CapacityType DEF Permits
  <2>9. ASSUME NEW r \in Semaphores
        PROVE  IsFiniteSet(Holders(r)') /\ permits'[r] = Capacity[r] - others'[r] - Cardinality(Holders(r)')
    BY <2>4, <2>5, <2>6, <2>7, <2>8, Zenon DEF Permits
  <2> QED
    BY <2>6, <2>7, <2>9, Zenon DEF Permits
<1>6. ASSUME NEW c \in Calls, DoReturns(c)
      PROVE  Permits'
  <2> DEFINE s == SemaphoreOf(c)
  <2>1. s \in Semaphores /\ \A r \in Semaphores : (r = "consensus" <=> c \in PollCalls) <=> r = s
    BY Zenon DEF SemaphoreOf, Semaphores
  <2>2. call'[c].pc # "sent" /\ call[c].pc = "sent" /\ \A d \in Calls : d # c => call'[d] = call[d]
    BY <1>6, Zenon DEF DoReturns, Goto, At, Types
  <2>3. c \in Holders(s) /\ Holders(s)' = Holders(s) \ {c}
    BY <2>1, <2>2, Zenon DEF Holders
  <2>4. \A r \in Semaphores : r # s => Holders(r)' = Holders(r)
    BY <2>1, <2>2, Zenon DEF Holders
  <2>5. /\ IsFiniteSet(Holders(s)') /\ Cardinality(Holders(s)') = Cardinality(Holders(s)) - 1
        /\ Cardinality(Holders(s)) \in Nat
    BY <2>1, <2>3, FS_RemoveElement, FS_CardinalityType DEF Permits
  <2>6. others' = others /\ permits' = [permits EXCEPT ![s] = permits[s] + 1]
    BY <1>6, Zenon DEF DoReturns
  <2> HIDE DEF s
  <2>7. /\ permits' \in [Semaphores -> Nat] /\ permits'[s] = permits[s] + 1
        /\ \A r \in Semaphores : r # s => permits'[r] = permits[r]
    BY <2>1, <2>6 DEF Permits
  <2>8. permits'[s] = Capacity[s] - others'[s] - Cardinality(Holders(s)')
    BY <2>1, <2>5, <2>6, <2>7, CapacityType DEF Permits
  <2>9. ASSUME NEW r \in Semaphores
        PROVE  IsFiniteSet(Holders(r)') /\ permits'[r] = Capacity[r] - others'[r] - Cardinality(Holders(r)')
    BY <2>4, <2>5, <2>6, <2>7, <2>8, Zenon DEF Permits
  <2> QED
    BY <2>6, <2>7, <2>9, Zenon DEF Permits
<1>7. ASSUME NEW c \in Calls, Call(c), ~Acquire(c), ~DoReturns(c)
      PROVE  Permits'
  <2>1. permits' = permits /\ others' = others
    BY <1>7, Zenon DEF Call, Begin, AddInserts, Untranslated, NotSent, CountedError,
       UncountedError, GoodAnswer, PollEnds
  <2>2. call[c].pc # "sent"
    BY <1>7, Zenon DEF Call, Begin, AddInserts, Untranslated, NotSent, CountedError,
       UncountedError, GoodAnswer, PollEnds
  <2>3. PICK x : call' = [call EXCEPT ![c] = x] /\ x.pc # "sent"
    <3>1. AfterInsert(c) \in {"acquire", "polled", "done"}
      BY Zenon DEF AfterInsert
    <3>2. CASE AddInserts(c)
      <4>1. At(AfterInsert(c)).pc # "sent"
        BY <3>1, Zenon DEF At
      <4> QED
        BY <3>2, <4>1, Zenon DEF AddInserts
    <3>3. CASE Goto(c, "done")
      <4>1. At("done").pc # "sent"
        BY Zenon DEF At
      <4> QED
        BY <3>3, <4>1, Zenon DEF Goto
    <3>4. CASE \E l \in {"request", "error", "answer", "zero"}, w \in Windows, v \in Nat : Adding(c, w, v, l)
      <4>1. PICK l \in {"request", "error", "answer", "zero"}, w \in Windows, v \in Nat :
                Adding(c, w, v, l)
        BY <3>4, Zenon
      <4>2. [pc |-> l, win |-> w, t |-> now, val |-> v].pc # "sent"
        BY Zenon
      <4> QED
        BY <4>1, <4>2, Zenon DEF Adding
    <3>5. 1 \in Nat /\ \A v \in Latencies : v \in Nat
      BY SettingsAssumption, Zenon
    <3>6. "requests" \in Windows /\ "errors" \in Windows /\ "latency" \in Windows
      BY Zenon DEF Windows
    <3> QED
      BY <1>7, <3>2, <3>3, <3>4, <3>5, <3>6, Zenon DEF Call, Begin, Untranslated, NotSent,
         CountedError, UncountedError, GoodAnswer, PollEnds
  <2>4. \A d \in Calls : call'[d].pc = "sent" <=> call[d].pc = "sent"
    BY <2>2, <2>3, Zenon DEF Types
  <2> QED
    BY <1>1, <2>1, <2>4, Zenon
<1> QED
  BY <1>2, <1>3, <1>4, <1>5, <1>6, <1>7, Zenon DEF Next

\* Permits are neither lost nor returned twice, and the calls of users and of the
\* consensus poller do not hold each other's.
THEOREM PermitsAreReturnedAlways == Spec => []PermitsAreReturned
<1>1. Init => PermitInv
  <2> SUFFICES ASSUME Init PROVE PermitInv
    BY Zenon
  <2>1. \A s \in Semaphores : Holders(s) = {}
    BY Zenon DEF Init, Holders, At
  <2>2. permits = Capacity /\ others = [s \in Semaphores |-> 0]
    BY Zenon DEF Init
  <2>3. Permits
    BY <2>1, <2>2, CapacityType, FS_EmptySet DEF Permits
  <2> QED
    BY <2>3, InitInvariant, Zenon DEF IInv, PermitInv
<1>2. PermitInv /\ [Next]_vars => PermitInv'
  BY WindowsStep, PermitsStep, Zenon DEF PermitInv
<1>3. PermitInv => PermitsAreReturned
  BY DEF PermitInv, Permits, Holders, PermitsAreReturned
<1> QED
  BY <1>1, <1>2, <1>3, PTL DEF Spec
=============================================================================
