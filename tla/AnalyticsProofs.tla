--------------------------- MODULE AnalyticsProofs --------------------------
(***************************************************************************)
(* What TLAPS proves of Analytics, for samples of integers of any length:  *)
(* a sum, a drawdown and a best cell are recursive functions, and what     *)
(* they return is proved by induction up to the length.                    *)
(***************************************************************************)
EXTENDS Analytics, FiniteSetTheorems, FunctionTheorems, WellFoundedInduction, TLAPS

(* Induction up to a number, over the set of those that have the property. *)
LEMMA UpTo ==
  ASSUME NEW n \in Nat, NEW S, 0 \in S, \A i \in 0 .. n - 1 : i \in S => i + 1 \in S
  PROVE  0 .. n \subseteq S
<1>. DEFINE Rest == (0 .. n) \ S
<1>. SUFFICES ASSUME Rest # {} PROVE FALSE
  OBVIOUS
<1>1. Rest \subseteq Nat
  OBVIOUS
<1>2. PICK m \in Rest : ~ \E i \in Rest : <<i, m>> \in OpToRel(<, Nat)
  BY <1>1, NatLessThanWellFounded, WFMin, Zenon
<1>3. m \in 0 .. n /\ m \notin S /\ m # 0
  OBVIOUS
<1>4. m - 1 \in 0 .. n - 1
  BY <1>3
<1>5. m - 1 \notin Rest
  <2>1. m - 1 \in Nat /\ m \in Nat /\ m - 1 < m
    BY <1>3, <1>4
  <2>. HIDE DEF Rest
  <2>. QED  BY <1>2, <2>1 DEF OpToRel
<1>6. m - 1 \in S
  BY <1>4, <1>5
<1>. QED  BY <1>3, <1>4, <1>6

(* A recursion over the natural numbers has its function.                  *)
Within(step, n, A) == \A x \in A, i \in 1 .. n : step[i][x] \in A
Unrolls(f, n, A, first, step) ==
  f \in [0 .. n -> A] /\ f[0] = first /\ \A i \in 1 .. n : f[i] = step[i][f[i - 1]]

LEMMA Recursion ==
  ASSUME NEW n \in Nat, NEW A, NEW first \in A, NEW step, Within(step, n, A)
  PROVE  \E f : Unrolls(f, n, A, first, step)
<1>. USE DEF Within
<1>. DEFINE Runs(f, m) == f[0] = first /\ \A i \in 1 .. m : f[i] = step[i][f[i - 1]]
            S == {m \in 0 .. n : \E f \in [0 .. m -> A] : Runs(f, m)}
<1>1. 0 \in S
  <2>. DEFINE g == [i \in 0 .. 0 |-> first]
  <2>1. g \in [0 .. 0 -> A] /\ Runs(g, 0) /\ 0 \in 0 .. n
    OBVIOUS
  <2>. HIDE DEF g, Runs
  <2>. QED  BY <2>1
<1>2. ASSUME NEW m \in 0 .. n - 1, m \in S PROVE m + 1 \in S
  <2>1. PICK f \in [0 .. m -> A] : Runs(f, m)
    BY <1>2
  <2>. DEFINE g == [i \in 0 .. m + 1 |-> IF i = m + 1 THEN step[m + 1][f[m]] ELSE f[i]]
  <2>2. step[m + 1][f[m]] \in A
    OBVIOUS
  <2>3. g \in [0 .. m + 1 -> A]
    BY <2>2
  <2>4. ASSUME NEW i \in 1 .. m + 1 PROVE g[i] = step[i][g[i - 1]]
    <3>1. CASE i = m + 1
      BY <3>1
    <3>2. CASE i # m + 1
      <4>1. i \in 1 .. m /\ i - 1 \in 0 .. m /\ g[i - 1] = f[i - 1] /\ g[i] = f[i]
        BY <3>2
      <4>. QED  BY <4>1, <2>1
    <3>. QED  BY <3>1, <3>2
  <2>5. g[0] = first
    BY <2>1
  <2>6. m + 1 \in 0 .. n
    OBVIOUS
  <2>. HIDE DEF g
  <2>. QED  BY <2>3, <2>4, <2>5, <2>6
<1>3. n \in S
  <2>. HIDE DEF S
  <2>1. 0 .. n \subseteq S
    BY <1>1, <1>2, UpTo
  <2>. QED  BY <2>1
<1>. QED  BY <1>3 DEF Unrolls

-----------------------------------------------------------------------------
(* A function that satisfies the equation of a recursive definition is the *)
(* one the definition chooses.                                             *)
LEMMA OneSolution ==
  ASSUME NEW n \in Nat, NEW f, NEW h, f[0] = h[0],
         \A i \in 1 .. n : h[i - 1] = f[i - 1] => h[i] = f[i]
  PROVE  \A i \in 0 .. n : h[i] = f[i]
<1>. DEFINE S == {i \in 0 .. n : h[i] = f[i]}
<1>1. 0 \in S
  OBVIOUS
<1>2. ASSUME NEW i \in 0 .. n - 1, i \in S PROVE i + 1 \in S
  <2>1. i + 1 \in 1 .. n /\ (i + 1) - 1 = i /\ i + 1 \in 0 .. n
    OBVIOUS
  <2>. QED  BY <1>2, <2>1
<1>3. 0 .. n \subseteq S
  <2>. HIDE DEF S
  <2>. QED  BY <1>1, <1>2, UpTo
<1>. QED  BY <1>3

(* A sum is the last of the sums of the beginnings.                        *)
IsTotal(sum, s) ==
  /\ sum \in [0 .. Len(s) -> Int] /\ sum[0] = 0
  /\ \A i \in 1 .. Len(s) : sum[i] = sum[i - 1] + s[i]

LEMMA TotalIsTotal ==
  ASSUME NEW s \in Seq(Int)
  PROVE  \E sum : IsTotal(sum, s) /\ Total(s) = sum[Len(s)]
<1>. DEFINE n == Len(s)
            step == [i \in 1 .. n |-> [x \in Int |-> x + s[i]]]
            Step(g) == [i \in 0 .. n |-> IF i = 0 THEN 0 ELSE g[i - 1] + s[i]]
            h == CHOOSE g : g = Step(g)
<1>1. n \in Nat /\ \A i \in 1 .. n : s[i] \in Int
  OBVIOUS
<1>2. PICK f : Unrolls(f, n, Int, 0, step)
  <2>1. Within(step, n, Int)
    BY <1>1 DEF Within
  <2>. HIDE DEF step, n
  <2>2. \A first \in Int : \E f : Unrolls(f, n, Int, first, step)
    BY <1>1, <2>1, Recursion
  <2>. QED  BY <2>2
<1>. USE DEF Unrolls
<1>3. \A i \in 1 .. n : f[i - 1] \in Int /\ f[i] = f[i - 1] + s[i]
  <2>. SUFFICES ASSUME NEW i \in 1 .. n PROVE f[i - 1] \in Int /\ f[i] = f[i - 1] + s[i]
    OBVIOUS
  <2>1. i - 1 \in 0 .. n
    BY <1>1
  <2>2. f[i - 1] \in Int /\ f[i] = step[i][f[i - 1]]
    BY <1>2, <2>1
  <2>. QED  BY <2>2
<1>4. f = Step(f)
  <2>1. \A i \in 0 .. n : f[i] = Step(f)[i]
    BY <1>1, <1>2, <1>3
  <2>2. Step(f) = [i \in 0 .. n |-> Step(f)[i]]
    OBVIOUS
  <2>. HIDE DEF Step
  <2>. QED  BY <1>2, <2>1, <2>2
<1>5. h = Step(h)
  <2>. HIDE DEF Step
  <2>. QED  BY <1>4
<1>6. Total(s) = h[n]
  BY DEF Total
<1>7. h[n] = f[n]
  <2>. HIDE DEF h, n
  <2>1. f[0] = h[0]
    BY <1>1, <1>2, <1>5
  <2>2. \A i \in 1 .. n : h[i - 1] = f[i - 1] => h[i] = f[i]
    BY <1>1, <1>3, <1>5
  <2>3. \A i \in 0 .. n : h[i] = f[i]
    BY <1>1, <2>1, <2>2, OneSolution
  <2>. QED  BY <1>1, <2>3
<1>. HIDE DEF h
<1>. QED  BY <1>2, <1>3, <1>6, <1>7 DEF IsTotal

(* A function of the places of a sequence is a sequence as long.           *)
LEMMA Mapped ==
  ASSUME NEW s \in Seq(Int), NEW t \in [DOMAIN s -> Int]
  PROVE  t \in Seq(Int) /\ Len(t) = Len(s) /\ DOMAIN s = 1 .. Len(s)
OBVIOUS

-----------------------------------------------------------------------------
(* Positions that cancel leave a smaller exposure.                         *)
LEMMA ExposureBounds ==
  ASSUME NEW s \in Seq(Int)
  PROVE  Exposure(s) >= Magnitude(NetExposure(s))
<1>. DEFINE n == Len(s)
            sizes == [i \in DOMAIN s |-> Magnitude(s[i])]
<1>1. n \in Nat /\ \A i \in 1 .. n : s[i] \in Int /\ sizes[i] = Magnitude(s[i])
  OBVIOUS
<1>2. sizes \in Seq(Int) /\ Len(sizes) = n
  <2>1. sizes \in [DOMAIN s -> Int]
    BY DEF Magnitude
  <2>. HIDE DEF sizes
  <2>. QED  BY <2>1, Mapped
<1>. HIDE DEF sizes, n
<1>3. PICK p : IsTotal(p, sizes) /\ Total(sizes) = p[n]
  BY <1>2, TotalIsTotal
<1>4. PICK q : IsTotal(q, s) /\ Total(s) = q[n]
  BY TotalIsTotal DEF n
<1>5. /\ p \in [0 .. n -> Int] /\ p[0] = 0 /\ \A i \in 1 .. n : p[i] = p[i - 1] + sizes[i]
      /\ q \in [0 .. n -> Int] /\ q[0] = 0 /\ \A i \in 1 .. n : q[i] = q[i - 1] + s[i]
  BY <1>2, <1>3, <1>4 DEF IsTotal, n
<1>. DEFINE S == {i \in 0 .. n : q[i] <= p[i] /\ -q[i] <= p[i]}
<1>6. 0 \in S
  BY <1>1, <1>5
<1>7. ASSUME NEW i \in 0 .. n - 1, i \in S PROVE i + 1 \in S
  <2>1. i + 1 \in 1 .. n /\ (i + 1) - 1 = i
    BY <1>1
  <2>2. p[i + 1] = p[i] + Magnitude(s[i + 1]) /\ q[i + 1] = q[i] + s[i + 1] /\ s[i + 1] \in Int
    BY <1>1, <1>5, <2>1
  <2>3. p[i] \in Int /\ q[i] \in Int
    BY <1>1, <1>5
  <2>. QED  BY <1>1, <1>7, <2>1, <2>2, <2>3 DEF Magnitude
<1>8. n \in S
  <2>. HIDE DEF S
  <2>1. 0 .. n \subseteq S
    BY <1>1, <1>6, <1>7, UpTo
  <2>. QED  BY <1>1, <2>1
<1>9. Exposure(s) = p[n] /\ NetExposure(s) = q[n]
  BY <1>3, <1>4 DEF Exposure, NetExposure, sizes
<1>. QED  BY <1>1, <1>5, <1>8, <1>9 DEF Magnitude

(* As many ones as there are places.                                       *)
LEMMA OnesAddUp ==
  ASSUME NEW s \in Seq(Int)
  PROVE  Total([i \in DOMAIN s |-> 1]) = Len(s)
<1>. DEFINE n == Len(s)
            ones == [i \in DOMAIN s |-> 1]
<1>1. n \in Nat /\ \A i \in 1 .. n : ones[i] = 1
  OBVIOUS
<1>2. ones \in Seq(Int) /\ Len(ones) = n
  <2>1. ones \in [DOMAIN s -> Int]
    OBVIOUS
  <2>. HIDE DEF ones
  <2>. QED  BY <2>1, Mapped
<1>. HIDE DEF ones, n
<1>3. PICK p : IsTotal(p, ones) /\ Total(ones) = p[n]
  BY <1>2, TotalIsTotal
<1>4. p \in [0 .. n -> Int] /\ p[0] = 0 /\ \A i \in 1 .. n : p[i] = p[i - 1] + ones[i]
  BY <1>2, <1>3 DEF IsTotal
<1>. DEFINE S == {i \in 0 .. n : p[i] = i}
<1>5. 0 \in S
  BY <1>1, <1>4
<1>6. ASSUME NEW i \in 0 .. n - 1, i \in S PROVE i + 1 \in S
  <2>1. i + 1 \in 1 .. n /\ (i + 1) - 1 = i
    BY <1>1
  <2>2. p[i + 1] = p[i] + 1
    BY <1>1, <1>4, <2>1
  <2>. QED  BY <1>1, <1>6, <2>1, <2>2
<1>7. n \in S
  <2>. HIDE DEF S
  <2>1. 0 .. n \subseteq S
    BY <1>1, <1>5, <1>6, UpTo
  <2>. QED  BY <1>1, <2>1
<1>. QED  BY <1>3, <1>7 DEF ones, n

(* The mean of what is at most a value is at most it.                      *)
LEMMA TailIsBelow ==
  ASSUME NEW s \in Seq(Int), NEW v \in Int
  PROVE  /\ Cardinality({i \in DOMAIN s : s[i] <= v}) \in Nat
         /\ Total([i \in DOMAIN s |-> IF s[i] <= v THEN s[i] ELSE 0])
              <= v * Cardinality({i \in DOMAIN s : s[i] <= v})
<1>. DEFINE n == Len(s)
            tail == [i \in DOMAIN s |-> IF s[i] <= v THEN s[i] ELSE 0]
            C(k) == {i \in 1 .. k : s[i] <= v}
<1>1. /\ n \in Nat /\ DOMAIN s = 1 .. n
      /\ \A i \in 1 .. n : s[i] \in Int /\ tail[i] = (IF s[i] <= v THEN s[i] ELSE 0)
  OBVIOUS
<1>2. tail \in Seq(Int) /\ Len(tail) = n
  <2>1. tail \in [DOMAIN s -> Int]
    OBVIOUS
  <2>. HIDE DEF tail
  <2>. QED  BY <2>1, Mapped
<1>. HIDE DEF tail, n
<1>3. PICK p : IsTotal(p, tail) /\ Total(tail) = p[n]
  BY <1>2, TotalIsTotal
<1>4. p \in [0 .. n -> Int] /\ p[0] = 0 /\ \A i \in 1 .. n : p[i] = p[i - 1] + tail[i]
  BY <1>2, <1>3 DEF IsTotal
<1>5. ASSUME NEW k \in Nat PROVE IsFiniteSet(C(k)) /\ Cardinality(C(k)) \in Nat
  <2>1. IsFiniteSet(1 .. k)
    BY FS_Interval
  <2>2. C(k) \in SUBSET (1 .. k)
    OBVIOUS
  <2>. HIDE DEF C
  <2>3. IsFiniteSet(C(k))
    BY <2>1, <2>2, FS_Subset
  <2>. QED  BY <2>3, FS_CardinalityType
<1>. DEFINE S == {k \in 0 .. n : p[k] <= v * Cardinality(C(k))}
<1>6. 0 \in S
  <2>1. C(0) = {}
    OBVIOUS
  <2>2. Cardinality(C(0)) = 0
    BY <2>1, FS_EmptySet
  <2>. HIDE DEF C
  <2>. QED  BY <1>1, <1>4, <2>2
<1>7. ASSUME NEW k \in 0 .. n - 1, k \in S PROVE k + 1 \in S
  <2>1. k + 1 \in 1 .. n /\ (k + 1) - 1 = k /\ k \in Nat /\ p[k] \in Int
    BY <1>1, <1>4
  <2>2. p[k + 1] = p[k] + tail[k + 1] /\ s[k + 1] \in Int
    BY <1>1, <1>4, <2>1
  <2>3. IsFiniteSet(C(k)) /\ Cardinality(C(k)) \in Nat
    BY <1>5, <2>1
  <2>4. CASE s[k + 1] <= v
    <3>1. C(k + 1) = C(k) \cup {k + 1} /\ k + 1 \notin C(k)
      BY <2>1, <2>4
    <3>. HIDE DEF C
    <3>2. Cardinality(C(k + 1)) = Cardinality(C(k)) + 1
      BY <2>3, <3>1, FS_AddElement
    <3>3. tail[k + 1] = s[k + 1]
      BY <1>1, <2>1, <2>4
    <3>4. v * (Cardinality(C(k)) + 1) = v * Cardinality(C(k)) + v
      BY <2>3
    <3>5. v * Cardinality(C(k)) \in Int
      BY <2>3
    <3>. QED  BY <1>7, <2>1, <2>2, <2>4, <3>2, <3>3, <3>4, <3>5
  <2>5. CASE ~ (s[k + 1] <= v)
    <3>1. C(k + 1) = C(k)
      BY <2>1, <2>5
    <3>2. tail[k + 1] = 0
      BY <1>1, <2>1, <2>5
    <3>. HIDE DEF C
    <3>. QED  BY <1>7, <2>1, <2>2, <3>1, <3>2
  <2>. QED  BY <2>4, <2>5
<1>8. n \in S
  <2>. HIDE DEF S
  <2>1. 0 .. n \subseteq S
    BY <1>1, <1>6, <1>7, UpTo
  <2>. QED  BY <1>1, <2>1
<1>9. C(n) = {i \in DOMAIN s : s[i] <= v}
  BY <1>1
<1>. HIDE DEF C
<1>. QED  BY <1>1, <1>3, <1>5, <1>8, <1>9 DEF tail

-----------------------------------------------------------------------------
(* The best cell is that of the last step over the grid.                   *)
IsBest(top, scores) ==
  /\ top[0] = 0
  /\ \A i \in 1 .. Len(scores) : top[i] = BetterCell(scores, top[i - 1], i)

LEMMA BestIsBest ==
  ASSUME NEW scores \in Seq(Int)
  PROVE  \E top : IsBest(top, scores) /\ Best(scores) = top[Len(scores)]
<1>. DEFINE n == Len(scores)
            cells == 0 .. n
            step == [i \in 1 .. n |-> [x \in cells |-> BetterCell(scores, x, i)]]
            Step(g) == [i \in 0 .. n |-> IF i = 0 THEN 0 ELSE BetterCell(scores, g[i - 1], i)]
            h == CHOOSE g : g = Step(g)
<1>1. n \in Nat
  OBVIOUS
<1>2. PICK f : Unrolls(f, n, cells, 0, step)
  <2>1. Within(step, n, cells)
    BY <1>1 DEF Within, BetterCell
  <2>2. 0 \in cells
    BY <1>1
  <2>. HIDE DEF step, n, cells
  <2>3. \A first \in cells : \E f : Unrolls(f, n, cells, first, step)
    BY <1>1, <2>1, Recursion
  <2>. QED  BY <2>2, <2>3
<1>. USE DEF Unrolls
<1>3. \A i \in 1 .. n : f[i] = BetterCell(scores, f[i - 1], i)
  <2>. SUFFICES ASSUME NEW i \in 1 .. n PROVE f[i] = BetterCell(scores, f[i - 1], i)
    OBVIOUS
  <2>1. i - 1 \in 0 .. n
    BY <1>1
  <2>2. f[i - 1] \in cells /\ f[i] = step[i][f[i - 1]]
    BY <1>2, <2>1
  <2>. QED  BY <2>2
<1>4. f = Step(f)
  <2>1. \A i \in 0 .. n : f[i] = Step(f)[i]
    BY <1>1, <1>2, <1>3
  <2>2. Step(f) = [i \in 0 .. n |-> Step(f)[i]]
    OBVIOUS
  <2>. HIDE DEF Step
  <2>. QED  BY <1>2, <2>1, <2>2
<1>5. h = Step(h)
  <2>. HIDE DEF Step
  <2>. QED  BY <1>4
<1>6. Best(scores) = h[n]
  BY DEF Best
<1>7. h[0] = 0 /\ \A i \in 1 .. n : h[i] = BetterCell(scores, h[i - 1], i)
  <2>. HIDE DEF h, n
  <2>. QED  BY <1>1, <1>5
<1>. HIDE DEF h
<1>. QED  BY <1>6, <1>7 DEF IsBest

(* The best cell is the first of the best.                                 *)
LEMMA BestIsFirst ==
  ASSUME NEW s \in Seq(Int), Len(s) > 0
  PROVE  /\ Best(s) \in 1 .. Len(s)
         /\ \A i \in 1 .. Len(s) : s[i] <= s[Best(s)] /\ (i < Best(s) => s[i] < s[Best(s)])
<1>. DEFINE n == Len(s)
            First(b, k) ==
              b \in 1 .. k /\ \A i \in 1 .. k : s[i] <= s[b] /\ (i < b => s[i] < s[b])
<1>1. n \in Nat /\ n > 0 /\ \A i \in 1 .. n : s[i] \in Int
  OBVIOUS
<1>. HIDE DEF n
<1>2. PICK top : top[0] = 0 /\ (\A i \in 1 .. n : top[i] = BetterCell(s, top[i - 1], i))
                 /\ Best(s) = top[n]
  BY BestIsBest DEF IsBest, n
<1>. DEFINE S == {k \in 0 .. n : k = 0 \/ First(top[k], k)}
<1>3. 0 \in S
  BY <1>1
<1>4. ASSUME NEW k \in 0 .. n - 1, k \in S PROVE k + 1 \in S
  <2>1. k + 1 \in 1 .. n /\ (k + 1) - 1 = k /\ k \in Nat /\ k + 1 \in 0 .. n
    BY <1>1
  <2>2. top[k + 1] = BetterCell(s, top[k], k + 1)
    BY <1>2, <2>1
  <2>3. CASE k = 0
    <3>1. top[k + 1] = 1
      BY <1>2, <2>2, <2>3 DEF BetterCell
    <3>2. First(1, 1)
      BY <1>1, <2>1, <2>3
    <3>. QED  BY <2>1, <2>3, <3>1, <3>2
  <2>4. CASE k # 0
    <3>1. First(top[k], k)
      BY <1>4, <2>4
    <3>2. top[k] \in 1 .. k /\ \A i \in 1 .. k : s[i] \in Int
      BY <1>1, <2>1, <3>1
    <3>3. s[k + 1] \in Int /\ s[top[k]] \in Int
      BY <1>1, <2>1, <3>2
    <3>4. CASE s[k + 1] > s[top[k]]
      <4>1. top[k + 1] = k + 1
        BY <2>2, <3>4 DEF BetterCell
      <4>2. \A i \in 1 .. k : s[i] < s[k + 1]
        BY <3>1, <3>2, <3>3, <3>4
      <4>3. \A i \in 1 .. k + 1 : i \in 1 .. k \/ i = k + 1
        BY <2>1
      <4>4. \A i \in 1 .. k + 1 : s[i] <= s[k + 1] /\ (i < k + 1 => s[i] < s[k + 1])
        BY <2>1, <3>2, <3>3, <4>2, <4>3
      <4>5. First(k + 1, k + 1)
        BY <2>1, <4>4
      <4>. HIDE DEF First
      <4>. QED  BY <2>1, <4>1, <4>5
    <3>5. CASE ~ (s[k + 1] > s[top[k]])
      <4>1. top[k + 1] = top[k]
        BY <2>1, <2>2, <3>2, <3>5 DEF BetterCell
      <4>2. \A i \in 1 .. k + 1 : i \in 1 .. k \/ i = k + 1
        BY <2>1
      <4>3. s[k + 1] <= s[top[k]] /\ ~ (k + 1 < top[k])
        BY <2>1, <3>2, <3>3, <3>5
      <4>4. First(top[k], k + 1)
        BY <2>1, <3>1, <3>2, <4>2, <4>3
      <4>. QED  BY <2>1, <4>1, <4>4
    <3>. QED  BY <3>4, <3>5
  <2>. QED  BY <2>3, <2>4
<1>5. n \in S
  <2>. HIDE DEF S
  <2>1. 0 .. n \subseteq S
    BY <1>1, <1>3, <1>4, UpTo
  <2>. QED  BY <1>1, <2>1
<1>6. First(top[n], n)
  BY <1>1, <1>5
<1>. QED  BY <1>2, <1>6 DEF n

-----------------------------------------------------------------------------
(* Every sequence can be sorted.                                           *)
LEMMA SortExists ==
  ASSUME NEW s \in Seq(Int)
  PROVE  \E p \in [DOMAIN s -> DOMAIN s] : Sorts(p, s)
<1>. DEFINE n == Len(s)
            S == {m \in 0 .. n : \A v \in [1 .. m -> Int] :
                                   \E p \in [1 .. m -> 1 .. m] : Sorts(p, v)}
<1>1. n \in Nat /\ DOMAIN s = 1 .. n /\ s \in [1 .. n -> Int]
  OBVIOUS
<1>. HIDE DEF n
<1>2. 0 \in S
  <2>1. ASSUME NEW v \in [1 .. 0 -> Int] PROVE \E p \in [1 .. 0 -> 1 .. 0] : Sorts(p, v)
    <3>. DEFINE p == [i \in 1 .. 0 |-> i]
    <3>1. p \in [1 .. 0 -> 1 .. 0] /\ Sorts(p, v)
      BY DEF Sorts
    <3>. HIDE DEF p
    <3>. QED  BY <3>1
  <2>. QED  BY <1>1, <2>1
<1>3. ASSUME NEW m \in 0 .. n - 1, m \in S PROVE m + 1 \in S
  <2>1. m \in Nat /\ m + 1 \in 0 .. n
    BY <1>1
  <2>2. ASSUME NEW v \in [1 .. m + 1 -> Int]
        PROVE  \E p \in [1 .. m + 1 -> 1 .. m + 1] : Sorts(p, v)
    <3>1. v \in Seq(Int) /\ Len(v) = m + 1
      BY <2>1
    <3>2. PICK b \in 1 .. m + 1 : \A i \in 1 .. m + 1 : v[i] <= v[b]
      <4>1. Len(v) > 0
        BY <2>1, <3>1
      <4>2. /\ Best(v) \in 1 .. Len(v)
            /\ \A i \in 1 .. Len(v) : v[i] <= v[Best(v)]
        BY <3>1, <4>1, BestIsFirst
      <4>. QED  BY <3>1, <4>2
    <3>. DEFINE w == [i \in 1 .. m |-> IF i = b THEN v[m + 1] ELSE v[i]]
    <3>3. w \in [1 .. m -> Int]
      BY <2>1
    <3>4. PICK q \in [1 .. m -> 1 .. m] : Sorts(q, w)
      <4>. HIDE DEF w
      <4>. QED  BY <1>3, <3>3
    <3>. DEFINE p == [i \in 1 .. m + 1 |-> IF i = m + 1 THEN b
                                           ELSE IF q[i] = b THEN m + 1 ELSE q[i]]
    <3>5. ASSUME NEW i \in 1 .. m
          PROVE  p[i] \in 1 .. m + 1 /\ p[i] # b /\ v[p[i]] = w[q[i]] /\ q[i] \in 1 .. m
                 /\ (q[i] = b => p[i] = m + 1) /\ (q[i] # b => p[i] = q[i])
      <4>1. q[i] \in 1 .. m /\ i # m + 1 /\ i \in 1 .. m + 1 /\ m + 1 \notin 1 .. m
        BY <2>1
      <4>2. CASE q[i] = b
        BY <2>1, <4>1, <4>2
      <4>3. CASE q[i] # b
        BY <2>1, <4>1, <4>3
      <4>. QED  BY <4>2, <4>3
    <3>6. p[m + 1] = b /\ m + 1 \in 1 .. m + 1
      BY <2>1
    <3>7. p \in [1 .. m + 1 -> 1 .. m + 1]
      <4>1. \A i \in 1 .. m + 1 : i \in 1 .. m \/ i = m + 1
        BY <2>1
      <4>2. \A i \in 1 .. m + 1 : p[i] \in 1 .. m + 1
        <5>. HIDE DEF p
        <5>. QED  BY <3>2, <3>5, <3>6, <4>1
      <4>3. p = [i \in 1 .. m + 1 |-> p[i]]
        OBVIOUS
      <4>. HIDE DEF p
      <4>. QED  BY <4>2, <4>3
    <3>. HIDE DEF p, w
    <3>8. \A i \in 1 .. m + 1 : i \in 1 .. m \/ i = m + 1
      BY <2>1
    <3>9. DOMAIN w = 1 .. m /\ DOMAIN v = 1 .. m + 1
      BY <3>3
    <3>10. ASSUME NEW i \in 1 .. m + 1, NEW j \in 1 .. m + 1, p[i] = p[j] PROVE i = j
      <4>1. CASE i \in 1 .. m /\ j \in 1 .. m
        <5>1. q[i] = q[j]
          <6>1. m + 1 \notin 1 .. m
            BY <2>1
          <6>2. /\ q[i] \in 1 .. m /\ q[j] \in 1 .. m
                /\ (q[i] = b => p[i] = m + 1) /\ (q[i] # b => p[i] = q[i])
                /\ (q[j] = b => p[j] = m + 1) /\ (q[j] # b => p[j] = q[j])
            BY <3>5, <4>1
          <6>3. p[i] = p[j]
            BY <3>10
          <6>4. CASE q[i] = b
            <7>1. q[j] = b
              BY <6>1, <6>2, <6>3, <6>4
            <7>. QED  BY <6>4, <7>1
          <6>5. CASE q[i] # b
            <7>1. q[j] # b
              BY <6>1, <6>2, <6>3, <6>5
            <7>. QED  BY <6>2, <6>3, <6>5, <7>1
          <6>. QED  BY <6>4, <6>5
        <5>. QED  BY <3>4, <3>9, <4>1, <5>1 DEF Sorts
      <4>2. CASE ~ (i \in 1 .. m /\ j \in 1 .. m)
        BY <3>5, <3>6, <3>8, <3>10, <4>2
      <4>. QED  BY <4>1, <4>2
    <3>11. ASSUME NEW i \in 1 .. m + 1, NEW j \in 1 .. m + 1, i < j PROVE v[p[i]] <= v[p[j]]
      <4>1. i \in 1 .. m
        BY <2>1, <3>11
      <4>2. CASE j \in 1 .. m
        <5>1. w[q[i]] <= w[q[j]]
          BY <3>4, <3>9, <3>11, <4>1, <4>2 DEF Sorts
        <5>. QED  BY <3>5, <4>1, <4>2, <5>1
      <4>3. CASE j = m + 1
        BY <3>2, <3>5, <3>6, <4>1, <4>3
      <4>. QED  BY <3>8, <4>2, <4>3
    <3>12. Sorts(p, v)
      BY <3>9, <3>10, <3>11 DEF Sorts
    <3>. QED  BY <3>7, <3>12
  <2>. QED  BY <2>1, <2>2
<1>4. n \in S
  <2>. HIDE DEF S
  <2>1. 0 .. n \subseteq S
    BY <1>1, <1>2, <1>3, UpTo
  <2>. QED  BY <1>1, <2>1
<1>. QED  BY <1>1, <1>4

(* A set into which so many numbers go one to one, or which goes into them *)
(* one to one, is at least, or at most, so large.                          *)
LEMMA Injections ==
  ASSUME NEW T, IsFiniteSet(T), NEW k \in Nat, NEW f
  PROVE  /\ f \in [1 .. k -> T] /\ (\A i, j \in 1 .. k : f[i] = f[j] => i = j)
              => k <= Cardinality(T)
         /\ f \in [T -> 1 .. k] /\ (\A x, y \in T : f[x] = f[y] => x = y)
              => Cardinality(T) <= k
<1>1. IsFiniteSet(1 .. k) /\ Cardinality(1 .. k) = k
  <2>1. IsFiniteSet(1 .. k) /\ Cardinality(1 .. k) = (IF 1 > k THEN 0 ELSE k - 1 + 1)
    BY FS_Interval
  <2>. QED  BY <2>1
<1>2. ASSUME f \in [1 .. k -> T], \A i, j \in 1 .. k : f[i] = f[j] => i = j
      PROVE  k <= Cardinality(T)
  <2>1. f \in Injection(1 .. k, T)
    BY <1>2, Fun_IsInj
  <2>. QED  BY <1>1, <2>1, FS_Injection
<1>3. ASSUME f \in [T -> 1 .. k], \A x, y \in T : f[x] = f[y] => x = y
      PROVE  Cardinality(T) <= k
  <2>1. f \in Injection(T, 1 .. k)
    BY <1>3, Fun_IsInj
  <2>. QED  BY <1>1, <2>1, FS_Injection
<1>. QED  BY <1>2, <1>3

(* No larger share of the returns than the tail is below the value at      *)
(* risk, and a larger one is at most that value.                           *)
LEMMA VaRBounds ==
  ASSUME NEW s \in Seq(Int), Len(s) > 0, NEW percent \in {5, 40}
  PROVE  /\ VaR(s, percent) \in Int
         /\ 100 * Cardinality({i \in DOMAIN s : s[i] < VaR(s, percent)}) <= percent * Len(s)
         /\ 100 * Cardinality({i \in DOMAIN s : s[i] <= VaR(s, percent)}) > percent * Len(s)
<1>. DEFINE n == Len(s)
            order == CHOOSE p \in [DOMAIN s -> DOMAIN s] : Sorts(p, s)
            d == (percent * n) \div 100
            v == VaR(s, percent)
            Below == {i \in 1 .. n : s[i] < v}
            AtMost == {i \in 1 .. n : s[i] <= v}
<1>1. n \in Nat /\ n > 0 /\ DOMAIN s = 1 .. n /\ \A i \in 1 .. n : s[i] \in Int
  OBVIOUS
<1>2. order \in [1 .. n -> 1 .. n] /\ Sorts(order, s)
  <2>1. order \in [DOMAIN s -> DOMAIN s] /\ Sorts(order, s)
    BY SortExists
  <2>. HIDE DEF order
  <2>. QED  BY <1>1, <2>1
<1>3. v = s[order[1 + d]]
  BY DEF VaR
<1>. HIDE DEF order, v, n
<1>4. d \in Nat /\ 100 * d <= percent * n /\ percent * n < 100 * d + 100 /\ d + 1 \in 1 .. n
  <2>1. CASE percent = 5
    BY <1>1, <2>1
  <2>2. CASE percent = 40
    BY <1>1, <2>2
  <2>. QED  BY <2>1, <2>2
<1>. HIDE DEF d
<1>5. /\ \A i, j \in 1 .. n : order[i] = order[j] => i = j
      /\ \A i, j \in 1 .. n : i < j => s[order[i]] <= s[order[j]]
  BY <1>1, <1>2 DEF Sorts
<1>6. IsFiniteSet(1 .. n)
  BY <1>1, FS_Interval
<1>7. \A i \in 1 .. n : \E j \in 1 .. n : order[j] = i
  <2>1. order \in Injection(1 .. n, 1 .. n)
    BY <1>2, <1>5, Fun_IsInj
  <2>2. order \in Surjection(1 .. n, 1 .. n)
    BY <1>6, <2>1, FS_Injection
  <2>. QED  BY <2>2 DEF Surjection
<1>8. v \in Int /\ order[d + 1] \in 1 .. n
  BY <1>1, <1>2, <1>3, <1>4
<1>9. IsFiniteSet(Below) /\ IsFiniteSet(AtMost)
  <2>1. Below \in SUBSET (1 .. n) /\ AtMost \in SUBSET (1 .. n)
    OBVIOUS
  <2>. HIDE DEF Below, AtMost
  <2>. QED  BY <1>6, <2>1, FS_Subset
<1>10. Cardinality(Below) <= d
  <2>. DEFINE place == [i \in Below |-> CHOOSE j \in 1 .. n : order[j] = i]
  <2>1. ASSUME NEW i \in Below PROVE place[i] \in 1 .. d /\ order[place[i]] = i
    <3>1. place[i] \in 1 .. n /\ order[place[i]] = i
      BY <1>7
    <3>. HIDE DEF place
    <3>2. s[order[place[i]]] < s[order[d + 1]] /\ s[i] \in Int
      BY <1>1, <1>3, <1>4, <3>1
    <3>3. s[order[place[i]]] \in Int /\ s[order[d + 1]] \in Int
      BY <1>1, <1>8, <3>1
    <3>4. place[i] # d + 1
      BY <3>2, <3>3
    <3>5. ~ (d + 1 < place[i])
      <4>1. d + 1 < place[i] => s[order[d + 1]] <= s[order[place[i]]]
        BY <1>4, <1>5, <3>1
      <4>. QED  BY <3>2, <3>3, <4>1
    <3>. QED  BY <1>4, <3>1, <3>4, <3>5
  <2>2. place = [i \in Below |-> place[i]]
    OBVIOUS
  <2>. HIDE DEF place, Below
  <2>3. place \in [Below -> 1 .. d]
    BY <2>1, <2>2
  <2>4. \A i, j \in Below : place[i] = place[j] => i = j
    BY <2>1
  <2>. QED  BY <1>4, <1>9, <2>3, <2>4, Injections
<1>11. Cardinality(AtMost) >= d + 1
  <2>. DEFINE first == [j \in 1 .. d + 1 |-> order[j]]
  <2>1. ASSUME NEW j \in 1 .. d + 1 PROVE first[j] \in AtMost /\ first[j] = order[j] /\ j \in 1 .. n
    <3>1. j \in 1 .. n /\ order[j] \in 1 .. n
      BY <1>1, <1>2, <1>4
    <3>2. j = d + 1 \/ j < d + 1
      BY <1>4
    <3>3. s[order[j]] <= s[order[d + 1]]
      <4>1. CASE j = d + 1
        BY <1>1, <1>8, <4>1
      <4>2. CASE j < d + 1
        BY <1>4, <1>5, <3>1, <4>2
      <4>. QED  BY <3>2, <4>1, <4>2
    <3>. QED  BY <1>3, <1>4, <3>1, <3>3
  <2>2. first = [j \in 1 .. d + 1 |-> first[j]]
    OBVIOUS
  <2>. HIDE DEF first, AtMost
  <2>. DEFINE k == d + 1
  <2>3. first \in [1 .. k -> AtMost]
    BY <2>1, <2>2
  <2>4. \A i, j \in 1 .. k : first[i] = first[j] => i = j
    BY <1>5, <2>1
  <2>5. k \in Nat
    BY <1>4
  <2>6. k <= Cardinality(AtMost)
    <3>. HIDE DEF k
    <3>. QED  BY <1>9, <2>3, <2>4, <2>5, Injections
  <2>. QED  BY <1>4, <1>9, <2>6, FS_CardinalityType
<1>12. Cardinality(Below) \in Nat /\ Cardinality(AtMost) \in Nat
  BY <1>9, FS_CardinalityType
<1>13. 100 * Cardinality(Below) <= percent * n /\ 100 * Cardinality(AtMost) > percent * n
  <2>. HIDE DEF Below, AtMost
  <2>1. percent * n \in Int
    BY <1>1
  <2>. QED  BY <1>4, <1>10, <1>11, <1>12, <2>1
<1>. QED  BY <1>1, <1>8, <1>13 DEF v, n

(* The mean of the tail is at most the value at risk.                      *)
LEMMA CVaRBound ==
  ASSUME NEW s \in Seq(Int), NEW percent, VaR(s, percent) \in Int
  PROVE  CVaR(s, percent)[1] <= VaR(s, percent) * CVaR(s, percent)[2]
<1>. DEFINE v == VaR(s, percent)
            sum == Total([i \in DOMAIN s |-> IF s[i] <= v THEN s[i] ELSE 0])
            count == Cardinality({i \in DOMAIN s : s[i] <= v})
<1>1. CVaR(s, percent) = <<sum, count>>
  BY DEF CVaR
<1>2. sum <= v * count
  <2>. HIDE DEF v
  <2>. QED  BY TailIsBelow DEF v
<1>. HIDE DEF sum, count
<1>. QED  BY <1>1, <1>2

-----------------------------------------------------------------------------
(* An inequality may be multiplied by a positive number, and divided by it *)
LEMMA Scale ==
  ASSUME NEW b \in Nat, NEW x \in Int, NEW y \in Int
  PROVE  /\ x <= y => b * x <= b * y
         /\ b > 0 /\ b * x <= b * y => x <= y
<1>1. ASSUME NEW z \in Int, z >= 0 PROVE b * z >= 0
  BY <1>1
<1>2. ASSUME NEW z \in Int, z > 0, b > 0 PROVE b * z > 0
  BY <1>2
<1>3. b * (y - x) = b * y - b * x /\ b * (x - y) = b * x - b * y
  OBVIOUS
<1>4. b * x \in Int /\ b * y \in Int
  OBVIOUS
<1>5. ASSUME x <= y PROVE b * x <= b * y
  <2>1. y - x \in Int /\ y - x >= 0
    BY <1>5
  <2>2. b * (y - x) >= 0
    BY <1>1, <2>1
  <2>. QED  BY <1>3, <1>4, <2>2
<1>6. ASSUME b > 0, b * x <= b * y PROVE x <= y
  <2>. SUFFICES ASSUME x > y PROVE FALSE
    OBVIOUS
  <2>1. x - y \in Int /\ x - y > 0
    OBVIOUS
  <2>2. b * (x - y) > 0
    BY <1>2, <1>6, <2>1
  <2>. QED  BY <1>3, <1>4, <1>6, <2>2
<1>. QED  BY <1>5, <1>6

(* No deeper than a fraction that is no deeper than a third.               *)
LEMMA NoDeeper ==
  ASSUME NEW a1 \in Int, NEW b1 \in Int, NEW c1 \in Int, NEW a2 \in Nat \ {0},
         NEW b2 \in Nat \ {0}, NEW c2 \in Nat \ {0},
         a1 * b2 <= b1 * a2, b1 * c2 <= c1 * b2
  PROVE  a1 * c2 <= c1 * a2
<1>1. /\ a1 * b2 \in Int /\ b1 * a2 \in Int /\ b1 * c2 \in Int
      /\ c1 * b2 \in Int /\ a1 * c2 \in Int /\ c1 * a2 \in Int
  OBVIOUS
<1>2. c2 * (a1 * b2) <= c2 * (b1 * a2) /\ a2 * (b1 * c2) <= a2 * (c1 * b2)
  BY <1>1, Scale
<1>3. /\ c2 * (a1 * b2) = b2 * (a1 * c2) /\ c2 * (b1 * a2) = a2 * (b1 * c2)
      /\ a2 * (c1 * b2) = b2 * (c1 * a2)
  OBVIOUS
<1>4. b2 * (a1 * c2) <= b2 * (c1 * a2)
  <2>1. /\ c2 * (a1 * b2) \in Int /\ a2 * (b1 * c2) \in Int /\ a2 * (c1 * b2) \in Int
    BY <1>1
  <2>. QED  BY <1>2, <1>3, <2>1
<1>. QED  BY <1>1, <1>4, Scale

(* A fall from a higher point to the same one is no less deep.             *)
LEMMA HigherIsDeeper ==
  ASSUME NEW x \in Nat, NEW p \in Nat, NEW y \in Nat, x <= p
  PROVE  (x - y) * p <= (p - y) * x
<1>1. y * x <= y * p
  BY Scale
<1>2. (x - y) * p = x * p - y * p /\ (p - y) * x = x * p - y * x
  OBVIOUS
<1>3. y * x \in Int /\ y * p \in Int /\ x * p \in Int
  OBVIOUS
<1>. QED  BY <1>1, <1>2, <1>3

(* The drawdown is that of the last step over the curve.                   *)
IsDrawdown(acc, curve) ==
  /\ acc \in [0 .. Len(curve) -> [peak : Int, worst : Int \X Int]]
  /\ acc[0] = [peak |-> curve[1], worst |-> <<0, 1>>]
  /\ \A i \in 1 .. Len(curve) : acc[i] = Draw(acc[i - 1], curve[i])

LEMMA DrawdownIsDrawdown ==
  ASSUME NEW curve \in Seq(Int), Len(curve) > 0
  PROVE  \E acc : IsDrawdown(acc, curve) /\ MaxDrawdown(curve) = acc[Len(curve)].worst
<1>. DEFINE n == Len(curve)
            A == [peak : Int, worst : Int \X Int]
            first == [peak |-> curve[1], worst |-> <<0, 1>>]
            step == [i \in 1 .. n |-> [x \in A |-> Draw(x, curve[i])]]
            Step(g) == [i \in 0 .. n |-> IF i = 0 THEN first ELSE Draw(g[i - 1], curve[i])]
            h == CHOOSE g : g = Step(g)
<1>1. n \in Nat /\ n > 0 /\ \A i \in 1 .. n : curve[i] \in Int
  OBVIOUS
<1>2. first \in A
  BY <1>1
<1>3. \A x \in A, value \in Int : Draw(x, value) \in A
  <2>. TAKE x \in A, value \in Int
  <2>1. Larger(x.peak, value) \in Int
    BY DEF Larger
  <2>. QED  BY <2>1 DEF Draw
<1>. HIDE DEF n, A, first
<1>4. PICK f : Unrolls(f, n, A, first, step)
  <2>1. Within(step, n, A)
    BY <1>1, <1>3 DEF Within
  <2>. HIDE DEF step
  <2>. QED  BY <1>1, <1>2, <2>1, Recursion
<1>. USE DEF Unrolls
<1>5. \A i \in 1 .. n : f[i] = Draw(f[i - 1], curve[i])
  <2>. SUFFICES ASSUME NEW i \in 1 .. n PROVE f[i] = Draw(f[i - 1], curve[i])
    OBVIOUS
  <2>1. i - 1 \in 0 .. n
    BY <1>1
  <2>2. f[i - 1] \in A /\ f[i] = step[i][f[i - 1]]
    BY <1>4, <2>1
  <2>. QED  BY <2>2
<1>6. f = Step(f)
  <2>1. \A i \in 0 .. n : f[i] = Step(f)[i]
    BY <1>1, <1>4, <1>5
  <2>2. Step(f) = [i \in 0 .. n |-> Step(f)[i]]
    OBVIOUS
  <2>. HIDE DEF Step
  <2>. QED  BY <1>4, <2>1, <2>2
<1>7. h = Step(h)
  <2>. HIDE DEF Step
  <2>. QED  BY <1>6
<1>8. MaxDrawdown(curve) = h[n].worst
  BY DEF MaxDrawdown, n, first
<1>9. h[n] = f[n]
  <2>. HIDE DEF h
  <2>1. f[0] = h[0]
    BY <1>1, <1>4, <1>7
  <2>2. \A i \in 1 .. n : h[i - 1] = f[i - 1] => h[i] = f[i]
    BY <1>1, <1>5, <1>7
  <2>3. \A i \in 0 .. n : h[i] = f[i]
    BY <1>1, <2>1, <2>2, OneSolution
  <2>. QED  BY <1>1, <2>3
<1>. HIDE DEF h
<1>. QED  BY <1>4, <1>5, <1>8, <1>9 DEF IsDrawdown, n, A, first

(* No fall from an earlier point of a curve is deeper than its drawdown.   *)
LEMMA DrawdownIsDeepest ==
  ASSUME NEW s \in Seq(Int), Len(s) > 0, \A i \in 1 .. Len(s) : s[i] >= 0
  PROVE  \A i, j \in 1 .. Len(s) :
           i < j /\ s[i] > 0 => ~ Deeper(<<s[i] - s[j], s[i]>>, MaxDrawdown(s))
<1>. DEFINE n == Len(s)
            Covers(a, k) ==
              /\ a.peak \in Nat /\ \A i \in 1 .. k : s[i] <= a.peak
              /\ a.worst[1] \in Int /\ a.worst[2] \in Nat \ {0}
              /\ \A i, j \in 1 .. k :
                   i < j /\ s[i] > 0 => (s[i] - s[j]) * a.worst[2] <= a.worst[1] * s[i]
<1>1. n \in Nat /\ n > 0 /\ \A i \in 1 .. n : s[i] \in Nat
  OBVIOUS
<1>2. PICK acc : IsDrawdown(acc, s) /\ MaxDrawdown(s) = acc[n].worst
  BY DrawdownIsDrawdown
<1>. HIDE DEF n
<1>3. /\ acc \in [0 .. n -> [peak : Int, worst : Int \X Int]]
      /\ acc[0] = [peak |-> s[1], worst |-> <<0, 1>>]
      /\ \A i \in 1 .. n : acc[i] = Draw(acc[i - 1], s[i])
  BY <1>2 DEF IsDrawdown, n
<1>. DEFINE S == {k \in 0 .. n : Covers(acc[k], k)}
<1>4. 0 \in S
  <2>1. /\ acc[0].peak = s[1] /\ 1 \in 1 .. n
        /\ acc[0].worst[1] = 0 /\ acc[0].worst[2] = 1
    BY <1>1, <1>3
  <2>2. s[1] \in Nat /\ 0 \in 0 .. n /\ 1 .. 0 = {}
    BY <1>1, <2>1
  <2>. QED  BY <2>1, <2>2
<1>5. ASSUME NEW k \in 0 .. n - 1, k \in S PROVE k + 1 \in S
  <2>. DEFINE a == acc[k]
              b == acc[k + 1]
              a1 == a.worst[1]
              a2 == a.worst[2]
              b1 == b.worst[1]
              b2 == b.worst[2]
              value == s[k + 1]
              peak == Larger(a.peak, value)
              drop == <<peak - value, peak>>
  <2>1. k + 1 \in 1 .. n /\ (k + 1) - 1 = k /\ k \in Nat /\ k + 1 \in 0 .. n
    BY <1>1
  <2>2. b = Draw(a, value)
    BY <1>3, <2>1
  <2>3. value \in Nat /\ \A i \in 1 .. k : s[i] \in Nat
    BY <1>1, <2>1
  <2>4. /\ a.peak \in Nat /\ (\A i \in 1 .. k : s[i] <= a.peak)
        /\ a1 \in Int /\ a2 \in Nat \ {0}
        /\ \A i, j \in 1 .. k : i < j /\ s[i] > 0 => (s[i] - s[j]) * a2 <= a1 * s[i]
    BY <1>5
  <2>. HIDE DEF a, b, value
  <2>5. peak \in Nat /\ a.peak <= peak /\ value <= peak
    BY <2>3, <2>4 DEF Larger
  <2>6. /\ b.peak = peak
        /\ \/ peak > 0 /\ (peak - value) * a2 > a1 * peak /\ b1 = peak - value /\ b2 = peak
           \/ ~ (peak > 0 /\ (peak - value) * a2 > a1 * peak) /\ b1 = a1 /\ b2 = a2
    <3>1. /\ b.peak = peak
          /\ b.worst = (IF peak > 0 /\ Deeper(drop, a.worst) THEN drop ELSE a.worst)
      BY <2>2 DEF Draw
    <3>2. Deeper(drop, a.worst) <=> (peak - value) * a2 > a1 * peak
      BY DEF Deeper
    <3>3. drop[1] = peak - value /\ drop[2] = peak
      OBVIOUS
    <3>. HIDE DEF peak, drop
    <3>4. CASE peak > 0 /\ Deeper(drop, a.worst)
      <4>1. b.worst = drop
        BY <3>1, <3>4
      <4>2. b1 = peak - value /\ b2 = peak
        BY <3>3, <4>1
      <4>. HIDE DEF b1, b2, a1, a2
      <4>. QED  BY <3>1, <3>2, <3>4, <4>2
    <3>5. CASE ~ (peak > 0 /\ Deeper(drop, a.worst))
      <4>1. b.worst = a.worst
        BY <3>1, <3>5
      <4>2. b1 = a1 /\ b2 = a2
        BY <4>1
      <4>. HIDE DEF b1, b2, a1, a2
      <4>. QED  BY <3>1, <3>2, <3>5, <4>2
    <3>. QED  BY <3>4, <3>5
  <2>. HIDE DEF peak, a1, a2, b1, b2
  <2>7. b1 \in Int /\ b2 \in Nat \ {0}
    BY <2>3, <2>4, <2>5, <2>6
  <2>8. /\ (peak - value) * a2 \in Int /\ a1 * peak \in Int /\ a1 * peak = peak * a1
        /\ a1 * a2 \in Int /\ a1 * a2 = a2 * a1
        /\ (peak - value) * peak \in Int
    BY <2>3, <2>4, <2>5
  <2>9. peak > 0 => (peak - value) * b2 <= b1 * peak
    BY <2>5, <2>6, <2>8
  <2>10. a1 * b2 <= b1 * a2
    BY <2>6, <2>8
  <2>11. ASSUME NEW i \in 1 .. k + 1
         PROVE  s[i] \in Nat /\ s[i] <= peak /\ (i # k + 1 => i \in 1 .. k)
    <3>1. CASE i = k + 1
      BY <2>3, <2>5, <3>1 DEF value
    <3>2. CASE i # k + 1
      <4>1. i \in 1 .. k
        BY <2>1, <3>2
      <4>2. s[i] \in Nat /\ s[i] <= a.peak
        BY <2>3, <2>4, <4>1
      <4>. QED  BY <2>4, <2>5, <4>1, <4>2
    <3>. QED  BY <3>1, <3>2
  <2>12. ASSUME NEW i \in 1 .. k + 1, NEW j \in 1 .. k + 1, i < j, s[i] > 0
         PROVE  (s[i] - s[j]) * b2 <= b1 * s[i]
    <3>. DEFINE x == s[i]
                y == s[j]
    <3>1. i # k + 1
      BY <2>1, <2>12
    <3>2. i \in 1 .. k /\ x \in Nat \ {0} /\ x <= peak /\ y \in Nat /\ x - y \in Int
      <4>1. x \in Nat /\ y \in Nat /\ x <= peak /\ i \in 1 .. k
        BY <2>11, <3>1
      <4>. QED  BY <2>12, <4>1
    <3>3. CASE j \in 1 .. k
      <4>1. (x - y) * a2 <= a1 * x
        BY <2>4, <2>12, <3>2, <3>3
      <4>. HIDE DEF x, y
      <4>2. (x - y) * b2 <= b1 * x
        BY <2>4, <2>7, <2>10, <3>2, <4>1, NoDeeper
      <4>. QED  BY <4>2 DEF x, y
    <3>4. CASE j = k + 1
      <4>1. y = value
        BY <3>4 DEF value
      <4>. HIDE DEF x, y
      <4>2. peak \in Nat \ {0} /\ peak > 0
        BY <2>5, <3>2
      <4>3. (x - value) * peak <= (peak - value) * x
        BY <2>3, <3>2, <4>2, HigherIsDeeper
      <4>4. (peak - value) * b2 <= b1 * peak
        BY <2>9, <4>2
      <4>5. peak - value \in Int /\ x - value \in Int
        BY <2>3, <2>5, <3>2
      <4>6. (x - value) * b2 <= b1 * x
        <5>. DEFINE d == x - value
                    e == peak - value
        <5>1. d \in Int /\ e \in Int /\ d * peak <= e * x /\ e * b2 <= b1 * peak
          BY <4>3, <4>4, <4>5
        <5>. HIDE DEF d, e
        <5>2. d * b2 <= b1 * x
          BY <2>7, <3>2, <4>2, <5>1, NoDeeper
        <5>. QED  BY <5>2 DEF d
      <4>. QED  BY <4>1, <4>6 DEF x, y
    <3>. QED  BY <2>11, <3>3, <3>4
  <2>13. Covers(b, k + 1)
    BY <2>5, <2>6, <2>7, <2>11, <2>12 DEF b1, b2
  <2>. QED  BY <2>1, <2>13 DEF b
<1>6. n \in S
  <2>. HIDE DEF S
  <2>1. 0 .. n \subseteq S
    BY <1>1, <1>4, <1>5, UpTo
  <2>. QED  BY <1>1, <2>1
<1>7. ASSUME NEW i \in 1 .. n, NEW j \in 1 .. n, i < j, s[i] > 0
      PROVE  ~ Deeper(<<s[i] - s[j], s[i]>>, MaxDrawdown(s))
  <2>. DEFINE x == s[i]
              y == s[j]
              w1 == acc[n].worst[1]
              w2 == acc[n].worst[2]
  <2>1. (x - y) * w2 <= w1 * x /\ w1 \in Int /\ w2 \in Nat
    BY <1>6, <1>7
  <2>2. x \in Nat /\ y \in Nat /\ x - y \in Int
    BY <1>1
  <2>3. Deeper(<<x - y, x>>, MaxDrawdown(s)) <=> (x - y) * w2 > w1 * x
    BY <1>2 DEF Deeper
  <2>. HIDE DEF x, y, w1, w2
  <2>4. (x - y) * w2 \in Int /\ w1 * x \in Int
    BY <2>1, <2>2
  <2>5. ~ Deeper(<<x - y, x>>, MaxDrawdown(s))
    BY <2>1, <2>3, <2>4
  <2>. QED  BY <2>5 DEF x, y
<1>. QED  BY <1>7 DEF n

-----------------------------------------------------------------------------
(* The weights share out one whole.                                        *)
LEMMA WeightsShareOut ==
  ASSUME NEW s \in Seq(Int), Len(s) > 0
  PROVE  Total([i \in DOMAIN s |-> Weights(s)[i][1]]) = Weights(s)[1][2]
<1>. DEFINE kept == [i \in DOMAIN s |-> Larger(0, s[i])]
            ones == [i \in DOMAIN s |-> 1]
            weight == [i \in DOMAIN s |-> Weights(s)[i][1]]
<1>1. 1 \in DOMAIN s
  OBVIOUS
<1>2. \A i \in DOMAIN s :
        Weights(s)[i] = (IF Total(kept) = 0 THEN <<1, Len(s)>> ELSE <<kept[i], Total(kept)>>)
  BY DEF Weights
<1>3. CASE Total(kept) = 0
  <2>. HIDE DEF kept
  <2>1. \A i \in DOMAIN s : Weights(s)[i][1] = 1 /\ Weights(s)[i][2] = Len(s)
    BY <1>2, <1>3
  <2>2. weight = ones
    BY <2>1
  <2>. HIDE DEF weight, ones
  <2>3. Total(weight) = Len(s)
    BY <2>2, OnesAddUp DEF ones
  <2>. QED  BY <1>1, <2>1, <2>3 DEF weight
<1>4. CASE Total(kept) # 0
  <2>1. kept = [i \in DOMAIN s |-> kept[i]]
    OBVIOUS
  <2>. HIDE DEF kept
  <2>2. \A i \in DOMAIN s : Weights(s)[i][1] = kept[i] /\ Weights(s)[i][2] = Total(kept)
    BY <1>2, <1>4
  <2>3. weight = kept
    BY <2>1, <2>2
  <2>. HIDE DEF weight
  <2>. QED  BY <1>1, <2>2, <2>3 DEF weight
<1>. QED  BY <1>3, <1>4

(* Two votes more are a majority.                                          *)
LEMMA VotesAgree ==
  ASSUME NEW n \in Nat, NEW signals, DOMAIN signals = 1 .. n,
         Aggregate(signals) # "HOLD"
  PROVE  Combine(signals) = Aggregate(signals)
<1>. DEFINE buys == CountOf(signals, "BUY")
            sells == CountOf(signals, "SELL")
<1>1. ASSUME NEW signal PROVE CountOf(signals, signal) \in Nat
  <2>. DEFINE T == {i \in 1 .. n : signals[i] = signal}
  <2>1. T \in SUBSET (1 .. n) /\ IsFiniteSet(1 .. n)
    BY FS_Interval
  <2>2. CountOf(signals, signal) = Cardinality(T)
    BY DEF CountOf
  <2>. HIDE DEF T
  <2>3. IsFiniteSet(T)
    BY <2>1, FS_Subset
  <2>. QED  BY <2>2, <2>3, FS_CardinalityType
<1>2. buys \in Nat /\ sells \in Nat
  BY <1>1
<1>3. Combine(signals) = (IF buys > sells THEN "BUY" ELSE IF sells > buys THEN "SELL" ELSE "HOLD")
  BY DEF Combine, CountOf
<1>4. Aggregate(signals) =
        (IF buys - sells > 1 THEN "BUY" ELSE IF buys - sells < -1 THEN "SELL" ELSE "HOLD")
  BY DEF Aggregate
<1>. HIDE DEF buys, sells
<1>. QED  BY <1>2, <1>3, <1>4

(* The action chosen has the largest value.                                *)
LEMMA ChosenIsLargest ==
  ASSUME NEW values \in [Signals -> Int], NEW a \in Signals
  PROVE  values[a] <= values[ChooseAction(values)]
<1>1. values["BUY"] \in Int /\ values["SELL"] \in Int /\ values["HOLD"] \in Int
  BY DEF Signals
<1>. QED  BY <1>1 DEF ChooseAction, Signals

(* The grid over the EMA never reports a loss.                             *)
LEMMA EmaNeverLoses ==
  ASSUME NEW s \in Seq(Int), Len(s) > 0
  PROVE  EmaScores(s)[Best(EmaScores(s))] >= 0
<1>. DEFINE scores == EmaScores(s)
<1>1. ASSUME NEW i \in 1 .. 9 PROVE s[1 + (i % Len(s))] \in Int
  <2>1. i % Len(s) \in 0 .. Len(s) - 1
    OBVIOUS
  <2>. QED  BY <2>1
<1>2. scores \in [1 .. 9 -> Int] /\ scores[9] = 0
  <2>1. ~ HasPrices(60, 10 + 10 * 9)
    BY DEF HasPrices, Larger
  <2>2. \A i \in 1 .. 9 : scores[i] \in Int
    BY <1>1 DEF EmaScores
  <2>3. scores = [i \in 1 .. 9 |-> scores[i]] /\ scores[9] = 0
    BY <2>1 DEF EmaScores
  <2>. HIDE DEF scores
  <2>. QED  BY <2>2, <2>3
<1>. HIDE DEF scores
<1>3. scores \in Seq(Int) /\ Len(scores) = 9
  <2>1. \A n \in Nat : scores \in [1 .. n -> Int] => scores \in Seq(Int) /\ Len(scores) = n
    OBVIOUS
  <2>. QED  BY <1>2, <2>1
<1>4. Best(scores) \in 1 .. 9 /\ \A i \in 1 .. 9 : scores[i] <= scores[Best(scores)]
  <2>1. Len(scores) > 0
    BY <1>3
  <2>2. /\ Best(scores) \in 1 .. Len(scores)
        /\ \A i \in 1 .. Len(scores) : scores[i] <= scores[Best(scores)]
    BY <1>3, <2>1, BestIsFirst
  <2>. QED  BY <1>3, <2>2
<1>5. 0 <= scores[Best(scores)] /\ scores[Best(scores)] \in Int
  BY <1>2, <1>4
<1>. QED  BY <1>5 DEF scores

(* What two markets bring when the second bids above the first.            *)
LEMMA Gains ==
  ASSUME NEW bid \in Nat, NEW ask \in Nat, bid <= ask, NEW fee \in Nat, NEW a, NEW b,
         a.bid = bid, a.ask = ask, b.bid = ask + 2, b.ask = ask + 3
  PROVE  Gain(a, b, fee, fee) \in Int /\ Gain(b, a, fee, fee) \in Int /\ Gain(a, b, fee, fee) < 0
<1>1. /\ fee * bid \in Nat /\ fee * (ask + 3) \in Nat
      /\ fee * (ask + 2) \in Nat /\ fee * ask \in Nat
  OBVIOUS
<1>2. /\ Gain(a, b, fee, fee) = 10000 * (bid - (ask + 3)) - (fee * bid + fee * (ask + 3))
      /\ Gain(b, a, fee, fee) = 10000 * ((ask + 2) - ask) - (fee * (ask + 2) + fee * ask)
  BY DEF Gain
<1>. QED  BY <1>1, <1>2

(* A set with one element or none.                                         *)
LEMMA OneOrNone ==
  ASSUME NEW x, NEW S, NEW one \in BOOLEAN, S = IF one THEN {x} ELSE {}
  PROVE  (S = {x}) = one /\ (S # {}) = one
OBVIOUS

(* Two uncrossed markets, the second above the first, and their costs.     *)
Quoted(markets, cost, free, bid, ask, buffer, fee, funding, age) ==
  /\ {bid, ask, buffer, fee, funding, age} \subseteq Nat /\ bid <= ask
  /\ markets = [A |-> [bid |-> bid, ask |-> ask, ts |-> 0],
                B |-> [bid |-> ask + 2, ask |-> ask + 3, ts |-> age]]
  /\ cost = [fee |-> fee, funding |-> funding, transfer |-> 0]
  /\ free = [fee |-> fee, funding |-> 0, transfer |-> 0]

SameSide(markets, cost, free, buffer, fee, funding, age) ==
  /\ Edge(markets.A, markets.B, cost, free, buffer, age) =
       IF age <= StaleMs /\ BestSpread(markets, buffer + funding, fee) = {<<"B", "A">>}
       THEN "B->A" ELSE "NONE"
  /\ Edge(markets.B, markets.A, free, cost, buffer, age) =
       IF age <= StaleMs /\ BestSpread(markets, buffer + funding, fee) # {}
       THEN "A->B" ELSE "NONE"

(* The two arbitrage engines find the same side of uncrossed markets while *)
(* their quotes are fresh, at any fee.                                     *)
LEMMA SidesAgree ==
  ASSUME NEW markets, NEW cost, NEW free, NEW bid, NEW ask, NEW buffer, NEW fee,
         NEW funding, NEW age,
         Quoted(markets, cost, free, bid, ask, buffer, fee, funding, age)
  PROVE  SameSide(markets, cost, free, buffer, fee, funding, age)
<1>. DEFINE pairs == {<<"A", "B">>, <<"B", "A">>}
            min == buffer + funding
            net == [p \in pairs |-> Gain(markets[p[1]], markets[p[2]], fee, fee)]
            wide == {p \in pairs : net[p] > 10000 * min}
            best == {p \in wide : \A q \in wide : net[q] <= net[p]}
            forth == Gain(markets.A, markets.B, fee, fee)
            back == Gain(markets.B, markets.A, fee, fee)
<1>1. /\ markets.A.bid = bid /\ markets.A.ask = ask /\ markets.A.ts = 0
      /\ markets.B.bid = ask + 2 /\ markets.B.ask = ask + 3 /\ markets.B.ts = age
      /\ markets["A"] = markets.A /\ markets["B"] = markets.B /\ DOMAIN markets = {"A", "B"}
      /\ cost.fee = fee /\ cost.funding = funding /\ cost.transfer = 0
      /\ free.fee = fee /\ free.funding = 0 /\ free.transfer = 0
  BY DEF Quoted
<1>. /\ bid \in Nat /\ ask \in Nat /\ bid <= ask /\ buffer \in Nat /\ fee \in Nat
     /\ funding \in Nat /\ age \in Nat
  BY DEF Quoted
<1>2. {q \in (DOMAIN markets) \X (DOMAIN markets) : q[1] # q[2]} = pairs
  BY <1>1
<1>3. BestSpread(markets, min, fee) = best
  <2>. DEFINE all == {q \in (DOMAIN markets) \X (DOMAIN markets) : q[1] # q[2]}
              netOf == [p \in all |-> Gain(markets[p[1]], markets[p[2]], fee, fee)]
              wideOf == {p \in DOMAIN netOf : netOf[p] > 10000 * min}
  <2>1. BestSpread(markets, min, fee) = {p \in wideOf : \A q \in wideOf : netOf[q] <= netOf[p]}
    BY DEF BestSpread
  <2>2. netOf = net /\ DOMAIN netOf = pairs
    BY <1>2
  <2>. HIDE DEF net, netOf
  <2>3. wideOf = wide
    BY <2>2
  <2>. QED  BY <2>1, <2>2, <2>3
<1>4. forth \in Int /\ back \in Int /\ forth < 0
  BY <1>1, Gains
<1>5. net[<<"A", "B">>] = forth /\ net[<<"B", "A">>] = back
  BY <1>1
<1>6. min \in Nat /\ min = buffer + funding
  OBVIOUS
<1>. HIDE DEF net, forth, back, min
<1>7. wide = (IF back > 10000 * min THEN {<<"B", "A">>} ELSE {})
  BY <1>4, <1>5, <1>6
<1>8. best = wide
  <2>1. \A p, q \in wide : net[q] <= net[p]
    BY <1>4, <1>5, <1>7
  <2>. HIDE DEF wide
  <2>. QED  BY <2>1
<1>. HIDE DEF best, wide
<1>. DEFINE wins == back > 10000 * min
<1>9. /\ (BestSpread(markets, min, fee) = {<<"B", "A">>}) = wins
      /\ (BestSpread(markets, min, fee) # {}) = wins
  <2>1. wins \in BOOLEAN /\ BestSpread(markets, min, fee) = (IF wins THEN {<<"B", "A">>} ELSE {})
    BY <1>3, <1>7, <1>8
  <2>. HIDE DEF wins
  <2>. QED  BY <2>1, OneOrNone
<1>10. Edge(markets.A, markets.B, cost, free, buffer, age) =
         IF age <= StaleMs /\ back > 10000 * min THEN "B->A" ELSE "NONE"
  <2>1. Edge(markets.A, markets.B, cost, free, buffer, age) =
          IF age - 0 > StaleMs \/ age - age > StaleMs THEN "NONE"
          ELSE IF forth - 10000 * (funding + 0 + 0 + 0) > 10000 * buffer THEN "A->B"
          ELSE IF back - 10000 * (funding + 0 + 0 + 0) > 10000 * buffer THEN "B->A"
          ELSE "NONE"
    BY <1>1 DEF Edge, forth, back
  <2>. QED  BY <1>4, <1>6, <2>1 DEF StaleMs
<1>11. Edge(markets.B, markets.A, free, cost, buffer, age) =
         IF age <= StaleMs /\ back > 10000 * min THEN "A->B" ELSE "NONE"
  <2>1. Edge(markets.B, markets.A, free, cost, buffer, age) =
          IF age - age > StaleMs \/ age - 0 > StaleMs THEN "NONE"
          ELSE IF back - 10000 * (0 + funding + 0 + 0) > 10000 * buffer THEN "A->B"
          ELSE IF forth - 10000 * (0 + funding + 0 + 0) > 10000 * buffer THEN "B->A"
          ELSE "NONE"
    BY <1>1 DEF Edge, forth, back
  <2>. QED  BY <1>4, <1>6, <2>1 DEF StaleMs
<1>. QED  BY <1>9, <1>10, <1>11 DEF min, SameSide

-----------------------------------------------------------------------------
(* What the calculations promise, for a sequence of numbers.               *)
LEMMA SampleAgrees ==
  ASSUME sample \in Seq(Int), Len(sample) > 0
  PROVE  RiskAgrees /\ ChoicesAgree /\ MarketsAgree
<1>. DEFINE s == sample
<1>1. s \in Seq(Int) /\ Len(s) > 0 /\ DOMAIN s = 1 .. Len(s) /\ Len(s) \in Nat
  OBVIOUS
<1>2. RiskAgrees
  <2>. HIDE DEF s
  <2>1. ASSUME NEW percent \in {5, 40}
        PROVE  /\ 100 * Cardinality({i \in DOMAIN s : s[i] < VaR(s, percent)}) <= percent * Len(s)
               /\ 100 * Cardinality({i \in DOMAIN s : s[i] <= VaR(s, percent)}) > percent * Len(s)
               /\ CVaR(s, percent)[1] <= VaR(s, percent) * CVaR(s, percent)[2]
    <3>1. VaR(s, percent) \in Int
      BY <1>1, VaRBounds
    <3>. QED  BY <1>1, <3>1, VaRBounds, CVaRBound
  <2>2. ASSUME \A i \in DOMAIN s : s[i] >= 0
        PROVE  \A i, j \in DOMAIN s :
                 i < j /\ s[i] > 0 => ~ Deeper(<<s[i] - s[j], s[i]>>, MaxDrawdown(s))
    BY <1>1, <2>2, DrawdownIsDeepest
  <2>3. Exposure(s) >= Magnitude(NetExposure(s))
    BY <1>1, ExposureBounds
  <2>. QED  BY <2>1, <2>2, <2>3 DEF RiskAgrees, s
<1>3. ChoicesAgree
  <2>. DEFINE signals == [i \in DOMAIN s |-> SignOf(s[i])]
              values == [a \in Signals |-> s[CHOOSE i \in DOMAIN s : i = Len(s) \/ SignOf(s[i]) = a]]
  <2>. HIDE DEF s
  <2>1. \A i \in DOMAIN s : s[i] <= s[Best(s)] /\ (i < Best(s) => s[i] < s[Best(s)])
    BY <1>1, BestIsFirst
  <2>2. EmaScores(s)[Best(EmaScores(s))] >= 0
    BY <1>1, EmaNeverLoses
  <2>3. Total([i \in DOMAIN s |-> Weights(s)[i][1]]) = Weights(s)[1][2]
    BY <1>1, WeightsShareOut
  <2>4. Aggregate(signals) # "HOLD" => Combine(signals) = Aggregate(signals)
    <3>1. DOMAIN signals = 1 .. Len(s)
      BY <1>1
    <3>. HIDE DEF signals
    <3>. QED  BY <1>1, <3>1, VotesAgree
  <2>5. \A a \in Signals : values[a] <= values[ChooseAction(values)]
    <3>1. ASSUME NEW a \in Signals
          PROVE  s[CHOOSE i \in DOMAIN s : i = Len(s) \/ SignOf(s[i]) = a] \in Int
      <4>1. Len(s) \in DOMAIN s
        BY <1>1
      <4>2. (CHOOSE i \in DOMAIN s : i = Len(s) \/ SignOf(s[i]) = a) \in DOMAIN s
        BY <4>1
      <4>. QED  BY <1>1, <4>2
    <3>2. values \in [Signals -> Int]
      BY <3>1
    <3>. HIDE DEF values
    <3>. QED  BY <3>2, ChosenIsLargest
  <2>. QED  BY <2>1, <2>2, <2>3, <2>4, <2>5 DEF ChoicesAgree, s
<1>4. MarketsAgree
  <2>. DEFINE bid == Larger(1, sample[1])
              ask == bid + Magnitude(sample[Len(sample)])
  <2>1. bid \in Nat /\ ask \in Nat /\ bid <= ask
    <3>1. sample[1] \in Int /\ sample[Len(sample)] \in Int
      OBVIOUS
    <3>. QED  BY <3>1 DEF Larger, Magnitude
  <2>. HIDE DEF bid, ask
  <2>2. ASSUME NEW position \in -1 .. 1
        PROVE  LET m == MakeMarket(bid, bid + 4 * (ask - bid), position)
               IN  m.buy > 0 /\ m.sell > 0 => m.buy < m.sell
    BY <2>1 DEF MakeMarket
  <2>3. ASSUME NEW buffer \in 0 .. 3, NEW fee \in {0, 300, 900}, NEW funding \in 0 .. 1,
               NEW age \in 29 .. 31
        PROVE  LET markets == [A |-> [bid |-> bid, ask |-> ask, ts |-> 0],
                               B |-> [bid |-> ask + 2, ask |-> ask + 3, ts |-> age]]
                   cost == [fee |-> fee, funding |-> funding, transfer |-> 0]
                   free == [fee |-> fee, funding |-> 0, transfer |-> 0]
                   spread == BestSpread(markets, buffer + funding, fee)
               IN  /\ Edge(markets.A, markets.B, cost, free, buffer, age) =
                         IF age <= StaleMs /\ spread = {<<"B", "A">>} THEN "B->A" ELSE "NONE"
                   /\ Edge(markets.B, markets.A, free, cost, buffer, age) =
                         IF age <= StaleMs /\ spread # {} THEN "A->B" ELSE "NONE"
    <3>. DEFINE markets == [A |-> [bid |-> bid, ask |-> ask, ts |-> 0],
                            B |-> [bid |-> ask + 2, ask |-> ask + 3, ts |-> age]]
                cost == [fee |-> fee, funding |-> funding, transfer |-> 0]
                free == [fee |-> fee, funding |-> 0, transfer |-> 0]
    <3>1. buffer \in Nat /\ fee \in Nat /\ funding \in Nat /\ age \in Nat
      OBVIOUS
    <3>2. Quoted(markets, cost, free, bid, ask, buffer, fee, funding, age)
      BY <2>1, <3>1 DEF Quoted
    <3>. HIDE DEF markets, cost, free
    <3>3. SameSide(markets, cost, free, buffer, fee, funding, age)
      BY <3>2, SidesAgree, Zenon
    <3>. QED  BY <3>3 DEF SameSide, markets, cost, free
  <2>. QED  BY <2>2, <2>3, Zenon DEF MarketsAgree, bid, ask
<1>. QED  BY <1>2, <1>3, <1>4

(* Each calculation of the trading code returns what it is named for.      *)
THEOREM CalculationsAreRight == AnalyticsSpec => []CalculationsAgree
<1>. DEFINE Given == sample \in Samples
<1>1. AnalyticsInit => Given
  BY DEF AnalyticsInit
<1>2. Given /\ [FALSE]_sample => Given'
  BY DEF Samples
<1>3. Given => CalculationsAgree
  <2>. SUFFICES ASSUME sample \in Samples PROVE RiskAgrees /\ ChoicesAgree /\ MarketsAgree
    BY DEF CalculationsAgree
  <2>1. PICK n \in 1 .. MaxSamples : sample \in [1 .. n -> Numbers]
    BY DEF Samples
  <2>2. sample \in Seq(Int) /\ Len(sample) > 0
    <3>1. Numbers \subseteq Int /\ MaxSamples \in Nat
      BY AnalyticsAssumption
    <3>2. n \in Nat /\ n > 0
      BY <3>1
    <3>3. sample \in [1 .. n -> Int]
      BY <2>1, <3>1
    <3>. QED  BY <3>2, <3>3
  <2>. QED  BY <2>2, SampleAgrees
<1>. QED  BY <1>1, <1>2, <1>3, PTL DEF AnalyticsSpec
=============================================================================
