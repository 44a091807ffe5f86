------------------------- MODULE WorkingMemoryProofs -------------------------
(***************************************************************************)
(* Proofs about WorkingMemory, for any items and token counts, any budget, *)
(* any number of clients and reflects.  What the budget's loops compute is *)
(* proved by induction over the list, in the form of the least element of  *)
(* a set of naturals.                                                      *)
(*                                                                         *)
(* The second half is about RecallAnswer, which spends its budgets along   *)
(* lists too, for any fragments, recalls and weights. The two modules have *)
(* no name in common, and neither's proofs use what the other defines.     *)
(***************************************************************************)
EXTENDS WorkingMemory, RecallAnswer, WellFoundedInduction, FiniteSetTheorems, TLAPS

-----------------------------------------------------------------------------
(* Induction and recursion over 0..N, with sets in place of predicates.     *)

LEMMA LeastElement ==
  ASSUME NEW T \in SUBSET Nat, T # {}
  PROVE  \E m \in T : \A k \in T : m <= k
<1> DEFINE R == OpToRel(<, Nat)
<1>1. IsWellFoundedOn(R, Nat)
  BY NatLessThanWellFounded
<1>2. \A x, y \in Nat : x < y => <<x, y>> \in R
  BY DEF OpToRel
<1> HIDE DEF R
<1>3. PICK m \in T : \A k \in T : <<k, m>> \notin R
  BY <1>1, WFMin
<1>4. ASSUME NEW k \in T PROVE m <= k
  <2>1. k \in Nat /\ m \in Nat
    OBVIOUS
  <2>2. ~ (k < m)
    BY <1>2, <1>3, <2>1
  <2> QED  BY <2>1, <2>2
<1> QED  BY <1>4

LEMMA UpTo ==
  ASSUME NEW N \in Nat, NEW S, 0 \in S,
         \A n \in 0..(N - 1) : n \in S => n + 1 \in S
  PROVE  \A n \in 0..N : n \in S
<1> DEFINE T == {n \in 0..N : n \notin S}
<1>1. SUFFICES ASSUME T # {} PROVE FALSE
  OBVIOUS
<1>2. PICK m \in T : \A k \in T : m <= k
  <2>1. T \in SUBSET Nat
    OBVIOUS
  <2> HIDE DEF T
  <2> QED  BY <1>1, <2>1, LeastElement
<1>3. m \in 0..N /\ m # 0 /\ m \notin S
  BY <1>2
<1>4. m - 1 \in 0..(N - 1) /\ (m - 1) + 1 = m
  BY <1>3
<1>5. m - 1 \in S
  BY <1>2, <1>4
<1> QED  BY <1>3, <1>4, <1>5

\* A recursion over 0..N: g starts at base, next makes each value from the one
\* before it.
Steps(N, St) == [(1..N) \X St -> St]

IsSolution(g, N, St, base, next) ==
  /\ g \in [0..N -> St] /\ g[0] = base
  /\ \A n \in 1..N : g[n] = next[<<n, g[n - 1]>>]

LEMMA Solution ==
  ASSUME NEW N \in Nat, NEW St, NEW base \in St, NEW next \in Steps(N, St)
  PROVE  \E g : IsSolution(g, N, St, base, next)
<1> DEFINE Solves(g, m) == g[0] = base /\ \A n \in 1..m : g[n] = next[<<n, g[n - 1]>>]
           S == {m \in 0..N : \E g \in [0..m -> St] : Solves(g, m)}
<1>1. 0 \in S
  <2>1. [n \in 0..0 |-> base] \in [0..0 -> St] /\ Solves([n \in 0..0 |-> base], 0)
    OBVIOUS
  <2>2. 0 \in 0..N
    OBVIOUS
  <2> QED  BY <2>1, <2>2
<1>2. ASSUME NEW m \in 0..(N - 1), m \in S  PROVE m + 1 \in S
  <2>1. PICK g \in [0..m -> St] : Solves(g, m)
    BY <1>2
  <2>2. /\ m \in Nat /\ m + 1 \in 1..N /\ g[m] \in St
        /\ \A n \in 0..(m + 1) : n = m + 1 \/ n \in 0..m
        /\ \A n \in 1..(m + 1) : n = m + 1 \/ n \in 1..m
        /\ \A n \in 1..m : n \in 0..m /\ n - 1 \in 0..m /\ n \in 0..(m + 1)
    OBVIOUS
  <2> DEFINE new == next[<<m + 1, g[m]>>]
             h == [n \in 0..(m + 1) |-> IF n = m + 1 THEN new ELSE g[n]]
  <2>3. new \in St
    BY <2>2 DEF Steps
  <2> HIDE DEF new
  <2>4. h \in [0..(m + 1) -> St]
    BY <2>2, <2>3
  <2>5. h[m + 1] = new /\ \A n \in 0..m : h[n] = g[n]
    BY <2>2
  <2> HIDE DEF h
  <2>6. h[0] = base
    BY <2>1, <2>2, <2>5
  <2>7. ASSUME NEW n \in 1..(m + 1)  PROVE h[n] = next[<<n, h[n - 1]>>]
    <3>1. CASE n = m + 1
      <4>1. n - 1 = m /\ m \in 0..m
        BY <2>2, <3>1
      <4> QED  BY <2>5, <3>1, <4>1 DEF new
    <3>2. CASE n \in 1..m
      BY <2>1, <2>2, <2>5, <3>2
    <3> QED  BY <2>2, <3>1, <3>2
  <2>8. Solves(h, m + 1)
    BY <2>6, <2>7
  <2> QED  BY <2>2, <2>4, <2>8
<1> HIDE DEF S
<1>3. N \in S
  BY <1>1, <1>2, UpTo
<1> QED  BY <1>3 DEF S, IsSolution

-----------------------------------------------------------------------------
(* What the loops compute.                                                  *)

LEMMA TotalSum ==
  ASSUME NEW s \in Seq(Items)
  PROVE  \E sum \in [0..Len(s) -> Nat] :
           /\ sum[0] = 0 /\ \A n \in 1..Len(s) : sum[n] = sum[n - 1] + Tokens[s[n]]
           /\ Total(s) = sum[Len(s)]
<1> DEFINE N == Len(s)
           Is(g) == g = [n \in 0..N |-> IF n = 0 THEN 0 ELSE g[n - 1] + Tokens[s[n]]]
           sum == CHOOSE g : Is(g)
<1>1. N \in Nat /\ \A n \in 1..N : Tokens[s[n]] \in Nat
  BY WorkingMemoryAssumption DEF WorkingMemoryAssumption
<1>r. /\ 0 \in 0..N
      /\ \A n \in 0..N : n = 0 \/ n \in 1..N
      /\ \A n \in 1..N : n \in 0..N /\ n # 0 /\ n - 1 \in 0..N
  BY <1>1
<1>2. \E g : Is(g)
  <2> DEFINE next == [x \in (1..N) \X Nat |-> x[2] + Tokens[s[x[1]]]]
  <2>1. next \in Steps(N, Nat)
    BY <1>1 DEF Steps
  <2>2. \A n \in 1..N, v \in Nat : next[<<n, v>>] = v + Tokens[s[n]]
    OBVIOUS
  <2> HIDE DEF next, N
  <2>3. PICK g : IsSolution(g, N, Nat, 0, next)
    BY <1>1, <2>1, Solution
  <2>4. \A n \in 1..N : g[n] = g[n - 1] + Tokens[s[n]]
    BY <1>r, <2>2, <2>3 DEF IsSolution
  <2>5. \A n \in 0..N : g[n] = IF n = 0 THEN 0 ELSE g[n - 1] + Tokens[s[n]]
    BY <1>r, <2>3, <2>4 DEF IsSolution
  <2>6. g = [n \in 0..N |-> g[n]]
    BY <2>3 DEF IsSolution
  <2>7. Is(g)
    BY <2>5, <2>6
  <2> QED  BY <2>7
<1>3. Is(sum)
  BY <1>2
<1>4. Total(s) = sum[N]
  BY DEF Total
<1> HIDE DEF sum, N
<1>5. \A n \in 0..N : sum[n] = IF n = 0 THEN 0 ELSE sum[n - 1] + Tokens[s[n]]
  BY <1>3
<1>6. \A n \in 0..N : sum[n] \in Nat
  <2> DEFINE S == {n \in 0..N : sum[n] \in Nat}
  <2>1. 0 \in S
    BY <1>1, <1>5
  <2>2. \A n \in 0..(N - 1) : n \in S => n + 1 \in S
    BY <1>1, <1>5
  <2> HIDE DEF S
  <2>3. \A n \in 0..N : n \in S
    BY <1>1, <2>1, <2>2, UpTo
  <2> QED  BY <2>3 DEF S
<1>7. sum \in [0..N -> Nat]
  BY <1>3, <1>6
<1>8. sum[0] = 0 /\ \A n \in 1..N : sum[n] = sum[n - 1] + Tokens[s[n]]
  BY <1>r, <1>5
<1> QED  BY <1>4, <1>7, <1>8 DEF N

LEMMA TotalEmpty == Total(<<>>) = 0
<1>1. <<>> \in Seq(Items) /\ Len(<<>>) = 0
  OBVIOUS
<1> QED  BY <1>1, TotalSum

LEMMA TotalAppend ==
  ASSUME NEW s \in Seq(Items), NEW x \in Items
  PROVE  Total(Append(s, x)) = Total(s) + Tokens[x]
<1> DEFINE t == Append(s, x)
           N == Len(s)
<1>1. /\ N \in Nat /\ t \in Seq(Items) /\ Len(t) = N + 1 /\ t[N + 1] = x
      /\ \A n \in 1..N : t[n] = s[n] /\ n \in 1..(N + 1)
      /\ N + 1 \in 1..(N + 1) /\ (N + 1) - 1 = N
  OBVIOUS
<1> HIDE DEF t, N
<1>2. PICK f \in [0..N -> Nat] :
        f[0] = 0 /\ (\A n \in 1..N : f[n] = f[n - 1] + Tokens[s[n]]) /\ Total(s) = f[N]
  BY TotalSum DEF N
<1>3. PICK g \in [0..(N + 1) -> Nat] :
        /\ g[0] = 0 /\ (\A n \in 1..(N + 1) : g[n] = g[n - 1] + Tokens[t[n]])
        /\ Total(t) = g[N + 1]
  BY <1>1, TotalSum
<1>4. \A n \in 0..N : g[n] = f[n]
  <2> DEFINE S == {n \in 0..N : g[n] = f[n]}
  <2>1. 0 \in S
    BY <1>1, <1>2, <1>3
  <2>2. ASSUME NEW n \in 0..(N - 1), n \in S  PROVE n + 1 \in S
    <3>0. N \in Nat
      BY <1>1
    <3>1. n + 1 \in 1..N /\ (n + 1) - 1 = n /\ n + 1 \in 0..N
      BY <3>0
    <3>2. f[n + 1] = f[n] + Tokens[s[n + 1]]
      BY <1>2, <3>1
    <3>3. g[n + 1] = g[n] + Tokens[t[n + 1]] /\ t[n + 1] = s[n + 1]
      BY <1>1, <1>3, <3>1
    <3> QED  BY <2>2, <3>1, <3>2, <3>3
  <2> HIDE DEF S
  <2>3. \A n \in 0..N : n \in S
    BY <1>1, <2>1, <2>2, UpTo
  <2> QED  BY <2>3 DEF S
<1>5. g[N + 1] = g[N] + Tokens[x]
  BY <1>1, <1>3
<1> QED  BY <1>1, <1>2, <1>3, <1>4, <1>5 DEF t

\* The loop of _enforceWmBudget, position by position.
Scan == [total : Int, count : Nat]

LEMMA RemovedScan ==
  ASSUME NEW s \in Seq(Items)
  PROVE  \E scan \in [0..Len(s) -> Scan] :
           /\ scan[0] = [total |-> Total(s), count |-> 0]
           /\ \A n \in 1..Len(s) :
                scan[n] = IF scan[n - 1].total > MaxTokens /\ s[n] \notin Protected
                          THEN [total |-> scan[n - 1].total - Tokens[s[n]],
                                count |-> scan[n - 1].count + 1]
                          ELSE scan[n - 1]
           /\ Removed(s) = scan[Len(s)].count
<1> DEFINE N == Len(s)
           base == [total |-> Total(s), count |-> 0]
           after(n, v) == IF v.total > MaxTokens /\ s[n] \notin Protected
                          THEN [total |-> v.total - Tokens[s[n]], count |-> v.count + 1]
                          ELSE v
           Is(g) == g = [n \in 0..N |-> IF n = 0 THEN base ELSE after(n, g[n - 1])]
           scan == CHOOSE g : Is(g)
<1>1. /\ N \in Nat /\ base \in Scan
      /\ \A n \in 1..N : \A v \in Scan : after(n, v) \in Scan
  <2>1. N \in Nat /\ \A n \in 1..N : Tokens[s[n]] \in Nat
    BY WorkingMemoryAssumption DEF WorkingMemoryAssumption
  <2>2. Total(s) \in Nat
    BY <2>1, TotalSum
  <2> QED  BY <2>1, <2>2 DEF Scan
<1>r. /\ 0 \in 0..N
      /\ \A n \in 0..N : n = 0 \/ n \in 1..N
      /\ \A n \in 1..N : n \in 0..N /\ n # 0 /\ n - 1 \in 0..N
  BY <1>1
<1>d. Removed(s) = scan[N].count
  BY DEF Removed
<1> HIDE DEF N, base, after
<1>2. \E g : Is(g)
  <2> DEFINE next == [x \in (1..N) \X Scan |-> after(x[1], x[2])]
  <2>1. next \in Steps(N, Scan)
    BY <1>1 DEF Steps
  <2>2. \A n \in 1..N, v \in Scan : next[<<n, v>>] = after(n, v)
    OBVIOUS
  <2> HIDE DEF next
  <2>3. PICK g : IsSolution(g, N, Scan, base, next)
    BY <1>1, <2>1, Solution
  <2>4. \A n \in 1..N : g[n] = after(n, g[n - 1])
    BY <1>r, <2>2, <2>3 DEF IsSolution
  <2>5. \A n \in 0..N : g[n] = IF n = 0 THEN base ELSE after(n, g[n - 1])
    BY <1>r, <2>3, <2>4 DEF IsSolution
  <2>6. g = [n \in 0..N |-> g[n]]
    BY <2>3 DEF IsSolution
  <2>7. Is(g)
    BY <2>5, <2>6
  <2> QED  BY <2>7
<1>3. Is(scan)
  BY <1>2
<1> HIDE DEF scan
<1>5. \A n \in 0..N : scan[n] = IF n = 0 THEN base ELSE after(n, scan[n - 1])
  BY <1>3
<1>6. \A n \in 0..N : scan[n] \in Scan
  <2> DEFINE S == {n \in 0..N : scan[n] \in Scan}
  <2>1. 0 \in S
    BY <1>1, <1>r, <1>5
  <2>2. ASSUME NEW n \in 0..(N - 1), n \in S  PROVE n + 1 \in S
    <3>1. n + 1 \in 1..N /\ (n + 1) - 1 = n
      BY <1>1
    <3> QED  BY <1>1, <1>r, <1>5, <2>2, <3>1
  <2> HIDE DEF S
  <2>3. \A n \in 0..N : n \in S
    BY <1>1, <2>1, <2>2, UpTo
  <2> QED  BY <2>3 DEF S
<1>7. scan \in [0..N -> Scan]
  BY <1>3, <1>6
<1>8. scan[0] = base /\ \A n \in 1..N : scan[n] = after(n, scan[n - 1])
  BY <1>r, <1>5
<1> QED  BY <1>d, <1>7, <1>8 DEF N, base, after

\* The filter after the loop, position by position.
LEMMA FilteredKept ==
  ASSUME NEW s \in Seq(Items), NEW r \in Nat
  PROVE  \E saved \in [0..Len(s) -> Seq(Items)] :
           /\ saved[0] = <<>>
           /\ \A n \in 1..Len(s) :
                saved[n] = IF n > r \/ s[n] \in Protected
                          THEN Append(saved[n - 1], s[n]) ELSE saved[n - 1]
           /\ Filtered(s, r) = saved[Len(s)]
<1> DEFINE N == Len(s)
           Kept == Seq(Items)
           after(n, v) == IF n > r \/ s[n] \in Protected THEN Append(v, s[n]) ELSE v
           Is(g) == g = [n \in 0..N |-> IF n = 0 THEN <<>> ELSE after(n, g[n - 1])]
           saved == CHOOSE g : Is(g)
<1>1. /\ N \in Nat /\ <<>> \in Kept
      /\ \A n \in 1..N : \A v \in Kept : after(n, v) \in Kept
  OBVIOUS
<1>r. /\ 0 \in 0..N
      /\ \A n \in 0..N : n = 0 \/ n \in 1..N
      /\ \A n \in 1..N : n \in 0..N /\ n # 0 /\ n - 1 \in 0..N
  BY <1>1
<1>d. Filtered(s, r) = saved[N]
  BY DEF Filtered
<1> HIDE DEF N, after, Kept
<1>2. \E g : Is(g)
  <2> DEFINE next == [x \in (1..N) \X Kept |-> after(x[1], x[2])]
  <2>1. next \in Steps(N, Kept)
    BY <1>1 DEF Steps
  <2>2. \A n \in 1..N, v \in Kept : next[<<n, v>>] = after(n, v)
    OBVIOUS
  <2> HIDE DEF next
  <2>3. PICK g : IsSolution(g, N, Kept, <<>>, next)
    BY <1>1, <2>1, Solution
  <2>4. \A n \in 1..N : g[n] = after(n, g[n - 1])
    BY <1>r, <2>2, <2>3 DEF IsSolution
  <2>5. \A n \in 0..N : g[n] = IF n = 0 THEN <<>> ELSE after(n, g[n - 1])
    BY <1>r, <2>3, <2>4 DEF IsSolution
  <2>6. g = [n \in 0..N |-> g[n]]
    BY <2>3 DEF IsSolution
  <2>7. Is(g)
    BY <2>5, <2>6
  <2> QED  BY <2>7
<1>3. Is(saved)
  BY <1>2
<1> HIDE DEF saved
<1>5. \A n \in 0..N : saved[n] = IF n = 0 THEN <<>> ELSE after(n, saved[n - 1])
  BY <1>3
<1>6. \A n \in 0..N : saved[n] \in Kept
  <2> DEFINE S == {n \in 0..N : saved[n] \in Kept}
  <2>1. 0 \in S
    BY <1>1, <1>r, <1>5
  <2>2. ASSUME NEW n \in 0..(N - 1), n \in S  PROVE n + 1 \in S
    <3>1. n + 1 \in 1..N /\ (n + 1) - 1 = n
      BY <1>1
    <3> QED  BY <1>1, <1>r, <1>5, <2>2, <3>1
  <2> HIDE DEF S
  <2>3. \A n \in 0..N : n \in S
    BY <1>1, <2>1, <2>2, UpTo
  <2> QED  BY <2>3 DEF S
<1>7. saved \in [0..N -> Kept]
  BY <1>3, <1>6
<1>8. saved[0] = <<>> /\ \A n \in 1..N : saved[n] = after(n, saved[n - 1])
  BY <1>r, <1>5
<1> QED  BY <1>d, <1>7, <1>8 DEF N, after, Kept

\* The loop never counts more items than it has passed.
LEMMA RemovedBound ==
  ASSUME NEW s \in Seq(Items)
  PROVE  Removed(s) \in Nat
<1>1. PICK scan \in [0..Len(s) -> Scan] : Removed(s) = scan[Len(s)].count
  BY RemovedScan
<1>2. Len(s) \in 0..Len(s)
  OBVIOUS
<1> QED  BY <1>1, <1>2 DEF Scan

\* p has the items of s, in their order.
Ordered(s, p) ==
  \A m, n \in DOMAIN s : \A k, l \in DOMAIN p :
    (m < n /\ p[k] = s[m] /\ p[l] = s[n]) => k < l

\* The filter keeps items of the list, all those behind the first r and all
\* protected ones, in their order.
LEMMA FilteredSound ==
  ASSUME NEW s \in Seq(Items), NEW r \in Nat
  PROVE  /\ Filtered(s, r) \in Seq(Items)
         /\ ToSet(Filtered(s, r)) \subseteq ToSet(s)
         /\ \A x \in ToSet(Filtered(s, r)) :
              \E j \in 1..Len(s) : s[j] = x /\ (j > r \/ s[j] \in Protected)
         /\ \A m \in 1..Len(s) :
              (m > r \/ s[m] \in Protected) => s[m] \in ToSet(Filtered(s, r))
         /\ \A p \in Seq(Items) : Ordered(s, p) => Ordered(Filtered(s, r), p)
<1> DEFINE N == Len(s)
<1>1. PICK saved \in [0..N -> Seq(Items)] :
        /\ saved[0] = <<>>
        /\ \A n \in 1..N :
             saved[n] = IF n > r \/ s[n] \in Protected
                       THEN Append(saved[n - 1], s[n]) ELSE saved[n - 1]
        /\ Filtered(s, r) = saved[N]
  BY FilteredKept
<1>2. N \in Nat /\ DOMAIN s = 1..N /\ \A n \in 1..N : s[n] \in Items
  OBVIOUS
<1> DEFINE Within(t, n) == \A m \in 1..Len(t) : 
             \E j \in 1..n : t[m] = s[j] /\ (j > r \/ s[j] \in Protected)
           Holds(t, n) == \A m \in 1..n : (m > r \/ s[m] \in Protected) => s[m] \in ToSet(t)
           Keeps(t) == \A p \in Seq(Items) : Ordered(s, p) => Ordered(t, p)
           S == {n \in 0..N : Within(saved[n], n) /\ Holds(saved[n], n) /\ Keeps(saved[n])}
<1>3. 0 \in S
  <2>1. 0 \in 0..N /\ Len(saved[0]) = 0 /\ DOMAIN saved[0] = {}
    BY <1>1, <1>2
  <2> QED  BY <2>1 DEF Ordered
<1>4. ASSUME NEW n \in 0..(N - 1), n \in S  PROVE n + 1 \in S
  <2>1. n + 1 \in 1..N /\ n + 1 \in 0..N /\ (n + 1) - 1 = n /\ n \in Nat /\ n \in 0..N
    BY <1>2
  <2> DEFINE q == saved[n]
             t == saved[n + 1]
  <2>2. q \in Seq(Items) /\ Within(q, n) /\ Holds(q, n) /\ Keeps(q)
    BY <1>4, <2>1
  <2>3. t = IF n + 1 > r \/ s[n + 1] \in Protected THEN Append(q, s[n + 1]) ELSE q
    BY <1>1, <2>1
  <2>i. /\ \A j \in 1..n : j \in 1..(n + 1) /\ j \in 1..N /\ j < n + 1
        /\ \A j \in 1..(n + 1) : j = n + 1 \/ j \in 1..n
        /\ n + 1 \in 1..(n + 1)
    BY <2>1
  <2> HIDE DEF q, t
  <2>4. CASE t = q /\ ~ (n + 1 > r \/ s[n + 1] \in Protected)
    <3>1. Within(t, n + 1)
      BY <2>2, <2>4, <2>i
    <3>2. Holds(t, n + 1)
      BY <2>2, <2>4, <2>i
    <3>3. Keeps(t)
      BY <2>2, <2>4
    <3> QED  BY <2>1, <3>1, <3>2, <3>3 DEF t
  <2>5. CASE t = Append(q, s[n + 1]) /\ (n + 1 > r \/ s[n + 1] \in Protected)
    <3>0. s[n + 1] \in Items
      BY <1>2, <2>1
    <3>1. /\ Len(q) \in Nat /\ Len(t) = Len(q) + 1 /\ t[Len(q) + 1] = s[n + 1]
          /\ \A m \in 1..Len(q) : t[m] = q[m]
          /\ \A m \in 1..Len(t) : m = Len(q) + 1 \/ m \in 1..Len(q)
          /\ \A m \in 1..Len(q) : m \in 1..Len(t)
          /\ Len(q) + 1 \in 1..Len(t)
          /\ DOMAIN t = 1..Len(t) /\ DOMAIN q = 1..Len(q)
      BY <2>2, <2>5, <3>0
    <3>2. Within(t, n + 1)
      <4> SUFFICES ASSUME NEW m \in 1..Len(t)
                   PROVE  \E j \in 1..(n + 1) :
                            t[m] = s[j] /\ (j > r \/ s[j] \in Protected)
        OBVIOUS
      <4>1. CASE m = Len(q) + 1
        BY <3>1, <2>5, <2>i, <4>1
      <4>2. CASE m \in 1..Len(q)
        <5>1. PICK j \in 1..n : q[m] = s[j] /\ (j > r \/ s[j] \in Protected)
          BY <2>2, <4>2
        <5>2. t[m] = q[m] /\ j \in 1..(n + 1)
          BY <2>i, <3>1, <4>2
        <5> QED  BY <5>1, <5>2
      <4> QED  BY <3>1, <4>1, <4>2
    <3>3. ToSet(q) \subseteq ToSet(t) /\ s[n + 1] \in ToSet(t)
      BY <3>1 DEF ToSet
    <3>4. Holds(t, n + 1)
      BY <2>2, <2>i, <3>3
    <3>5. ASSUME NEW p \in Seq(Items), Ordered(s, p)  PROVE Ordered(t, p)
      <4>1. Ordered(q, p)
        BY <2>2, <3>5
      <4> SUFFICES ASSUME NEW a \in 1..Len(t), NEW b \in 1..Len(t), a < b,
                          NEW k \in DOMAIN p, NEW l \in DOMAIN p, p[k] = t[a], p[l] = t[b]
                   PROVE  k < l
        BY <3>1 DEF Ordered
      <4>2. CASE b \in 1..Len(q)
        <5>1. a \in 1..Len(q)
          BY <3>1, <4>2
        <5> QED  BY <3>1, <4>1, <4>2, <5>1 DEF Ordered
      <4>3. CASE b = Len(q) + 1
        <5>1. a \in 1..Len(q)
          BY <3>1, <4>3
        <5>2. PICK j \in 1..n : q[a] = s[j]
          BY <2>2, <5>1
        <5>3. j \in 1..N /\ n + 1 \in 1..N /\ j < n + 1
          BY <2>1, <2>i
        <5>4. p[k] = s[j] /\ p[l] = s[n + 1]
          BY <3>1, <4>3, <5>1, <5>2
        <5> QED  BY <1>2, <3>5, <5>3, <5>4 DEF Ordered
      <4> QED  BY <3>1, <4>2, <4>3
    <3> QED  BY <2>1, <3>2, <3>4, <3>5 DEF t
  <2> QED  BY <2>3, <2>4, <2>5
<1> HIDE DEF S
<1>5. N \in S
  <2>1. \A n \in 0..N : n \in S
    BY <1>2, <1>3, <1>4, UpTo
  <2>2. N \in 0..N
    BY <1>2
  <2> QED  BY <2>1, <2>2
<1>6. saved[N] \in Seq(Items) /\ Within(saved[N], N) /\ Holds(saved[N], N) /\ Keeps(saved[N])
  BY <1>2, <1>5 DEF S
<1>7. ToSet(saved[N]) \subseteq ToSet(s)
  <2>1. DOMAIN saved[N] = 1..Len(saved[N])
    BY <1>6
  <2> QED  BY <1>2, <1>6, <2>1 DEF ToSet
<1>8. ASSUME NEW x \in ToSet(saved[N])
      PROVE  \E j \in 1..N : s[j] = x /\ (j > r \/ s[j] \in Protected)
  <2>1. PICK m \in DOMAIN saved[N] : x = saved[N][m]
    BY DEF ToSet
  <2>2. m \in 1..Len(saved[N])
    BY <1>6
  <2> QED  BY <1>6, <2>1, <2>2
<1> QED  BY <1>1, <1>6, <1>7, <1>8

\* What the filter keeps stood behind the first r items or is protected.
LEMMA FilteredFrom ==
  ASSUME NEW s \in Seq(Items), NEW r \in Nat, NEW x \in ToSet(Filtered(s, r))
  PROVE  \E j \in 1..Len(s) : s[j] = x /\ (j > r \/ s[j] \in Protected)
  BY FilteredSound

\* The loop stops as soon as the budget holds: what is left, with the last of the
\* removed items put back, exceeds it.
LEMMA Thrift ==
  ASSUME NEW s \in Seq(Items), NEW m \in 1..Len(s),
         m <= Removed(s), s[m] \notin Protected,
         \A n \in (m + 1)..Len(s) : n > Removed(s) \/ s[n] \in Protected
  PROVE  Total(Remaining(s)) + Tokens[s[m]] > MaxTokens
<1> DEFINE N == Len(s)
           r == Removed(s)
<1>1. /\ N \in Nat /\ r \in Nat /\ MaxTokens \in Nat
      /\ \A n \in 1..N : s[n] \in Items /\ Tokens[s[n]] \in Nat
      /\ m \in 1..N /\ m <= r
  BY RemovedBound, WorkingMemoryAssumption DEF WorkingMemoryAssumption
<1>2. PICK sum \in [0..N -> Nat] :
        /\ sum[0] = 0 /\ \A n \in 1..N : sum[n] = sum[n - 1] + Tokens[s[n]]
        /\ Total(s) = sum[N]
  BY TotalSum
<1>3. PICK scan \in [0..N -> Scan] :
        /\ scan[0] = [total |-> Total(s), count |-> 0]
        /\ \A n \in 1..N :
             scan[n] = IF scan[n - 1].total > MaxTokens /\ s[n] \notin Protected
                       THEN [total |-> scan[n - 1].total - Tokens[s[n]],
                             count |-> scan[n - 1].count + 1]
                       ELSE scan[n - 1]
        /\ r = scan[N].count
  BY RemovedScan
<1>4. PICK saved \in [0..N -> Seq(Items)] :
        /\ saved[0] = <<>>
        /\ \A n \in 1..N :
             saved[n] = IF n > r \/ s[n] \in Protected
                       THEN Append(saved[n - 1], s[n]) ELSE saved[n - 1]
        /\ Filtered(s, r) = saved[N]
  BY <1>1, FilteredKept
<1>m. \A n \in (m + 1)..N : n > r \/ s[n] \in Protected
  OBVIOUS
<1>s. \A n \in 0..(N - 1) : n + 1 \in 1..N /\ (n + 1) - 1 = n /\ n + 1 \in 0..N /\ n \in 0..N
  BY <1>1
<1>e. /\ N \in 0..N /\ m - 1 \in 0..N /\ m \in 0..N /\ 0 \in 0..N
      /\ \A n \in 1..N : n - 1 \in 0..N /\ n \in 0..N
  BY <1>1
<1>d. Remaining(s) = saved[N]
  BY <1>4 DEF Remaining
<1> HIDE DEF N, r
<1>f. ASSUME NEW n \in 1..N
      PROVE  /\ scan[n].total = IF scan[n - 1].total > MaxTokens /\ s[n] \notin Protected
                                THEN scan[n - 1].total - Tokens[s[n]] ELSE scan[n - 1].total
             /\ scan[n].count = scan[n - 1].count + 1 \/ scan[n].count = scan[n - 1].count
  <2>1. CASE scan[n - 1].total > MaxTokens /\ s[n] \notin Protected
    <3>1. scan[n] = [total |-> scan[n - 1].total - Tokens[s[n]],
                     count |-> scan[n - 1].count + 1]
      BY <1>3, <2>1
    <3> QED  BY <2>1, <3>1
  <2>2. CASE ~ (scan[n - 1].total > MaxTokens /\ s[n] \notin Protected)
    <3>1. scan[n] = scan[n - 1]
      BY <1>3, <2>2
    <3> QED  BY <2>2, <3>1
  <2> QED  BY <2>1, <2>2
<1> DEFINE k(n) == Total(saved[n])
<1>5. \A n \in 0..N : sum[n] \in Nat /\ scan[n] \in Scan /\ k(n) \in Nat
  <2>1. \A n \in 0..N : saved[n] \in Seq(Items)
    BY <1>4
  <2>2. \A t \in Seq(Items) : Total(t) \in Nat
    <3> TAKE t \in Seq(Items)
    <3>1. Len(t) \in 0..Len(t)
      OBVIOUS
    <3> QED  BY <3>1, TotalSum
  <2> QED  BY <1>2, <1>3, <2>1, <2>2
<1>6. \A n \in 0..N : scan[n].total \in Int /\ scan[n].count \in Nat
  BY <1>5 DEF Scan
<1>7. k(0) = 0
  BY <1>4, TotalEmpty
<1>8. \A n \in 1..N :
        k(n) = IF n > r \/ s[n] \in Protected THEN k(n - 1) + Tokens[s[n]] ELSE k(n - 1)
  <2> TAKE n \in 1..N
  <2>1. n - 1 \in 0..N /\ s[n] \in Items /\ saved[n - 1] \in Seq(Items)
    BY <1>1, <1>4, <1>e
  <2>2. Total(Append(saved[n - 1], s[n])) = k(n - 1) + Tokens[s[n]]
    BY <2>1, TotalAppend
  <2> QED  BY <1>4, <2>2
<1> HIDE DEF k
\* While the budget is exceeded every unprotected item passed has been removed.
<1>9. \A n \in 0..N :
        (scan[n].total > MaxTokens /\ n <= r) => scan[n].total = sum[N] - sum[n] + k(n)
  <2> DEFINE S == {n \in 0..N : (scan[n].total > MaxTokens /\ n <= r)
                                  => scan[n].total = sum[N] - sum[n] + k(n)}
  <2>1. 0 \in S
    <3>1. scan[0].total = sum[N]
      BY <1>2, <1>3
    <3>2. sum[0] = 0 /\ k(0) = 0 /\ sum[N] \in Nat
      BY <1>2, <1>7, <1>e
    <3>3. scan[0].total = sum[N] - sum[0] + k(0)
      BY <3>1, <3>2
    <3> QED  BY <1>e, <3>3
  <2>2. ASSUME NEW n \in 0..(N - 1), n \in S  PROVE n + 1 \in S
    <3>1. n + 1 \in 1..N /\ (n + 1) - 1 = n /\ n + 1 \in 0..N /\ n \in 0..N
      BY <1>s
    <3>2. sum[n + 1] = sum[n] + Tokens[s[n + 1]] /\ Tokens[s[n + 1]] \in Nat
      BY <1>1, <1>2, <3>1
    <3>3. k(n + 1) = IF n + 1 > r \/ s[n + 1] \in Protected
                     THEN k(n) + Tokens[s[n + 1]] ELSE k(n)
      BY <1>8, <3>1
    <3>4. scan[n + 1].total = IF scan[n].total > MaxTokens /\ s[n + 1] \notin Protected
                              THEN scan[n].total - Tokens[s[n + 1]] ELSE scan[n].total
      BY <1>f, <3>1
    <3>5. /\ sum[n] \in Nat /\ sum[N] \in Nat /\ k(n) \in Nat
          /\ scan[n].total \in Int /\ scan[n + 1].total \in Int
      BY <1>5, <1>6, <1>e, <3>1
    <3>6. (scan[n].total > MaxTokens /\ n <= r) => scan[n].total = sum[N] - sum[n] + k(n)
      BY <2>2
    <3> DEFINE a == scan[n].total
               b == scan[n + 1].total
               x == Tokens[s[n + 1]]
               u == sum[n]
               v == sum[n + 1]
               all == sum[N]
               kn == k(n)
               km == k(n + 1)
    <3>t. /\ a \in Int /\ b \in Int /\ x \in Nat /\ u \in Nat /\ all \in Nat /\ kn \in Nat
          /\ v = u + x
      BY <3>2, <3>5
    <3>a. (b > MaxTokens /\ n + 1 <= r) =>
            \/ b = a /\ km = kn + x
            \/ b = a - x /\ km = kn
            \/ ~ (a > MaxTokens)
      <4>1. n \in Nat /\ r \in Nat /\ (n + 1 <= r => ~ (n + 1 > r))
        BY <1>1
      <4> QED  BY <3>3, <3>4, <4>1
    <3>b. b = a \/ b = a - x
      BY <3>4
    <3>c. (a > MaxTokens /\ n <= r) => a = all - u + kn
      BY <3>6
    <3>d. n + 1 <= r => n <= r
      BY <1>1
    <3> HIDE DEF a, b, x, u, v, all, kn, km
    <3>7. (b > MaxTokens /\ n + 1 <= r) => b = all - v + km
      <4> SUFFICES ASSUME b > MaxTokens, n + 1 <= r  PROVE b = all - v + km
        OBVIOUS
      <4>1. MaxTokens \in Nat
        BY <1>1
      <4>2. a > MaxTokens
        BY <3>t, <3>b, <4>1
      <4>3. a = all - u + kn
        BY <3>c, <3>d, <4>2
      <4>4. CASE b = a /\ km = kn + x
        BY <3>t, <4>3, <4>4
      <4>5. CASE b = a - x /\ km = kn
        BY <3>t, <4>3, <4>5
      <4> QED  BY <3>a, <4>2, <4>4, <4>5
    <3>8. (scan[n + 1].total > MaxTokens /\ n + 1 <= r)
            => scan[n + 1].total = sum[N] - sum[n + 1] + k(n + 1)
      BY <3>7 DEF b, all, v, km
    <3> QED  BY <3>1, <3>8
  <2> HIDE DEF S
  <2>3. \A n \in 0..N : n \in S
    BY <1>1, <2>1, <2>2, UpTo
  <2> QED  BY <2>3 DEF S
<1>10. \A n \in 0..N : scan[n].count <= n
  <2> DEFINE S == {n \in 0..N : scan[n].count <= n}
  <2>1. 0 \in S
    BY <1>3, <1>e
  <2>2. ASSUME NEW n \in 0..(N - 1), n \in S  PROVE n + 1 \in S
    <3>1. n + 1 \in 1..N /\ (n + 1) - 1 = n /\ n + 1 \in 0..N /\ n \in 0..N
      BY <1>s
    <3>2. scan[n + 1].count = scan[n].count + 1 \/ scan[n + 1].count = scan[n].count
      BY <1>f, <3>1
    <3> QED  BY <1>6, <2>2, <3>1, <3>2
  <2> HIDE DEF S
  <2>3. \A n \in 0..N : n \in S
    BY <1>1, <2>1, <2>2, UpTo
  <2> QED  BY <2>3 DEF S
\* Were the budget saved before m, the loop would have stopped there.
<1>11. scan[m - 1].total > MaxTokens
  <2> SUFFICES ASSUME ~ (scan[m - 1].total > MaxTokens)  PROVE FALSE
    OBVIOUS
  <2> DEFINE S == {n \in 0..N : n >= m - 1 => scan[n] = scan[m - 1]}
  <2>1. 0 \in S
    BY <1>1, <1>e
  <2>2. ASSUME NEW n \in 0..(N - 1), n \in S  PROVE n + 1 \in S
    <3>1. n + 1 \in 1..N /\ (n + 1) - 1 = n /\ n + 1 \in 0..N /\ n \in 0..N
      BY <1>s
    <3>2. CASE n >= m - 1
      <4>1. scan[n] = scan[m - 1]
        BY <2>2, <3>2
      <4>2. scan[n + 1] = scan[n]
        BY <1>3, <3>1, <4>1
      <4> QED  BY <3>1, <4>1, <4>2
    <3>3. CASE ~ (n >= m - 1)
      <4>1. n + 1 >= m - 1 => n + 1 = m - 1
        BY <1>1, <3>1, <3>3
      <4> QED  BY <3>1, <4>1
    <3> QED  BY <3>2, <3>3
  <2> HIDE DEF S
  <2>3. \A n \in 0..N : n \in S
    BY <1>1, <2>1, <2>2, UpTo
  <2>4. scan[N] = scan[m - 1]
    BY <1>1, <1>e, <2>3 DEF S
  <2>5. r <= m - 1
    BY <1>3, <1>10, <1>e, <2>4
  <2> QED  BY <1>1, <2>5
\* Behind m everything is saved.
<1>12. \A n \in 0..N : n >= m => k(n) = k(m - 1) + sum[n] - sum[m]
  <2> DEFINE S == {n \in 0..N : n >= m => k(n) = k(m - 1) + sum[n] - sum[m]}
  <2>0. k(m) = k(m - 1)
    BY <1>1, <1>8
  <2>1. 0 \in S
    BY <1>1, <1>e
  <2>2. ASSUME NEW n \in 0..(N - 1), n \in S  PROVE n + 1 \in S
    <3>1. n + 1 \in 1..N /\ (n + 1) - 1 = n /\ n + 1 \in 0..N /\ n \in 0..N
      BY <1>s
    <3>2. CASE n >= m
      <4>1. n + 1 \in (m + 1)..N
        BY <1>1, <3>1, <3>2
      <4>2. k(n + 1) = k(n) + Tokens[s[n + 1]]
        BY <1>8, <1>m, <3>1, <4>1
      <4>3. sum[n + 1] = sum[n] + Tokens[s[n + 1]]
        BY <1>2, <3>1
      <4>4. k(n) = k(m - 1) + sum[n] - sum[m]
        BY <2>2, <3>2
      <4>5. /\ sum[n] \in Nat /\ sum[m] \in Nat /\ k(m - 1) \in Nat
            /\ Tokens[s[n + 1]] \in Nat
        BY <1>1, <1>5, <1>e, <3>1
      <4>6. k(n + 1) = k(m - 1) + sum[n + 1] - sum[m]
        BY <4>2, <4>3, <4>4, <4>5
      <4> QED  BY <3>1, <4>6
    <3>3. CASE ~ (n >= m)
      <4>1. n + 1 >= m => n + 1 = m
        BY <1>1, <3>1, <3>3
      <4>2. k(m) = k(m - 1) + sum[m] - sum[m]
        BY <1>5, <1>e, <2>0
      <4> QED  BY <3>1, <4>1, <4>2
    <3> QED  BY <3>2, <3>3
  <2> HIDE DEF S
  <2>3. \A n \in 0..N : n \in S
    BY <1>1, <2>1, <2>2, UpTo
  <2> QED  BY <2>3 DEF S
<1>13. scan[m - 1].total = sum[N] - sum[m - 1] + k(m - 1)
  BY <1>1, <1>9, <1>11, <1>e
<1>14. k(N) = k(m - 1) + sum[N] - sum[m]
  BY <1>1, <1>12, <1>e
<1>15. sum[m] = sum[m - 1] + Tokens[s[m]] /\ Tokens[s[m]] \in Nat
  BY <1>1, <1>2
<1>16. k(N) + Tokens[s[m]] = scan[m - 1].total
  <2>1. sum[N] \in Nat /\ sum[m] \in Nat /\ sum[m - 1] \in Nat /\ k(m - 1) \in Nat
    BY <1>5, <1>e
  <2> QED  BY <1>13, <1>14, <1>15, <2>1
<1>17. Total(Remaining(s)) = k(N)
  BY <1>d DEF k
<1> QED  BY <1>11, <1>16, <1>17

-----------------------------------------------------------------------------
(* The inductive invariant.                                                 *)

\* Only a client about to push has an item, one that was never pushed and that no
\* other client has.
Pending ==
  /\ \A c \in Clients : item[c] # None => pc[c] = "push"
  /\ \A c \in Clients : pc[c] = "push" => item[c] \in Items \ ToSet(pushed)
  /\ \A c, d \in Clients : (c # d /\ item[c] # None) => item[c] # item[d]

\* The list and each copy of it a client read hold pushed items in the order of
\* the pushes.
CopiesOrdered ==
  /\ Ordered(list, pushed)
  /\ \A c \in Clients : Ordered(snap[c], pushed) /\ ToSet(snap[c]) \subseteq ToSet(pushed)

\* Items of an ended session are in the copies of those rewrites only that were
\* under way when it ended.
EndedCopied ==
  /\ ended \subseteq ToSet(pushed)
  /\ EndedUnlessHung
  /\ \A c \in Clients : pc[c] = "rewrite" => ToSet(snap[c]) \intersect ended \subseteq hung

WMInv == TypeOK /\ Pending /\ CopiesOrdered /\ ProtectedKept /\ EndedCopied

-----------------------------------------------------------------------------
(* Lists that grow.                                                         *)

LEMMA Grown ==
  ASSUME NEW s \in Seq(Items), NEW x \in Items
  PROVE  /\ Append(s, x) \in Seq(Items) /\ Len(s) \in Nat /\ Len(Append(s, x)) = Len(s) + 1
         /\ DOMAIN s = 1..Len(s) /\ DOMAIN Append(s, x) = 1..(Len(s) + 1)
         /\ \A n \in 1..(Len(s) + 1) : n = Len(s) + 1 \/ n \in 1..Len(s)
         /\ \A n \in 1..Len(s) : n \in 1..(Len(s) + 1) /\ Append(s, x)[n] = s[n]
         /\ Len(s) + 1 \in 1..(Len(s) + 1) /\ Append(s, x)[Len(s) + 1] = x
         /\ ToSet(Append(s, x)) = ToSet(s) \union {x}
<1>1. /\ Append(s, x) \in Seq(Items) /\ Len(s) \in Nat /\ Len(Append(s, x)) = Len(s) + 1
      /\ DOMAIN s = 1..Len(s) /\ DOMAIN Append(s, x) = 1..(Len(s) + 1)
      /\ \A n \in 1..(Len(s) + 1) : n = Len(s) + 1 \/ n \in 1..Len(s)
      /\ \A n \in 1..Len(s) : n \in 1..(Len(s) + 1) /\ Append(s, x)[n] = s[n]
      /\ Len(s) + 1 \in 1..(Len(s) + 1) /\ Append(s, x)[Len(s) + 1] = x
  OBVIOUS
<1> DEFINE t == Append(s, x)
           N == Len(s)
<1>2. /\ DOMAIN s = 1..N /\ DOMAIN t = 1..(N + 1)
      /\ \A n \in 1..(N + 1) : n = N + 1 \/ n \in 1..N
      /\ \A n \in 1..N : n \in 1..(N + 1) /\ t[n] = s[n]
      /\ N + 1 \in 1..(N + 1) /\ t[N + 1] = x
  BY <1>1
<1> HIDE DEF t, N
<1>3. ToSet(t) = ToSet(s) \union {x}
  <2>1. ASSUME NEW y \in ToSet(t)  PROVE y \in ToSet(s) \union {x}
    BY <1>2 DEF ToSet
  <2>2. ASSUME NEW y \in ToSet(s)  PROVE y \in ToSet(t)
    BY <1>2 DEF ToSet
  <2>3. x \in ToSet(t)
    BY <1>2 DEF ToSet
  <2> QED  BY <2>1, <2>2, <2>3
<1> QED  BY <1>1, <1>3 DEF t

LEMMA Nothing == Len(<<>>) = 0 /\ DOMAIN <<>> = {} /\ <<>> \in Seq(Items) /\ ToSet(<<>>) = {}
  BY DEF ToSet

LEMMA NothingOrdered == \A p : Ordered(<<>>, p)
  BY Nothing DEF Ordered

LEMMA InjectiveGrows ==
  ASSUME NEW p \in Seq(Items), NEW x \in Items, IsInjective(p), x \notin ToSet(p)
  PROVE  IsInjective(Append(p, x))
<1> DEFINE q == Append(p, x)
<1>1. /\ DOMAIN p = 1..Len(p) /\ DOMAIN q = 1..(Len(p) + 1)
      /\ \A n \in 1..(Len(p) + 1) : n = Len(p) + 1 \/ n \in 1..Len(p)
      /\ \A n \in 1..Len(p) : q[n] = p[n] /\ p[n] \in ToSet(p)
      /\ q[Len(p) + 1] = x
  BY Grown DEF ToSet
<1> HIDE DEF q
<1>2. ASSUME NEW k \in DOMAIN q, NEW l \in DOMAIN q, q[k] = q[l]  PROVE k = l
  <2>1. CASE k \in 1..Len(p) /\ l \in 1..Len(p)
    BY <1>1, <1>2, <2>1 DEF IsInjective
  <2>2. CASE k = Len(p) + 1
    BY <1>1, <1>2, <2>2
  <2>3. CASE l = Len(p) + 1
    BY <1>1, <1>2, <2>3
  <2> QED  BY <1>1, <2>1, <2>2, <2>3
<1>3. IsInjective(q)
  BY <1>2 DEF IsInjective
<1> QED  BY <1>3 DEF q

\* A push of a new item disturbs no copy's order.
LEMMA OrderedGrows ==
  ASSUME NEW s \in Seq(Items), NEW p \in Seq(Items), NEW x \in Items,
         Ordered(s, p), ToSet(s) \subseteq ToSet(p), x \notin ToSet(p)
  PROVE  Ordered(s, Append(p, x)) /\ Ordered(Append(s, x), Append(p, x))
<1> DEFINE q == Append(p, x)
           t == Append(s, x)
<1>1. /\ Len(p) \in Nat /\ DOMAIN p = 1..Len(p) /\ DOMAIN q = 1..(Len(p) + 1)
      /\ \A n \in 1..(Len(p) + 1) : n = Len(p) + 1 \/ n \in 1..Len(p)
      /\ \A n \in 1..Len(p) : q[n] = p[n] /\ p[n] \in ToSet(p)
      /\ q[Len(p) + 1] = x
  BY Grown DEF ToSet
<1>2. /\ Len(s) \in Nat /\ DOMAIN s = 1..Len(s) /\ DOMAIN t = 1..(Len(s) + 1)
      /\ \A n \in 1..(Len(s) + 1) : n = Len(s) + 1 \/ n \in 1..Len(s)
      /\ \A n \in 1..Len(s) : t[n] = s[n] /\ s[n] \in ToSet(s)
      /\ t[Len(s) + 1] = x
  BY Grown DEF ToSet
<1> HIDE DEF q, t
<1>3. \A m \in 1..Len(s) : s[m] \in ToSet(p) /\ s[m] # x
  BY <1>2
<1>4. ASSUME NEW m \in 1..Len(s), NEW k \in DOMAIN q, q[k] = s[m]
      PROVE  k \in 1..Len(p) /\ p[k] = s[m]
  BY <1>1, <1>3, <1>4
<1>5. Ordered(s, q)
  BY <1>1, <1>2, <1>4 DEF Ordered
<1>6. Ordered(t, q)
  <2> SUFFICES ASSUME NEW m \in DOMAIN t, NEW n \in DOMAIN t, m < n,
                      NEW k \in DOMAIN q, NEW l \in DOMAIN q, q[k] = t[m], q[l] = t[n]
               PROVE  k < l
    BY DEF Ordered
  <2>1. m \in 1..Len(s)
    BY <1>2
  <2>2. k \in 1..Len(p) /\ p[k] = s[m]
    BY <1>2, <1>4, <2>1
  <2>3. CASE n \in 1..Len(s)
    BY <1>2, <1>4, <2>1, <2>2, <2>3 DEF Ordered
  <2>4. CASE n = Len(s) + 1
    <3>1. q[l] = x
      BY <1>2, <2>4
    <3>2. ~ (l \in 1..Len(p))
      BY <1>1, <3>1
    <3>3. l = Len(p) + 1
      BY <1>1, <3>2
    <3> QED  BY <1>1, <2>2, <3>3
  <2> QED  BY <1>2, <2>3, <2>4
<1> QED  BY <1>5, <1>6 DEF q, t

-----------------------------------------------------------------------------
(* The steps.                                                               *)

PcValues == {"idle", "push", "read", "rewrite", "reflect", "clear"}

\* What a step of client c does to its place in the program.
LEMMA PcMoves ==
  ASSUME TypeOK, NEW c \in Clients, NEW step \in PcValues, Goto(c, step)
  PROVE  /\ pc' \in [Clients -> PcValues] /\ pc'[c] = step
         /\ \A d \in Clients : d # c => pc'[d] = pc[d]
  BY DEF TypeOK, Goto, PcValues

\* ...and to its copy of the list.
LEMMA SnapMoves ==
  ASSUME TypeOK, NEW c \in Clients, NEW s \in Seq(Items), snap' = [snap EXCEPT ![c] = s]
  PROVE  /\ snap' \in [Clients -> Seq(Items)] /\ snap'[c] = s
         /\ \A d \in Clients : d # c => snap'[d] = snap[d]
  BY DEF TypeOK

LEMMA WMInit == Init => WMInv
<1> SUFFICES ASSUME Init PROVE WMInv
  OBVIOUS
<1> USE DEF Init
<1>0. /\ <<>> \in Seq(Items) /\ DOMAIN <<>> = {} /\ ToSet(<<>>) = {} /\ IsInjective(<<>>)
      /\ MaxReflects \in Nat
  BY Nothing, WorkingMemoryAssumption DEF IsInjective, WorkingMemoryAssumption
<1>1. TypeOK
  BY <1>0 DEF TypeOK
<1>2. Pending
  BY DEF Pending
<1>3. CopiesOrdered
  BY <1>0, NothingOrdered DEF CopiesOrdered
<1>4. ProtectedKept
  BY <1>0 DEF ProtectedKept
<1>5. EndedCopied
  BY <1>0 DEF EndedCopied, EndedUnlessHung
<1> QED  BY <1>1, <1>2, <1>3, <1>4, <1>5 DEF WMInv

LEMMA AddStartStep ==
  ASSUME WMInv, NEW c \in Clients, NEW i \in Items, AddStart(c, i)
  PROVE  WMInv'
<1> USE DEF AddStart, WMInv
<1>1. /\ pc' \in [Clients -> PcValues] /\ pc'[c] = "push"
      /\ \A d \in Clients : d # c => pc'[d] = pc[d]
  <2>1. "push" \in PcValues
    BY DEF PcValues
  <2> QED  BY <2>1, PcMoves
<1>2. /\ item' \in [Clients -> Items \union {None}] /\ item'[c] = i
      /\ \A d \in Clients : d # c => item'[d] = item[d]
  BY DEF TypeOK
<1>3. TypeOK'
  BY <1>1, <1>2 DEF TypeOK, PcValues
<1>4. Pending'
  BY <1>1, <1>2 DEF Pending
<1>5. CopiesOrdered' /\ ProtectedKept'
  BY DEF CopiesOrdered, Ordered, ProtectedKept
<1>6. EndedCopied'
  <2>1. "push" # "rewrite"
    OBVIOUS
  <2> QED  BY <1>1, <2>1 DEF EndedCopied, EndedUnlessHung
<1> QED  BY <1>3, <1>4, <1>5, <1>6

LEMMA PushStep ==
  ASSUME WMInv, NEW c \in Clients, Push(c)
  PROVE  WMInv'
<1> USE DEF Push, WMInv
<1> DEFINE x == item[c]
<1>0. x \in Items /\ x \notin ToSet(pushed)
  BY DEF Pending
<1>a. list \in Seq(Items) /\ pushed \in Seq(Items) /\ IsInjective(pushed)
      /\ ToSet(list) \subseteq ToSet(pushed)
  BY DEF TypeOK
<1>b. None \notin Items
  BY WorkingMemoryAssumption DEF WorkingMemoryAssumption
<1>1. /\ pc' \in [Clients -> PcValues] /\ pc'[c] = "read"
      /\ \A d \in Clients : d # c => pc'[d] = pc[d]
  <2>1. "read" \in PcValues
    BY DEF PcValues
  <2> QED  BY <2>1, PcMoves
<1>2. /\ item' \in [Clients -> Items \union {None}] /\ item'[c] = None
      /\ \A d \in Clients : d # c => item'[d] = item[d]
  BY DEF TypeOK
<1>3. /\ list' = Append(list, x) /\ list' \in Seq(Items)
      /\ ToSet(list') = ToSet(list) \union {x}
  BY <1>0, <1>a, Grown
<1>4. /\ pushed' = Append(pushed, x) /\ pushed' \in Seq(Items)
      /\ ToSet(pushed') = ToSet(pushed) \union {x} /\ IsInjective(pushed')
  BY <1>0, <1>a, Grown, InjectiveGrows
<1>5. TypeOK'
  BY <1>1, <1>2, <1>3, <1>4 DEF TypeOK, PcValues
<1>6. Pending'
  <2>1. ASSUME NEW d \in Clients, d # c, pc[d] = "push"  PROVE item[d] # x
    BY <1>0, <1>b, <2>1 DEF Pending
  <2>2. \A d \in Clients : item'[d] # None => pc'[d] = "push"
    BY <1>1, <1>2 DEF Pending
  <2>3. \A d \in Clients : pc'[d] = "push" => item'[d] \in Items \ ToSet(pushed')
    BY <1>1, <1>2, <1>4, <2>1 DEF Pending
  <2>4. \A d, e \in Clients : (d # e /\ item'[d] # None) => item'[d] # item'[e]
    BY <1>2 DEF Pending
  <2> QED  BY <2>2, <2>3, <2>4 DEF Pending
<1>7. CopiesOrdered'
  <2>1. Ordered(list', pushed')
    BY <1>0, <1>3, <1>4, <1>a, OrderedGrows DEF CopiesOrdered
  <2>2. ASSUME NEW d \in Clients
        PROVE  Ordered(snap[d], pushed') /\ ToSet(snap[d]) \subseteq ToSet(pushed')
    <3>1. snap[d] \in Seq(Items) /\ Ordered(snap[d], pushed)
          /\ ToSet(snap[d]) \subseteq ToSet(pushed)
      BY DEF TypeOK, CopiesOrdered
    <3>2. Ordered(snap[d], Append(pushed, x))
      BY <1>0, <1>a, <3>1, OrderedGrows
    <3> QED  BY <1>4, <3>1, <3>2
  <2>3. \A d \in Clients : Ordered(snap'[d], pushed') /\ ToSet(snap'[d]) \subseteq ToSet(pushed')
    <3>1. snap' = snap
      OBVIOUS
    <3> QED  BY <2>2, <3>1
  <2> HIDE DEF Push, WMInv
  <2> QED  BY <2>1, <2>3 DEF CopiesOrdered, Ordered
<1>8. ProtectedKept'
  BY <1>3, <1>4 DEF ProtectedKept
<1>9. EndedCopied'
  BY <1>0, <1>1, <1>3, <1>4 DEF EndedCopied, EndedUnlessHung
<1> QED  BY <1>5, <1>6, <1>7, <1>8, <1>9

LEMMA ReadStep ==
  ASSUME WMInv, NEW c \in Clients, Read(c)
  PROVE  WMInv'
<1> USE DEF Read, WMInv
<1> DEFINE step == IF Removed(list) > 0 THEN "rewrite" ELSE "idle"
           copy == IF Removed(list) > 0 THEN list ELSE <<>>
<1>0. /\ step \in PcValues /\ step # "push" /\ copy \in Seq(Items)
      /\ copy = list \/ copy = <<>>
  BY DEF PcValues, TypeOK
<1>1. /\ pc' \in [Clients -> PcValues] /\ pc'[c] = step
      /\ \A d \in Clients : d # c => pc'[d] = pc[d]
  BY <1>0, PcMoves
<1>2. /\ snap' \in [Clients -> Seq(Items)] /\ snap'[c] = copy
      /\ \A d \in Clients : d # c => snap'[d] = snap[d]
  BY <1>0, SnapMoves
<1> HIDE DEF step, copy
<1>3. TypeOK'
  BY <1>1, <1>2 DEF TypeOK, PcValues
<1>4. Pending'
  BY <1>0, <1>1 DEF Pending
<1>5. CopiesOrdered'
  <2>1. Ordered(copy, pushed) /\ ToSet(copy) \subseteq ToSet(pushed)
    BY <1>0, Nothing, NothingOrdered DEF CopiesOrdered, TypeOK
  <2>2. \A d \in Clients : Ordered(snap'[d], pushed) /\ ToSet(snap'[d]) \subseteq ToSet(pushed)
    BY <1>2, <2>1 DEF CopiesOrdered
  <2>3. Ordered(list, pushed) /\ list' = list /\ pushed' = pushed
    BY DEF CopiesOrdered
  <2> QED  BY <2>2, <2>3 DEF CopiesOrdered, Ordered
<1>6. ProtectedKept'
  BY DEF ProtectedKept
<1>7. EndedCopied'
  <2>1. ToSet(copy) \intersect ended \subseteq hung
    BY <1>0, Nothing DEF EndedCopied, EndedUnlessHung
  <2> QED  BY <1>1, <1>2, <2>1 DEF EndedCopied, EndedUnlessHung
<1> QED  BY <1>3, <1>4, <1>5, <1>6, <1>7

LEMMA RewriteStep ==
  ASSUME WMInv, NEW c \in Clients, Rewrite(c)
  PROVE  WMInv'
<1> USE DEF Rewrite, WMInv
<1> DEFINE s == snap[c]
<1>0. /\ s \in Seq(Items) /\ Ordered(s, pushed) /\ ToSet(s) \subseteq ToSet(pushed)
      /\ ToSet(s) \intersect ended \subseteq hung
      /\ pushed \in Seq(Items)
  BY DEF TypeOK, CopiesOrdered, EndedCopied
<1>a. /\ list' \in Seq(Items) /\ ToSet(list') \subseteq ToSet(s)
      /\ \A x \in ToSet(s) \intersect Protected : x \in ToSet(list')
      /\ Ordered(list', pushed)
  <2>1. Removed(s) \in Nat
    BY <1>0, RemovedBound
  <2>2. /\ list' = Filtered(s, Removed(s)) /\ list' \in Seq(Items)
        /\ ToSet(list') \subseteq ToSet(s)
        /\ \A m \in 1..Len(s) : s[m] \in Protected => s[m] \in ToSet(list')
        /\ Ordered(list', pushed)
    BY <1>0, <2>1, FilteredSound DEF Remaining
  <2>3. DOMAIN s = 1..Len(s)
    BY <1>0
  <2> QED  BY <2>2, <2>3 DEF ToSet
<1>1. /\ pc' \in [Clients -> PcValues] /\ pc'[c] = "idle"
      /\ \A d \in Clients : d # c => pc'[d] = pc[d]
  <2>1. "idle" \in PcValues
    BY DEF PcValues
  <2> QED  BY <2>1, PcMoves
<1>2. /\ snap' \in [Clients -> Seq(Items)] /\ snap'[c] = <<>>
      /\ \A d \in Clients : d # c => snap'[d] = snap[d]
  BY Nothing, SnapMoves
<1>3. TypeOK'
  <2>1. ToSet(list) \subseteq Items
    BY DEF TypeOK, ToSet
  <2>2. raced' \subseteq Items
    BY <2>1 DEF TypeOK
  <2> QED  BY <1>0, <1>1, <1>2, <1>a, <2>2 DEF TypeOK, PcValues
<1>4. Pending'
  BY <1>1 DEF Pending
<1>5. CopiesOrdered'
  <2>1. \A d \in Clients : Ordered(snap'[d], pushed) /\ ToSet(snap'[d]) \subseteq ToSet(pushed)
    BY <1>2, Nothing, NothingOrdered DEF CopiesOrdered
  <2>2. pushed' = pushed
    OBVIOUS
  <2> QED  BY <1>a, <2>1, <2>2 DEF CopiesOrdered, Ordered
<1>6. ProtectedKept'
  BY <1>a DEF ProtectedKept
<1>7. EndedCopied'
  BY <1>0, <1>1, <1>2, <1>a DEF EndedCopied, EndedUnlessHung
<1> QED  BY <1>3, <1>4, <1>5, <1>6, <1>7

LEMMA ReflectStartStep ==
  ASSUME WMInv, NEW c \in Clients, ReflectStart(c)
  PROVE  WMInv'
<1> USE DEF ReflectStart, WMInv
<1>1. /\ pc' \in [Clients -> PcValues] /\ pc'[c] = "reflect"
      /\ \A d \in Clients : d # c => pc'[d] = pc[d]
  <2>1. "reflect" \in PcValues
    BY DEF PcValues
  <2> QED  BY <2>1, PcMoves
<1>2. reflects' \in 0..MaxReflects
  BY WorkingMemoryAssumption DEF TypeOK, WorkingMemoryAssumption
<1>3. TypeOK'
  BY <1>1, <1>2 DEF TypeOK, PcValues
<1>4. Pending'
  BY <1>1 DEF Pending
<1>5. CopiesOrdered' /\ ProtectedKept'
  BY DEF CopiesOrdered, Ordered, ProtectedKept
<1>6. EndedCopied'
  BY <1>1 DEF EndedCopied, EndedUnlessHung
<1> QED  BY <1>3, <1>4, <1>5, <1>6

LEMMA ReflectReadStep ==
  ASSUME WMInv, NEW c \in Clients, ReflectRead(c)
  PROVE  WMInv'
<1> USE DEF ReflectRead, WMInv
<1>1. /\ pc' \in [Clients -> PcValues] /\ pc'[c] = "clear"
      /\ \A d \in Clients : d # c => pc'[d] = pc[d]
  <2>1. "clear" \in PcValues
    BY DEF PcValues
  <2> QED  BY <2>1, PcMoves
<1>2. /\ snap' \in [Clients -> Seq(Items)] /\ snap'[c] = list
      /\ \A d \in Clients : d # c => snap'[d] = snap[d]
  <2>1. list \in Seq(Items)
    BY DEF TypeOK
  <2> QED  BY <2>1, SnapMoves
<1>3. TypeOK'
  BY <1>1, <1>2 DEF TypeOK, PcValues
<1>4. Pending'
  BY <1>1 DEF Pending
<1>5. CopiesOrdered'
  <2>1. \A d \in Clients : Ordered(snap'[d], pushed) /\ ToSet(snap'[d]) \subseteq ToSet(pushed)
    BY <1>2 DEF CopiesOrdered, TypeOK
  <2>2. Ordered(list, pushed) /\ list' = list /\ pushed' = pushed
    BY DEF CopiesOrdered
  <2> QED  BY <2>1, <2>2 DEF CopiesOrdered, Ordered
<1>6. ProtectedKept'
  BY DEF ProtectedKept
<1>7. EndedCopied'
  BY <1>1, <1>2 DEF EndedCopied, EndedUnlessHung
<1> QED  BY <1>3, <1>4, <1>5, <1>6, <1>7

LEMMA ReflectClearStep ==
  ASSUME WMInv, NEW c \in Clients, ReflectClear(c)
  PROVE  WMInv'
<1> USE DEF ReflectClear, WMInv
<1>1. /\ pc' \in [Clients -> PcValues] /\ pc'[c] = "idle"
      /\ \A d \in Clients : d # c => pc'[d] = pc[d]
  <2>1. "idle" \in PcValues
    BY DEF PcValues
  <2> QED  BY <2>1, PcMoves
<1>2. /\ snap' \in [Clients -> Seq(Items)] /\ snap'[c] = <<>>
      /\ \A d \in Clients : d # c => snap'[d] = snap[d]
  BY Nothing, SnapMoves
<1>a. \A d \in Clients : snap[d] \in Seq(Items) /\ ToSet(snap[d]) \subseteq Items
  BY DEF TypeOK, ToSet
<1>3. TypeOK'
  <2>1. hung' \subseteq Items /\ reflected' \subseteq Items
    BY <1>a DEF TypeOK
  <2>2. ended' \subseteq Items
    BY DEF TypeOK, ToSet
  <2>3. list' \in Seq(Items) /\ ToSet(list') \subseteq ToSet(pushed')
    BY Nothing
  <2> QED  BY <1>1, <1>2, <2>1, <2>2, <2>3 DEF TypeOK, PcValues
<1>4. Pending'
  BY <1>1 DEF Pending
<1>5. CopiesOrdered'
  <2>1. \A d \in Clients : Ordered(snap'[d], pushed) /\ ToSet(snap'[d]) \subseteq ToSet(pushed)
    BY <1>2, Nothing, NothingOrdered DEF CopiesOrdered
  <2>2. Ordered(list', pushed) /\ pushed' = pushed
    BY NothingOrdered
  <2> QED  BY <2>1, <2>2 DEF CopiesOrdered, Ordered
<1>6. ProtectedKept'
  BY DEF ProtectedKept
<1>7. EndedCopied'
  <2>1. \A d \in Clients : pc'[d] = "rewrite" => ToSet(snap'[d]) \subseteq hung'
    BY <1>1, <1>2
  <2>2. ended' = ToSet(pushed') /\ ToSet(list') = {}
    BY Nothing
  <2> QED  BY <2>1, <2>2 DEF EndedCopied, EndedUnlessHung
<1> QED  BY <1>3, <1>4, <1>5, <1>6, <1>7

LEMMA WMStep == WMInv /\ [Next]_vars => WMInv'
<1> SUFFICES ASSUME WMInv, [Next]_vars  PROVE WMInv'
  OBVIOUS
<1>1. CASE Next
  <2>1. PICK c \in Clients :
          \/ \E i \in Items : AddStart(c, i)
          \/ Push(c) \/ Read(c) \/ Rewrite(c)
          \/ ReflectStart(c) \/ ReflectRead(c) \/ ReflectClear(c)
    BY <1>1 DEF Next
  <2>2. CASE \E i \in Items : AddStart(c, i)
    BY <2>2, AddStartStep
  <2>3. CASE Push(c)
    BY <2>3, PushStep
  <2>4. CASE Read(c)
    BY <2>4, ReadStep
  <2>5. CASE Rewrite(c)
    BY <2>5, RewriteStep
  <2>6. CASE ReflectStart(c)
    BY <2>6, ReflectStartStep
  <2>7. CASE ReflectRead(c)
    BY <2>7, ReflectReadStep
  <2>8. CASE ReflectClear(c)
    BY <2>8, ReflectClearStep
  <2> QED  BY <2>1, <2>2, <2>3, <2>4, <2>5, <2>6, <2>7, <2>8
<1>2. CASE UNCHANGED vars
  BY <1>2 DEF vars, WMInv, TypeOK, Pending, CopiesOrdered, Ordered, ProtectedKept,
              EndedCopied, EndedUnlessHung
<1> QED  BY <1>1, <1>2

LEMMA WMInvHolds == Spec => []WMInv
  BY WMInit, WMStep, PTL DEF Spec

-----------------------------------------------------------------------------
(* The theorems.                                                            *)

\* Pushes, the budget's rewrites and the clears of one session, overlapping in any
\* way, keep its list in the order of the pushes and its protected items in it, but
\* for those a rewrite had not read.
THEOREM ListStaysSound == Spec => []ListSound
<1>1. WMInv => ListSound
  <2> SUFFICES ASSUME WMInv PROVE InPushOrder
    BY DEF WMInv, ListSound
  <2> QED  BY DEF WMInv, CopiesOrdered, Ordered, InPushOrder
<1> QED  BY <1>1, WMInvHolds, PTL

\* After the clear of reflect an item of the ended session is in the list again
\* only when a rewrite that had read it was under way.
THEOREM EndedStaysGone == Spec => []EndedUnlessHung
<1>1. WMInv => EndedUnlessHung
  BY DEF WMInv, EndedCopied
<1> QED  BY <1>1, WMInvHolds, PTL

\* A rewrite that finds the list as it was read evicts nothing the budget did not
\* need gone.
THEOREM EvictionsNeeded == Spec => NoNeedlessEviction
<1> DEFINE Thrifty(c) ==
      (pc[c] = "rewrite" /\ pc'[c] = "idle" /\ snap[c] = list) =>
        \A m \in DOMAIN list :
          LET evicted(n) == list[n] \notin ToSet(list')
          IN (evicted(m) /\ \A n \in DOMAIN list : evicted(n) => n <= m)
               => Total(list') + Tokens[list[m]] > MaxTokens
<1>1. ASSUME WMInv, NEW c \in Clients, Rewrite(c)  PROVE Thrifty(c)
  <2> SUFFICES ASSUME snap[c] = list, NEW m \in DOMAIN list, list[m] \notin ToSet(list'),
                      \A n \in DOMAIN list : list[n] \notin ToSet(list') => n <= m
               PROVE  Total(list') + Tokens[list[m]] > MaxTokens
    OBVIOUS
  <2>1. /\ list \in Seq(Items) /\ DOMAIN list = 1..Len(list) /\ Len(list) \in Nat
        /\ Removed(list) \in Nat
    BY <1>1, RemovedBound DEF WMInv, TypeOK
  <2>2. list' = Remaining(list)
    BY <1>1 DEF Rewrite
  <2>3. \A n \in 1..Len(list) :
          (n > Removed(list) \/ list[n] \in Protected) => list[n] \in ToSet(list')
    BY <2>1, <2>2, FilteredSound DEF Remaining
  <2>4. m \in 1..Len(list) /\ m <= Removed(list) /\ list[m] \notin Protected
    BY <2>1, <2>3
  \* An item behind m is in the list after the rewrite: it is protected, or behind
  \* all that may be removed, for no item is in the list twice.
  <2>5. ASSUME NEW n \in (m + 1)..Len(list)
        PROVE  n > Removed(list) \/ list[n] \in Protected
    <3>1. n \in 1..Len(list) /\ n > m /\ ~ (n <= m)
      BY <2>1, <2>4
    <3>2. list[n] \in ToSet(list')
      BY <2>1, <3>1
    <3> SUFFICES ASSUME ~ (n > Removed(list) \/ list[n] \in Protected)  PROVE FALSE
      OBVIOUS
    <3>3. PICK j \in 1..Len(list) :
            list[j] = list[n] /\ (j > Removed(list) \/ list[j] \in Protected)
      <4>1. list' = Filtered(list, Removed(list))
        BY <2>2 DEF Remaining
      <4>2. list[n] \in ToSet(Filtered(list, Removed(list)))
        BY <3>2, <4>1
      <4> QED  BY <2>1, <4>2, FilteredFrom
    <3>4. j > Removed(list) /\ j > n
      BY <2>1, <3>1, <3>3
    <3>5. PICK k \in DOMAIN pushed : pushed[k] = list[n]
      <4>1. list[n] \in ToSet(pushed)
        BY <1>1, <2>1, <3>1 DEF WMInv, TypeOK, ToSet
      <4> QED  BY <4>1 DEF ToSet
    <3>6. k < k /\ k \in Nat
      <4>1. pushed \in Seq(Items)
        BY <1>1 DEF WMInv, TypeOK
      <4> QED  BY <1>1, <2>1, <3>1, <3>3, <3>4, <3>5, <4>1 DEF WMInv, CopiesOrdered, Ordered
    <3> QED  BY <3>6
  <2> QED  BY <2>1, <2>2, <2>4, <2>5, Thrift
<1>2. WMInv /\ [Next]_vars => [\A c \in Clients : Thrifty(c)]_vars
  <2> SUFFICES ASSUME WMInv, Next, NEW c \in Clients,
                      pc[c] = "rewrite", pc'[c] = "idle", snap[c] = list
               PROVE  Thrifty(c)
    OBVIOUS
  <2>1. PICK d \in Clients :
          \/ \E i \in Items : AddStart(d, i)
          \/ Push(d) \/ Read(d) \/ Rewrite(d)
          \/ ReflectStart(d) \/ ReflectRead(d) \/ ReflectClear(d)
    BY DEF Next
  <2>2. d = c
    BY <2>1 DEF WMInv, TypeOK, AddStart, Push, Read, Rewrite, ReflectStart, ReflectRead,
                ReflectClear, Goto
  <2>3. Rewrite(c)
    BY <2>1, <2>2 DEF AddStart, Push, Read, ReflectStart, ReflectRead, ReflectClear
  <2> QED  BY <1>1, <2>3
<1> QED  BY <1>2, WMInvHolds, PTL DEF Spec, NoNeedlessEviction

-----------------------------------------------------------------------------
(* RecallAnswer.                                                            *)

-----------------------------------------------------------------------------
(* Sets in the order of a rank.                                             *)

LEMMA OrdersAre ==
  ASSUME NEW S, IsFiniteSet(S), NEW rank, NEW s \in Orders(S, rank)
  PROVE  /\ Cardinality(S) \in Nat /\ s \in Seq(S) /\ Len(s) = Cardinality(S)
         /\ DOMAIN s = 1..Len(s) /\ Elements(s) = S
         /\ \A i, j \in DOMAIN s : i < j => rank[s[i]] >= rank[s[j]]
         /\ \A i, j \in DOMAIN s : s[i] = s[j] => i = j
<1> DEFINE N == Cardinality(S)
<1>1. N \in Nat
  BY FS_CardinalityType
<1>2. s \in [1..N -> S] /\ Elements(s) = S
  BY DEF Orders
<1>3. s \in Seq(S) /\ Len(s) = N /\ DOMAIN s = 1..N
  BY <1>1, <1>2
<1>4. s \in Surjection(1..N, S)
  BY <1>2 DEF Surjection, Elements
<1>5. IsFiniteSet(1..N) /\ Cardinality(1..N) = N
  <2>1. N > 0 \/ N = 0
    BY <1>1
  <2>2. 1..N = {} \/ 1 <= N
    BY <1>1
  <2> QED  BY <1>1, <2>1, <2>2, FS_Interval, FS_EmptySet
<1>6. s \in Injection(1..N, S)
  BY <1>4, <1>5, FS_SurjSameCardinalityImpliesInj
<1>7. \A i, j \in DOMAIN s : s[i] = s[j] => i = j
  BY <1>3, <1>6 DEF Injection, IsInjective
<1>8. \A i, j \in DOMAIN s : i < j => rank[s[i]] >= rank[s[j]]
  BY DEF Orders
<1> QED  BY <1>1, <1>2, <1>3, <1>7, <1>8

\* Where no two rank alike there is one order.
LEMMA OneOrder ==
  ASSUME NEW S, IsFiniteSet(S), NEW rank \in [S -> Int],
         \A x, y \in S : x # y => rank[x] # rank[y],
         NEW s \in Orders(S, rank), NEW t \in Orders(S, rank)
  PROVE  s = t
<1> DEFINE N == Cardinality(S)
           T == {n \in 1..N : s[n] # t[n]}
<1>1. /\ N \in Nat /\ s \in [1..N -> S] /\ t \in [1..N -> S]
      /\ DOMAIN s = 1..N /\ DOMAIN t = 1..N
  <2>1. N \in Nat
    BY FS_CardinalityType
  <2>2. s \in [1..N -> S] /\ t \in [1..N -> S]
    BY DEF Orders
  <2> QED  BY <2>1, <2>2
<1>2. SUFFICES ASSUME T # {} PROVE FALSE
  BY <1>1
<1>3. PICK m \in T : \A k \in T : m <= k
  <2>1. T \in SUBSET Nat
    OBVIOUS
  <2> HIDE DEF T
  <2> QED  BY <1>2, <2>1, LeastElement
<1>4. m \in 1..N /\ s[m] # t[m] /\ \A i \in 1..N : i < m => s[i] = t[i]
  BY <1>3
<1> HIDE DEF T
\* What one of the two has at m comes later in the other.
<1>5. rank[t[m]] >= rank[s[m]]
  <2>0. s[m] \in Elements(t)
    BY <1>1, <1>4, OrdersAre
  <2>1. PICK i \in 1..N : t[i] = s[m]
    BY <1>1, <2>0 DEF Elements
  <2>2. ~(i < m)
    BY <1>1, <1>4, <2>1, OrdersAre
  <2>3. m < i
    BY <1>1, <1>4, <2>1, <2>2
  <2> QED  BY <1>1, <1>4, <2>1, <2>3, OrdersAre
<1>6. rank[s[m]] >= rank[t[m]]
  <2>0. t[m] \in Elements(s)
    BY <1>1, <1>4, OrdersAre
  <2>1. PICK i \in 1..N : s[i] = t[m]
    BY <1>1, <2>0 DEF Elements
  <2>2. ~(i < m)
    BY <1>1, <1>4, <2>1, OrdersAre
  <2>3. m < i
    BY <1>1, <1>4, <2>1, <2>2
  <2> QED  BY <1>1, <1>4, <2>1, <2>3, OrdersAre
<1>7. s[m] \in S /\ t[m] \in S /\ rank[s[m]] \in Int /\ rank[t[m]] \in Int
  BY <1>1, <1>4
<1> QED  BY <1>4, <1>5, <1>6, <1>7

LEMMA CopyFields ==
  ASSUME AnswerConstants, NEW c \in Copies
  PROVE  /\ c.id \in Frag /\ c.sim \in Nat /\ c.sim \in {0, Alike[c.id]} /\ c.retired \in BOOLEAN
         /\ Length[c.id] \in Nat /\ Length[c.id] > 0 /\ Importance[c.id] \in Nat
         /\ Born[c.id] \in Nat /\ Kind[c.id] \in Kinds
         /\ c = [id |-> c.id, sim |-> c.sim, retired |-> c.retired]
<1>1. c.id \in Frag /\ c.retired \in BOOLEAN /\ c.sim \in {0, Alike[c.id]}
      /\ c = [id |-> c.id, sim |-> c.sim, retired |-> c.retired]
  BY DEF Copies
<1>2. /\ Length \in [Frag -> Nat \ {0}] /\ Importance \in [Frag -> Nat] /\ Born \in [Frag -> Nat]
      /\ Alike \in [Frag -> Nat]
  BY DEF AnswerConstants
<1> QED  BY <1>1, <1>2 DEF Kinds

\* Sums are sums.
LEMMA SumsRun ==
  ASSUME NEW N \in Nat, NEW w \in [1..N -> Nat]
  PROVE  /\ Sums(w, N) \in [0..N -> Nat] /\ Sums(w, N)[0] = 0
         /\ \A n \in 1..N : Sums(w, N)[n] = Sums(w, N)[n - 1] + w[n]
<1> DEFINE Is(g) == g = [n \in 0..N |-> IF n = 0 THEN 0 ELSE g[n - 1] + w[n]]
           sum == CHOOSE g : Is(g)
<1>1. /\ 0 \in 0..N
      /\ \A n \in 0..N : n = 0 \/ n \in 1..N
      /\ \A n \in 1..N : n \in 0..N /\ n # 0 /\ n - 1 \in 0..N /\ w[n] \in Nat
  OBVIOUS
<1>2. \E g : Is(g)
  <2> DEFINE next == [x \in (1..N) \X Nat |-> x[2] + w[x[1]]]
  <2>1. next \in Steps(N, Nat)
    BY <1>1 DEF Steps
  <2>2. \A n \in 1..N, v \in Nat : next[<<n, v>>] = v + w[n]
    OBVIOUS
  <2> HIDE DEF next
  <2>3. PICK g : IsSolution(g, N, Nat, 0, next)
    BY <2>1, Solution
  <2>4. \A n \in 1..N : g[n] = g[n - 1] + w[n]
    BY <1>1, <2>2, <2>3 DEF IsSolution
  <2>5. \A n \in 0..N : g[n] = IF n = 0 THEN 0 ELSE g[n - 1] + w[n]
    BY <1>1, <2>3, <2>4 DEF IsSolution
  <2>6. g = [n \in 0..N |-> g[n]]
    BY <2>3 DEF IsSolution
  <2>7. Is(g)
    BY <2>5, <2>6
  <2> QED  BY <2>7
<1>3. Is(sum)
  BY <1>2
<1>4. Sums(w, N) = sum
  BY DEF Sums
<1> HIDE DEF sum
<1>5. \A n \in 0..N : sum[n] = IF n = 0 THEN 0 ELSE sum[n - 1] + w[n]
  BY <1>3
<1>6. sum[0] = 0 /\ \A n \in 1..N : sum[n] = sum[n - 1] + w[n]
  BY <1>1, <1>5
<1>7. \A n \in 0..N : sum[n] \in Nat
  <2> DEFINE S == {n \in 0..N : sum[n] \in Nat}
  <2>1. 0 \in S
    BY <1>1, <1>6
  <2>2. ASSUME NEW n \in 0..(N - 1), n \in S  PROVE n + 1 \in S
    <3>1. n + 1 \in 1..N /\ (n + 1) - 1 = n /\ n + 1 \in 0..N
      OBVIOUS
    <3>2. sum[n + 1] = sum[n] + w[n + 1] /\ w[n + 1] \in Nat
      BY <1>1, <1>6, <3>1
    <3> QED  BY <2>2, <3>1, <3>2
  <2> HIDE DEF S
  <2>3. \A n \in 0..N : n \in S
    BY <2>1, <2>2, UpTo
  <2> QED  BY <2>3 DEF S
<1>8. sum \in [0..N -> Nat]
  BY <1>3, <1>7
<1> QED  BY <1>4, <1>6, <1>8

LEMMA TotalIsNat ==
  ASSUME AnswerConstants, NEW s \in Seq(Copies), NEW m \in DOMAIN s
  PROVE  TotalSize(s)[m] \in Nat
<1> DEFINE w == [n \in DOMAIN s |-> Length[s[n].id]]
<1>1. Len(s) \in Nat /\ DOMAIN s = 1..Len(s) /\ \A n \in 1..Len(s) : s[n] \in Copies
  OBVIOUS
<1>2. \A n \in 1..Len(s) : Length[s[n].id] \in Nat
  BY <1>1, CopyFields
<1>3. w \in [1..Len(s) -> Nat]
  BY <1>1, <1>2
<1> HIDE DEF w
<1>4. Sums(w, Len(s)) \in [0..Len(s) -> Nat] /\ m \in 0..Len(s)
  BY <1>1, <1>3, SumsRun
<1> QED  BY <1>4 DEF TotalSize, w

-----------------------------------------------------------------------------
(* What a recall finds.                                                     *)

Tables ==
  /\ stored \subseteq Frag /\ retired \subseteq stored /\ linked \subseteq stored \X stored
  /\ indexed \subseteq Frag /\ up \in BOOLEAN /\ now \in Start..(Start + MaxNow)

\* The cache has, and gets, copies that were current when they were made.
Caches ==
  /\ hot \in [Frag -> {<<>>} \union {<<c>> : c \in Copies}]
  /\ \A f \in Frag : hot[f] # <<>> => hot[f][1].id = f /\ ~hot[f][1].retired
  /\ fill \subseteq Copies /\ \A c \in fill : ~c.retired

LEMMA Single == \A c : <<c>> # <<>> /\ <<c>>[1] = c
OBVIOUS

LEMMA HotIs ==
  ASSUME Caches, NEW f \in Frag
  PROVE  hot[f] = <<>> \/ (/\ hot[f] # <<>> /\ hot[f][1] \in Copies /\ hot[f] = <<hot[f][1]>>
                           /\ hot[f][1].id = f /\ ~hot[f][1].retired)
<1>1. CASE hot[f] # <<>>
  <2>1. PICK c \in Copies : hot[f] = <<c>>
    BY <1>1 DEF Caches
  <2>2. hot[f][1] = c
    BY <2>1, Single
  <2> QED  BY <1>1, <2>1, <2>2 DEF Caches
<1> QED  BY <1>1

LEMMA CopyIs ==
  ASSUME AnswerConstants, NEW f \in Frag, NEW n \in {0, Alike[f]}
  PROVE  /\ Copy(f, n) \in Copies /\ Copy(f, n).id = f /\ Copy(f, n).sim = n
         /\ Copy(f, n).retired = (f \in retired)
<1>1. Alike[f] \in {Alike[g] : g \in Frag}
  OBVIOUS
<1>2. (f \in retired) \in BOOLEAN
  OBVIOUS
<1> QED  BY <1>1, <1>2 DEF Copy, Copies

LEMMA CopiesFinite ==
  ASSUME AnswerConstants
  PROVE  IsFiniteSet(Copies)
<1> DEFINE D == (Frag \X {0, 1}) \X BOOLEAN
           h == [x \in D |-> [id |-> x[1][1], sim |-> IF x[1][2] = 0 THEN 0 ELSE Alike[x[1][1]],
                              retired |-> x[2]]]
<1>1. IsFiniteSet(Frag) /\ IsFiniteSet({0, 1}) /\ IsFiniteSet(BOOLEAN)
  <2>1. IsFiniteSet({}) /\ {0, 1} = ({} \union {0}) \union {1}
        /\ BOOLEAN = ({} \union {TRUE}) \union {FALSE}
    BY FS_EmptySet
  <2>2. \A S, x : IsFiniteSet(S) => IsFiniteSet(S \union {x})
    BY FS_AddElement
  <2>3. IsFiniteSet({} \union {0}) /\ IsFiniteSet({} \union {TRUE})
    BY <2>1, <2>2
  <2>4. IsFiniteSet(({} \union {0}) \union {1}) /\ IsFiniteSet(({} \union {TRUE}) \union {FALSE})
    BY <2>2, <2>3
  <2>5. IsFiniteSet(Frag)
    BY DEF AnswerConstants
  <2> QED  BY <2>1, <2>4, <2>5, Zenon
<1>2. IsFiniteSet(D)
  BY <1>1, FS_Product
<1>3. \A x \in D : h[x] \in Copies
  <2> TAKE x \in D
  <2>1. x[1][1] \in Frag /\ x[2] \in BOOLEAN
    OBVIOUS
  <2>2. Alike[x[1][1]] \in {Alike[g] : g \in Frag}
    BY <2>1
  <2>3. h[x] = [id |-> x[1][1], sim |-> IF x[1][2] = 0 THEN 0 ELSE Alike[x[1][1]],
                retired |-> x[2]]
    OBVIOUS
  <2> HIDE DEF h
  <2> QED  BY <2>1, <2>2, <2>3 DEF Copies
<1>4. \A c \in Copies : \E x \in D : h[x] = c
  <2> TAKE c \in Copies
  <2>1. /\ c.id \in Frag /\ c.sim \in {0, Alike[c.id]} /\ c.retired \in BOOLEAN
        /\ c = [id |-> c.id, sim |-> c.sim, retired |-> c.retired]
    BY CopyFields
  <2>2. CASE c.sim = 0
    <3> DEFINE x == <<<<c.id, 0>>, c.retired>>
    <3>1. x \in D
      BY <2>1
    <3>2. h[x] = [id |-> c.id, sim |-> 0, retired |-> c.retired]
      BY <3>1
    <3> QED  BY <2>1, <2>2, <3>1, <3>2
  <2>3. CASE c.sim = Alike[c.id]
    <3> DEFINE x == <<<<c.id, 1>>, c.retired>>
    <3>1. x \in D
      BY <2>1
    <3>2. h[x] = [id |-> c.id, sim |-> Alike[c.id], retired |-> c.retired]
      BY <3>1
    <3> QED  BY <2>1, <2>3, <3>1, <3>2
  <2> QED  BY <2>1, <2>2, <2>3
<1> HIDE DEF h, D
<1>5. h \in [D -> Copies]
  BY <1>3 DEF h
<1>6. h \in Surjection(D, Copies)
  BY <1>4, <1>5 DEF Surjection
<1> QED  BY <1>2, <1>6, FS_Surjection

LEMMA SearchL1Indexed ==
  ASSUME NEW q, Tables
  PROVE  SearchL1(q) \subseteq indexed /\ SearchL1(q) \subseteq Frag
<1>1. \A s \in FilterSets(q) : s \subseteq indexed
  BY DEF FilterSets
<1>2. Recent \subseteq indexed
  BY DEF Recent
<1>3. SearchL1(q) \subseteq indexed
  BY <1>1, <1>2 DEF SearchL1
<1> QED  BY <1>3 DEF Tables

\* The two parts of a search without vectors.
Cached(q) == {hot[f][1] : f \in {g \in SearchL1(q) : hot[g] # <<>>}}
Rows(q) == SearchL2(q, SearchL1(q) \ {c.id : c \in Cached(q)})

LEMMA CandidatesBy ==
  ASSUME NEW q
  PROVE  Candidates(q) = IF q.text THEN Merged(SearchL1(q), Cached(q) \union Rows(q), SearchL3)
                         ELSE Deduplicated(Rows(q), Cached(q))
BY DEF Candidates, Cached, Rows

LEMMA CachedAre ==
  ASSUME Tables, Caches, NEW q, NEW c
  PROVE  c \in Cached(q) <=> c \in Copies /\ c.id \in SearchL1(q) /\ hot[c.id] = <<c>>
<1>1. ASSUME c \in Cached(q)
      PROVE  c \in Copies /\ c.id \in SearchL1(q) /\ hot[c.id] = <<c>>
  <2>1. PICK f \in SearchL1(q) : hot[f] # <<>> /\ c = hot[f][1]
    BY <1>1 DEF Cached
  <2> QED  BY <2>1, HotIs, SearchL1Indexed
<1>2. ASSUME c \in Copies, c.id \in SearchL1(q), hot[c.id] = <<c>>
      PROVE  c \in Cached(q)
  <2>1. hot[c.id] # <<>> /\ hot[c.id][1] = c
    BY <1>2, Single
  <2> QED  BY <1>2, <2>1 DEF Cached
<1> QED  BY <1>1, <1>2

LEMMA RowsAre ==
  ASSUME AnswerConstants, Tables, Caches, NEW q, NEW c
  PROVE  c \in Rows(q) <=>
           /\ c.id \in stored /\ c = Copy(c.id, 0)
           /\ c.id \in SearchTable(q) \/ (c.id \in SearchL1(q) /\ hot[c.id] = <<>>)
<1> DEFINE missed == SearchL1(q) \ {d.id : d \in Cached(q)}
<1>1. \A f \in Frag : f \in missed <=> f \in SearchL1(q) /\ hot[f] = <<>>
  <2> TAKE f \in Frag
  <2>1. CASE hot[f] = <<>>
    <3>1. \A d \in Cached(q) : d.id # f
      BY <2>1, CachedAre, Single
    <3> QED  BY <2>1, <3>1
  <2>2. CASE hot[f] # <<>>
    <3>1. f \in SearchL1(q) => hot[f][1] \in Cached(q) /\ hot[f][1].id = f
      BY <2>2, HotIs DEF Cached
    <3> QED  BY <2>2, <3>1
  <2> QED  BY <2>1, <2>2
<1>2. \A f : Copy(f, 0).id = f
  BY DEF Copy
<1>3. SearchTable(q) \subseteq stored /\ stored \subseteq Frag
  BY DEF SearchTable, Tables
<1>4. Rows(q) = {Copy(f, 0) : f \in SearchTable(q) \union (missed \intersect stored)}
  BY DEF Rows, SearchL2
<1> HIDE DEF missed
<1> QED  BY <1>1, <1>2, <1>3, <1>4

\* A recall without a text: each candidate is the copy of the cache or the row.
LEMMA PlainCandidates ==
  ASSUME AnswerConstants, Tables, Caches, NEW q, ~q.text
  PROVE  /\ \A c \in Candidates(q) :
              \/ c \in Copies /\ c.id \in SearchL1(q) /\ hot[c.id] = <<c>>
              \/ /\ c.id \in stored /\ c = Copy(c.id, 0)
                 /\ c.id \in SearchTable(q) \/ (c.id \in SearchL1(q) /\ hot[c.id] = <<>>)
         /\ \A c, d \in Candidates(q) : c.id = d.id => c = d
<1>1. Candidates(q) = Deduplicated(Rows(q), Cached(q))
  BY CandidatesBy
<1>2. \A c \in Candidates(q) : c \in Rows(q) \/ c \in Cached(q)
  BY <1>1 DEF Deduplicated
<1>3. ASSUME NEW c \in Candidates(q), NEW d \in Candidates(q), c.id = d.id  PROVE c = d
  <2>1. CASE c \in Rows(q) /\ d \in Rows(q)
    BY <1>3, <2>1, RowsAre
  <2>2. CASE c \in Cached(q) /\ d \in Cached(q)
    BY <1>3, <2>2, CachedAre, Single
  <2>3. ASSUME NEW x \in Candidates(q), NEW y \in Candidates(q), x.id = y.id,
               x \in Rows(q), x \notin Cached(q), y \in Cached(q), y \notin Rows(q)
        PROVE  FALSE
    <3>1. y.sim <= x.sim
      BY <1>1, <2>3 DEF Deduplicated
    <3>2. y.sim > x.sim
      BY <1>1, <2>3 DEF Deduplicated
    <3>3. y.sim \in Nat /\ y \in Copies
      BY <2>3, CachedAre, CopyFields
    <3>4. x.sim = 0
      <4>1. x = Copy(x.id, 0)
        BY <2>3, RowsAre
      <4>2. \A f : Copy(f, 0).sim = 0
        BY DEF Copy
      <4> QED  BY <4>1, <4>2
    <3> QED  BY <3>1, <3>2, <3>3, <3>4
  <2> QED  BY <1>2, <1>3, <2>1, <2>2, <2>3
<1> QED  BY <1>2, <1>3, RowsAre, CachedAre

\* With a text: what the index names is left out, whatever the cache has of it.
LEMMA TextCandidates ==
  ASSUME AnswerConstants, Tables, Caches, NEW q, q.text
  PROVE  Candidates(q) =
           {c \in {Copy(f, 0) : f \in SearchTable(q)} : c.id \notin SearchL1(q)}
             \union {c \in SearchL3 : c.id \notin SearchL1(q) /\ c.id \notin SearchTable(q)}
<1> DEFINE T == {Copy(f, 0) : f \in SearchTable(q)}
           l2 == Cached(q) \union Rows(q)
<1>1. Candidates(q) = {c \in l2 \union SearchL3 :
                         c.id \notin SearchL1(q) /\ (c \in l2 \/ c.id \notin {d.id : d \in l2})}
  BY CandidatesBy DEF Merged
<1>2. \A f : Copy(f, 0).id = f
  BY DEF Copy
<1>3. SearchTable(q) \subseteq stored
  BY DEF SearchTable
<1>4. \A c : c.id \notin SearchL1(q) => (c \in l2 <=> c \in T)
  <2> TAKE c
  <2>1. c.id \notin SearchL1(q) => c \notin Cached(q)
    BY CachedAre
  <2>2. c.id \notin SearchL1(q) =>
          (c \in Rows(q) <=> c.id \in SearchTable(q) /\ c = Copy(c.id, 0))
    BY <1>3, RowsAre
  <2>3. c \in T <=> c.id \in SearchTable(q) /\ c = Copy(c.id, 0)
    BY <1>2
  <2> QED  BY <2>1, <2>2, <2>3
<1>5. \A f : f \notin SearchL1(q) => (f \in {d.id : d \in l2} <=> f \in SearchTable(q))
  <2> TAKE f
  <2>1. f \in SearchTable(q) => Copy(f, 0) \in T /\ Copy(f, 0).id = f
    BY <1>2
  <2>2. \A d \in T : d.id \in SearchTable(q)
    BY <1>2
  <2> HIDE DEF T, l2
  <2> QED  BY <1>4, <2>1, <2>2
<1>6. \A c \in T : c.id \in SearchTable(q)
  BY <1>2
<1> HIDE DEF T, l2
<1>7. Candidates(q) = {c \in T : c.id \notin SearchL1(q)}
         \union {c \in SearchL3 : c.id \notin SearchL1(q) /\ c.id \notin SearchTable(q)}
  BY <1>1, <1>4, <1>5, <1>6
<1> QED  BY <1>7 DEF T

LEMMA CandidatesAre ==
  ASSUME AnswerConstants, Tables, Caches, NEW q \in Asked
  PROVE  /\ Candidates(q) \subseteq Copies /\ IsFiniteSet(Candidates(q))
         /\ \A c, d \in Candidates(q) : c.id = d.id => c = d
<1>1. q.text \in BOOLEAN
  BY DEF Asked
<1>2. stored \subseteq Frag /\ SearchTable(q) \subseteq stored
  BY DEF Tables, SearchTable
<1>3. CASE ~q.text
  <2>1. Candidates(q) \subseteq Copies
    BY <1>2, <1>3, PlainCandidates, CopyIs
  <2> QED  BY <1>3, <2>1, PlainCandidates, CopiesFinite, FS_Subset
<1>4. CASE q.text
  <2>1. \A c \in Candidates(q) :
          \/ c.id \in SearchTable(q) /\ c = Copy(c.id, 0)
          \/ c.id \notin SearchTable(q) /\ c.id \in stored /\ c = Copy(c.id, Alike[c.id])
    <3>1. \A f, n : Copy(f, n).id = f
      BY DEF Copy
    <3>2. \A c \in SearchL3 : c.id \in stored /\ c = Copy(c.id, Alike[c.id])
      BY <3>1 DEF SearchL3
    <3>3. \A c \in {Copy(f, 0) : f \in SearchTable(q)} :
            c.id \in SearchTable(q) /\ c = Copy(c.id, 0)
      BY <3>1
    <3> QED  BY <1>4, <3>2, <3>3, TextCandidates
  <2>2. Candidates(q) \subseteq Copies
    BY <1>2, <2>1, CopyIs
  <2>3. \A c, d \in Candidates(q) : c.id = d.id => c = d
    BY <2>1
  <2> QED  BY <2>2, <2>3, CopiesFinite, FS_Subset
<1> QED  BY <1>1, <1>3, <1>4

LEMMA WeightIsNat ==
  ASSUME AnswerConstants, NEW c \in Copies, NEW q \in Asked,
         NEW t \in Start..(Start + MaxNow)
  PROVE  Weight(c, q, t) \in Nat
<1>1. /\ Start \in Nat /\ MaxNow \in Nat /\ Proximity \in Seq(Nat) /\ Start + MaxNow < Len(Proximity)
      /\ \A f \in Frag : Born[f] <= Start
  BY DEF AnswerConstants
<1>2. q.at \in {<<>>} \union {<<u>> : u \in 0..(Start + MaxNow)}
  BY DEF Asked
<1> DEFINE u == IF q.at = <<>> THEN t ELSE q.at[1]
<1>3. u \in 0..(Start + MaxNow)
  <2>1. CASE q.at = <<>>
    BY <1>1, <2>1
  <2>2. CASE q.at # <<>>
    <3>1. PICK v \in 0..(Start + MaxNow) : q.at = <<v>>
      BY <1>2, <2>2
    <3>2. q.at[1] = v
      BY <3>1, Single
    <3> QED  BY <2>2, <3>1, <3>2
  <2> QED  BY <2>1, <2>2
<1>4. Born[c.id] \in 0..Start
  BY <1>1, CopyFields
<1> HIDE DEF u
<1>5. Distance(u, Born[c.id]) \in 0..(Start + MaxNow)
  <2>1. ASSUME NEW N \in Nat, NEW v \in 0..N, NEW w \in 0..N  PROVE Distance(v, w) \in 0..N
    BY DEF Distance
  <2>2. Start \in Nat /\ MaxNow \in Nat
    BY <1>1
  <2>3. Start + MaxNow \in Nat /\ \A v \in 0..Start : v \in 0..(Start + MaxNow)
    BY <2>2
  <2> QED  BY <1>3, <1>4, <2>1, <2>3
<1>6. Proximity[Distance(u, Born[c.id]) + 1] \in Nat
  BY <1>1, <1>5
<1>7. Weight(c, q, t) =
        4 * Importance[c.id] + 3 * c.sim + Proximity[Distance(u, Born[c.id]) + 1]
  BY DEF Weight, u
<1>8. c.sim \in Nat /\ Importance[c.id] \in Nat
  BY CopyFields
<1> QED  BY <1>6, <1>7, <1>8

LEMMA ScoreIsNat ==
  ASSUME AnswerConstants, Tables, NEW c \in Copies, NEW q \in Asked
  PROVE  Score(c, q) \in Nat
BY WeightIsNat DEF Score, Tables

\* An order of some copies by score.
LEMMA RankedAre ==
  ASSUME AnswerConstants, Tables, NEW S \in SUBSET Copies, NEW q \in Asked,
         NEW s \in Ranked(S, q),
         \A c, d \in S : c.id = d.id => c = d
  PROVE  /\ Cardinality(S) \in Nat /\ s \in Seq(Copies) /\ DOMAIN s = 1..Len(s) /\ Elements(s) = S
         /\ Len(s) = Cardinality(S)
         /\ \A i \in DOMAIN s : s[i] \in S
         /\ \A i, j \in DOMAIN s : i < j => Score(s[i], q) >= Score(s[j], q)
         /\ \A i, j \in DOMAIN s : s[i].id = s[j].id => i = j
<1> DEFINE rank == [c \in S |-> Score(c, q)]
<1>1. IsFiniteSet(S)
  BY CopiesFinite, FS_Subset
<1>2. s \in Orders(S, rank)
  BY DEF Ranked
<1>3. \A c \in S : rank[c] = Score(c, q)
  OBVIOUS
<1> HIDE DEF rank
<1>4. /\ Cardinality(S) \in Nat /\ s \in Seq(S) /\ DOMAIN s = 1..Len(s) /\ Elements(s) = S
      /\ \A i, j \in DOMAIN s : i < j => rank[s[i]] >= rank[s[j]]
      /\ \A i, j \in DOMAIN s : s[i] = s[j] => i = j
      /\ Len(s) = Cardinality(S)
  BY <1>1, <1>2, OrdersAre
<1>5. s \in Seq(Copies) /\ \A i \in DOMAIN s : s[i] \in S
  BY <1>4
<1> QED  BY <1>3, <1>4, <1>5

LEMMA SearchedAre ==
  ASSUME AnswerConstants, Tables, Caches, NEW q \in Asked, NEW found \in Searched(q)
  PROVE  /\ found \subseteq Candidates(q) /\ found \subseteq Copies
         /\ \A c \in found : ~c.retired
         /\ \A c, d \in found : c.id = d.id => c = d
<1>1. PICK s \in Ranked(Candidates(q), q) : found = {c \in Trimmed(s) : ~c.retired}
  BY DEF Searched
<1>2. Trimmed(s) \subseteq Elements(s)
  BY DEF Trimmed, Elements
<1>3. Elements(s) = Candidates(q)
  BY CandidatesAre, RankedAre
<1>4. found \subseteq Candidates(q) /\ \A c \in found : ~c.retired
  BY <1>1, <1>2, <1>3
<1> QED  BY <1>4, CandidatesAre

LEMMA CompleteAre ==
  ASSUME AnswerConstants, Tables, Caches, NEW q \in Asked, NEW found \in Searched(q)
  PROVE  /\ Complete(found, q) \subseteq Copies
         /\ \A c, d \in Complete(found, q) : c.id = d.id => c = d
<1> DEFINE more == IF q.links THEN LinkedTo(IdsOf(found)) \ IdsOf(found) ELSE {}
<1>1. more \subseteq Frag /\ more \intersect IdsOf(found) = {}
  BY DEF LinkedTo, Tables
<1>2. /\ found \subseteq Copies /\ \A c \in found : c.id \in IdsOf(found)
      /\ \A c, d \in found : c.id = d.id => c = d
  BY SearchedAre DEF IdsOf
<1>3. \A c \in Complete(found, q) : c \in found \/ (c.id \in more /\ c = Copy(c.id, 0))
  <2>1. \A f : Copy(f, 0).id = f
    BY DEF Copy
  <2>2. Complete(found, q) \subseteq found \union {Copy(f, 0) : f \in more}
    BY DEF Complete
  <2> HIDE DEF more
  <2> QED  BY <2>1, <2>2
<1> HIDE DEF more
<1>4. Complete(found, q) \subseteq Copies
  BY <1>1, <1>2, <1>3, CopyIs
<1> QED  BY <1>1, <1>2, <1>3, <1>4

LEMMA AnswersAre ==
  ASSUME AnswerConstants, Tables, Caches, NEW q \in Asked, NEW found \in Searched(q),
         NEW s \in Answers(found, q)
  PROVE  /\ s \in Seq(Copies) /\ DOMAIN s = 1..Len(s) /\ Elements(s) = Complete(found, q)
         /\ \A i, j \in DOMAIN s : s[i].id = s[j].id => i = j
<1> DEFINE S == Complete(found, q)
<1>1. s \in Ranked(S, q)
  BY DEF Answers
<1>2. S \in SUBSET Copies /\ \A c, d \in S : c.id = d.id => c = d
  BY CompleteAre
<1> HIDE DEF S
<1>3. /\ s \in Seq(Copies) /\ DOMAIN s = 1..Len(s) /\ Elements(s) = S
      /\ \A i, j \in DOMAIN s : s[i].id = s[j].id => i = j
  BY <1>1, <1>2, RankedAre
<1> QED  BY <1>3 DEF S

-----------------------------------------------------------------------------
(* What is found, and what is not.                                          *)

LEMMA StrangersHold ==
  ASSUME AnswerConstants, Tables, Caches
  PROVE  StrangersFromFallback
<1> SUFFICES ASSUME NEW q \in Queries, ~q.text, NEW f \in IdsOf(UNION Searched(q)),
                    {} \notin FilterSets(q)
             PROVE  (q.kw => f \in Matches) /\ q.type \in {"any", Kind[f]}
  BY DEF StrangersFromFallback
<1>q. q \in Asked
  BY DEF AnswerConstants
<1>1. PICK found \in Searched(q), c \in Copies : c \in found /\ c.id = f
  <2>1. PICK c \in UNION Searched(q) : c.id = f
    BY DEF IdsOf
  <2>2. PICK found \in Searched(q) : c \in found
    BY <2>1
  <2> QED  BY <1>q, <2>1, <2>2, SearchedAre
<1>2. f \in SearchTable(q) \/ f \in SearchL1(q)
  BY <1>q, <1>1, SearchedAre, PlainCandidates
<1>3. CASE f \in SearchTable(q)
  BY <1>3 DEF SearchTable, Fits
<1>4. CASE f \in SearchL1(q)
  <2>1. q.type = "any" \/ {g \in indexed : Kind[g] = q.type} \in FilterSets(q)
    BY DEF FilterSets
  <2>2. q.kw => indexed \intersect Matches \in FilterSets(q)
    BY DEF FilterSets
  <2>3. \A s \in FilterSets(q) : f \in s
    BY <1>4 DEF SearchL1
  <2> QED  BY <2>1, <2>2, <2>3
<1> QED  BY <1>2, <1>3, <1>4

LEMMA MatchesHold ==
  ASSUME AnswerConstants, Tables, Caches
  PROVE  MatchesFound
<1> SUFFICES ASSUME NEW q \in Queries, q.kw, ~q.text, NEW f \in stored \ retired, Fits(f, q)
             PROVE  \E c \in Candidates(q) :
                      /\ c.id = f
                      /\ \A s \in Ranked(Candidates(q), q) :
                           \/ c \in Trimmed(s) /\ ~c.retired
                           \/ \E m \in DOMAIN s : /\ Budget < TotalSize(s)[m]
                                                  /\ \A i \in 1..m : Score(s[i], q) >= Score(c, q)
  BY DEF MatchesFound
<1>q. q \in Asked
  BY DEF AnswerConstants
<1>1. f \in Frag /\ f \in SearchTable(q)
  BY DEF SearchTable, Tables
\* It is the row, or a copy of the cache that has a similarity.
<1>2. PICK c \in Candidates(q) : c.id = f /\ ~c.retired
  <2>1. /\ Copy(f, 0) \in Rows(q) /\ Copy(f, 0).id = f
        /\ ~Copy(f, 0).retired /\ Copy(f, 0).sim = 0
    BY <1>1, CopyIs, RowsAre
  <2>2. CASE \A d \in Cached(q) : d.id = f => d.sim <= 0
    BY <2>1, <2>2, CandidatesBy DEF Deduplicated
  <2>3. CASE \E d \in Cached(q) : d.id = f /\ ~(d.sim <= 0)
    <3>1. PICK d \in Cached(q) : d.id = f /\ ~(d.sim <= 0)
      BY <2>3
    <3>2. d \in Copies /\ hot[f] = <<d>>
      BY <3>1, CachedAre
    <3>3. ~d.retired
      <4>1. hot[f] # <<>> /\ hot[f][1] = d
        BY <3>2, Single
      <4> QED  BY <1>1, <4>1, HotIs
    <3>4. \A e \in Rows(q) : e.id = f => e.sim = 0
      BY <2>1, RowsAre
    <3>5. d.sim \in Nat
      BY <3>2, CopyFields
    <3>6. d \in Deduplicated(Rows(q), Cached(q))
      BY <3>1, <3>4, <3>5 DEF Deduplicated
    <3> QED  BY <3>1, <3>3, <3>6, CandidatesBy
  <2> QED  BY <2>2, <2>3
<1> SUFFICES ASSUME NEW s \in Ranked(Candidates(q), q), c \notin Trimmed(s)
             PROVE  \E m \in DOMAIN s : /\ Budget < TotalSize(s)[m]
                                        /\ \A i \in 1..m : Score(s[i], q) >= Score(c, q)
  BY <1>2
<1>3. /\ s \in Seq(Copies) /\ DOMAIN s = 1..Len(s) /\ Elements(s) = Candidates(q)
      /\ \A i, j \in DOMAIN s : i < j => Score(s[i], q) >= Score(s[j], q)
  BY <1>q, CandidatesAre, RankedAre
<1>4. PICK m \in DOMAIN s : s[m] = c
  BY <1>3 DEF Elements
<1>5. ~(TotalSize(s)[m] <= Budget)
  BY <1>4 DEF Trimmed
<1>6. TotalSize(s)[m] \in Nat /\ Budget \in Nat
  <2>1. TotalSize(s)[m] \in Nat
    BY <1>3, <1>4, TotalIsNat
  <2> QED  BY <2>1 DEF AnswerConstants
<1>7. ASSUME NEW i \in 1..m  PROVE Score(s[i], q) >= Score(c, q)
  <2>1. m \in 1..Len(s) /\ i \in 1..Len(s)
    BY <1>3, <1>4
  <2>2. CASE i < m
    BY <1>3, <1>4, <2>1, <2>2
  <2>3. CASE i = m
    <3>1. Score(c, q) \in Nat
      BY <1>q, CandidatesAre, ScoreIsNat
    <3> QED  BY <1>4, <2>3, <3>1
  <2> QED  BY <2>1, <2>2, <2>3
<1> QED  BY <1>4, <1>5, <1>6, <1>7

-----------------------------------------------------------------------------
(* The state that recalls leave behind.                                     *)

PagingTyped ==
  /\ paging \in [open : BOOLEAN, q : Queries, offset : Nat, shown : SUBSET Frag,
                 twice : SUBSET Frag, all : SUBSET Frag, steady : BOOLEAN, aged : BOOLEAN]
  /\ paging.twice \subseteq paging.shown

KeptTyped == kept \in Seq(Seq(Copies)) /\ Len(kept) <= Len(Types)

Counted == ops \in 0..MaxOps /\ recalls \in 0..MaxRecalls

RecallsTyped == Tables /\ Caches /\ PagingTyped /\ KeptTyped /\ Counted

LEMMA TypesAre ==
  ASSUME AnswerConstants
  PROVE  /\ Types \in Seq(Kinds) /\ Len(Types) \in Nat /\ DOMAIN Types = 1..Len(Types)
         /\ \A n \in 1..Len(Types) : ByType(Types[n]) \in Asked
         /\ \A m, n \in DOMAIN Types : Types[m] = Types[n] => m = n
<1>1. Types \in Seq(Kinds) /\ \A m, n \in DOMAIN Types : Types[m] = Types[n] => m = n
  BY DEF AnswerConstants
<1>2. /\ Len(Types) \in Nat /\ DOMAIN Types = 1..Len(Types)
      /\ \A n \in 1..Len(Types) : Types[n] \in Kinds
  BY <1>1
<1>3. \A k \in Kinds : ByType(k) \in Asked
  BY DEF ByType, Asked
<1> QED  BY <1>1, <1>2, <1>3

LEMMA BoundsAre ==
  ASSUME AnswerConstants
  PROVE  /\ Start \in Nat /\ MaxNow \in Nat /\ MaxOps \in Nat /\ MaxRecalls \in Nat
         /\ CoreBudget \in Nat /\ MaxCore \in Nat /\ Slots \in Nat /\ PageSize \in Nat /\ PageSize > 0
         /\ Superseded \subseteq Frag /\ Unindexed \subseteq Frag
         /\ Queries # {} /\ Queries \subseteq Asked
BY DEF AnswerConstants

LEMMA TypedInit ==
  ASSUME AnswerConstants, AnswerInit
  PROVE  RecallsTyped
<1>1. Tables
  BY BoundsAre DEF AnswerInit, Tables
<1>2. Caches
  BY DEF AnswerInit, Caches
<1>3. PagingTyped
  <2>1. (CHOOSE q \in Queries : TRUE) \in Queries
    BY BoundsAre
  <2> DEFINE first == CHOOSE q \in Queries : TRUE
  <2>2. paging = [open |-> FALSE, q |-> first, offset |-> 0, shown |-> {},
                  twice |-> {}, all |-> {}, steady |-> FALSE, aged |-> FALSE]
    BY DEF AnswerInit, NoPaging
  <2>3. first \in Queries
    BY <2>1
  <2> HIDE DEF first
  <2> QED  BY <2>2, <2>3 DEF PagingTyped
<1>4. KeptTyped
  BY TypesAre DEF AnswerInit, KeptTyped
<1>5. Counted
  BY BoundsAre DEF AnswerInit, Counted
<1> QED  BY <1>1, <1>2, <1>3, <1>4, <1>5 DEF RecallsTyped

LEMMA TablesStep ==
  ASSUME AnswerConstants, Tables, [AnswerNext]_answerVars
  PROVE  Tables'
<1> USE DEF Tables
<1>1. CASE UNCHANGED answerVars
  BY <1>1 DEF answerVars
<1>2. ASSUME NEW q \in Queries, FirstPage(q)  PROVE Tables'
  BY <1>2 DEF FirstPage
<1>3. CASE NextPage
  BY <1>3 DEF NextPage
<1>4. CASE ContextRecall
  BY <1>4 DEF ContextRecall
<1>5. CASE ContextEnd
  BY <1>5 DEF ContextEnd
<1>6. ASSUME NEW f \in Frag, Retire(f)  PROVE Tables'
  BY <1>6 DEF Retire, Write
<1>7. ASSUME NEW f \in Frag, Forget(f)  PROVE Tables'
  BY <1>7 DEF Forget, Write
<1>8. ASSUME NEW f \in Frag, Expire(f)  PROVE Tables'
  BY <1>8 DEF Expire
<1>9. ASSUME NEW f \in Frag, NEW g \in Frag, CreateLink(f, g)  PROVE Tables'
  BY <1>9 DEF CreateLink, Write
<1>10. ASSUME NEW c \in fill, CacheFill(c)  PROVE Tables'
  BY <1>10 DEF CacheFill
<1>11. CASE Outage
  BY <1>11 DEF Outage
<1>12. CASE Tick
  BY <1>12, BoundsAre DEF Tick
<1> QED  BY <1>1, <1>2, <1>3, <1>4, <1>5, <1>6, <1>7, <1>8, <1>9, <1>10, <1>11, <1>12 DEF AnswerNext

\* What a recall finds may be cached.
LEMMA FillKeepsCaches ==
  ASSUME AnswerConstants, Tables, Caches, NEW q \in Asked, NEW found \in Searched(q),
         Fill(found), UNCHANGED hot
  PROVE  Caches'
BY SearchedAre DEF Caches, Fill

LEMMA CachesStep ==
  ASSUME AnswerConstants, Tables, Caches, KeptTyped, PagingTyped, [AnswerNext]_answerVars
  PROVE  Caches'
<1>1. CASE UNCHANGED answerVars
  BY <1>1 DEF answerVars, Caches
<1>2. ASSUME NEW q \in Queries, FirstPage(q)  PROVE Caches'
  <2>1. PICK found \in Searched(q) : Fill(found)
    BY <1>2 DEF FirstPage
  <2>2. UNCHANGED hot /\ q \in Asked
    BY <1>2, BoundsAre DEF FirstPage
  <2> QED  BY <2>1, <2>2, FillKeepsCaches
<1>3. CASE NextPage
  <2>1. PICK found \in Searched(paging.q) : Fill(found)
    BY <1>3 DEF NextPage
  <2>2. UNCHANGED hot /\ paging.q \in Asked
    BY <1>3, BoundsAre DEF NextPage, PagingTyped
  <2> QED  BY <2>1, <2>2, FillKeepsCaches
<1>4. CASE ContextRecall
  <2> DEFINE q == ByType(Types[Len(kept) + 1])
  <2>1. PICK found \in Searched(q) : Fill(found)
    BY <1>4 DEF ContextRecall
  <2>2. UNCHANGED hot /\ Len(kept) < Len(Types) /\ Len(kept) \in Nat
    BY <1>4 DEF ContextRecall, KeptTyped
  <2>3. Len(kept) + 1 \in 1..Len(Types)
    BY <2>2, TypesAre
  <2>4. q \in Asked
    BY <2>3, TypesAre
  <2> HIDE DEF q
  <2> QED  BY <2>1, <2>2, <2>4, FillKeepsCaches
<1>5. CASE ContextEnd
  BY <1>5 DEF ContextEnd, Caches
<1>6. ASSUME NEW f \in Frag, Retire(f)  PROVE Caches'
  BY <1>6 DEF Retire, Write, Caches
<1>7. ASSUME NEW f \in Frag, Forget(f)  PROVE Caches'
  BY <1>7 DEF Forget, Write, Caches
<1>8. ASSUME NEW f \in Frag, Expire(f)  PROVE Caches'
  BY <1>8 DEF Expire, Caches
<1>9. ASSUME NEW f \in Frag, NEW g \in Frag, CreateLink(f, g)  PROVE Caches'
  BY <1>9 DEF CreateLink, Write, Caches
<1>10. ASSUME NEW c \in fill, CacheFill(c)  PROVE Caches'
  <2>1. c \in Copies /\ ~c.retired /\ c.id \in Frag
    BY CopyFields DEF Caches
  <2>2. <<c>> # <<>> /\ <<c>>[1] = c
    BY Single
  <2>3. hot' \in [Frag -> {<<>>} \union {<<d>> : d \in Copies}]
    BY <1>10, <2>1 DEF CacheFill, Caches
  <2>4. \A f \in Frag : hot'[f] = hot[f] \/ (f = c.id /\ hot'[f] = <<c>>)
    BY <1>10, <2>1 DEF CacheFill, Caches
  <2>5. fill' \subseteq fill
    BY <1>10 DEF CacheFill
  <2>6. \A f \in Frag : hot'[f] # <<>> => hot'[f][1].id = f /\ ~hot'[f][1].retired
    BY <2>1, <2>2, <2>4 DEF Caches
  <2> QED  BY <2>3, <2>5, <2>6 DEF Caches
<1>11. CASE Outage
  BY <1>11 DEF Outage, Caches
<1>12. CASE Tick
  BY <1>12 DEF Tick, Caches
<1> QED  BY <1>1, <1>2, <1>3, <1>4, <1>5, <1>6, <1>7, <1>8, <1>9, <1>10, <1>11, <1>12 DEF AnswerNext

LEMMA PageIds ==
  ASSUME AnswerConstants, NEW s \in Seq(Copies), NEW o
  PROVE  /\ Page(s, o) \subseteq Frag /\ IdsOf(Elements(s)) \subseteq Frag
         /\ IdsOf(Elements(s)) = {s[n].id : n \in DOMAIN s} /\ Len(s) \in Nat
         /\ \A n \in DOMAIN s : s[n] \in Copies /\ s[n].id \in Frag
<1>1. \A n \in DOMAIN s : s[n] \in Copies /\ s[n].id \in Frag
  <2>1. \A n \in DOMAIN s : s[n] \in Copies
    OBVIOUS
  <2> QED  BY <2>1, CopyFields
<1>2. Len(s) \in Nat
  OBVIOUS
<1> QED  BY <1>1, <1>2 DEF Page, IdsOf, Elements

LEMMA FirstPageTyped ==
  ASSUME AnswerConstants, RecallsTyped, NEW q \in Queries, FirstPage(q)
  PROVE  PagingTyped' /\ KeptTyped' /\ Counted'
<1> USE DEF RecallsTyped
<1>0. PICK found \in Searched(q) : \E s \in Answers(found, q) :
        paging' = [open |-> PageSize < Len(s), q |-> q, offset |-> PageSize,
                   shown |-> Page(s, 0), twice |-> {}, all |-> IdsOf(Elements(s)),
                   steady |-> q.text \/ \A c \in fill : Awaited(c, q), aged |-> FALSE]
  BY DEF FirstPage
<1>1. PICK s \in Answers(found, q) :
        paging' = [open |-> PageSize < Len(s), q |-> q, offset |-> PageSize,
                   shown |-> Page(s, 0), twice |-> {}, all |-> IdsOf(Elements(s)),
                   steady |-> q.text \/ \A c \in fill : Awaited(c, q), aged |-> FALSE]
  BY <1>0
<1>2. q \in Asked /\ PageSize \in Nat
  BY BoundsAre
<1>3. s \in Seq(Copies)
  BY <1>2, AnswersAre
<1>4. Page(s, 0) \subseteq Frag /\ IdsOf(Elements(s)) \subseteq Frag
  BY <1>3, PageIds
<1> DEFINE calm == q.text \/ \A c \in fill : Awaited(c, q)
<1>5. calm \in BOOLEAN /\ (PageSize < Len(s)) \in BOOLEAN
  OBVIOUS
<1> HIDE DEF calm
<1>6. PagingTyped'
  <2>1. paging' = [open |-> PageSize < Len(s), q |-> q, offset |-> PageSize,
                   shown |-> Page(s, 0), twice |-> {}, all |-> IdsOf(Elements(s)),
                   steady |-> calm, aged |-> FALSE]
    BY <1>1 DEF calm
  <2> QED  BY <1>2, <1>4, <1>5, <2>1 DEF PagingTyped
<1>7. KeptTyped' /\ Counted'
  BY BoundsAre DEF FirstPage, KeptTyped, Counted
<1> QED  BY <1>6, <1>7

LEMMA NextPageTyped ==
  ASSUME AnswerConstants, RecallsTyped, NextPage
  PROVE  PagingTyped' /\ KeptTyped' /\ Counted'
<1> USE DEF RecallsTyped
<1>1. PICK found \in Searched(paging.q) : \E s \in Answers(found, paging.q) :
        paging' = [paging EXCEPT
            !.open = paging.offset + PageSize < Len(s),
            !.offset = NextOffset,
            !.shown = @ \union Page(s, paging.offset),
            !.twice = @ \union (paging.shown \intersect Page(s, paging.offset))]
  BY DEF NextPage
<1>2. PICK s \in Answers(found, paging.q) :
        paging' = [paging EXCEPT
            !.open = paging.offset + PageSize < Len(s),
            !.offset = NextOffset,
            !.shown = @ \union Page(s, paging.offset),
            !.twice = @ \union (paging.shown \intersect Page(s, paging.offset))]
  BY <1>1
<1>3. paging.q \in Asked /\ PageSize \in Nat
  BY BoundsAre DEF PagingTyped
<1>4. s \in Seq(Copies)
  BY <1>3, AnswersAre
<1>5. Page(s, paging.offset) \subseteq Frag
  BY <1>4, PageIds
<1>6. NextOffset \in Nat
  BY <1>3 DEF NextOffset, PagingTyped
<1>7. (paging.offset + PageSize < Len(s)) \in BOOLEAN
  OBVIOUS
<1>8. PagingTyped'
  BY <1>2, <1>5, <1>6, <1>7 DEF PagingTyped
<1>9. KeptTyped' /\ Counted'
  BY DEF NextPage, KeptTyped, Counted
<1> QED  BY <1>8, <1>9

\* The recall for the next type of a context.
LEMMA ContextQuery ==
  ASSUME AnswerConstants, KeptTyped, Len(kept) < Len(Types)
  PROVE  /\ ByType(Types[Len(kept) + 1]) \in Asked
         /\ Len(kept) \in Nat /\ Len(kept) + 1 <= Len(Types)
<1>1. Len(kept) \in Nat /\ Len(Types) \in Nat
  BY TypesAre DEF KeptTyped
<1>2. Len(kept) + 1 \in 1..Len(Types)
  BY <1>1
<1> QED  BY <1>1, <1>2, TypesAre

LEMMA ContextRecallTyped ==
  ASSUME AnswerConstants, RecallsTyped, ContextRecall
  PROVE  PagingTyped' /\ KeptTyped' /\ Counted'
<1> USE DEF RecallsTyped
<1> DEFINE q == ByType(Types[Len(kept) + 1])
<1>1. PICK found \in Searched(q) : \E s \in Answers(found, q) : kept' = Append(kept, s)
  BY DEF ContextRecall
<1>2. PICK s \in Answers(found, q) : kept' = Append(kept, s)
  BY <1>1
<1>3. q \in Asked /\ Len(kept) \in Nat /\ Len(kept) + 1 <= Len(Types)
  BY ContextQuery DEF ContextRecall
<1> HIDE DEF q
<1>4. s \in Seq(Copies)
  BY <1>3, AnswersAre
<1>5. KeptTyped'
  <2>1. kept \in Seq(Seq(Copies))
    BY DEF KeptTyped
  <2>2. kept' \in Seq(Seq(Copies)) /\ Len(kept') = Len(kept) + 1
    BY <1>2, <1>4, <2>1
  <2> QED  BY <1>3, <2>2 DEF KeptTyped
<1>6. UNCHANGED paging
  BY DEF ContextRecall
<1>7. PagingTyped'
  BY <1>6 DEF PagingTyped
<1>8. UNCHANGED ops /\ (UNCHANGED recalls \/ (recalls < MaxRecalls /\ recalls' = recalls + 1))
  BY DEF ContextRecall
<1>9. Counted'
  BY <1>8, BoundsAre DEF Counted
<1> QED  BY <1>5, <1>7, <1>9

LEMMA DisturbedTyped ==
  ASSUME PagingTyped, Disturbed
  PROVE  PagingTyped'
BY DEF PagingTyped, Disturbed

LEMMA WriteTyped ==
  ASSUME AnswerConstants, PagingTyped, KeptTyped, Counted, Write
  PROVE  PagingTyped' /\ KeptTyped' /\ Counted'
<1>1. PagingTyped'
  BY DisturbedTyped DEF Write
<1>2. KeptTyped' /\ Counted'
  BY BoundsAre DEF Write, KeptTyped, Counted
<1> QED  BY <1>1, <1>2

LEMMA OthersTyped ==
  ASSUME AnswerConstants, RecallsTyped, [AnswerNext]_answerVars
  PROVE  PagingTyped' /\ KeptTyped' /\ Counted'
<1> USE DEF RecallsTyped
<1> DEFINE Goal == PagingTyped' /\ KeptTyped' /\ Counted'
<1>1. CASE UNCHANGED answerVars
  BY <1>1 DEF answerVars, PagingTyped, KeptTyped, Counted
<1>2. ASSUME NEW q \in Queries, FirstPage(q)  PROVE Goal
  BY <1>2, FirstPageTyped
<1>3. CASE NextPage
  BY <1>3, NextPageTyped
<1>4. CASE ContextRecall
  BY <1>4, ContextRecallTyped
<1>5. CASE ContextEnd
  <2>1. kept' = <<>> /\ UNCHANGED <<paging, ops, recalls>>
    BY <1>5 DEF ContextEnd
  <2>2. KeptTyped'
    BY <2>1, TypesAre DEF KeptTyped
  <2> QED  BY <2>1, <2>2 DEF PagingTyped, Counted
<1>6. ASSUME NEW f \in Frag, Retire(f)  PROVE Goal
  BY <1>6, WriteTyped DEF Retire
<1>7. ASSUME NEW f \in Frag, Forget(f)  PROVE Goal
  BY <1>7, WriteTyped DEF Forget
<1>8. ASSUME NEW f \in Frag, Expire(f)  PROVE Goal
  <2>1. PagingTyped'
    BY <1>8, DisturbedTyped DEF Expire
  <2> QED  BY <1>8, <2>1 DEF Expire, KeptTyped, Counted
<1>9. ASSUME NEW f \in Frag, NEW g \in Frag, CreateLink(f, g)  PROVE Goal
  BY <1>9, WriteTyped DEF CreateLink
<1>10. ASSUME NEW c \in fill, CacheFill(c)  PROVE Goal
  BY <1>10 DEF CacheFill, PagingTyped, KeptTyped, Counted
<1>11. CASE Outage
  <2>1. PagingTyped'
    BY <1>11, DisturbedTyped DEF Outage
  <2> QED  BY <1>11, <2>1, BoundsAre DEF Outage, KeptTyped, Counted
<1>12. CASE Tick
  <2>1. PagingTyped'
    BY <1>12 DEF Tick, PagingTyped
  <2> QED  BY <1>12, <2>1 DEF Tick, KeptTyped, Counted
<1> QED  BY <1>1, <1>2, <1>3, <1>4, <1>5, <1>6, <1>7, <1>8, <1>9, <1>10, <1>11, <1>12 DEF AnswerNext

LEMMA TypedStep ==
  ASSUME AnswerConstants, RecallsTyped, [AnswerNext]_answerVars
  PROVE  RecallsTyped'
<1>1. Tables' /\ Caches'
  BY TablesStep, CachesStep DEF RecallsTyped
<1>2. PagingTyped' /\ KeptTyped' /\ Counted'
  BY OthersTyped
<1> QED  BY <1>1, <1>2 DEF RecallsTyped

-----------------------------------------------------------------------------
(* Pages.                                                                   *)

\* The pages so far show the beginning of s.
Shown(s) ==
  /\ paging.all = {s[n].id : n \in DOMAIN s}
  /\ paging.shown = {s[n].id : n \in {m \in DOMAIN s : m <= paging.offset}}
  /\ paging.twice = {} /\ (paging.offset < Len(s) => paging.open)

\* While nothing disturbs it, what a client that pages has seen is the beginning of an
\* answer that the recall still gives, and what is on its way to the cache changes none
\* of it.
Paged ==
  \A q \in Queries : paging.q = q /\ paging.steady /\ ~paging.aged =>
    /\ \E found \in Searched(q) : \E s \in Answers(found, q) : Shown(s)
    /\ q.text \/ \A c \in fill : Awaited(c, q)

LEMMA PagedShowsAll ==
  ASSUME AnswerConstants, RecallsTyped, Paged
  PROVE  PagesShowAll
<1> SUFFICES ASSUME ~paging.open, paging.steady, ~paging.aged
             PROVE  paging.shown = paging.all /\ paging.twice = {}
  BY DEF PagesShowAll
<1>1. paging.q \in Queries /\ paging.q \in Asked /\ paging.offset \in Nat
  BY BoundsAre DEF RecallsTyped, PagingTyped
<1>2. PICK found \in Searched(paging.q) : \E s \in Answers(found, paging.q) : Shown(s)
  BY <1>1 DEF Paged
<1>3. PICK s \in Answers(found, paging.q) : Shown(s)
  BY <1>2
<1>4. DOMAIN s = 1..Len(s) /\ s \in Seq(Copies)
  BY <1>1, AnswersAre DEF RecallsTyped
<1>5. Len(s) \in Nat /\ ~(paging.offset < Len(s))
  BY <1>3, <1>4 DEF Shown
<1>6. {m \in DOMAIN s : m <= paging.offset} = DOMAIN s
  BY <1>1, <1>4, <1>5
<1> QED  BY <1>3, <1>6 DEF Shown

LEMMA OneRanked ==
  ASSUME AnswerConstants, Untied, Tables, NEW q \in Queries, NEW S \in SUBSET Copies,
         \A c, d \in S : c.id = d.id => c = d,
         NEW s \in Ranked(S, q), NEW t \in Ranked(S, q)
  PROVE  s = t
<1> DEFINE rank == [c \in S |-> Score(c, q)]
<1>1. IsFiniteSet(S)
  BY CopiesFinite, FS_Subset
<1>2. s \in Orders(S, rank) /\ t \in Orders(S, rank)
  BY DEF Ranked
<1>3. \A c \in S : rank[c] = Score(c, q) /\ rank[c] \in Nat
  BY BoundsAre, ScoreIsNat
<1>4. \A c, d \in S : c # d => Score(c, q) # Score(d, q)
  BY DEF Untied, Score, Tables
<1>5. rank \in [S -> Int]
  BY <1>3
<1> HIDE DEF rank
<1>6. \A c, d \in S : c # d => rank[c] # rank[d]
  BY <1>3, <1>4
<1> QED  BY <1>1, <1>2, <1>5, <1>6, OneOrder

LEMMA OneAnswer ==
  ASSUME AnswerConstants, Untied, Tables, Caches, NEW q \in Queries,
         NEW found \in Searched(q), NEW same \in Searched(q),
         NEW s \in Answers(found, q), NEW t \in Answers(same, q)
  PROVE  found = same /\ s = t
<1>1. q \in Asked
  BY BoundsAre
<1>2. PICK r \in Ranked(Candidates(q), q) : found = {c \in Trimmed(r) : ~c.retired}
  BY DEF Searched
<1>3. PICK u \in Ranked(Candidates(q), q) : same = {c \in Trimmed(u) : ~c.retired}
  BY DEF Searched
<1>4. r = u
  <2>1. Candidates(q) \in SUBSET Copies /\ \A c, d \in Candidates(q) : c.id = d.id => c = d
    BY <1>1, CandidatesAre
  <2> QED  BY <2>1, OneRanked
<1>5. found = same
  BY <1>2, <1>3, <1>4
<1>6. /\ Complete(found, q) \in SUBSET Copies
      /\ \A c, d \in Complete(found, q) : c.id = d.id => c = d
  BY <1>1, CompleteAre
<1>7. s \in Ranked(Complete(found, q), q) /\ t \in Ranked(Complete(found, q), q)
  BY <1>5 DEF Answers
<1>8. s = t
  BY <1>6, <1>7, OneRanked
<1> QED  BY <1>5, <1>8

\* What a recall without a text puts on its way to the cache changes nothing for it,
\* and nothing for any other if it has asked the table for nothing.
LEMMA FoundAwaited ==
  ASSUME AnswerConstants, Tables, Caches, NEW q \in Asked, ~q.text,
         NEW found \in Searched(q), NEW c \in found
  PROVE  Awaited(c, q) /\ (~q.kw => \A r : Awaited(c, r))
<1>1. c \in Candidates(q) /\ ~c.retired /\ c \in Copies
  BY SearchedAre
<1>2. CASE hot[c.id] = <<c>>
  BY <1>2 DEF Awaited
<1>3. CASE c.id \in stored /\ c = Copy(c.id, 0) /\ hot[c.id] = <<>>
  BY <1>3 DEF Awaited
<1>4. CASE /\ c.id \in stored /\ c = Copy(c.id, 0) /\ c.id \in SearchTable(q)
           /\ hot[c.id] # <<>> /\ hot[c.id] # <<c>>
  <2>1. q.kw
    BY <1>4 DEF SearchTable
  <2>2. ASSUME c.id \in SearchL1(q)  PROVE FALSE
    <3> DEFINE d == hot[c.id][1]
    <3>1. d \in Copies /\ hot[c.id] = <<d>> /\ d.id = c.id /\ ~d.retired
      BY <1>1, <1>4, CopyFields, HotIs
    <3> HIDE DEF d
    <3>2. d \in Cached(q) /\ c \notin Cached(q)
      BY <1>4, <2>2, <3>1, CachedAre
    <3>3. d.sim <= c.sim
      BY <1>1, <3>1, <3>2, CandidatesBy DEF Deduplicated
    <3>4. c.sim = 0
      <4>1. \A f : Copy(f, 0).sim = 0
        BY DEF Copy
      <4> QED  BY <1>4, <4>1
    <3>5. d.sim = 0
      BY <3>1, <3>3, <3>4, CopyFields
    <3>6. c.retired = FALSE /\ d.retired = FALSE
      BY <1>1, <3>1, CopyFields
    <3>7. /\ c = [id |-> c.id, sim |-> 0, retired |-> FALSE]
          /\ d = [id |-> c.id, sim |-> 0, retired |-> FALSE]
      BY <1>1, <3>1, <3>4, <3>5, <3>6, CopyFields
    <3> QED  BY <1>4, <3>1, <3>7
  <2> QED  BY <2>1, <2>2 DEF Awaited
<1> QED  BY <1>1, <1>2, <1>3, <1>4, PlainCandidates

\* What a recall reads, and what it may then answer.
Reads == <<stored, retired, linked, indexed, hot, up, now>>

LEMMA ReadsAlone ==
  ASSUME UNCHANGED Reads, NEW q
  PROVE  /\ Searched(q)' = Searched(q) /\ \A found : Answers(found, q)' = Answers(found, q)
         /\ \A c : Awaited(c, q)' = Awaited(c, q)
<1> USE DEF Reads
<1>1. SearchL1(q)' = SearchL1(q)
  BY DEF SearchL1, FilterSets, Recent
<1>2. SearchTable(q)' = SearchTable(q) /\ \A f, n : Copy(f, n)' = Copy(f, n)
  BY DEF SearchTable, Fits, Copy
<1>3. SearchL3' = SearchL3 /\ \A ids : SearchL2(q, ids)' = SearchL2(q, ids)
  BY <1>2 DEF SearchL2, SearchL3
<1>4. Candidates(q)' = Candidates(q)
  BY <1>1, <1>3 DEF Candidates
<1>5. \A S : Ranked(S, q)' = Ranked(S, q)
  BY DEF Ranked, Score
<1>6. Searched(q)' = Searched(q)
  BY <1>4, <1>5 DEF Searched
<1>7. \A found : Complete(found, q)' = Complete(found, q)
  BY <1>2 DEF Complete, LinkedTo
<1>8. \A found : Answers(found, q)' = Answers(found, q)
  BY <1>5, <1>7 DEF Answers
<1>9. \A c : Awaited(c, q)' = Awaited(c, q)
  BY <1>1, <1>2 DEF Awaited
<1> QED  BY <1>6, <1>8, <1>9

\* The lemmas about candidates in a form that holds of the next state, too.
TextSet(q) ==
  {c \in {Copy(f, 0) : f \in SearchTable(q)} : c.id \notin SearchL1(q)}
    \union {c \in SearchL3 : c.id \notin SearchL1(q) /\ c.id \notin SearchTable(q)}

CandidateFacts ==
  \A q \in Asked :
    /\ q.text => Candidates(q) = TextSet(q)
    /\ ~q.text => Candidates(q) = Deduplicated(Rows(q), Cached(q))
    /\ \A c : c \in Cached(q) <=> c \in Copies /\ c.id \in SearchL1(q) /\ hot[c.id] = <<c>>
    /\ \A c : c \in Rows(q) <=>
         /\ c.id \in stored /\ c = Copy(c.id, 0)
         /\ c.id \in SearchTable(q) \/ (c.id \in SearchL1(q) /\ hot[c.id] = <<>>)

LEMMA CandidatesAnyTime == AnswerConstants /\ Tables /\ Caches => CandidateFacts
<1> SUFFICES ASSUME AnswerConstants, Tables, Caches, NEW q \in Asked
    PROVE
      /\ q.text => Candidates(q) = TextSet(q)
      /\ ~q.text => Candidates(q) = Deduplicated(Rows(q), Cached(q))
      /\ \A c : c \in Cached(q) <=> c \in Copies /\ c.id \in SearchL1(q) /\ hot[c.id] = <<c>>
      /\ \A c : c \in Rows(q) <=>
           /\ c.id \in stored /\ c = Copy(c.id, 0)
           /\ c.id \in SearchTable(q) \/ (c.id \in SearchL1(q) /\ hot[c.id] = <<>>)
  BY DEF CandidateFacts
<1>1. q.text => Candidates(q) = TextSet(q)
  BY TextCandidates DEF TextSet
<1>2. ~q.text => Candidates(q) = Deduplicated(Rows(q), Cached(q))
  BY CandidatesBy
<1>3. \A c : c \in Cached(q) <=> c \in Copies /\ c.id \in SearchL1(q) /\ hot[c.id] = <<c>>
  BY CachedAre
<1>4. \A c : c \in Rows(q) <=>
           /\ c.id \in stored /\ c = Copy(c.id, 0)
           /\ c.id \in SearchTable(q) \/ (c.id \in SearchL1(q) /\ hot[c.id] = <<>>)
  BY RowsAre
<1> QED  BY <1>1, <1>2, <1>3, <1>4

LEMMA FillReads ==
  ASSUME AnswerConstants, Tables, Caches, Tables', Caches', NEW q \in Asked,
         NEW e \in fill, CacheFill(e), q.text \/ Awaited(e, q)
  PROVE  Candidates(q)' = Candidates(q)
<1>1. CandidateFacts /\ CandidateFacts'
  <2>1. AnswerConstants' /\ Tables' /\ Caches' => CandidateFacts'
    BY CandidatesAnyTime, PTL
  <2> QED  BY <2>1, CandidatesAnyTime
<1>2. /\ q.text => Candidates(q)' = TextSet(q)'
      /\ ~q.text => Candidates(q)' = Deduplicated(Rows(q)', Cached(q)')
      /\ \A c : c \in Cached(q)' <=> c \in Copies /\ c.id \in SearchL1(q)' /\ hot'[c.id] = <<c>>
      /\ \A c : c \in Rows(q)' <=>
           /\ c.id \in stored' /\ c = Copy(c.id, 0)'
           /\ c.id \in SearchTable(q)' \/ (c.id \in SearchL1(q)' /\ hot'[c.id] = <<>>)
  BY <1>1 DEF CandidateFacts
<1>3. UNCHANGED <<stored, retired, indexed, up>> /\ q.text \in BOOLEAN
  BY DEF CacheFill, Asked
<1>4. SearchL1(q)' = SearchL1(q)
  BY <1>3 DEF SearchL1, FilterSets, Recent
<1>5. SearchTable(q)' = SearchTable(q) /\ \A f, n : Copy(f, n)' = Copy(f, n)
  BY <1>3 DEF SearchTable, Fits, Copy
<1>6. SearchL3' = SearchL3
  BY <1>3, <1>5 DEF SearchL3
<1> DEFINE L == SearchL1(q)
           T == SearchTable(q)
           C == Cached(q)
           R == Rows(q)
           C1 == Cached(q)'
           R1 == Rows(q)'
<1>7. CASE q.text
  <2>1. TextSet(q)' = TextSet(q)
    BY <1>4, <1>5, <1>6 DEF TextSet
  <2>2. Candidates(q)' = TextSet(q)'
    BY <1>2, <1>7
  <2>3. Candidates(q) = TextSet(q)
    BY <1>1, <1>7 DEF CandidateFacts
  <2> QED  BY <2>1, <2>2, <2>3
<1>8. CASE ~q.text
  <2>1. Candidates(q)' = Deduplicated(R1, C1) /\ Candidates(q) = Deduplicated(R, C)
    BY <1>1, <1>2, <1>8 DEF CandidateFacts
  <2>2. \A c : c \in C <=> c \in Copies /\ c.id \in L /\ hot[c.id] = <<c>>
    BY CachedAre
  <2>3. \A c : c \in C1 <=> c \in Copies /\ c.id \in L /\ hot'[c.id] = <<c>>
    BY <1>2, <1>4
  <2>4. \A c : c \in R <=> /\ c.id \in stored /\ c = Copy(c.id, 0)
                           /\ c.id \in T \/ (c.id \in L /\ hot[c.id] = <<>>)
    BY RowsAre
  <2>5. \A c : c \in R1 <=> /\ c.id \in stored /\ c = Copy(c.id, 0)
                            /\ c.id \in T \/ (c.id \in L /\ hot'[c.id] = <<>>)
    BY <1>2, <1>3, <1>4, <1>5
  <2>6. e \in Copies /\ e.id \in Frag /\ DOMAIN hot = Frag /\ hot = [f \in Frag |-> hot[f]]
    BY CopyFields DEF Caches
  <2>7. \A f : f # e.id => hot'[f] = hot[f]
    BY <2>6 DEF CacheFill, Caches
  <2>8. CASE e.id \notin L \/ hot' = hot
    <3>1. C1 = C /\ R1 = R
      <4> HIDE DEF L, T, C, C1, R, R1
      <4>1. \A c : (c \in C1 <=> c \in C) /\ (c \in R1 <=> c \in R)
        BY <2>2, <2>3, <2>4, <2>5, <2>7, <2>8
      <4> QED  BY <4>1
    <3> QED  BY <2>1, <3>1
  <2>9. CASE e.id \in L /\ hot' # hot
    <3>1. hot' = [hot EXCEPT ![e.id] = <<e>>]
      BY <2>9 DEF CacheFill
    <3>2. hot[e.id] # <<e>>
      BY <2>6, <2>9, <3>1
    <3>3. hot[e.id] = <<>> /\ e.id \in stored /\ e = Copy(e.id, 0)
      BY <1>8, <2>9, <3>2 DEF Awaited
    <3>4. hot'[e.id] = <<e>> /\ <<e>> # <<>>
      BY <2>6, <3>1, Single
    <3> HIDE DEF L, T, C, C1, R, R1
    <3>5. \A c : c.id # e.id => (c \in C1 <=> c \in C) /\ (c \in R1 <=> c \in R)
      BY <2>2, <2>3, <2>4, <2>5, <2>7
    \* Of e itself there is one candidate before and after.
    <3>6. \A c : c.id = e.id => c \notin C /\ (c \in R <=> c = e)
      BY <2>2, <2>4, <2>9, <3>3, Single
    <3>7. \A c : c.id = e.id => /\ c \in C1 <=> c = e
                                /\ c \in R1 <=> (c = e /\ e.id \in T)
      BY <2>3, <2>5, <2>6, <2>9, <3>3, <3>4, Single
    <3>8. e.sim <= e.sim /\ ~(e.sim > e.sim)
      BY <2>6, CopyFields
    <3>9. ASSUME NEW c, c.id # e.id
          PROVE  c \in Deduplicated(R1, C1) <=> c \in Deduplicated(R, C)
      <4>1. \A d : d.id = c.id => (d \in C1 <=> d \in C) /\ (d \in R1 <=> d \in R)
        BY <3>5, <3>9
      <4> QED  BY <4>1 DEF Deduplicated
    <3>10. ASSUME NEW c, c.id = e.id
           PROVE  c \in Deduplicated(R1, C1) <=> c \in Deduplicated(R, C)
      <4>1. c \in Deduplicated(R, C) <=> c = e
        BY <3>6, <3>10 DEF Deduplicated
      <4>2. c \in Deduplicated(R1, C1) => c = e
        BY <3>7, <3>10 DEF Deduplicated
      <4>3. e \in Deduplicated(R1, C1)
        BY <3>7, <3>8 DEF Deduplicated
      <4> QED  BY <4>1, <4>2, <4>3
    <3>11. \A c : c \in Deduplicated(R1, C1) <=> c \in Deduplicated(R, C)
      BY <3>9, <3>10
    <3>12. Deduplicated(R1, C1) = Deduplicated(R, C)
      BY <3>11
    <3> QED  BY <2>1, <3>12
  <2> QED  BY <2>8, <2>9
<1> QED  BY <1>3, <1>7, <1>8

LEMMA FirstPageShows ==
  ASSUME AnswerConstants, RecallsTyped, NEW q \in Queries, FirstPage(q)
  PROVE  Paged'
<1> USE DEF RecallsTyped
<1> DEFINE rec(s) == [open |-> PageSize < Len(s), q |-> q, offset |-> PageSize,
                      shown |-> Page(s, 0), twice |-> {}, all |-> IdsOf(Elements(s)),
                      steady |-> q.text \/ \A c \in fill : Awaited(c, q), aged |-> FALSE]
<1>1. PICK found \in Searched(q) : \E s \in Answers(found, q) : paging' = rec(s) /\ Fill(found)
  BY DEF FirstPage
<1>2. PICK s \in Answers(found, q) : paging' = rec(s) /\ Fill(found)
  BY <1>1
<1>3. q \in Asked /\ UNCHANGED Reads /\ PageSize \in Nat
  BY BoundsAre DEF FirstPage, Reads
<1>4. /\ paging'.q = q /\ paging'.offset = PageSize /\ paging'.shown = Page(s, 0)
      /\ paging'.twice = {} /\ paging'.all = IdsOf(Elements(s))
      /\ paging'.open = (PageSize < Len(s))
      /\ paging'.steady = (q.text \/ \A c \in fill : Awaited(c, q))
  BY <1>2
<1> HIDE DEF rec
<1>5. s \in Seq(Copies) /\ DOMAIN s = 1..Len(s)
  BY <1>3, AnswersAre
<1>6. Shown(s)'
  <2>1. IdsOf(Elements(s)) = {s[n].id : n \in DOMAIN s}
    BY <1>5, PageIds
  <2>2. {m \in DOMAIN s : 0 < m /\ m <= 0 + PageSize} = {m \in DOMAIN s : m <= PageSize}
    BY <1>3, <1>5
  <2>3. Page(s, 0) = {s[n].id : n \in {m \in DOMAIN s : m <= PageSize}}
    BY <2>2 DEF Page
  <2>4. /\ paging'.all = {s[n].id : n \in DOMAIN s}
        /\ paging'.shown = {s[n].id : n \in {m \in DOMAIN s : m <= paging'.offset}}
        /\ paging'.twice = {} /\ (paging'.offset < Len(s) => paging'.open)
    BY <1>4, <2>1, <2>3
  <2> QED  BY <2>4 DEF Shown
<1>7. found \in Searched(q)' /\ s \in Answers(found, q)'
  BY <1>3, ReadsAlone
<1>8. ASSUME paging'.steady, ~q.text, NEW c \in fill'  PROVE Awaited(c, q)'
  <2>1. CASE c \in fill
    BY <1>3, <1>4, <1>8, <2>1, ReadsAlone
  <2>2. CASE c \in found
    BY <1>3, <1>8, <2>2, FoundAwaited, ReadsAlone
  <2> QED  BY <1>2, <2>1, <2>2 DEF Fill
<1>9. ASSUME NEW r \in Queries, paging'.q = r, paging'.steady
      PROVE  /\ \E x \in Searched(r)' : \E t \in Answers(x, r)' : Shown(t)'
             /\ r.text \/ \A c \in fill' : Awaited(c, r)'
  <2>1. r = q
    BY <1>4, <1>9
  <2>2. \E x \in Searched(q)' : \E t \in Answers(x, q)' : Shown(t)'
    BY <1>6, <1>7
  <2>3. q.text \/ \A c \in fill' : Awaited(c, q)'
    BY <1>8, <1>9
  <2> QED  BY <2>1, <2>2, <2>3
<1> QED  BY <1>9 DEF Paged

LEMMA NextPageShows ==
  ASSUME AnswerConstants, Untied, RecallsTyped, Paged, NextPage
  PROVE  Paged'
<1> USE DEF RecallsTyped
<1>1. PICK q \in Queries : q = paging.q
  BY DEF PagingTyped
<1>2. PICK found \in Searched(q) : \E s \in Answers(found, q) :
       LET page == Page(s, paging.offset) IN
       /\ paging' = [paging EXCEPT
            !.open = paging.offset + PageSize < Len(s),
            !.offset = NextOffset,
            !.shown = @ \union page,
            !.twice = @ \union (paging.shown \intersect page)]
       /\ Fill(found)
  BY <1>1 DEF NextPage
<1>3. PICK s \in Answers(found, q) :
       /\ paging' = [paging EXCEPT
            !.open = paging.offset + PageSize < Len(s),
            !.offset = NextOffset,
            !.shown = @ \union Page(s, paging.offset),
            !.twice = @ \union (paging.shown \intersect Page(s, paging.offset))]
       /\ Fill(found)
  BY <1>2
<1>4. q \in Asked /\ UNCHANGED Reads /\ PageSize \in Nat /\ PageSize > 0
  BY BoundsAre DEF NextPage, Reads
<1>5. /\ paging'.q = q /\ paging'.offset = paging.offset + PageSize
      /\ paging'.shown = paging.shown \union Page(s, paging.offset)
      /\ paging'.twice = paging.twice \union (paging.shown \intersect Page(s, paging.offset))
      /\ paging'.all = paging.all /\ paging'.steady = paging.steady /\ paging'.aged = paging.aged
      /\ paging'.open = (paging.offset + PageSize < Len(s))
      /\ paging.offset \in Nat
  BY <1>1, <1>3 DEF PagingTyped, NextOffset
<1>6. /\ s \in Seq(Copies) /\ DOMAIN s = 1..Len(s) /\ Len(s) \in Nat
      /\ \A i, j \in DOMAIN s : s[i].id = s[j].id => i = j
  <2>1. s \in Seq(Copies) /\ DOMAIN s = 1..Len(s)
        /\ \A i, j \in DOMAIN s : s[i].id = s[j].id => i = j
    BY <1>4, AnswersAre
  <2> QED  BY <2>1
<1>7. SUFFICES ASSUME paging.steady, ~paging.aged
      PROVE  /\ \E x \in Searched(q)' : \E t \in Answers(x, q)' : Shown(t)'
             /\ q.text \/ \A c \in fill' : Awaited(c, q)'
  BY <1>5 DEF Paged
<1>8. Shown(s)
  <2>1. PICK x \in Searched(q) : \E t \in Answers(x, q) : Shown(t)
    BY <1>1, <1>7 DEF Paged
  <2>2. PICK t \in Answers(x, q) : Shown(t)
    BY <2>1
  <2>3. s = t
    BY OneAnswer
  <2> QED  BY <2>2, <2>3
<1>9. Shown(s)'
  <2> DEFINE o == paging.offset
             before == {m \in DOMAIN s : m <= o}
             now1 == {m \in DOMAIN s : o < m /\ m <= o + PageSize}
  <2>1. o \in Nat /\ Page(s, o) = {s[n].id : n \in now1} /\ paging.shown = {s[n].id : n \in before}
    BY <1>5, <1>8 DEF Page, Shown
  <2>2. before \union now1 = {m \in DOMAIN s : m <= o + PageSize} /\ before \intersect now1 = {}
    BY <1>4, <1>6, <2>1
  <2>3. before \subseteq DOMAIN s /\ now1 \subseteq DOMAIN s
    OBVIOUS
  <2>4. paging'.offset = o + PageSize /\ paging'.shown = paging.shown \union Page(s, o)
        /\ paging'.twice = paging.twice \union (paging.shown \intersect Page(s, o))
    BY <1>5
  <2> HIDE DEF o, before, now1
  <2>5. paging'.shown = {s[n].id : n \in before \union now1}
    BY <2>1, <2>4
  <2>6. paging.shown \intersect Page(s, o) = {}
    BY <1>6, <2>1, <2>2, <2>3
  <2>7. paging'.twice = {}
    BY <1>8, <2>4, <2>6 DEF Shown
  <2>8. paging'.shown = {s[n].id : n \in {m \in DOMAIN s : m <= paging'.offset}}
    BY <2>2, <2>4, <2>5
  <2>9. paging'.all = {s[n].id : n \in DOMAIN s}
    BY <1>5, <1>8 DEF Shown
  <2>10. paging'.offset < Len(s) => paging'.open
    BY <1>5
  <2> QED  BY <2>7, <2>8, <2>9, <2>10 DEF Shown
<1>10. found \in Searched(q)' /\ s \in Answers(found, q)'
  BY <1>4, ReadsAlone
<1>11. ASSUME ~q.text, NEW c \in fill'  PROVE Awaited(c, q)'
  <2>1. CASE c \in fill
    BY <1>1, <1>4, <1>7, <1>11, <2>1, ReadsAlone DEF Paged
  <2>2. CASE c \in found
    BY <1>4, <1>11, <2>2, FoundAwaited, ReadsAlone
  <2> QED  BY <1>3, <2>1, <2>2 DEF Fill
<1> QED  BY <1>9, <1>10, <1>11

\* A step that leaves paging and what it reads alone, and fills in what changes nothing.
LEMMA PagedFrame ==
  ASSUME RecallsTyped, Paged, UNCHANGED Reads, UNCHANGED paging,
         \A c \in fill' : c \in fill \/ \A r : Awaited(c, r)
  PROVE  Paged'
<1> SUFFICES ASSUME NEW q \in Queries, paging'.q = q, paging'.steady, ~paging'.aged
             PROVE  /\ \E x \in Searched(q)' : \E t \in Answers(x, q)' : Shown(t)'
                    /\ q.text \/ \A c \in fill' : Awaited(c, q)'
  BY DEF Paged
<1>1. /\ \E x \in Searched(q) : \E t \in Answers(x, q) : Shown(t)
      /\ q.text \/ \A c \in fill : Awaited(c, q)
  BY DEF Paged
<1>2. \A t : Shown(t)' = Shown(t)
  BY DEF Shown
<1>3. Searched(q)' = Searched(q) /\ \A x : Answers(x, q)' = Answers(x, q)
  BY ReadsAlone
<1>4. \A c : Awaited(c, q)' = Awaited(c, q)
  BY ReadsAlone
<1> QED  BY <1>1, <1>2, <1>3, <1>4

LEMMA ContextRecallShows ==
  ASSUME AnswerConstants, RecallsTyped, Paged, ContextRecall
  PROVE  Paged'
<1> USE DEF RecallsTyped
<1> DEFINE q == ByType(Types[Len(kept) + 1])
<1>1. PICK found \in Searched(q) : Fill(found)
  BY DEF ContextRecall
<1>2. q \in Asked
  BY ContextQuery DEF ContextRecall
<1>3. ~q.text /\ ~q.kw
  BY DEF ByType
<1> HIDE DEF q
<1>4. \A c \in fill' : c \in fill \/ \A r : Awaited(c, r)
  BY <1>1, <1>2, <1>3, FoundAwaited DEF Fill
<1>5. UNCHANGED Reads /\ UNCHANGED paging
  BY DEF ContextRecall, Reads
<1> QED  BY <1>4, <1>5, PagedFrame

LEMMA CacheFillShows ==
  ASSUME AnswerConstants, RecallsTyped, RecallsTyped', Paged, NEW e \in fill, CacheFill(e)
  PROVE  Paged'
<1> USE DEF RecallsTyped
<1> SUFFICES ASSUME NEW q \in Queries, paging'.q = q, paging'.steady, ~paging'.aged
             PROVE  /\ \E x \in Searched(q)' : \E t \in Answers(x, q)' : Shown(t)'
                    /\ q.text \/ \A c \in fill' : Awaited(c, q)'
  BY DEF Paged
<1>1. UNCHANGED <<stored, retired, linked, indexed, up, now, paging>>
  BY DEF CacheFill
<1>2. /\ \E x \in Searched(q) : \E t \in Answers(x, q) : Shown(t)
      /\ q.text \/ \A c \in fill : Awaited(c, q)
  BY <1>1 DEF Paged
<1>3. q \in Asked
  BY BoundsAre
<1>4. Candidates(q)' = Candidates(q)
  BY <1>2, <1>3, FillReads
<1>5. Searched(q)' = Searched(q)
  <2>1. \A S : Ranked(S, q)' = Ranked(S, q)
    BY <1>1 DEF Ranked, Score
  <2> QED  BY <1>4, <2>1 DEF Searched
<1>6. \A x : Answers(x, q)' = Answers(x, q)
  <2>1. \A f, n : Copy(f, n)' = Copy(f, n)
    BY <1>1 DEF Copy
  <2>2. \A x : Complete(x, q)' = Complete(x, q)
    BY <1>1, <2>1 DEF Complete, LinkedTo
  <2>3. \A S : Ranked(S, q)' = Ranked(S, q)
    BY <1>1 DEF Ranked, Score
  <2> QED  BY <2>2, <2>3 DEF Answers
<1>7. \A t : Shown(t)' = Shown(t)
  BY <1>1 DEF Shown
<1>8. ASSUME \A c \in fill : Awaited(c, q), NEW c \in fill'  PROVE Awaited(c, q)'
  <2>1. SearchL1(q)' = SearchL1(q)
    BY <1>1 DEF SearchL1, FilterSets, Recent
  <2>2. Copy(c.id, 0)' = Copy(c.id, 0)
    BY <1>1 DEF Copy
  <2>3. c \in fill /\ c # e /\ Awaited(c, q) /\ Awaited(e, q)
    BY <1>8 DEF CacheFill
  <2>4. SUFFICES ASSUME c.id \in SearchL1(q)
        PROVE  hot'[c.id] = <<c>> \/ (hot'[c.id] = <<>> /\ c.id \in stored /\ c = Copy(c.id, 0))
    BY <1>1, <2>1, <2>2 DEF Awaited
  <2>5. hot[c.id] = <<c>> \/ (hot[c.id] = <<>> /\ c.id \in stored /\ c = Copy(c.id, 0))
    BY <2>3, <2>4 DEF Awaited
  <2>6. c.id # e.id
    <3>1. SUFFICES ASSUME c.id = e.id PROVE FALSE
      OBVIOUS
    <3>2. hot[e.id] = <<e>> \/ (hot[e.id] = <<>> /\ e = Copy(e.id, 0))
      BY <2>3, <2>4, <3>1 DEF Awaited
    <3>3. <<c>> # <<>> /\ <<e>> # <<>> /\ <<c>>[1] = c /\ <<e>>[1] = e
      BY Single
    <3> QED  BY <2>3, <2>5, <3>1, <3>2, <3>3
  <2>7. hot'[c.id] = hot[c.id]
    BY <2>6 DEF CacheFill, Caches
  <2> QED  BY <2>5, <2>7
<1> QED  BY <1>2, <1>5, <1>6, <1>7, <1>8

LEMMA DisturbedShows ==
  ASSUME RecallsTyped, Disturbed
  PROVE  Paged'
<1>1. ~paging'.steady
  BY DEF Disturbed, RecallsTyped, PagingTyped
<1> QED  BY <1>1 DEF Paged

LEMMA PagedStep ==
  ASSUME AnswerConstants, Untied, RecallsTyped, RecallsTyped', Paged, [AnswerNext]_answerVars
  PROVE  Paged'
<1>1. CASE UNCHANGED answerVars
  <2>1. UNCHANGED Reads /\ UNCHANGED paging /\ UNCHANGED fill
    BY <1>1 DEF answerVars, Reads
  <2> QED  BY <2>1, PagedFrame
<1>2. ASSUME NEW q \in Queries, FirstPage(q)  PROVE Paged'
  BY <1>2, FirstPageShows
<1>3. CASE NextPage
  BY <1>3, NextPageShows
<1>4. CASE ContextRecall
  BY <1>4, ContextRecallShows
<1>5. CASE ContextEnd
  <2>1. UNCHANGED Reads /\ UNCHANGED paging /\ UNCHANGED fill
    BY <1>5 DEF ContextEnd, Reads
  <2> QED  BY <2>1, PagedFrame
<1>6. ASSUME NEW f \in Frag, Retire(f)  PROVE Paged'
  BY <1>6, DisturbedShows DEF Retire, Write
<1>7. ASSUME NEW f \in Frag, Forget(f)  PROVE Paged'
  BY <1>7, DisturbedShows DEF Forget, Write
<1>8. ASSUME NEW f \in Frag, Expire(f)  PROVE Paged'
  BY <1>8, DisturbedShows DEF Expire
<1>9. ASSUME NEW f \in Frag, NEW g \in Frag, CreateLink(f, g)  PROVE Paged'
  BY <1>9, DisturbedShows DEF CreateLink, Write
<1>10. ASSUME NEW c \in fill, CacheFill(c)  PROVE Paged'
  BY <1>10, CacheFillShows
<1>11. CASE Outage
  BY <1>11, DisturbedShows DEF Outage
<1>12. CASE Tick
  <2>1. paging'.aged
    BY <1>12 DEF Tick, RecallsTyped, PagingTyped
  <2> QED  BY <2>1 DEF Paged
<1> QED  BY <1>1, <1>2, <1>3, <1>4, <1>5, <1>6, <1>7, <1>8, <1>9, <1>10, <1>11, <1>12 DEF AnswerNext

-----------------------------------------------------------------------------
(* The context.                                                             *)

Acc == [used : Int, total : Nat, placed : Seq(Frag), full : BOOLEAN, count : [Kinds -> Nat]]

LEMMA PlaceIs ==
  ASSUME AnswerConstants, NEW a \in Acc, NEW f \in Frag
  PROVE  LET b == Place(a, f) IN
         /\ b \in Acc
         /\ \/ b.placed = a.placed /\ b.used = a.used /\ b.total = a.total
            \/ /\ b.placed = Append(a.placed, f) /\ b.total = a.total + 1 /\ a.total < MaxCore
               /\ b.used <= CoreBudget
<1> DEFINE k == Kind[f]
           left == CoreBudget - a.used
           add == [a EXCEPT !.placed = Append(@, f), !.total = @ + 1, !.count[k] = @ + 1]
           b == Place(a, f)
<1>1. /\ k \in Kinds /\ Length[f] \in Nat /\ CoreBudget \in Nat /\ MaxCore \in Nat
      /\ a.used \in Int /\ a.total \in Nat /\ left \in Int
  <2>1. Length \in [Frag -> Nat \ {0}]
    BY DEF AnswerConstants
  <2> QED  BY <2>1, BoundsAre DEF Kinds, Acc
<1>2. /\ add \in Acc /\ add.placed = Append(a.placed, f) /\ add.total = a.total + 1
      /\ add.used = a.used
  <2>1. a = [used |-> a.used, total |-> a.total, placed |-> a.placed, full |-> a.full,
             count |-> a.count]
        /\ a.full \in BOOLEAN /\ a.placed \in Seq(Frag) /\ a.count \in [Kinds -> Nat]
    BY DEF Acc
  <2> DEFINE more == [a.count EXCEPT ![k] = @ + 1]
             p == Append(a.placed, f)
  <2>2. more \in [Kinds -> Nat] /\ p \in Seq(Frag)
    BY <1>1, <2>1
  <2>3. add = [used |-> a.used, total |-> a.total + 1, placed |-> p, full |-> a.full, count |-> more]
    <3>1. add = [a EXCEPT !.placed = p, !.total = a.total + 1, !.count = more]
      BY <2>1
    <3> HIDE DEF more, add, p
    <3> QED  BY <2>1, <3>1
  <2> HIDE DEF more, add, p
  <2>4. add \in Acc /\ add.placed = p /\ add.total = a.total + 1 /\ add.used = a.used
    BY <1>1, <2>1, <2>2, <2>3 DEF Acc
  <2> QED  BY <2>4 DEF p
<1> HIDE DEF add
<1>3. CASE b = a \/ b = [a EXCEPT !.full = TRUE]
  BY <1>3 DEF Acc
<1>4. CASE ~(a.total >= MaxCore) /\ Length[f] <= left /\ b = [add EXCEPT !.used = @ + Length[f]]
  <2> DEFINE u == add.used + Length[f]
  <2>0. u \in Int /\ u = a.used + Length[f] /\ b = [add EXCEPT !.used = u]
    BY <1>1, <1>2, <1>4
  <2> HIDE DEF u, b
  <2>1. b \in Acc /\ b.used = u /\ b.placed = add.placed /\ b.total = add.total
    BY <1>2, <2>0 DEF Acc
  <2>2. b.used <= CoreBudget /\ a.total < MaxCore
    BY <1>1, <1>4, <2>0, <2>1
  <2> QED  BY <1>2, <2>1, <2>2 DEF b
<1>5. CASE ~(a.total >= MaxCore) /\ b = [add EXCEPT !.used = CoreBudget, !.full = TRUE]
  <2> HIDE DEF b
  <2>1. b \in Acc /\ b.used = CoreBudget /\ b.placed = add.placed /\ b.total = add.total
    <3>1. CoreBudget \in Int
      BY <1>1
    <3>2. add = [used |-> add.used, total |-> add.total, placed |-> add.placed, full |-> add.full,
                 count |-> add.count]
          /\ add.total \in Nat /\ add.placed \in Seq(Frag) /\ add.count \in [Kinds -> Nat]
      BY <1>2 DEF Acc
    <3>3. b = [used |-> CoreBudget, total |-> add.total, placed |-> add.placed, full |-> TRUE,
               count |-> add.count]
      BY <1>5, <3>2
    <3> QED  BY <3>1, <3>2, <3>3 DEF Acc
  <2>2. b.used <= CoreBudget /\ a.total < MaxCore
    BY <1>1, <1>5, <2>1
  <2> QED  BY <1>2, <2>1, <2>2 DEF b
<1>6. b = IF a.full \/ a.total >= MaxCore THEN [a EXCEPT !.full = TRUE]
      ELSE IF a.count[k] >= Slots THEN a
      ELSE IF Length[f] <= left THEN [add EXCEPT !.used = @ + Length[f]]
      ELSE IF left > 0 THEN [add EXCEPT !.used = CoreBudget, !.full = TRUE]
      ELSE [a EXCEPT !.full = TRUE]
  BY DEF Place, add
<1> HIDE DEF b, k, left
<1> QED  BY <1>3, <1>4, <1>5, <1>6 DEF b

\* The rounds of the loop, one after the other.
LEMMA PlacingRuns ==
  ASSUME AnswerConstants, NothingPlaced \in Acc, NEW s \in Seq(Frag)
  PROVE  /\ Placing(s) \in [0..Len(s) -> Acc] /\ Placing(s)[0] = NothingPlaced
         /\ \A n \in 1..Len(s) : Placing(s)[n] = Place(Placing(s)[n - 1], s[n])
<1> DEFINE N == Len(s)
           Is(g) == g = [n \in 0..N |-> IF n = 0 THEN NothingPlaced ELSE Place(g[n - 1], s[n])]
           acc == CHOOSE g : Is(g)
<1>1. N \in Nat /\ \A n \in 1..N : s[n] \in Frag
  OBVIOUS
<1>r. /\ 0 \in 0..N
      /\ \A n \in 0..N : n = 0 \/ n \in 1..N
      /\ \A n \in 1..N : n \in 0..N /\ n # 0 /\ n - 1 \in 0..N
  BY <1>1
<1>2. \E g : Is(g)
  <2> DEFINE next == [x \in (1..N) \X Acc |-> Place(x[2], s[x[1]])]
  <2>1. next \in Steps(N, Acc)
    <3>1. \A x \in (1..N) \X Acc : Place(x[2], s[x[1]]) \in Acc
      BY <1>1, PlaceIs
    <3> QED  BY <3>1 DEF Steps
  <2>2. \A n \in 1..N, v \in Acc : next[<<n, v>>] = Place(v, s[n])
    OBVIOUS
  <2> HIDE DEF next, N
  <2>3. PICK g : IsSolution(g, N, Acc, NothingPlaced, next)
    BY <1>1, <2>1, Solution
  <2>4. \A n \in 1..N : g[n] = Place(g[n - 1], s[n])
    BY <1>r, <2>2, <2>3 DEF IsSolution
  <2>5. \A n \in 0..N : g[n] = IF n = 0 THEN NothingPlaced ELSE Place(g[n - 1], s[n])
    BY <1>r, <2>3, <2>4 DEF IsSolution
  <2>6. g = [n \in 0..N |-> g[n]]
    BY <2>3 DEF IsSolution
  <2>7. Is(g)
    BY <2>5, <2>6
  <2> QED  BY <2>7
<1>3. Is(acc)
  BY <1>2
<1>4. Placing(s) = acc
  BY DEF Placing
<1> HIDE DEF acc, N
<1>5. \A n \in 0..N : acc[n] = IF n = 0 THEN NothingPlaced ELSE Place(acc[n - 1], s[n])
  BY <1>3
<1>6. acc[0] = NothingPlaced /\ \A n \in 1..N : acc[n] = Place(acc[n - 1], s[n])
  BY <1>r, <1>5
<1>7. \A n \in 0..N : acc[n] \in Acc
  <2> DEFINE S == {n \in 0..N : acc[n] \in Acc}
  <2>1. 0 \in S
    BY <1>r, <1>6
  <2>2. ASSUME NEW n \in 0..(N - 1), n \in S  PROVE n + 1 \in S
    <3>1. n + 1 \in 1..N /\ (n + 1) - 1 = n /\ n + 1 \in 0..N
      BY <1>1
    <3>2. acc[n + 1] = Place(acc[n], s[n + 1]) /\ s[n + 1] \in Frag
      BY <1>1, <1>6, <3>1
    <3>3. acc[n + 1] \in Acc
      BY <2>2, <3>2, PlaceIs
    <3> QED  BY <3>1, <3>3
  <2> HIDE DEF S
  <2>3. \A n \in 0..N : n \in S
    BY <1>1, <2>1, <2>2, UpTo
  <2> QED  BY <2>3 DEF S
<1>8. acc \in [0..N -> Acc]
  BY <1>3, <1>7
<1> QED  BY <1>4, <1>6, <1>8 DEF N

LEMMA KeptAre ==
  ASSUME AnswerConstants, KeptTyped
  PROVE  /\ Len(kept) \in Nat /\ DOMAIN kept = 1..Len(kept) /\ Tops \subseteq DOMAIN kept
         /\ DOMAIN kept \subseteq DOMAIN Types
         /\ \A n \in DOMAIN kept : kept[n] \in Seq(Copies)
         /\ \A n \in DOMAIN kept : \A i \in DOMAIN kept[n] : kept[n][i].id \in Frag
         /\ \A n \in Tops : 1 \in DOMAIN kept[n] /\ kept[n][1].id \in Frag
         /\ IsFiniteSet(Tops) /\ Cardinality(Tops) \in Nat
<1>1. kept \in Seq(Seq(Copies)) /\ Len(kept) <= Len(Types)
  BY DEF KeptTyped
<1>2. /\ Len(kept) \in Nat /\ DOMAIN kept = 1..Len(kept)
      /\ \A n \in DOMAIN kept : kept[n] \in Seq(Copies)
  BY <1>1
<1>3. DOMAIN kept \subseteq DOMAIN Types
  BY <1>1, <1>2, TypesAre
<1>4. \A n \in DOMAIN kept : \A i \in DOMAIN kept[n] : kept[n][i].id \in Frag
  <2> TAKE n \in DOMAIN kept
  <2> TAKE i \in DOMAIN kept[n]
  <2>1. kept[n] \in Seq(Copies)
    BY <1>2
  <2>2. kept[n][i] \in Copies
    BY <2>1
  <2> QED  BY <2>2, CopyFields
<1>5. Tops \subseteq DOMAIN kept
  BY DEF Tops
<1>6. \A n \in Tops : 1 \in DOMAIN kept[n] /\ kept[n][1].id \in Frag
  <2> TAKE n \in Tops
  <2>1. kept[n] \in Seq(Copies) /\ kept[n] # <<>>
    BY <1>2, <1>5 DEF Tops
  <2>2. 1 \in DOMAIN kept[n]
    BY <2>1
  <2> QED  BY <1>4, <1>5, <2>2
<1>7. IsFiniteSet(Tops) /\ Cardinality(Tops) \in Nat
  <2>1. IsFiniteSet(1..Len(kept))
    BY <1>2, FS_Interval
  <2>2. IsFiniteSet(Tops)
    BY <1>2, <1>5, <2>1, FS_Subset
  <2> QED  BY <2>2, FS_CardinalityType
<1> QED  BY <1>2, <1>3, <1>4, <1>5, <1>6, <1>7

LEMMA NothingPlacedIs ==
  ASSUME AnswerConstants, KeptTyped
  PROVE  NothingPlaced \in Acc
<1>1. TopSizes \in Int
  <2> DEFINE w == [n \in DOMAIN kept |-> TopSize(n)]
  <2>1. \A n \in DOMAIN kept : TopSize(n) \in Nat
    <3> TAKE n \in DOMAIN kept
    <3>1. CASE kept[n] = <<>>
      BY <3>1 DEF TopSize
    <3>2. CASE kept[n] # <<>>
      <4>1. kept[n][1].id \in Frag
        BY <3>2, KeptAre DEF Tops
      <4>2. Length \in [Frag -> Nat \ {0}]
        BY DEF AnswerConstants
      <4> QED  BY <3>2, <4>1, <4>2 DEF TopSize
    <3> QED  BY <3>1, <3>2
  <2>2. Len(kept) \in Nat /\ w \in [1..Len(kept) -> Nat]
    BY <2>1, KeptAre
  <2> HIDE DEF w
  <2>3. Sums(w, Len(kept)) \in [0..Len(kept) -> Nat] /\ Len(kept) \in 0..Len(kept)
    BY <2>2, SumsRun
  <2> QED  BY <2>3 DEF TopSizes, w
<1> DEFINE count == [k \in Kinds |-> Cardinality({n \in Tops : Types[n] = k})]
<1>2. count \in [Kinds -> Nat]
  <2>1. \A k : Cardinality({n \in Tops : Types[n] = k}) \in Nat
    BY KeptAre, FS_Subset, FS_CardinalityType
  <2> QED  BY <2>1
<1>3. NothingPlaced = [used |-> TopSizes, total |-> Cardinality(Tops), placed |-> <<>>,
                       full |-> FALSE, count |-> count]
  BY DEF NothingPlaced
<1> HIDE DEF count
<1>4. <<>> \in Seq(Frag) /\ Cardinality(Tops) \in Nat
  BY KeptAre
<1> QED  BY <1>1, <1>2, <1>3, <1>4 DEF Acc

\* After so many rounds: each placed fragment is one of those looked at, and once; what
\* was placed was within the caps.
Placed(a, s, n) ==
  /\ \A i, j \in DOMAIN a.placed : a.placed[i] = a.placed[j] => i = j
  /\ \A i \in DOMAIN a.placed : \E m \in 1..n : a.placed[i] = s[m]
  /\ a.placed # <<>> => a.used <= CoreBudget /\ a.total <= MaxCore
  /\ a.total = Len(a.placed) + Cardinality(Tops)

LEMMA PlacedAll ==
  ASSUME AnswerConstants, KeptTyped, NEW s \in Seq(Frag),
         \A i, j \in DOMAIN s : s[i] = s[j] => i = j
  PROVE  Placing(s)[Len(s)] \in Acc /\ Placed(Placing(s)[Len(s)], s, Len(s))
<1> DEFINE N == Len(s)
           acc == Placing(s)
           S == {n \in 0..N : Placed(acc[n], s, n)}
<1>1. N \in Nat /\ DOMAIN s = 1..N /\ MaxCore \in Nat /\ Cardinality(Tops) \in Nat
  BY BoundsAre, KeptAre
<1>2. /\ acc \in [0..N -> Acc] /\ acc[0] = NothingPlaced
      /\ \A n \in 1..N : acc[n] = Place(acc[n - 1], s[n])
  BY NothingPlacedIs, PlacingRuns
<1> HIDE DEF acc, N
<1>3. 0 \in S
  <2>1. /\ acc[0].placed = <<>> /\ acc[0].total = Cardinality(Tops)
        /\ Len(<<>>) = 0 /\ DOMAIN <<>> = {}
    BY <1>2 DEF NothingPlaced
  <2>2. Placed(acc[0], s, 0)
    BY <1>1, <2>1 DEF Placed
  <2> QED  BY <1>1, <2>2
<1>4. ASSUME NEW n \in 0..(N - 1), n \in S  PROVE n + 1 \in S
  <2> DEFINE a == acc[n]
             b == acc[n + 1]
             x == s[n + 1]
  <2>1. n \in Nat /\ n \in 0..N /\ n + 1 \in 1..N /\ (n + 1) - 1 = n /\ n + 1 \in 0..N
    BY <1>1
  <2>2. a \in Acc /\ x \in Frag /\ b = Place(a, x)
    <3>1. x \in Frag
      BY <1>1, <2>1
    <3> QED  BY <1>2, <2>1, <3>1
  <2>3. Placed(a, s, n)
    BY <1>4
  <2>4. \A m \in 1..n : s[m] # x /\ m \in 1..(n + 1)
    BY <1>1, <2>1
  <2> HIDE DEF a, b
  <2>5. SUFFICES Placed(b, s, n + 1)
    BY <2>1 DEF b
  <2>6. CASE b.placed = a.placed /\ b.used = a.used /\ b.total = a.total
    BY <2>3, <2>4, <2>6 DEF Placed
  <2>7. CASE /\ b.placed = Append(a.placed, x) /\ b.total = a.total + 1 /\ a.total < MaxCore
             /\ b.used <= CoreBudget
    <3> DEFINE p == a.placed
               r == b.placed
               M == Len(p)
    <3>1. p \in Seq(Frag) /\ M \in Nat /\ DOMAIN p = 1..M /\ a.total \in Nat
      BY <2>2 DEF Acc
    <3>2. DOMAIN r = 1..(M + 1) /\ Len(r) = M + 1 /\ r[M + 1] = x /\ \A i \in 1..M : r[i] = p[i]
      BY <2>2, <2>7, <3>1
    <3>3. \A i \in 1..(M + 1) : i \in 1..M \/ i = M + 1
      BY <3>1
    <3>4. \A i \in 1..M : p[i] # x
      BY <2>3, <2>4, <3>1 DEF Placed
    <3>5. \A i, j \in 1..M : p[i] = p[j] => i = j
      BY <2>3, <3>1 DEF Placed
    <3>6. \A i \in 1..M : \E m \in 1..n : p[i] = s[m]
      BY <2>3, <3>1 DEF Placed
    <3>7. a.total = M + Cardinality(Tops)
      BY <2>3 DEF Placed
    <3> HIDE DEF p, r, M
    <3>8. \A i, j \in DOMAIN r : r[i] = r[j] => i = j
      BY <3>2, <3>3, <3>4, <3>5
    <3>9. \A i \in DOMAIN r : \E m \in 1..(n + 1) : r[i] = s[m]
      <4>1. n + 1 \in 1..(n + 1)
        BY <2>1
      <4> QED  BY <2>4, <3>2, <3>3, <3>6, <4>1
    <3>10. b.used <= CoreBudget /\ b.total <= MaxCore /\ b.total = Len(r) + Cardinality(Tops)
      BY <1>1, <2>7, <3>1, <3>2, <3>7
    <3> QED  BY <3>8, <3>9, <3>10 DEF Placed, r
  <2> QED  BY <2>2, <2>6, <2>7, PlaceIs
<1> HIDE DEF S
<1>5. N \in S
  BY <1>1, <1>3, <1>4, UpTo
<1>6. N \in 0..N
  BY <1>1
<1> QED  BY <1>2, <1>5, <1>6 DEF S, acc, N

\* The core section of a context.
CoreFine ==
  core # <<>> =>
    /\ core.placed \in Seq(Frag)
    /\ \A i, j \in DOMAIN core.placed : core.placed[i] = core.placed[j] => i = j
    /\ DOMAIN core.tops \subseteq DOMAIN Types
    /\ \A n \in DOMAIN core.tops, i \in DOMAIN core.placed : core.placed[i] # core.tops[n]
    /\ core.placed # <<>> => core.used <= CoreBudget /\ core.total <= MaxCore
    /\ core.total = Len(core.placed) + Cardinality(DOMAIN core.tops)

LEMMA ContextEndFine ==
  ASSUME AnswerConstants, KeptTyped, ContextEnd
  PROVE  CoreFine'
<1> DEFINE E == Others \ TopIds
<1>1. PICK s \in Orders(E, Importance) :
        LET acc == Placing(s)[Len(s)] IN
        core' = [used |-> acc.used, total |-> acc.total, placed |-> acc.placed,
                 tops |-> [n \in Tops |-> kept[n][1].id]]
  BY DEF ContextEnd, Extras
<1>2. E \subseteq Frag
  <2>1. ASSUME NEW f \in Others  PROVE f \in Frag
    <3>1. PICK n \in Tops : f \in {kept[n][i].id : i \in DOMAIN kept[n] \ {1}}
      BY DEF Others
    <3>2. PICK i \in DOMAIN kept[n] : f = kept[n][i].id
      BY <3>1
    <3> QED  BY <3>2, KeptAre
  <2> QED  BY <2>1
<1>3. IsFiniteSet(E)
  <2>1. IsFiniteSet(Frag)
    BY DEF AnswerConstants
  <2> QED  BY <1>2, <2>1, FS_Subset
<1>4. s \in Seq(E) /\ DOMAIN s = 1..Len(s) /\ \A i, j \in DOMAIN s : s[i] = s[j] => i = j
  BY <1>3, OrdersAre
<1>5. s \in Seq(Frag) /\ \A m \in 1..Len(s) : s[m] \in E
  BY <1>2, <1>4
<1> DEFINE acc == Placing(s)[Len(s)]
<1>6. acc \in Acc /\ Placed(acc, s, Len(s))
  BY <1>4, <1>5, PlacedAll
<1> DEFINE tops == [n \in Tops |-> kept[n][1].id]
<1>7. /\ core'.used = acc.used /\ core'.total = acc.total /\ core'.placed = acc.placed
      /\ core'.tops = tops
  BY <1>1
<1>8. DOMAIN tops = Tops /\ \A n \in Tops : tops[n] \in TopIds
  BY DEF TopIds
<1>9. \A i \in DOMAIN acc.placed : acc.placed[i] \notin TopIds
  BY <1>5, <1>6 DEF Placed
<1>10. acc.placed \in Seq(Frag)
  BY <1>6 DEF Acc
<1> HIDE DEF acc, tops, E
<1>11. Tops \subseteq DOMAIN Types
  BY KeptAre
<1>12. /\ core'.placed \in Seq(Frag)
       /\ \A i, j \in DOMAIN core'.placed : core'.placed[i] = core'.placed[j] => i = j
       /\ DOMAIN core'.tops \subseteq DOMAIN Types
       /\ \A n \in DOMAIN core'.tops, i \in DOMAIN core'.placed : core'.placed[i] # core'.tops[n]
       /\ core'.placed # <<>> => core'.used <= CoreBudget /\ core'.total <= MaxCore
       /\ core'.total = Len(core'.placed) + Cardinality(DOMAIN core'.tops)
  BY <1>6, <1>7, <1>8, <1>9, <1>10, <1>11 DEF Placed
<1> QED  BY <1>12 DEF CoreFine

LEMMA CoreStep ==
  ASSUME AnswerConstants, KeptTyped, CoreFine, [AnswerNext]_answerVars
  PROVE  CoreFine'
<1>1. CASE ContextEnd
  BY <1>1, ContextEndFine
<1>2. ASSUME UNCHANGED core  PROVE CoreFine'
  BY <1>2 DEF CoreFine
<1>3. ContextEnd \/ UNCHANGED core
  BY DEF AnswerNext, answerVars, FirstPage, NextPage, ContextRecall, Retire, Forget,
         Expire, CreateLink, CacheFill, Outage, Tick, Write
<1> QED  BY <1>1, <1>2, <1>3

LEMMA CoreSound ==
  ASSUME AnswerConstants, CoreFine
  PROVE  ContextSound
<1> SUFFICES ASSUME core # <<>>
    PROVE  /\ \A f \in Frag : AsExtra(f) = 0 \/ (AsExtra(f) = 1 /\ AsTop(f) = 0)
           /\ core.placed # <<>> => core.used <= CoreBudget /\ core.total <= MaxCore
           /\ core.total = Len(core.placed) + Cardinality(DOMAIN core.tops)
  BY DEF ContextSound
<1>1. ASSUME NEW f \in Frag  PROVE AsExtra(f) = 0 \/ (AsExtra(f) = 1 /\ AsTop(f) = 0)
  <2> DEFINE D == (DOMAIN Types) \X (DOMAIN core.placed)
             P == {p \in D : Types[p[1]] = Kind[f] /\ core.placed[p[2]] = f}
  <2>1. CASE P = {}
    BY <2>1, FS_EmptySet DEF AsExtra
  <2>2. CASE P # {}
    <3>1. PICK p : p \in P
      BY <2>2
    <3>2. \A r \in P : r = p
      <4> TAKE r \in P
      <4>1. /\ r[1] \in DOMAIN Types /\ p[1] \in DOMAIN Types /\ Types[r[1]] = Types[p[1]]
            /\ r[2] \in DOMAIN core.placed /\ p[2] \in DOMAIN core.placed
            /\ core.placed[r[2]] = core.placed[p[2]]
            /\ r = <<r[1], r[2]>> /\ p = <<p[1], p[2]>>
        BY <3>1
      <4>2. r[1] = p[1]
        BY <4>1, TypesAre
      <4>3. r[2] = p[2]
        BY <4>1 DEF CoreFine
      <4> QED  BY <4>1, <4>2, <4>3
    <3>3. p[2] \in DOMAIN core.placed /\ core.placed[p[2]] = f
      BY <3>1
    <3>4. AsExtra(f) = Cardinality(P)
      BY DEF AsExtra
    <3> HIDE DEF P
    <3>5. P = {p}
      BY <3>1, <3>2
    <3>6. AsExtra(f) = 1
      BY <3>4, <3>5, FS_Singleton
    <3>7. {n \in DOMAIN core.tops : core.tops[n] = f} = {}
      BY <3>3 DEF CoreFine
    <3>8. AsTop(f) = 0
      BY <3>7, FS_EmptySet DEF AsTop
    <3> QED  BY <3>6, <3>8
  <2> QED  BY <2>1, <2>2
<1> QED  BY <1>1 DEF CoreFine

-----------------------------------------------------------------------------

LEMMA TypedHolds ==
  ASSUME AnswerConstants, RecallsTyped, CoreFine
  PROVE  AnswerTypeOK
<1> USE DEF RecallsTyped
<1>1. ASSUME NEW f \in Frag
      PROVE  hot[f] \in {<<>>} \union {<<c>> : c \in {d \in Copies : d.id = f}}
  BY HotIs
<1>2. /\ paging.q \in Queries /\ {paging.open, paging.steady, paging.aged} \subseteq BOOLEAN
      /\ paging.offset \in Nat /\ paging.twice \subseteq paging.shown /\ paging.shown \subseteq Frag
  BY DEF PagingTyped
<1>3. \A n \in DOMAIN kept : kept[n] \in Seq(Copies)
  BY KeptAre
<1>4. core # <<>> => core.placed \in Seq(Frag) /\ DOMAIN core.tops \subseteq DOMAIN Types
  BY DEF CoreFine
<1> QED  BY <1>1, <1>2, <1>3, <1>4 DEF AnswerTypeOK, Tables, Caches, Counted

LEMMA AnswerInvariant == AnswerSpec => [](RecallsTyped /\ CoreFine)
<1> USE AnswerAssumption
<1>1. AnswerInit => RecallsTyped /\ CoreFine
  BY TypedInit DEF AnswerInit, CoreFine
<1>2. RecallsTyped /\ CoreFine /\ [AnswerNext]_answerVars => RecallsTyped' /\ CoreFine'
  <2> SUFFICES ASSUME RecallsTyped, CoreFine, [AnswerNext]_answerVars
               PROVE  RecallsTyped' /\ CoreFine'
    OBVIOUS
  <2>1. RecallsTyped'
    BY TypedStep
  <2>2. CoreFine'
    BY CoreStep DEF RecallsTyped
  <2> QED  BY <2>1, <2>2
<1> QED  BY <1>1, <1>2, PTL DEF AnswerSpec

\* What recalls and the background cache fills leave behind keeps its types, and the
\* context put together from recalls by type repeats no fragment but a common first
\* one, and exceeds neither coreBudget nor maxCoreFragments by what it adds.
THEOREM AnswersStaySound == AnswerSpec => []AnswersSound
<1> USE AnswerAssumption
<1>1. RecallsTyped /\ CoreFine => AnswersSound
  BY TypedHolds, CoreSound DEF AnswersSound
<1> QED  BY <1>1, AnswerInvariant, PTL

\* A search without a text finds fragments that lack the type or the keywords asked
\* for only where the index had nothing under one of them, and asked for the rest.
THEOREM StrangersAreFallback == AnswerSpec => []StrangersFromFallback
<1> USE AnswerAssumption
<1>1. RecallsTyped /\ CoreFine => StrangersFromFallback
  BY StrangersHold DEF RecallsTyped
<1> QED  BY <1>1, AnswerInvariant, PTL

\* A search by keywords finds every current fragment that fits, whatever the index and
\* the hot cache have of it, but for those that tokenBudget cuts off.
THEOREM MatchesAreFound == AnswerSpec => []MatchesFound
<1> USE AnswerAssumption
<1>1. RecallsTyped /\ CoreFine => MatchesFound
  BY MatchesHold DEF RecallsTyped
<1> QED  BY <1>1, AnswerInvariant, PTL

\* Where no two fragments rank alike, the pages of a recall, each a whole recall again
\* through the cache the ones before have filled, show what the first found, all of it
\* and each fragment once, as long as nothing is written and no time passes.
THEOREM PagesAreWhole == Untied => (AnswerSpec => []PagesShowAll)
<1> SUFFICES ASSUME Untied  PROVE AnswerSpec => []PagesShowAll
  OBVIOUS
<1> USE AnswerAssumption
<1>1. AnswerInit => Paged
  BY DEF AnswerInit, NoPaging, Paged
<1>2. RecallsTyped /\ RecallsTyped' /\ Paged /\ [AnswerNext]_answerVars => Paged'
  BY PagedStep
<1>3. RecallsTyped /\ Paged => PagesShowAll
  BY PagedShowsAll
<1> QED  BY <1>1, <1>2, <1>3, AnswerInvariant, PTL DEF AnswerSpec
=============================================================================
