------------------------ MODULE TrafficChartsProofs ------------------------
(***************************************************************************)
(* What the charts of the traffic show, for any number of clients, points, *)
(* restarts, failures and late answers, and any limits of the histories.   *)
(***************************************************************************)
EXTENDS TrafficSeriesProofs, WellFoundedInduction

-----------------------------------------------------------------------------
(* Sums and orders.                                                         *)

LEMMA Least ==
  ASSUME NEW T \in SUBSET Nat, T # {}
  PROVE  \E x \in T : \A y \in T : x <= y
<1> DEFINE R == {xy \in Nat \X Nat : xy[1] < xy[2]}
<1>1. IsWellFoundedOn(R, Nat)
  BY NatLessThanWellFounded DEF OpToRel
<1>2. \E x \in T : \A y \in T : ~ (<<y, x>> \in R)
  <2> HIDE DEF R
  <2> QED
    BY <1>1, WFMin
<1>3. PICK x \in T : \A y \in T : ~ (<<y, x>> \in R)
  BY <1>2
<1>4. ASSUME NEW y \in T PROVE x <= y
  <2>1. x \in Nat /\ y \in Nat /\ ~(y < x)
    BY <1>3
  <2> QED
    BY <2>1
<1> QED
  BY <1>4

\* Induction, with a set in place of a predicate.
LEMMA Induct ==
  ASSUME NEW n \in Nat, NEW T, 1 \in T, \A i \in 1 .. n : i \in T /\ i < n => i + 1 \in T
  PROVE  \A i \in 1 .. n : i \in T
<1> DEFINE Rest == {i \in 1 .. n : i \notin T}
<1> SUFFICES ASSUME Rest # {} PROVE FALSE
  OBVIOUS
<1>1. PICK x \in Rest : \A y \in Rest : x <= y
  <2>1. Rest \in SUBSET Nat
    OBVIOUS
  <2> HIDE DEF Rest
  <2> QED
    BY <2>1, Least
<1>2. x \in 2 .. n /\ x - 1 \in 1 .. n /\ x - 1 < n
  BY <1>1
<1>3. x - 1 \in T
  BY <1>1, <1>2
<1>4. x - 1 + 1 = x
  BY <1>2
<1> QED
  BY <1>1, <1>2, <1>3, <1>4

\* One term more.
LEMMA TotalPlusTerm ==
  ASSUME NEW S, IsFiniteSet(S), NEW f, NEW p, p \notin S,
         \A q \in S : f[q] \in Nat, f[p] \in Nat
  PROVE  Total(f, S \cup {p}) = Total(f, S) + f[p]
<1> DEFINE column == {p} \X (1 .. f[p])
<1>1. IsFiniteSet(Units(f, S)) /\ IsFiniteSet(column) /\ Cardinality(column) = f[p]
  BY UnitsFinite, Column
<1>2. Units(f, S \cup {p}) = Units(f, S) \cup column
  BY DEF Units
<1>3. Units(f, S) \cap column = {}
  BY DEF Units
<1>4. Cardinality(Units(f, S) \cup column)
        = Cardinality(Units(f, S)) + Cardinality(column) - Cardinality(Units(f, S) \cap column)
  <2> HIDE DEF column
  <2> QED
    BY <1>1, FS_Union
<1>5. Cardinality(Units(f, S)) \in Nat /\ Cardinality(Units(f, S) \cap column) = 0
  BY <1>1, <1>3, FS_CardinalityType, FS_EmptySet
<1>6. f[p] + 0 = f[p]
  OBVIOUS
<1> HIDE DEF column
<1>7. Cardinality(Units(f, S) \cup column) = Cardinality(Units(f, S)) + f[p]
  BY <1>1, <1>4, <1>5
<1> QED
  BY <1>2, <1>7, Zenon DEF Total, Units

\* One term more at the end of an interval.
LEMMA TotalToNext ==
  ASSUME NEW f, NEW m \in Int, NEW n \in Int, m <= n + 1,
         \A i \in m .. n + 1 : f[i] \in Nat
  PROVE  Total(f, m .. n + 1) = Total(f, m .. n) + f[n + 1]
<1> DEFINE S == m .. n
           k == n + 1
<1>1. m .. n + 1 = S \cup {k} /\ k \notin S
  OBVIOUS
<1>2. IsFiniteSet(S)
  BY FS_Interval
<1>3. f[k] \in Nat /\ \A i \in S : f[i] \in Nat
  OBVIOUS
<1>4. Total(f, S \cup {k}) = Total(f, S) + f[k]
  <2> HIDE DEF S, k
  <2> QED
    BY <1>1, <1>2, <1>3, TotalPlusTerm
<1> QED
  BY <1>1, <1>4

LEMMA TotalOfNone ==
  ASSUME NEW f PROVE Total(f, {}) = 0
<1>1. Units(f, {}) = {}
  BY DEF Units
<1> QED
  BY <1>1, FS_EmptySet DEF Total, Units

LEMMA TotalSame ==
  ASSUME NEW S, NEW f, NEW g, \A p \in S : f[p] = g[p]
  PROVE  Total(f, S) = Total(g, S)
<1>1. Units(f, S) = Units(g, S)
  BY DEF Units
<1> QED
  BY <1>1 DEF Total, Units

LEMMA TotalOfSum ==
  ASSUME NEW S, IsFiniteSet(S), NEW f, NEW g, NEW h,
         \A p \in S : f[p] \in Nat /\ g[p] \in Nat /\ h[p] = f[p] + g[p]
  PROVE  Total(h, S) = Total(f, S) + Total(g, S)
<1> DEFINE F == Units(f, S)
           G == Units(g, S)
           H == Units(h, S)
           move == [u \in G |-> <<u[1], f[u[1]] + u[2]>>]
<1>0. \A p \in S : h[p] \in Nat
  OBVIOUS
<1>1. /\ IsFiniteSet(F) /\ IsFiniteSet(G) /\ IsFiniteSet(H)
      /\ Total(f, S) = Cardinality(F) /\ Total(g, S) = Cardinality(G) /\ Total(h, S) = Cardinality(H)
  BY <1>0, UnitsFinite DEF Total, Units
<1>2. /\ \A u \in F : u[1] \in S /\ u[2] \in 1 .. f[u[1]] /\ u = <<u[1], u[2]>>
      /\ \A u \in G : u[1] \in S /\ u[2] \in 1 .. g[u[1]] /\ u = <<u[1], u[2]>>
      /\ \A u \in H : u[1] \in S /\ u[2] \in 1 .. h[u[1]] /\ u = <<u[1], u[2]>>
      /\ \A p \in S : \A i : /\ <<p, i>> \in F <=> i \in 1 .. f[p]
                             /\ <<p, i>> \in G <=> i \in 1 .. g[p]
                             /\ <<p, i>> \in H <=> i \in 1 .. h[p]
  BY DEF Units
<1> HIDE DEF F, G, H
<1>3. F \subseteq H
  <2> SUFFICES ASSUME NEW u \in F PROVE u \in H
    OBVIOUS
  <2>1. u[1] \in S /\ u[2] \in 1 .. f[u[1]] /\ u = <<u[1], u[2]>>
    BY <1>2
  <2>2. u[2] \in 1 .. h[u[1]]
    BY <2>1
  <2>3. <<u[1], u[2]>> \in H
    BY <1>2, <2>1, <2>2
  <2> QED
    BY <2>1, <2>3, Zenon
<1>4. \A u \in G : move[u] \in H \ F
  <2> SUFFICES ASSUME NEW u \in G PROVE <<u[1], f[u[1]] + u[2]>> \in H \ F
    OBVIOUS
  <2>1. u[1] \in S /\ u[2] \in 1 .. g[u[1]]
    BY <1>2
  <2>2. f[u[1]] + u[2] \in 1 .. h[u[1]] /\ ~(f[u[1]] + u[2] \in 1 .. f[u[1]])
    BY <2>1
  <2> QED
    BY <1>2, <2>1, <2>2
<1>5. \A u, v \in G : move[u] = move[v] => u = v
  <2> SUFFICES ASSUME NEW u \in G, NEW v \in G, move[u] = move[v] PROVE u = v
    OBVIOUS
  <2>1. u[1] = v[1] /\ f[u[1]] + u[2] = f[v[1]] + v[2]
    OBVIOUS
  <2>2. u[2] = v[2]
    BY <1>2, <2>1
  <2>3. u = <<u[1], u[2]>> /\ v = <<v[1], v[2]>>
    BY <1>2
  <2> QED
    BY <2>1, <2>2, <2>3, Zenon
<1>6. \A w \in H \ F : \E u \in G : move[u] = w
  <2> SUFFICES ASSUME NEW w \in H \ F PROVE \E u \in G : move[u] = w
    OBVIOUS
  <2>1. w[1] \in S /\ w[2] \in 1 .. h[w[1]] /\ w = <<w[1], w[2]>>
    BY <1>2
  <2>2. ~(w[2] \in 1 .. f[w[1]])
    BY <1>2, <2>1
  <2>3. w[2] - f[w[1]] \in 1 .. g[w[1]] /\ f[w[1]] + (w[2] - f[w[1]]) = w[2]
    BY <2>1, <2>2
  <2> DEFINE u == <<w[1], w[2] - f[w[1]]>>
  <2>4. u \in G
    BY <1>2, <2>1, <2>3
  <2>5. move[u] = <<w[1], w[2]>>
    BY <2>3, <2>4
  <2> QED
    BY <2>1, <2>4, <2>5
<1>7. Cardinality(H \ F) = Cardinality(G)
  <2>1. move \in Bijection(G, H \ F)
    BY <1>4, <1>5, <1>6 DEF Bijection, Injection, Surjection, IsInjective
  <2> HIDE DEF move
  <2> QED
    BY <1>1, <2>1, FS_Bijection DEF ExistsBijection
<1>8. Cardinality(H \ F) = Cardinality(H) - Cardinality(F)
  <2>1. H \cap F = F
    BY <1>3
  <2>2. Cardinality(H \ F) = Cardinality(H) - Cardinality(H \cap F)
    BY <1>1, FS_Difference, Zenon
  <2> QED
    BY <2>1, <2>2, Zenon
<1>9. Cardinality(F) \in Nat /\ Cardinality(G) \in Nat /\ Cardinality(H) \in Nat
  BY <1>1, FS_CardinalityType
<1> QED
  BY <1>1, <1>7, <1>8, <1>9

\* What the terms of two sums gain together, the sums gain.
LEMMA TotalsGain ==
  ASSUME NEW S, IsFiniteSet(S), NEW C \in SUBSET S, NEW f, NEW g, NEW h, NEW k,
         \A p \in S : f[p] \in Nat /\ g[p] \in Nat /\ h[p] \in Nat /\ k[p] \in Nat /\ h[p] <= k[p],
         \A p \in C : f[p] + h[p] <= g[p] + k[p]
  PROVE  Total(f, C) + Total(h, S) <= Total(g, C) + Total(k, S)
<1> DEFINE fc == [p \in S |-> IF p \in C THEN f[p] ELSE 0]
           gc == [p \in S |-> IF p \in C THEN g[p] ELSE 0]
           fh == [p \in S |-> fc[p] + h[p]]
           gk == [p \in S |-> gc[p] + k[p]]
<1>1. Total(f, C) = Total(fc, S) /\ Total(g, C) = Total(gc, S)
  <2>1. Units(f, C) = Units(fc, S) /\ Units(g, C) = Units(gc, S)
    BY DEF Units
  <2> QED
    BY <2>1 DEF Total, Units
<1>2. \A p \in S : fc[p] \in Nat /\ gc[p] \in Nat
  OBVIOUS
<1>3. \A p \in S : fh[p] = fc[p] + h[p] /\ gk[p] = gc[p] + k[p]
  OBVIOUS
<1>4. \A p \in S : fc[p] + h[p] <= gc[p] + k[p]
  <2> SUFFICES ASSUME NEW p \in S PROVE fc[p] + h[p] <= gc[p] + k[p]
    OBVIOUS
  <2>1. CASE p \in C
    BY <2>1
  <2>2. CASE p \notin C
    BY <2>2
  <2> QED
    BY <2>1, <2>2
<1> HIDE DEF fc, gc, fh, gk
<1>5. Total(fh, S) = Total(fc, S) + Total(h, S) /\ Total(gk, S) = Total(gc, S) + Total(k, S)
  BY <1>2, <1>3, TotalOfSum
<1>6. Total(fh, S) <= Total(gk, S)
  <2>1. \A p \in S : fh[p] \in Nat /\ gk[p] \in Nat /\ fh[p] <= gk[p]
    BY <1>2, <1>3, <1>4
  <2>2. S \in SUBSET S
    OBVIOUS
  <2> QED
    BY <2>1, <2>2, TotalLess
<1> QED
  BY <1>1, <1>5, <1>6

LEMMA TotalOfZeroes ==
  ASSUME NEW S, NEW f, \A p \in S : f[p] = 0
  PROVE  Total(f, S) = 0
<1>1. Units(f, S) = {}
  BY DEF Units
<1> QED
  BY <1>1, FS_EmptySet DEF Total, Units

\* Function h carries the terms of f on S to those of g on T; what is left there
\* are zeroes.
Carries(h, f, S, g, T) ==
    /\ h \in [S -> T]
    /\ \A i, j \in S : h[i] = h[j] => i = j
    /\ \A i \in S : f[i] \in Nat /\ g[h[i]] = f[i]
    /\ \A t \in T : (\A i \in S : h[i] # t) => g[t] = 0

LEMMA TotalCarried ==
  ASSUME NEW S, NEW T, IsFiniteSet(S), NEW f, NEW g, NEW h, Carries(h, f, S, g, T)
  PROVE  Total(f, S) = Total(g, T)
<1>0. /\ h \in [S -> T]
      /\ \A i, j \in S : h[i] = h[j] => i = j
      /\ \A i \in S : f[i] \in Nat /\ g[h[i]] = f[i]
      /\ \A t \in T : (\A i \in S : h[i] # t) => g[t] = 0
  BY DEF Carries
<1> DEFINE move == [u \in Units(f, S) |-> <<h[u[1]], u[2]>>]
<1>1. IsFiniteSet(Units(f, S))
  BY <1>0, UnitsFinite
<1>2. \A u \in Units(f, S) : u[1] \in S /\ u[2] \in 1 .. f[u[1]] /\ u = <<u[1], u[2]>>
  BY DEF Units
<1>3. \A u \in Units(f, S) : <<h[u[1]], u[2]>> \in Units(g, T)
  <2> SUFFICES ASSUME NEW u \in Units(f, S) PROVE <<h[u[1]], u[2]>> \in Units(g, T)
    OBVIOUS
  <2>1. u[1] \in S /\ u[2] \in 1 .. f[u[1]]
    BY <1>2
  <2>2. h[u[1]] \in T /\ u[2] \in 1 .. g[h[u[1]]]
    BY <1>0, <2>1
  <2> QED
    BY <2>2 DEF Units
<1>4. \A u, v \in Units(f, S) : move[u] = move[v] => u = v
  <2> SUFFICES ASSUME NEW u \in Units(f, S), NEW v \in Units(f, S), move[u] = move[v]
               PROVE  u = v
    OBVIOUS
  <2>1. h[u[1]] = h[v[1]] /\ u[2] = v[2]
    OBVIOUS
  <2>2. u[1] = v[1]
    BY <1>0, <1>2, <2>1
  <2>3. u = <<u[1], u[2]>> /\ v = <<v[1], v[2]>>
    BY <1>2
  <2> QED
    BY <2>1, <2>2, <2>3, Zenon
<1>5. \A w \in Units(g, T) : \E u \in Units(f, S) : move[u] = w
  <2> SUFFICES ASSUME NEW w \in Units(g, T) PROVE \E u \in Units(f, S) : move[u] = w
    OBVIOUS
  <2>1. PICK t \in T : w \in {t} \X (1 .. g[t])
    BY DEF Units
  <2>2. w[2] \in 1 .. g[t] /\ w = <<t, w[2]>>
    BY <2>1
  <2>3. PICK i \in S : h[i] = t
    <3>1. g[t] # 0
      BY <2>2
    <3> QED
      BY <1>0, <3>1
  <2>4. w[2] \in 1 .. f[i]
    <3>1. g[h[i]] = f[i]
      BY <1>0
    <3> QED
      BY <2>2, <2>3, <3>1, Zenon
  <2>5. <<i, w[2]>> \in Units(f, S)
    BY <2>4 DEF Units
  <2>6. move[<<i, w[2]>>] = <<h[i], w[2]>>
    BY <2>5
  <2> QED
    BY <2>2, <2>3, <2>5, <2>6
<1>6. move \in Bijection(Units(f, S), Units(g, T))
  BY <1>3, <1>4, <1>5 DEF Bijection, Injection, Surjection, IsInjective
<1>7. Cardinality(Units(g, T)) = Cardinality(Units(f, S))
  <2> HIDE DEF move
  <2> QED
    BY <1>1, <1>6, FS_Bijection DEF ExistsBijection
<1> QED
  BY <1>7 DEF Total, Units

\* The times of a set, and the entries of a sequence, in their order.
LEMMA AscendingOrder ==
  ASSUME NEW T \in SUBSET Int, IsFiniteSet(T)
  PROVE  /\ Cardinality(T) \in Nat
         /\ Ascending(T) \in [1 .. Cardinality(T) -> T]
         /\ \A i, j \in 1 .. Cardinality(T) : i < j <=> Ascending(T)[i] < Ascending(T)[j]
         /\ \A i, j \in 1 .. Cardinality(T) : Ascending(T)[i] = Ascending(T)[j] => i = j
         /\ \A t \in T : \E i \in 1 .. Cardinality(T) : Ascending(T)[i] = t
<1> DEFINE n == Cardinality(T)
           a == Ascending(T)
           Below(t) == {u \in T : u < t}
           rank == [t \in T |-> Cardinality(Below(t)) + 1]
<1>1. n \in Nat
  BY FS_CardinalityType
<1>2. ASSUME NEW t \in T
      PROVE  IsFiniteSet(Below(t)) /\ Cardinality(Below(t)) \in 0 .. n - 1
  <2>1. IsFiniteSet(Below(t)) /\ Cardinality(Below(t)) <= n /\ Cardinality(Below(t)) # n
    <3>1. Below(t) \in SUBSET T /\ Below(t) # T
      OBVIOUS
    <3> HIDE DEF Below
    <3> QED
      BY <3>1, FS_Subset
  <2>2. Cardinality(Below(t)) \in Nat
    BY <2>1, FS_CardinalityType
  <2> HIDE DEF Below, n
  <2> QED
    BY <1>1, <2>1, <2>2
<1>3. ASSUME NEW t \in T, NEW u \in T, u < t
      PROVE  Cardinality(Below(u)) < Cardinality(Below(t))
  <2>1. Below(u) \in SUBSET Below(t) /\ u \in Below(t) /\ u \notin Below(u)
    <3>1. t \in Int /\ u \in Int /\ \A x \in T : x \in Int
      OBVIOUS
    <3>2. \A x \in T : x < u => x < t
      BY <1>3, <3>1
    <3>3. Below(u) \in SUBSET Below(t)
      BY <3>2
    <3>4. u \in Below(t)
      BY <1>3
    <3>5. ~(u < u)
      BY <3>1
    <3> QED
      BY <3>3, <3>4, <3>5
  <2>2. Cardinality(Below(u)) <= Cardinality(Below(t)) /\ Cardinality(Below(u)) # Cardinality(Below(t))
    <3>1. IsFiniteSet(Below(t))
      BY <1>2
    <3> HIDE DEF Below
    <3> QED
      BY <2>1, <3>1, FS_Subset
  <2>3. Cardinality(Below(u)) \in Nat /\ Cardinality(Below(t)) \in Nat
    BY <1>1, <1>2
  <2> HIDE DEF Below
  <2> QED
    BY <2>2, <2>3
<1>4. ASSUME NEW t \in T, NEW u \in T, Cardinality(Below(u)) = Cardinality(Below(t))
      PROVE  t = u
  <2>1. Cardinality(Below(u)) \in Int
    BY <1>1, <1>2
  <2> HIDE DEF Below
  <2> QED
    BY <1>3, <1>4, <2>1
<1>5. rank \in Injection(T, 1 .. n)
  <2>1. \A t \in T : Cardinality(Below(t)) + 1 \in 1 .. n
    <3> HIDE DEF Below, n
    <3> QED
      BY <1>1, <1>2
  <2>2. \A t, u \in T : rank[t] = rank[u] => t = u
    <3> SUFFICES ASSUME NEW t \in T, NEW u \in T, rank[t] = rank[u] PROVE t = u
      OBVIOUS
    <3>1. Cardinality(Below(t)) + 1 = Cardinality(Below(u)) + 1
      OBVIOUS
    <3>2. Cardinality(Below(t)) \in Int /\ Cardinality(Below(u)) \in Int
      BY <1>1, <1>2
    <3>3. Cardinality(Below(t)) = Cardinality(Below(u))
      <4> HIDE DEF Below
      <4> QED
        BY <3>1, <3>2
    <3> QED
      BY <1>4, <3>3
  <2> HIDE DEF Below, n
  <2> QED
    BY <2>1, <2>2 DEF Injection, IsInjective
<1>6. ASSUME NEW i \in 1 .. n PROVE \E t \in T : Cardinality(Below(t)) = i - 1
  <2>1. IsFiniteSet(1 .. n) /\ Cardinality(1 .. n) = n
    BY <1>1, FS_Interval
  <2>2. rank \in Surjection(T, 1 .. n)
    <3> HIDE DEF rank
    <3> QED
      BY <1>5, <2>1, FS_Injection
  <2>3. PICK t \in T : rank[t] = i
    BY <2>2 DEF Surjection
  <2>4. Cardinality(Below(t)) + 1 = i /\ Cardinality(Below(t)) \in Int
    BY <1>1, <1>2, <2>3
  <2> HIDE DEF Below
  <2> QED
    BY <1>1, <2>4
<1>7. ASSUME NEW i \in 1 .. n PROVE a[i] \in T /\ Cardinality(Below(a[i])) = i - 1
  <2>1. a[i] = CHOOSE t \in T : Cardinality(Below(t)) = i - 1
    BY DEF Ascending
  <2> HIDE DEF Below, a
  <2> QED
    BY <1>6, <2>1
<1>8. a \in [1 .. n -> T]
  BY <1>7 DEF Ascending
<1>9. ASSUME NEW i \in 1 .. n, NEW j \in 1 .. n PROVE i < j <=> a[i] < a[j]
  <2>1. a[i] \in Int /\ a[j] \in Int /\ i \in Int /\ j \in Int
    <3>1. a[i] \in T /\ a[j] \in T
      BY <1>7
    <3>2. \A x \in T : x \in Int
      OBVIOUS
    <3>3. \A x \in 1 .. n : x \in Int
      BY <1>1
    <3> HIDE DEF a, n
    <3> QED
      BY <3>1, <3>2, <3>3, Zenon
  <2>2. a[i] < a[j] => i - 1 < j - 1
    BY <1>3, <1>7
  <2>3. a[j] < a[i] => j - 1 < i - 1
    BY <1>3, <1>7
  <2>4. a[i] = a[j] => i - 1 = j - 1
    <3> HIDE DEF Below
    <3> QED
      BY <1>7
  <2> HIDE DEF a
  <2> QED
    BY <2>1, <2>2, <2>3, <2>4
<1>10. ASSUME NEW i \in 1 .. n, NEW j \in 1 .. n, a[i] = a[j] PROVE i = j
  <2>1. i - 1 = j - 1
    <3> HIDE DEF Below
    <3> QED
      BY <1>7, <1>10
  <2> QED
    BY <2>1
<1>11. ASSUME NEW t \in T PROVE \E i \in 1 .. n : a[i] = t
  <2>1. rank[t] \in 1 .. n /\ rank[t] = Cardinality(Below(t)) + 1
    BY <1>5 DEF Injection
  <2>2. Cardinality(Below(a[rank[t]])) = Cardinality(Below(t)) /\ a[rank[t]] \in T
    <3>1. Cardinality(Below(a[rank[t]])) = rank[t] - 1 /\ a[rank[t]] \in T
      BY <1>7, <2>1
    <3>2. Cardinality(Below(t)) \in Int
      BY <1>1, <1>2
    <3> HIDE DEF Below, rank, a
    <3> QED
      BY <2>1, <3>1, <3>2
  <2> HIDE DEF Below, rank, a
  <2> QED
    BY <1>4, <2>1, <2>2
<1> QED
  BY <1>1, <1>8, <1>9, <1>10, <1>11

LEMMA Greatest ==
  ASSUME NEW I \in SUBSET Int, IsFiniteSet(I), I # {}
  PROVE  \E x \in I : \A y \in I : y <= x
<1> DEFINE n == Cardinality(I)
           a == Ascending(I)
<1>1. /\ n \in Nat /\ a \in [1 .. n -> I]
      /\ \A i, j \in 1 .. n : i < j <=> a[i] < a[j]
      /\ \A t \in I : \E i \in 1 .. n : a[i] = t
  BY AscendingOrder
<1>2. n \in 1 .. n
  <2>1. \E i \in 1 .. n : TRUE
    BY <1>1
  <2> HIDE DEF n
  <2> QED
    BY <1>1, <2>1
<1> HIDE DEF a, n
<1>3. ASSUME NEW y \in I PROVE y <= a[n]
  <2>1. PICK i \in 1 .. n : a[i] = y
    BY <1>1
  <2>2. i < n \/ i = n
    BY <1>1
  <2>3. a[n] \in Int /\ y \in Int
    BY <1>1, <1>2
  <2> QED
    BY <1>1, <1>2, <2>1, <2>2, <2>3
<1> QED
  BY <1>1, <1>2, <1>3

LEMMA SelectOrder ==
  ASSUME NEW s, NEW I \in SUBSET Int, IsFiniteSet(I)
  PROVE  /\ DOMAIN Select(s, I) = 1 .. Cardinality(I)
         /\ \A k \in 1 .. Cardinality(I) : Select(s, I)[k] = s[Ascending(I)[k]]
<1>1. DOMAIN Ascending(I) = 1 .. Cardinality(I)
  BY AscendingOrder
<1> QED
  BY <1>1 DEF Select

\* The sum over selected entries.
LEMMA TotalSelected ==
  ASSUME NEW I \in SUBSET Int, IsFiniteSet(I), NEW f, \A i \in I : f[i] \in Nat,
         NEW g, \A k \in 1 .. Cardinality(I) : g[k] = f[Ascending(I)[k]]
  PROVE  Total(g, 1 .. Cardinality(I)) = Total(f, I)
<1> DEFINE n == Cardinality(I)
           a == Ascending(I)
<1>1. /\ n \in Nat /\ a \in [1 .. n -> I]
      /\ \A i, j \in 1 .. n : a[i] = a[j] => i = j
      /\ \A t \in I : \E i \in 1 .. n : a[i] = t
  BY AscendingOrder
<1>2. IsFiniteSet(1 .. n)
  BY <1>1, FS_Interval
<1>3. \A k \in 1 .. n : g[k] = f[a[k]]
  OBVIOUS
<1> HIDE DEF n, a
<1>4. \A k \in 1 .. n : g[k] \in Nat /\ f[a[k]] = g[k]
  BY <1>1, <1>3
<1>5. \A t \in I : (\A i \in 1 .. n : a[i] # t) => f[t] = 0
  BY <1>1
<1>6. Carries(a, g, 1 .. n, f, I)
  BY <1>1, <1>4, <1>5, Zenon DEF Carries
<1>7. Total(g, 1 .. n) = Total(f, I)
  BY <1>2, <1>6, TotalCarried
<1> QED
  BY <1>7 DEF n

-----------------------------------------------------------------------------
(* The batches of the collector.                                            *)

Rows == 1 .. Len(peerPoints)
Has(p, i) == p \in DOMAIN peerPoints[i].rx

\* p has points from row m to row z, of dumps that did not fail and none of
\* which is older than the one before.
Run(p, m, z) ==
    /\ \A i \in m .. z : Has(p, i) /\ peerPoints[i].dump # 0
    /\ \A i \in m + 1 .. z : peerPoints[i - 1].dump <= peerPoints[i].dump

\* What p received between two rows, as the charts count it.
Rises(p) ==
    [i \in 2 .. Len(peerPoints) |->
        PositiveDiff(peerPoints[i].rx[p], peerPoints[i - 1].rx[p])]
Moves(p, m, z) == Total(Rises(p), m + 1 .. z)

\* One batch in a second. A client that is missing from one is missing from
\* all that follow.
BatchesInv ==
    /\ \A i, j \in Rows : i < j => peerPoints[i].timestamp < peerPoints[j].timestamp
    /\ \A p \in Peers : \A i, j \in Rows :
          i < j /\ Has(p, i) /\ ~Has(p, j) => \A k \in Rows : j <= k => ~Has(p, k)

LEMMA RowFields ==
  ASSUME TypesInv, NEW i \in Rows
  PROVE  /\ peerPoints[i].timestamp \in Nat
         /\ peerPoints[i].load \in Nat /\ peerPoints[i].dump \in Nat
         /\ \A p : Has(p, i) => p \in Peers /\ peerPoints[i].rx[p] \in Nat
<1>1. /\ peerPoints[i] \in Batch /\ peerPoints[i].timestamp \in Nat
      /\ peerPoints[i].load \in Nat /\ peerPoints[i].dump \in Nat
  BY BatchFields DEF TypesInv, Rows
<1>2. PICK S \in SUBSET Peers : peerPoints[i].rx \in [S -> 0 .. MaxMoved]
  BY <1>1 DEF Batch
<1> QED
  BY <1>1, <1>2, TrafficAssumption DEF Has

\* A row is a reading of a list and of a dump.
LEMMA RowRead ==
  ASSUME TrafficInv, NEW i \in Rows
  PROVE  /\ peerPoints[i].load \in 1 .. Len(tables)
         /\ \A p : Has(p, i) <=> p \in tables[peerPoints[i].load]
         /\ peerPoints[i].dump # 0 =>
              /\ peerPoints[i].dump \in 1 .. Len(counters)
              /\ \A p : Has(p, i) =>
                   peerPoints[i].rx[p] = counters[peerPoints[i].dump].bytes[p]
<1> DEFINE l == peerPoints[i].load
           d == peerPoints[i].dump
<1>1. /\ i \in DOMAIN peerPoints /\ Batched(peerPoints) /\ l \in Nat /\ d \in Nat
      /\ Len(tables) \in Nat /\ Len(counters) \in Nat
  BY RowFields, LastEntries, BatchFields DEF TrafficInv, TypesInv, RowsInv, Rows
<1>2. l \in 0 .. Len(tables) /\ l # 0 /\ d \in 0 .. Len(counters) /\ peerPoints[i].rx = Reading(l, d)
  BY <1>1 DEF Batched, Exists
<1> HIDE DEF l, d
<1>3. Reading(l, d) = [p \in tables[l] |-> IF d = 0 THEN 0 ELSE counters[d].bytes[p]]
  BY <1>2 DEF Reading
<1>4. l \in 1 .. Len(tables) /\ (d # 0 => d \in 1 .. Len(counters))
  BY <1>1, <1>2
<1> QED
  BY <1>2, <1>3, <1>4 DEF Has, l, d

LEMMA BatchesHold ==
  ASSUME TrafficInv
  PROVE  BatchesInv
<1>1. /\ TablesInv /\ Batched(peerPoints) /\ DOMAIN peerPoints = Rows
      /\ \A i \in Rows : i \in Int /\ peerPoints[i].load \in Int
  BY BatchFields DEF TrafficInv, RowsInv, TypesInv, Rows
<1>2. ASSUME NEW p \in Peers, NEW i \in Rows, NEW j \in Rows, i < j, Has(p, i), ~Has(p, j),
             NEW k \in Rows, j <= k, Has(p, k)
      PROVE  FALSE
  <2>1. peerPoints[i].load <= peerPoints[j].load
    BY <1>1, <1>2 DEF Batched
  <2>2. peerPoints[j].load <= peerPoints[k].load
    <3>1. j < k \/ j = k
      BY <1>1, <1>2
    <3> QED
      BY <1>1, <1>2, <3>1 DEF Batched
  <2>3. /\ p \in tables[peerPoints[i].load] /\ p \in tables[peerPoints[k].load]
        /\ peerPoints[i].load \in 1 .. Len(tables) /\ peerPoints[j].load \in 1 .. Len(tables)
        /\ peerPoints[k].load \in 1 .. Len(tables)
    BY <1>2, RowRead
  <2>4. p \in tables[peerPoints[j].load]
    BY <1>1, <2>1, <2>2, <2>3 DEF TablesInv
  <2> QED
    BY <1>2, <2>4, RowRead
<1> QED
  BY <1>1, <1>2 DEF BatchesInv, Batched

\* Between two dumps a counter rises by no more than was received, and by just
\* that if no counter of its client ever began anew.
LEMMA OneRise ==
  ASSUME TrafficInv, NEW p \in Peers,
         NEW c \in 1 .. Len(counters), NEW d \in 1 .. Len(counters), c <= d
  PROVE  /\ PositiveDiff(counters[d].bytes[p], counters[c].bytes[p]) + counters[c].moved[p]
              <= counters[d].moved[p]
         /\ counters[d].moved[p] <= moved[p]
         /\ p \notin restarted =>
              PositiveDiff(counters[d].bytes[p], counters[c].bytes[p])
                = counters[d].bytes[p] - counters[c].bytes[p]
<1> DEFINE n == Len(counters)
           b(i) == counters[i].bytes[p]
           v(i) == counters[i].moved[p]
<1>1. /\ n \in 1 .. n /\ Last(counters) = counters[n] /\ moved = counters[n].moved
      /\ \A i \in 1 .. n : b(i) \in Nat /\ v(i) \in Nat
  BY LastEntries DEF TrafficInv
<1>2. \A i \in 1 .. n : /\ b(i) <= v(i) /\ v(i) <= v(n) /\ b(n) + v(i) <= v(n) + b(i)
  <2>1. \A i \in 1 .. n : i <= n
    BY <1>1
  <2> QED
    BY <1>1, <2>1 DEF TrafficInv, CountersInv
<1>3. v(c) <= v(d) /\ b(d) + v(c) <= v(d) + b(c)
  BY DEF TrafficInv, CountersInv
<1>4. p \notin restarted => b(n) = v(n)
  BY <1>1 DEF restarted
<1>5. moved[p] = v(n)
  BY <1>1
<1> HIDE DEF b, v, n
<1>6. p \notin restarted => b(c) = v(c) /\ b(d) = v(d)
  BY <1>1, <1>2, <1>4 DEF n
<1>7. b(c) \in Nat /\ b(d) \in Nat /\ v(c) \in Nat /\ v(d) \in Nat
  BY <1>1 DEF n
<1>8. /\ PositiveDiff(b(d), b(c)) + v(c) <= v(d)
      /\ p \notin restarted => PositiveDiff(b(d), b(c)) = b(d) - b(c)
  BY <1>3, <1>6, <1>7 DEF PositiveDiff
<1>9. v(d) <= moved[p]
  BY <1>2, <1>5 DEF n
<1> QED
  BY <1>8, <1>9 DEF b, v

\* What a run shows was received, and without a restart it is all of it.
LEMMA RunsHold ==
  ASSUME TrafficInv, NEW p \in Peers, NEW m \in Rows, NEW z \in Rows, m <= z, Run(p, m, z)
  PROVE  /\ Moves(p, m, z) <= moved[p]
         /\ p \notin restarted =>
              Moves(p, m, z) = peerPoints[z].rx[p] - peerPoints[m].rx[p]
<1> DEFINE d(i) == peerPoints[i].dump
           x(i) == peerPoints[i].rx[p]
           v(i) == counters[d(i)].moved[p]
           Shown(k) == /\ Moves(p, m, k) \in Nat
                       /\ Moves(p, m, k) + v(m) <= v(k)
                       /\ p \notin restarted => Moves(p, m, k) = x(k) - x(m)
           rises == Rises(p)
           n == z - m + 1
           T == {i \in 1 .. n : Shown(m + i - 1)}
<1>1. /\ m \in Int /\ z \in Int /\ n \in Nat /\ TypesInv /\ 1 <= m /\ z <= Len(peerPoints)
      /\ Len(peerPoints) \in Nat
      /\ \A i \in m .. z : i \in Rows /\ Has(p, i) /\ d(i) # 0
      /\ \A i \in m + 1 .. z : d(i - 1) <= d(i)
  BY BatchFields DEF Rows, Run, TrafficInv, TypesInv
<1>2. \A i \in m .. z : /\ d(i) \in 1 .. Len(counters)
                        /\ x(i) = counters[d(i)].bytes[p]
                        /\ x(i) \in Nat /\ v(i) \in Nat /\ v(i) <= moved[p]
  <2> SUFFICES ASSUME NEW i \in m .. z
               PROVE  /\ d(i) \in 1 .. Len(counters)
                      /\ x(i) = counters[d(i)].bytes[p]
                      /\ x(i) \in Nat /\ v(i) \in Nat /\ v(i) <= moved[p]
    OBVIOUS
  <2>1. d(i) \in 1 .. Len(counters) /\ x(i) = counters[d(i)].bytes[p]
    BY <1>1, RowRead
  <2>2. d(i) <= d(i)
    BY <2>1
  <2> HIDE DEF d, x
  <2>3. v(i) <= moved[p]
    BY <2>1, <2>2, OneRise
  <2>4. counters[d(i)].bytes[p] \in Nat /\ counters[d(i)].moved[p] \in Nat
    BY <1>1, <2>1, LastEntries
  <2> QED
    BY <2>1, <2>3, <2>4
<1>3. \A i \in m + 1 .. z : /\ i - 1 \in m .. z /\ i \in m .. z
                            /\ rises[i] = PositiveDiff(x(i), x(i - 1))
                            /\ rises[i] \in Nat
  <2> SUFFICES ASSUME NEW i \in m + 1 .. z
               PROVE  /\ i - 1 \in m .. z /\ i \in m .. z
                      /\ rises[i] = PositiveDiff(x(i), x(i - 1))
                      /\ rises[i] \in Nat
    OBVIOUS
  <2>1. i - 1 \in m .. z /\ i \in m .. z /\ i \in 2 .. Len(peerPoints)
    BY <1>1
  <2>2. rises[i] = PositiveDiff(x(i), x(i - 1))
    BY <2>1 DEF Rises
  <2>3. x(i) \in Nat /\ x(i - 1) \in Nat
    BY <1>2, <2>1
  <2> HIDE DEF rises, x
  <2>4. rises[i] \in Nat
    BY <2>2, <2>3 DEF PositiveDiff
  <2> QED
    BY <2>1, <2>2, <2>4
<1> HIDE DEF d, x, n, rises
<1>4. Shown(m)
  <2>1. m \in m .. z /\ m + 1 .. m = {}
    BY <1>1
  <2>2. Moves(p, m, m) = 0
    BY <2>1, TotalOfNone DEF Moves
  <2>3. x(m) \in Nat /\ v(m) \in Nat
    BY <1>2, <2>1
  <2> HIDE DEF v
  <2> QED
    BY <2>2, <2>3
<1>5. ASSUME NEW k \in m .. z, k < z, Shown(k) PROVE Shown(k + 1)
  <2>1. k + 1 \in m .. z /\ k + 1 \in m + 1 .. z /\ k \in Int /\ m + 1 <= k + 1 /\ k + 1 - 1 = k
    BY <1>1, <1>5
  <2>2. \A i \in m + 1 .. k + 1 : rises[i] \in Nat
    <3>1. \A i \in m + 1 .. k + 1 : i \in m + 1 .. z
      BY <1>1, <2>1
    <3> QED
      BY <1>3, <3>1
  <2>3. Moves(p, m, k + 1) = Moves(p, m, k) + rises[k + 1]
    <3>1. m + 1 \in Int
      BY <1>1
    <3>2. Total(rises, m + 1 .. k + 1) = Total(rises, m + 1 .. k) + rises[k + 1]
      BY <2>1, <2>2, <3>1, TotalToNext
    <3> QED
      BY <3>2 DEF Moves, rises
  <2>4. rises[k + 1] = PositiveDiff(x(k + 1), x(k)) /\ rises[k + 1] \in Nat /\ d(k) <= d(k + 1)
    BY <1>1, <1>3, <2>1
  <2>5. /\ PositiveDiff(x(k + 1), x(k)) + v(k) <= v(k + 1)
        /\ p \notin restarted => PositiveDiff(x(k + 1), x(k)) = x(k + 1) - x(k)
    BY <1>2, <2>1, <2>4, OneRise
  <2>6. x(k) \in Nat /\ x(k + 1) \in Nat /\ x(m) \in Nat /\ v(k) \in Nat /\ v(k + 1) \in Nat /\ v(m) \in Nat
    <3>1. m \in m .. z
      BY <1>1
    <3> QED
      BY <1>2, <2>1, <3>1
  <2> HIDE DEF v
  <2> QED
    BY <1>5, <2>3, <2>4, <2>5, <2>6
<1> HIDE DEF Shown
<1>6. \A i \in 1 .. n : i \in T
  <2>1. 1 \in T
    <3>1. 1 \in 1 .. n /\ m + 1 - 1 = m
      BY <1>1 DEF n
    <3> QED
      BY <1>4, <3>1
  <2>2. ASSUME NEW i \in 1 .. n, i \in T, i < n PROVE i + 1 \in T
    <3>1. /\ m + i - 1 \in m .. z /\ m + i - 1 < z /\ m + (i + 1) - 1 = (m + i - 1) + 1
          /\ i + 1 \in 1 .. n
      BY <1>1, <2>2 DEF n
    <3> QED
      BY <1>5, <2>2, <3>1
  <2> HIDE DEF T
  <2> QED
    BY <1>1, <2>1, <2>2, Induct
<1>7. Shown(z)
  <2>1. n \in 1 .. n /\ m + n - 1 = z
    BY <1>1 DEF n
  <2> QED
    BY <1>6, <2>1
<1>8. v(z) \in Nat /\ v(z) <= moved[p] /\ v(m) \in Nat /\ moved[p] \in Nat
  <2>1. z \in m .. z /\ m \in m .. z
    BY <1>1
  <2> QED
    BY <1>1, <1>2, <2>1, LastEntries
<1> QED
  <2> HIDE DEF v
  <2> QED
    BY <1>7, <1>8 DEF Shown, x

-----------------------------------------------------------------------------
(* The chart of the clients.                                                *)

LEMMA LastOfSome ==
  ASSUME NEW S, NEW s \in Seq(S), s # <<>>, NEW n \in Nat \ {0}
  PROVE  LastOf(s, n) # <<>>
<1>1. Len(s) \in Nat /\ Len(s) # 0
  OBVIOUS
<1>2. \E k \in 1 .. Len(s) : LastOf(s, n) = SubSeq(s, k, Len(s))
  <2>1. CASE Len(s) > n
    <3> DEFINE k == Len(s) - n + 1
    <3>1. k \in 1 .. Len(s) /\ LastOf(s, n) = SubSeq(s, k, Len(s))
      BY <1>1, <2>1 DEF LastOf
    <3> QED
      BY <3>1
  <2>2. CASE ~(Len(s) > n)
    BY <1>1, <2>2 DEF LastOf
  <2> QED
    BY <2>1, <2>2
<1>3. PICK k \in 1 .. Len(s) : LastOf(s, n) = SubSeq(s, k, Len(s))
  BY <1>2
<1>4. Len(LastOf(s, n)) # 0
  <2>1. k \in Int /\ k >= 1 /\ k <= Len(s) /\ \A i \in k .. Len(s) : s[i] \in S
    BY <1>1
  <2>2. Len(SubSeq(s, k, Len(s))) = Len(s) - k + 1
    BY <1>1, <2>1, SubSeqProperties
  <2> QED
    BY <1>1, <1>3, <2>1, <2>2
<1> QED
  BY <1>4

\* Numbers without a gap, in their order.
LEMMA AscendingBlock ==
  ASSUME NEW I \in SUBSET Int, IsFiniteSet(I), NEW x \in I,
         \A i \in I, k \in I : \A j \in i .. k : j \in I
  PROVE  /\ Cardinality(I) \in Nat \ {0}
         /\ \A i \in 1 .. Cardinality(I) : Ascending(I)[i] = Ascending(I)[1] + i - 1
<1> DEFINE n == Cardinality(I)
           a == Ascending(I)
           T == {i \in 1 .. n : a[i] = a[1] + i - 1}
<1>1. /\ n \in Nat /\ a \in [1 .. n -> I]
      /\ \A i, j \in 1 .. n : i < j <=> a[i] < a[j]
      /\ \A t \in I : \E i \in 1 .. n : a[i] = t
  BY AscendingOrder
<1> HIDE DEF n, a
<1>2. n # 0 /\ 1 \in 1 .. n
  <2>1. PICK i \in 1 .. n : a[i] = x
    BY <1>1
  <2> QED
    BY <1>1, <2>1
<1>3. \A i \in 1 .. n : a[i] \in Int /\ a[i] \in I
  BY <1>1
<1>4. ASSUME NEW i \in 1 .. n, i \in T, i < n PROVE i + 1 \in T
  <2>1. i + 1 \in 1 .. n /\ i < i + 1 /\ i \in Int
    BY <1>1, <1>4
  <2>2. a[i] < a[i + 1] /\ a[i] \in Int /\ a[i + 1] \in Int
    BY <1>1, <1>3, <2>1
  <2>3. a[i] + 1 \in I
    <3>1. a[i] + 1 \in a[i] .. a[i + 1]
      BY <2>2
    <3> QED
      BY <1>3, <2>1, <3>1
  <2>4. PICK j \in 1 .. n : a[j] = a[i] + 1
    BY <1>1, <2>3
  <2>5. i < j
    BY <1>1, <2>2, <2>4
  <2>6. ~(i + 1 < j)
    BY <1>1, <1>3, <2>1, <2>2, <2>4
  <2>7. j = i + 1
    BY <2>1, <2>5, <2>6
  <2>8. a[i] = a[1] + i - 1 /\ a[1] \in Int
    BY <1>2, <1>3, <1>4
  <2> QED
    BY <2>1, <2>4, <2>7, <2>8
<1>5. 1 \in T
  BY <1>2, <1>3
<1>6. \A i \in 1 .. n : i \in T
  <2> HIDE DEF T
  <2> QED
    BY <1>1, <1>4, <1>5, Induct
<1> QED
  BY <1>1, <1>2, <1>6 DEF n, a

\* The history of p: its rows from m to z.
Holds(points, p, m, z) ==
    /\ m \in Rows /\ z \in Rows /\ m <= z
    /\ points \in Seq([timestamp : Nat, load : Nat, dump : Nat, rx : Nat])
    /\ Len(points) = z - m + 1
    /\ \A i \in m .. z : /\ Has(p, i)
                         /\ points[i - m + 1].timestamp = peerPoints[i].timestamp
                         /\ points[i - m + 1].rx = peerPoints[i].rx[p]
                         /\ points[i - m + 1].load = peerPoints[i].load
                         /\ points[i - m + 1].dump = peerPoints[i].dump

LEMMA RowsHeld ==
  ASSUME TypesInv, NEW p, NEW m, NEW z, NEW points, Holds(points, p, m, z)
  PROVE  /\ m \in Int /\ z \in Int /\ m <= z /\ DOMAIN points = 1 .. z - m + 1
         /\ \A i \in m .. z : /\ points[i - m + 1].timestamp = peerPoints[i].timestamp
                              /\ points[i - m + 1].rx = peerPoints[i].rx[p]
                              /\ i - m + 1 \in 1 .. z - m + 1
                              /\ i \in Rows
         /\ \A j \in 1 .. z - m + 1 : m + j - 1 \in m .. z /\ m + j - 1 - m + 1 = j /\ j \in Int
<1> DEFINE L == Len(peerPoints)
<1>1. Rows = 1 .. L /\ L \in Nat
  BY DEF Rows, TypesInv
<1>2. /\ m \in Rows /\ z \in Rows /\ m <= z
      /\ points \in Seq([timestamp : Nat, load : Nat, dump : Nat, rx : Nat]) /\ Len(points) = z - m + 1
  BY DEF Holds
<1>3. DOMAIN points = 1 .. z - m + 1
  BY <1>2
<1>4. \A i \in m .. z : /\ points[i - m + 1].timestamp = peerPoints[i].timestamp
                        /\ points[i - m + 1].rx = peerPoints[i].rx[p]
  BY DEF Holds
<1> HIDE DEF L
<1>5. m \in Int /\ z \in Int /\ 1 <= m /\ z <= L
  BY <1>1, <1>2
<1>6. \A i \in m .. z : i - m + 1 \in 1 .. z - m + 1 /\ i \in 1 .. L
  BY <1>1, <1>5
<1>7. \A j \in 1 .. z - m + 1 : m + j - 1 \in m .. z /\ m + j - 1 - m + 1 = j /\ j \in Int
  BY <1>5
<1> QED
  BY <1>1, <1>2, <1>3, <1>4, <1>5, <1>6, <1>7

LEMMA PeerHistory ==
  ASSUME TypesInv, BatchesInv, NEW p \in DOMAIN GetTopPeersTrafficHistory
  PROVE  \E m, z \in Rows : Holds(GetTopPeersTrafficHistory[p], p, m, z)
<1> DEFINE rows == {i \in DOMAIN peerPoints : p \in DOMAIN peerPoints[i].rx}
           chosen == Select(peerPoints, rows)
           ends == LastOf(chosen, HistorySize)
           points == [i \in DOMAIN ends |-> [ends[i] EXCEPT !.rx = @[p]]]
           n == Cardinality(rows)
           a == Ascending(rows)
<1>1. GetTopPeersTrafficHistory[p] = points
  BY DEF GetTopPeersTrafficHistory
<1>2. /\ Len(peerPoints) \in Nat /\ DOMAIN peerPoints = Rows /\ rows \in SUBSET Rows
      /\ peerPoints \in Seq(Batch)
      /\ \A i \in Rows : i \in rows <=> Has(p, i)
  BY DEF TypesInv, Rows, Has
<1>3. PICK x \in rows : TRUE
  <2>1. \E i \in DOMAIN peerPoints : p \in DOMAIN peerPoints[i].rx
    BY DEF GetTopPeersTrafficHistory
  <2> QED
    BY <2>1
<1>4. IsFiniteSet(rows) /\ rows \in SUBSET Int
  <2>1. IsFiniteSet(Rows)
    BY <1>2, FS_Interval DEF Rows
  <2>2. Rows \in SUBSET Int
    BY <1>2 DEF Rows
  <2> HIDE DEF rows
  <2> QED
    BY <1>2, <2>1, <2>2, FS_Subset
<1>5. p \in Peers
  BY <1>2, <1>3, RowFields
<1> HIDE DEF rows
<1>6. ASSUME NEW i \in rows, NEW k \in rows PROVE \A j \in i .. k : j \in rows
  <2> SUFFICES ASSUME NEW j \in i .. k, j \notin rows PROVE FALSE
    OBVIOUS
  <2>1. i \in Rows /\ j \in Rows /\ k \in Rows /\ i \in Int /\ j \in Int /\ k \in Int
    BY <1>2, <1>4 DEF Rows
  <2>2. i < j /\ j < k
    <3>1. i # j /\ j # k
      OBVIOUS
    <3> QED
      BY <2>1, <3>1
  <2>3. Has(p, i) /\ ~Has(p, j) /\ Has(p, k)
    BY <1>2, <2>1
  <2> QED
    BY <1>5, <2>1, <2>2, <2>3 DEF BatchesInv
<1>7. /\ n \in Nat \ {0} /\ a \in [1 .. n -> rows]
      /\ \A i \in 1 .. n : a[i] = a[1] + i - 1
  BY <1>3, <1>4, <1>6, AscendingOrder, AscendingBlock
<1>8. DOMAIN chosen = 1 .. n /\ \A k \in 1 .. n : chosen[k] = peerPoints[a[k]]
  BY <1>4, SelectOrder
<1> HIDE DEF n, a, chosen
<1>9. chosen \in Seq(Batch) /\ Len(chosen) = n
  <2>1. \A k \in 1 .. n : chosen[k] \in Batch
    BY <1>2, <1>7, <1>8
  <2>2. chosen = [k \in 1 .. n |-> chosen[k]]
    <3>1. chosen = [k \in DOMAIN chosen |-> chosen[k]]
      BY DEF chosen, Select
    <3> QED
      BY <1>8, <3>1
  <2> QED
    BY <1>7, <2>1, <2>2
<1>10. PICK k \in 0 .. n : /\ ends \in Seq(Batch) /\ Len(ends) = n - k
                           /\ \A i \in 1 .. n - k : ends[i] = chosen[k + i]
  <2>1. HistorySize \in Nat
    BY TrafficAssumption
  <2>2. /\ LastOf(chosen, HistorySize) \in Seq(Batch)
        /\ \E k \in 0 .. Len(chosen) :
             /\ Len(LastOf(chosen, HistorySize)) = Len(chosen) - k
             /\ \A i \in 1 .. Len(chosen) - k : LastOf(chosen, HistorySize)[i] = chosen[k + i]
    BY <1>9, <2>1, LastOfEnds, Zenon
  <2> QED
    BY <1>9, <2>2, Zenon
<1>11. n - k # 0 /\ n \in Nat /\ k \in Nat /\ k < n
  <2>1. ends # <<>>
    <3>1. chosen # <<>>
      BY <1>7, <1>9
    <3> QED
      BY <1>9, <3>1, LastOfSome, TrafficAssumption
  <2> QED
    BY <1>7, <1>10, <2>1
<1> DEFINE m == a[1] + k
           z == a[1] + n - 1
<1> HIDE DEF ends
<1>12. /\ m \in Rows /\ z \in Rows /\ m <= z /\ z - m + 1 = n - k /\ m \in Int /\ z \in Int
       /\ \A i \in m .. z : i - m + 1 \in 1 .. n - k /\ i \in rows /\ i \in Rows
                            /\ i = a[k + (i - m + 1)]
  <2>1. \A i \in 1 .. n : a[i] \in Rows /\ a[i] \in rows /\ a[i] \in Int /\ a[i] = a[1] + i - 1
    BY <1>2, <1>4, <1>7
  <2>2. 1 \in 1 .. n /\ a[1] \in Int /\ k + 1 \in 1 .. n /\ n \in 1 .. n
    BY <1>7, <1>11, <2>1
  <2>3. a[k + 1] = m /\ a[n] = z
    BY <1>11, <2>1, <2>2
  <2>4. m \in Rows /\ z \in Rows /\ m <= z /\ z - m + 1 = n - k /\ m \in Int /\ z \in Int
    BY <1>11, <2>1, <2>2, <2>3
  <2>5. ASSUME NEW i \in m .. z
        PROVE  i - m + 1 \in 1 .. n - k /\ i = a[k + (i - m + 1)] /\ k + (i - m + 1) \in 1 .. n
    <3>1. i - m + 1 \in 1 .. n - k /\ k + (i - m + 1) \in 1 .. n
      BY <1>11, <2>2, <2>4
    <3>2. a[k + (i - m + 1)] = a[1] + (k + (i - m + 1)) - 1
      BY <2>1, <3>1
    <3> QED
      BY <1>11, <2>2, <3>1, <3>2
  <2> HIDE DEF m, z
  <2> QED
    BY <2>1, <2>4, <2>5
<1>13. points \in Seq([timestamp : Nat, load : Nat, dump : Nat, rx : Nat]) /\ Len(points) = n - k
       /\ \A j \in 1 .. n - k : points[j] = [ends[j] EXCEPT !.rx = @[p]] /\ ends[j] \in Batch
  <2>1. DOMAIN ends = 1 .. n - k /\ n - k \in Nat
    BY <1>10, <1>11
  <2>2. ASSUME NEW j \in 1 .. n - k
        PROVE  /\ ends[j] \in Batch /\ points[j] = [ends[j] EXCEPT !.rx = @[p]]
               /\ points[j] \in [timestamp : Nat, load : Nat, dump : Nat, rx : Nat]
    <3>1. k + j \in 1 .. n /\ ends[j] = peerPoints[a[k + j]]
      BY <1>8, <1>10, <1>11
    <3>2. a[k + j] \in rows
      BY <1>7, <3>1
    <3>3. a[k + j] \in Rows /\ Has(p, a[k + j])
      BY <1>2, <3>2
    <3>4. ends[j] \in Batch /\ ends[j].timestamp \in Nat /\ ends[j].load \in Nat
          /\ ends[j].dump \in Nat /\ ends[j].rx[p] \in Nat
      BY <1>2, <3>1, <3>3, RowFields
    <3>5. points[j] = [ends[j] EXCEPT !.rx = @[p]]
      BY <2>1
    <3>6. points[j] = [timestamp |-> ends[j].timestamp, load |-> ends[j].load,
                      dump |-> ends[j].dump, rx |-> ends[j].rx[p]]
      BY <3>4, <3>5 DEF Batch
    <3> QED
      BY <3>4, <3>5, <3>6
  <2>3. points = [j \in 1 .. n - k |-> points[j]]
    BY <2>1
  <2> DEFINE PointSet == [timestamp : Nat, load : Nat, dump : Nat, rx : Nat]
             N == n - k
  <2>4. N \in Nat /\ points = [j \in 1 .. N |-> points[j]] /\ \A j \in 1 .. N : points[j] \in PointSet
    BY <2>1, <2>2, <2>3
  <2>5. points \in Seq(PointSet) /\ Len(points) = N
    <3> HIDE DEF points, PointSet, N
    <3> QED
      BY <2>4
  <2> QED
    BY <2>2, <2>5
<1>14. ASSUME NEW i \in m .. z
       PROVE  /\ Has(p, i)
              /\ points[i - m + 1].timestamp = peerPoints[i].timestamp
              /\ points[i - m + 1].rx = peerPoints[i].rx[p]
              /\ points[i - m + 1].load = peerPoints[i].load
              /\ points[i - m + 1].dump = peerPoints[i].dump
  <2>1. i - m + 1 \in 1 .. n - k /\ i \in rows /\ i \in Rows /\ i = a[k + (i - m + 1)]
    BY <1>12
  <2>2. ends[i - m + 1] = peerPoints[i]
    <3>1. k + (i - m + 1) \in 1 .. n
      BY <1>11, <2>1
    <3> QED
      BY <1>8, <1>10, <2>1, <3>1
  <2>3. points[i - m + 1] = [peerPoints[i] EXCEPT !.rx = @[p]] /\ peerPoints[i] \in Batch
    BY <1>13, <2>1, <2>2
  <2> HIDE DEF points, m
  <2> QED
    BY <1>2, <2>1, <2>3 DEF Batch
<1>15. Holds(points, p, m, z)
  <2> HIDE DEF points, m, z
  <2> QED
    BY <1>12, <1>13, <1>14 DEF Holds
<1> QED
  <2> HIDE DEF points, m, z
  <2> QED
    BY <1>1, <1>12, <1>15

\* Where two rows follow each other, so do their times among those of all.
Orders(L, ts, m, z, U, K, times) ==
    /\ L \in Nat /\ ts \in [1 .. L -> Int]
    /\ \A i, j \in 1 .. L : i < j => ts[i] < ts[j]
    /\ \A t \in U : \E i \in 1 .. L : t = ts[i]
    /\ K \in Nat /\ times \in [1 .. K -> U]
    /\ \A i, j \in 1 .. K : i < j <=> times[i] < times[j]
    /\ \A t \in U : \E i \in 1 .. K : times[i] = t
    /\ m \in 1 .. L /\ z \in 1 .. L /\ \A i \in m .. z : ts[i] \in U

LEMMA Intervals ==
  ASSUME NEW L, NEW ts, NEW m, NEW z, NEW U, NEW K, NEW times,
         Orders(L, ts, m, z, U, K, times)
  PROVE  /\ \A i \in m + 1 .. z : \E j \in 1 .. K - 1 : times[j] = ts[i - 1] /\ times[j + 1] = ts[i]
         /\ \A j \in 1 .. K - 1 : \A u, v \in m .. z :
              times[j] = ts[u] /\ times[j + 1] = ts[v] => v = u + 1
<1>0. /\ L \in Nat /\ ts \in [1 .. L -> Int]
      /\ \A i, j \in 1 .. L : i < j => ts[i] < ts[j]
      /\ \A t \in U : \E i \in 1 .. L : t = ts[i]
      /\ K \in Nat /\ times \in [1 .. K -> U]
      /\ \A i, j \in 1 .. K : i < j <=> times[i] < times[j]
      /\ \A t \in U : \E i \in 1 .. K : times[i] = t
      /\ m \in 1 .. L /\ z \in 1 .. L /\ \A i \in m .. z : ts[i] \in U
  BY DEF Orders
<1>1. ASSUME NEW i \in m + 1 .. z
      PROVE  \E j \in 1 .. K - 1 : times[j] = ts[i - 1] /\ times[j + 1] = ts[i]
  <2>1. i \in m .. z /\ i - 1 \in m .. z /\ i \in 1 .. L /\ i - 1 \in 1 .. L /\ i - 1 < i /\ i \in Int
    BY <1>0
  <2>2. PICK j \in 1 .. K : times[j] = ts[i - 1]
    BY <1>0, <2>1
  <2>3. PICK k \in 1 .. K : times[k] = ts[i]
    BY <1>0, <2>1
  <2>4. j < k
    BY <1>0, <2>1, <2>2, <2>3
  <2>5. ASSUME j + 1 < k PROVE FALSE
    <3>1. j + 1 \in 1 .. K /\ j < j + 1
      BY <1>0, <2>5
    <3>2. times[j] < times[j + 1] /\ times[j + 1] < times[k]
      BY <1>0, <2>5, <3>1
    <3>3. PICK x \in 1 .. L : times[j + 1] = ts[x]
      BY <1>0, <3>1
    <3>4. ts[i - 1] < ts[x] /\ ts[x] < ts[i]
      BY <1>0, <2>2, <2>3, <3>2, <3>3
    <3>5. ts[i - 1] \in Int /\ ts[x] \in Int /\ ts[i] \in Int
      BY <1>0, <2>1
    <3>6. ~(x < i - 1) /\ x # i - 1 /\ ~(i < x) /\ x # i
      <4>1. x < i - 1 => ts[x] < ts[i - 1]
        BY <1>0, <2>1
      <4>2. i < x => ts[i] < ts[x]
        BY <1>0, <2>1
      <4> QED
        BY <3>4, <3>5, <4>1, <4>2
    <3> QED
      BY <1>0, <2>1, <3>6
  <2>6. k = j + 1 /\ j \in 1 .. K - 1
    BY <1>0, <2>4, <2>5
  <2> QED
    BY <1>0, <2>2, <2>3, <2>6
<1>2. ASSUME NEW j \in 1 .. K - 1, NEW u \in m .. z, NEW v \in m .. z,
             times[j] = ts[u], times[j + 1] = ts[v]
      PROVE  v = u + 1
  <2>1. j \in 1 .. K /\ j + 1 \in 1 .. K /\ j < j + 1 /\ u \in 1 .. L /\ v \in 1 .. L
    BY <1>0
  <2>2. ts[u] < ts[v]
    BY <1>0, <1>2, <2>1
  <2>3. ts[u] \in Int /\ ts[v] \in Int
    BY <1>0, <2>1
  <2>4. u < v
    <3>1. v < u => ts[v] < ts[u]
      BY <1>0, <2>1
    <3> QED
      BY <1>0, <2>1, <2>2, <2>3, <3>1
  <2>5. ASSUME u + 1 < v PROVE FALSE
    <3>1. u + 1 \in m .. z /\ u + 1 \in 1 .. L /\ u < u + 1
      BY <1>0, <2>1, <2>5
    <3>2. ts[u] < ts[u + 1] /\ ts[u + 1] < ts[v]
      BY <1>0, <2>1, <2>5, <3>1
    <3>3. PICK k \in 1 .. K : times[k] = ts[u + 1]
      BY <1>0, <3>1
    <3>4. j < k /\ k < j + 1
      BY <1>0, <1>2, <2>1, <3>2, <3>3
    <3> QED
      BY <1>0, <2>1, <3>4
  <2> QED
    BY <1>0, <2>1, <2>4, <2>5
<1> QED
  BY <1>1, <1>2

\* The entries of a series that a period has.
Drawn(series, period) ==
    {i \in DOMAIN series : period # All => /\ series[i].timestamp # Epoch
                                           /\ series[i].timestamp >= clock - period}

\* g has of the drawn entries what f has of all n.
Shows(g, series, n, period, f) ==
    /\ n \in Nat /\ DOMAIN series = 1 .. n
    /\ \A i \in 1 .. n : f[i] \in Nat
    /\ DOMAIN g = DOMAIN filterByPeriod(series, period)
    /\ \A k \in DOMAIN g : \A i \in 1 .. n :
          filterByPeriod(series, period)[k] = series[i] => g[k] = f[i]

LEMMA SumDrawn ==
  ASSUME NEW g, NEW series, NEW n, NEW period, NEW f, Shows(g, series, n, period, f)
  PROVE  Sum(g) = Total(f, Drawn(series, period))
<1>0. /\ n \in Nat /\ DOMAIN series = 1 .. n
      /\ \A i \in 1 .. n : f[i] \in Nat
      /\ DOMAIN g = DOMAIN filterByPeriod(series, period)
      /\ \A k \in DOMAIN g : \A i \in 1 .. n :
            filterByPeriod(series, period)[k] = series[i] => g[k] = f[i]
  BY DEF Shows
<1>1. CASE period = All
  <2>1. filterByPeriod(series, period) = series /\ Drawn(series, period) = 1 .. n
    BY <1>0, <1>1 DEF filterByPeriod, Drawn
  <2>2. \A k \in 1 .. n : g[k] = f[k]
    BY <1>0, <2>1
  <2> QED
    BY <1>0, <2>1, <2>2, TotalSame DEF Sum
<1>2. CASE period # All
  <2> DEFINE J == Drawn(series, period)
             a == Ascending(J)
  <2>1. filterByPeriod(series, period) = Select(series, J)
    <3>1. J = {i \in DOMAIN series : /\ series[i].timestamp # Epoch
                                     /\ series[i].timestamp >= clock - period}
      BY <1>2 DEF Drawn
    <3> QED
      BY <1>2, <3>1 DEF filterByPeriod
  <2>2. J \in SUBSET (1 .. n)
    BY <1>0 DEF Drawn
  <2>3. IsFiniteSet(J) /\ J \in SUBSET Int
    <3>1. IsFiniteSet(1 .. n) /\ \A i \in 1 .. n : i \in Int
      BY <1>0, FS_Interval
    <3> HIDE DEF J
    <3>2. IsFiniteSet(J)
      BY <2>2, <3>1, FS_Subset
    <3> QED
      BY <2>2, <3>1, <3>2
  <2> HIDE DEF J
  <2>4. DOMAIN g = 1 .. Cardinality(J)
        /\ \A k \in 1 .. Cardinality(J) : filterByPeriod(series, period)[k] = series[a[k]]
    BY <1>0, <2>1, <2>3, SelectOrder
  <2>5. \A k \in 1 .. Cardinality(J) : a[k] \in J
    BY <2>3, AscendingOrder
  <2>6. \A k \in 1 .. Cardinality(J) : g[k] = f[a[k]]
    BY <1>0, <2>2, <2>4, <2>5
  <2>7. Total(g, 1 .. Cardinality(J)) = Total(f, J)
    BY <1>0, <2>2, <2>3, <2>6, TotalSelected
  <2> QED
    BY <2>4, <2>7 DEF Sum, J
<1> QED
  BY <1>1, <1>2

\* The row that the chart of p begins from: the last before the period.
FromPoint(points, period) ==
    LET before == Select(points, {i \in DOMAIN points :
                    period # All /\ points[i].timestamp < clock - period})
    IN  IF before = <<>> THEN points[1] ELSE Last(before)

LEMMA FromRow ==
  ASSUME TypesInv, BatchesInv, clock \in Nat, NEW p, NEW m \in Rows, NEW z \in Rows,
         NEW points, Holds(points, p, m, z),
         NEW period \in Periods
  PROVE  \E c \in m .. z :
           /\ FromPoint(points, period).rx = peerPoints[c].rx[p]
           /\ \A i \in c + 1 .. z :
                period # All => peerPoints[i].timestamp >= clock - period
           /\ \A i \in m .. c : c # m =>
                period # All /\ peerPoints[i].timestamp < clock - period
<1>0. /\ m \in Int /\ z \in Int /\ m <= z /\ DOMAIN points = 1 .. z - m + 1
      /\ \A i \in m .. z : /\ points[i - m + 1].timestamp = peerPoints[i].timestamp
                           /\ points[i - m + 1].rx = peerPoints[i].rx[p]
                           /\ i - m + 1 \in 1 .. z - m + 1
                           /\ i \in Rows
      /\ \A j \in 1 .. z - m + 1 : m + j - 1 \in m .. z /\ m + j - 1 - m + 1 = j /\ j \in Int
  BY RowsHeld
<1> DEFINE n == z - m + 1
           I == {i \in DOMAIN points : period # All /\ points[i].timestamp < clock - period}
           before == Select(points, I)
           a == Ascending(I)
<1>1. I \in SUBSET (1 .. n)
  BY <1>0
<1>2. IsFiniteSet(I) /\ I \in SUBSET Int
  <2>1. IsFiniteSet(1 .. n)
    BY <1>0, FS_Interval
  <2>2. \A i \in 1 .. n : i \in Int
    BY <1>0
  <2> HIDE DEF I, n
  <2> QED
    BY <1>1, <2>1, <2>2, FS_Subset
<1>3. \A i \in m .. z : i - m + 1 \in I <=> period # All /\ peerPoints[i].timestamp < clock - period
  BY <1>0
<1>4. \A i \in m .. z : peerPoints[i].timestamp \in Nat
  BY <1>0, RowFields
<1>5. period # All => clock - period \in Int
  BY TrafficAssumption DEF Periods
<1>6. FromPoint(points, period) = IF before = <<>> THEN points[1] ELSE Last(before)
  BY DEF FromPoint
<1> HIDE DEF I
<1>7. /\ DOMAIN before = 1 .. Cardinality(I)
      /\ \A k \in 1 .. Cardinality(I) : before[k] = points[a[k]]
      /\ before = [k \in 1 .. Cardinality(I) |-> before[k]]
      /\ Cardinality(I) \in Nat
  <2>1. /\ DOMAIN before = 1 .. Cardinality(I)
        /\ \A k \in 1 .. Cardinality(I) : before[k] = points[a[k]]
    BY <1>2, SelectOrder
  <2>2. before = [k \in DOMAIN before |-> before[k]]
    BY DEF Select
  <2>3. Cardinality(I) \in Nat
    BY <1>2, AscendingOrder
  <2> HIDE DEF before, a
  <2> QED
    BY <2>1, <2>2, <2>3
<1> HIDE DEF before
<1>8. CASE before = <<>>
  <2>1. Cardinality(I) = 0
    <3>1. DOMAIN before = {}
      BY <1>8
    <3> QED
      BY <1>7, <3>1
  <2>2. I = {}
    BY <1>2, <2>1, FS_EmptySet
  <2>3. FromPoint(points, period).rx = peerPoints[m].rx[p] /\ m \in m .. z
    <3>1. m \in m .. z /\ m - m + 1 = 1
      BY <1>0
    <3> QED
      BY <1>0, <1>6, <1>8, <3>1
  <2>4. \A i \in m + 1 .. z : period # All => peerPoints[i].timestamp >= clock - period
    <3> SUFFICES ASSUME NEW i \in m + 1 .. z, period # All
                 PROVE  peerPoints[i].timestamp >= clock - period
      OBVIOUS
    <3>1. i \in m .. z
      BY <1>0
    <3>2. ~(peerPoints[i].timestamp < clock - period)
      BY <1>3, <2>2, <3>1
    <3> QED
      BY <1>4, <1>5, <3>1, <3>2
  <2> QED
    BY <2>3, <2>4
<1>9. CASE before # <<>>
  <2> DEFINE r == Cardinality(I)
             c == m + a[r] - 1
  <2>1. r \in 1 .. r /\ r \in Nat
    <3>1. r # 0
      <4>1. CASE r = 0
        <5>1. before = [k \in 1 .. 0 |-> before[k]]
          BY <1>7, <4>1
        <5> QED
          BY <1>9, <5>1
      <4> QED
        BY <4>1
    <3> QED
      BY <1>7, <3>1
  <2>2. a[r] \in I /\ \A t \in I : t <= a[r]
    <3>1. /\ a \in [1 .. r -> I]
          /\ \A i, j \in 1 .. r : i < j <=> a[i] < a[j]
          /\ \A t \in I : \E i \in 1 .. r : a[i] = t
      BY <1>2, AscendingOrder
    <3> HIDE DEF a, r
    <3>2. ASSUME NEW t \in I PROVE t <= a[r]
      <4>1. PICK i \in 1 .. r : a[i] = t
        BY <3>1
      <4>2. i < r \/ i = r
        BY <2>1
      <4>3. a[r] \in Int /\ t \in Int
        BY <1>2, <2>1, <3>1
      <4> QED
        BY <2>1, <3>1, <4>1, <4>2, <4>3
    <3> QED
      BY <2>1, <3>1, <3>2
  <2>3. Last(before) = points[a[r]]
    <3>1. Len(before) = r
      <4> HIDE DEF a
      <4> QED
        BY <1>7
    <3> QED
      BY <1>7, <2>1, <3>1 DEF Last
  <2>4. c \in m .. z /\ c - m + 1 = a[r] /\ a[r] \in Int /\ c \in Int
    <3>1. a[r] \in 1 .. n
      BY <1>1, <2>2
    <3> HIDE DEF a, r
    <3> QED
      BY <1>0, <3>1
  <2> HIDE DEF c
  <2>5. FromPoint(points, period).rx = peerPoints[c].rx[p]
    BY <1>0, <1>6, <1>9, <2>3, <2>4
  <2>6. \A i \in c + 1 .. z : period # All => peerPoints[i].timestamp >= clock - period
    <3> SUFFICES ASSUME NEW i \in c + 1 .. z, period # All
                 PROVE  peerPoints[i].timestamp >= clock - period
      OBVIOUS
    <3>1. i \in m .. z /\ i \in Int /\ c < i
      BY <1>0, <2>4
    <3>2. ~(i - m + 1 <= a[r])
      BY <1>0, <2>4, <3>1
    <3>3. ~(peerPoints[i].timestamp < clock - period)
      BY <1>3, <2>2, <3>1, <3>2
    <3> QED
      BY <1>4, <1>5, <3>1, <3>3
  <2>7. \A i \in m .. c : period # All /\ peerPoints[i].timestamp < clock - period
    <3> SUFFICES ASSUME NEW i \in m .. c
                 PROVE  period # All /\ peerPoints[i].timestamp < clock - period
      OBVIOUS
    <3>1. i \in m .. z /\ i \in Rows /\ c \in Rows /\ (i < c \/ i = c)
      BY <1>0, <2>4
    <3>2. period # All /\ peerPoints[c].timestamp < clock - period
      BY <1>3, <2>2, <2>4
    <3>3. peerPoints[i].timestamp <= peerPoints[c].timestamp
      <4>1. i < c => peerPoints[i].timestamp < peerPoints[c].timestamp
        BY <3>1 DEF BatchesInv
      <4> QED
        BY <1>4, <2>4, <3>1, <4>1
    <3> QED
      BY <1>4, <1>5, <2>4, <3>1, <3>2, <3>3
  <2> QED
    BY <2>4, <2>5, <2>6, <2>7
<1> QED
  BY <1>8, <1>9

PeersSeries == buildPeersTrafficSeries(GetTopPeersTrafficHistory)
PeersTimes ==
    UNION {Timestamps(GetTopPeersTrafficHistory[p]) : p \in DOMAIN GetTopPeersTrafficHistory}

\* The points of p, by their times.
LEMMA PointAt ==
  ASSUME TypesInv, BatchesInv, NEW p, NEW m, NEW z, NEW points, Holds(points, p, m, z)
  PROVE  /\ Timestamps(points) = {peerPoints[i].timestamp : i \in m .. z}
         /\ \A i \in m .. z : At(points, peerPoints[i].timestamp).rx = peerPoints[i].rx[p]
<1>0. /\ m \in Int /\ z \in Int /\ m <= z /\ DOMAIN points = 1 .. z - m + 1
      /\ \A i \in m .. z : /\ points[i - m + 1].timestamp = peerPoints[i].timestamp
                           /\ points[i - m + 1].rx = peerPoints[i].rx[p]
                           /\ i - m + 1 \in 1 .. z - m + 1
                           /\ i \in Rows
      /\ \A j \in 1 .. z - m + 1 : m + j - 1 \in m .. z /\ m + j - 1 - m + 1 = j /\ j \in Int
  BY RowsHeld
<1>1. \A j \in DOMAIN points : /\ m + j - 1 \in m .. z
                               /\ points[j].timestamp = peerPoints[m + j - 1].timestamp
  BY <1>0
<1>2. Timestamps(points) = {peerPoints[i].timestamp : i \in m .. z}
  <2>1. \A i \in m .. z : \E j \in DOMAIN points : points[j].timestamp = peerPoints[i].timestamp
    BY <1>0
  <2>2. \A j \in DOMAIN points : \E i \in m .. z : points[j].timestamp = peerPoints[i].timestamp
    BY <1>1
  <2> QED
    BY <2>1, <2>2 DEF Timestamps
<1>3. ASSUME NEW i \in m .. z
      PROVE  At(points, peerPoints[i].timestamp).rx = peerPoints[i].rx[p]
  <2> DEFINE t == peerPoints[i].timestamp
             I == {j \in DOMAIN points : points[j].timestamp = t}
             k == i - m + 1
  <2>1. k \in I
    BY <1>0
  <2>2. ASSUME NEW j \in I PROVE j = k
    <3>1. m + j - 1 \in m .. z /\ peerPoints[m + j - 1].timestamp = t /\ j \in Int
      BY <1>0, <1>1
    <3>2. m + j - 1 \in Rows /\ i \in Rows /\ i \in Int /\ m + j - 1 \in Int
      BY <1>0, <3>1
    <3>3. ~(m + j - 1 < i) /\ ~(i < m + j - 1)
      <4>1. t \in Nat
        BY <3>2, RowFields
      <4> QED
        BY <3>1, <3>2, <4>1 DEF BatchesInv
    <3> QED
      BY <1>0, <3>1, <3>2, <3>3
  <2>3. k \in Int
    BY <1>0
  <2>4. (CHOOSE j \in I : \A l \in I : l <= j) = k
    <3> HIDE DEF I, k
    <3>1. \A l \in I : l <= k
      BY <2>2, <2>3
    <3>2. \E j \in I : \A l \in I : l <= j
      BY <2>1, <3>1
    <3> QED
      BY <2>2, <3>2
  <2>5. At(points, t) = points[k]
    BY <2>4 DEF At
  <2> QED
    BY <1>0, <2>5
<1> QED
  BY <1>2, <1>3

\* The times of the chart, and what it shows at them.
LEMMA PeersSeriesIs ==
  ASSUME TypesInv, BatchesInv
  PROVE  /\ PeersTimes \in SUBSET Nat /\ IsFiniteSet(PeersTimes)
         /\ \A t \in PeersTimes : \E i \in Rows : t = peerPoints[i].timestamp
         /\ DOMAIN PeersSeries = 1 .. PositiveDiff(Cardinality(PeersTimes), 1)
         /\ \A i \in 1 .. PositiveDiff(Cardinality(PeersTimes), 1) :
              /\ i \in 1 .. Cardinality(PeersTimes) - 1
              /\ PeersSeries[i].timestamp = Ascending(PeersTimes)[i + 1]
              /\ \A p \in DOMAIN GetTopPeersTrafficHistory :
                   PeersSeries[i].download[p]
                     = IF /\ Ascending(PeersTimes)[i] \in Timestamps(GetTopPeersTrafficHistory[p])
                          /\ Ascending(PeersTimes)[i + 1] \in Timestamps(GetTopPeersTrafficHistory[p])
                       THEN PositiveDiff(
                              At(GetTopPeersTrafficHistory[p], Ascending(PeersTimes)[i + 1]).rx,
                              At(GetTopPeersTrafficHistory[p], Ascending(PeersTimes)[i]).rx)
                       ELSE 0
<1> DEFINE historyOf == GetTopPeersTrafficHistory
           times == Ascending(PeersTimes)
           n == Cardinality(PeersTimes)
           rowTimes == {peerPoints[i].timestamp : i \in Rows}
<1>1. \A t \in PeersTimes : \E i \in Rows : t = peerPoints[i].timestamp
  <2> SUFFICES ASSUME NEW t \in PeersTimes PROVE \E i \in Rows : t = peerPoints[i].timestamp
    OBVIOUS
  <2>1. PICK p \in DOMAIN historyOf : t \in Timestamps(historyOf[p])
    BY DEF PeersTimes
  <2>2. PICK m \in Rows, z \in Rows : Holds(historyOf[p], p, m, z)
    BY <2>1, PeerHistory
  <2>3. PICK i \in m .. z : t = peerPoints[i].timestamp
    BY <2>1, <2>2, PointAt
  <2>4. i \in Rows
    BY DEF Rows, TypesInv
  <2> QED
    BY <2>3, <2>4
<1>2. PeersTimes \in SUBSET rowTimes /\ PeersTimes \in SUBSET Nat
  BY <1>1, RowFields
<1>3. IsFiniteSet(PeersTimes)
  <2>1. IsFiniteSet(Rows)
    BY FS_Interval DEF Rows, TypesInv
  <2>2. IsFiniteSet(rowTimes)
    <3> DEFINE g == [i \in Rows |-> peerPoints[i].timestamp]
    <3>1. g \in Surjection(Rows, rowTimes)
      BY DEF Surjection
    <3> HIDE DEF g, rowTimes
    <3> QED
      BY <2>1, <3>1, FS_Surjection
  <2> HIDE DEF rowTimes
  <2> QED
    BY <1>2, <2>2, FS_Subset
<1>4. PeersTimes \in SUBSET Int /\ n \in Nat /\ DOMAIN times = 1 .. n
  <2>1. PeersTimes \in SUBSET Int
    BY <1>2
  <2> QED
    BY <1>3, <2>1, AscendingOrder
<1>5. Len(times) = n
  BY <1>4 DEF Ascending
<1>6. PeersSeries =
        [i \in 1 .. PositiveDiff(n, 1) |->
           [timestamp |-> times[i + 1],
            download |-> [p \in DOMAIN historyOf |->
              IF {times[i], times[i + 1]} \subseteq Timestamps(historyOf[p])
              THEN PositiveDiff(At(historyOf[p], times[i + 1]).rx, At(historyOf[p], times[i]).rx)
              ELSE 0]]]
  BY <1>5 DEF PeersSeries, buildPeersTrafficSeries, PeersTimes
<1>7. \A i \in 1 .. PositiveDiff(n, 1) : i \in 1 .. n - 1
  <2> HIDE DEF n
  <2> QED
    BY <1>4 DEF PositiveDiff
<1>8. \A i \in 1 .. PositiveDiff(n, 1), p \in DOMAIN historyOf :
        {times[i], times[i + 1]} \subseteq Timestamps(historyOf[p])
          <=> times[i] \in Timestamps(historyOf[p]) /\ times[i + 1] \in Timestamps(historyOf[p])
  OBVIOUS
<1>9. DOMAIN PeersSeries = 1 .. PositiveDiff(n, 1)
      /\ \A i \in 1 .. PositiveDiff(n, 1) :
              /\ PeersSeries[i].timestamp = times[i + 1]
              /\ \A p \in DOMAIN historyOf :
                   PeersSeries[i].download[p]
                     = IF times[i] \in Timestamps(historyOf[p]) /\ times[i + 1] \in Timestamps(historyOf[p])
                       THEN PositiveDiff(At(historyOf[p], times[i + 1]).rx, At(historyOf[p], times[i]).rx)
                       ELSE 0
  <2> HIDE DEF historyOf, times, n
  <2> QED
    BY <1>6, <1>8
<1> QED
  BY <1>1, <1>2, <1>3, <1>7, <1>9

\* In the intervals that a period draws of p are the rises of its rows, and
\* nothing else.
LEMMA PeerCarried ==
  ASSUME TypesInv, BatchesInv, NEW p \in DOMAIN GetTopPeersTrafficHistory,
         NEW m \in Rows, NEW z \in Rows, Holds(GetTopPeersTrafficHistory[p], p, m, z),
         NEW period \in Periods, NEW c \in m .. z,
         \A i \in c + 1 .. z : period # All => peerPoints[i].timestamp >= clock - period,
         \A i \in m .. c : c # m => period # All /\ peerPoints[i].timestamp < clock - period,
         NEW f, \A i \in DOMAIN PeersSeries : f[i] = PeersSeries[i].download[p]
  PROVE  /\ \A i \in DOMAIN PeersSeries : f[i] \in Nat
         /\ Total(f, Drawn(PeersSeries, period)) = Moves(p, c, z)
<1> DEFINE points == GetTopPeersTrafficHistory[p]
           times == Ascending(PeersTimes)
           K == Cardinality(PeersTimes)
           N == PositiveDiff(K, 1)
           J == Drawn(PeersSeries, period)
           L == Len(peerPoints)
           ts == [i \in 1 .. L |-> peerPoints[i].timestamp]
           rises == Rises(p)
<1>1. /\ L \in Nat /\ Rows = 1 .. L /\ ts \in [1 .. L -> Int]
      /\ \A i \in 1 .. L : ts[i] = peerPoints[i].timestamp /\ ts[i] \in Nat
      /\ \A i, j \in 1 .. L : i < j => ts[i] < ts[j]
      /\ m \in 1 .. L /\ z \in 1 .. L /\ m \in Int /\ z \in Int /\ c \in Int
      /\ \A i \in m .. z : i \in 1 .. L
  <2>1. L \in Nat /\ Rows = 1 .. L /\ \A i \in 1 .. L : peerPoints[i].timestamp \in Nat
    BY RowFields DEF TypesInv, Rows
  <2>2. \A i, j \in 1 .. L : i < j => ts[i] < ts[j]
    BY <2>1 DEF BatchesInv
  <2>3. m \in 1 .. L /\ z \in 1 .. L /\ m \in Int /\ z \in Int /\ c \in Int
        /\ \A i \in m .. z : i \in 1 .. L
    BY <2>1
  <2> QED
    BY <2>1, <2>2, <2>3
<1>2. /\ Timestamps(points) = {ts[i] : i \in m .. z}
      /\ \A i \in m .. z : At(points, ts[i]).rx = peerPoints[i].rx[p]
  <2>1. /\ Timestamps(points) = {peerPoints[i].timestamp : i \in m .. z}
        /\ \A i \in m .. z : At(points, peerPoints[i].timestamp).rx = peerPoints[i].rx[p]
    BY PointAt
  <2>2. \A i \in m .. z : ts[i] = peerPoints[i].timestamp
    BY <1>1
  <2> HIDE DEF ts, points
  <2> QED
    BY <2>1, <2>2
<1>3. /\ PeersTimes \in SUBSET Int /\ IsFiniteSet(PeersTimes) /\ K \in Nat
      /\ \A t \in PeersTimes : \E i \in 1 .. L : t = ts[i]
      /\ times \in [1 .. K -> PeersTimes]
      /\ \A i, j \in 1 .. K : i < j <=> times[i] < times[j]
      /\ \A t \in PeersTimes : \E i \in 1 .. K : times[i] = t
  <2>1. /\ PeersTimes \in SUBSET Nat /\ IsFiniteSet(PeersTimes)
        /\ \A t \in PeersTimes : \E i \in Rows : t = peerPoints[i].timestamp
    BY PeersSeriesIs
  <2>2. PeersTimes \in SUBSET Int
    BY <2>1
  <2>3. \A t \in PeersTimes : \E i \in 1 .. L : t = ts[i]
    BY <1>1, <2>1
  <2> QED
    BY <2>1, <2>2, <2>3, AscendingOrder
<1>4. \A i \in m .. z : ts[i] \in PeersTimes
  <2>1. Timestamps(points) \subseteq PeersTimes
    BY DEF PeersTimes
  <2> HIDE DEF points
  <2> QED
    BY <1>2, <2>1
<1>5. /\ DOMAIN PeersSeries = 1 .. N
      /\ \A i \in 1 .. N :
           /\ i \in 1 .. K - 1
           /\ PeersSeries[i].timestamp = times[i + 1]
           /\ f[i] = IF times[i] \in Timestamps(points) /\ times[i + 1] \in Timestamps(points)
                     THEN PositiveDiff(At(points, times[i + 1]).rx, At(points, times[i]).rx)
                     ELSE 0
      /\ \A i \in 1 .. K - 1 : i \in 1 .. N
  <2>1. \A i \in 1 .. K - 1 : i \in 1 .. N
    <3> HIDE DEF K
    <3> QED
      BY <1>3 DEF PositiveDiff
  <2> QED
    BY <2>1, PeersSeriesIs
<1> HIDE DEF points, times, K, N, J, L, ts, rises
<1>6. /\ \A i \in m + 1 .. z : \E j \in 1 .. K - 1 : times[j] = ts[i - 1] /\ times[j + 1] = ts[i]
      /\ \A j \in 1 .. K - 1 : \A u, v \in m .. z :
           times[j] = ts[u] /\ times[j + 1] = ts[v] => v = u + 1
  <2>1. Orders(L, ts, m, z, PeersTimes, K, times)
    BY <1>1, <1>3, <1>4 DEF Orders
  <2> QED
    BY <2>1, Intervals
<1>7. \A i \in m .. z : peerPoints[i].rx[p] \in Nat
  <2>1. \A i \in m .. z : i \in Rows /\ Has(p, i)
    BY <1>1 DEF Holds
  <2> QED
    BY <2>1, RowFields
<1>8. \A i \in m + 1 .. z :
        /\ i \in m .. z /\ i - 1 \in m .. z
        /\ rises[i] = PositiveDiff(peerPoints[i].rx[p], peerPoints[i - 1].rx[p])
        /\ rises[i] \in Nat
  <2> SUFFICES ASSUME NEW i \in m + 1 .. z
               PROVE  /\ i \in m .. z /\ i - 1 \in m .. z
                      /\ rises[i] = PositiveDiff(peerPoints[i].rx[p], peerPoints[i - 1].rx[p])
                      /\ rises[i] \in Nat
    OBVIOUS
  <2>1. i \in m .. z /\ i - 1 \in m .. z /\ i \in 2 .. L
    BY <1>1
  <2>2. rises[i] = PositiveDiff(peerPoints[i].rx[p], peerPoints[i - 1].rx[p])
    BY <2>1 DEF rises, Rises, L
  <2>3. peerPoints[i].rx[p] \in Nat /\ peerPoints[i - 1].rx[p] \in Nat
    BY <1>7, <2>1
  <2>4. rises[i] \in Nat
    BY <2>2, <2>3 DEF PositiveDiff
  <2> QED
    BY <2>1, <2>2, <2>4
<1>9. ASSUME NEW j \in 1 .. N
      PROVE  \/ f[j] = 0
             \/ \E i \in m + 1 .. z : times[j + 1] = ts[i] /\ f[j] = rises[i]
  <2>1. CASE times[j] \in Timestamps(points) /\ times[j + 1] \in Timestamps(points)
    <3>1. PICK u \in m .. z : times[j] = ts[u]
      BY <1>2, <2>1
    <3>2. PICK v \in m .. z : times[j + 1] = ts[v]
      BY <1>2, <2>1
    <3>3. v = u + 1 /\ v \in m + 1 .. z /\ v - 1 = u
      <4>1. v = u + 1
        BY <1>5, <1>6, <3>1, <3>2
      <4> QED
        BY <1>1, <4>1
    <3>4. f[j] = PositiveDiff(At(points, ts[v]).rx, At(points, ts[u]).rx)
      BY <1>5, <2>1, <3>1, <3>2
    <3>5. At(points, ts[v]).rx = peerPoints[v].rx[p] /\ At(points, ts[u]).rx = peerPoints[u].rx[p]
      BY <1>2
    <3>6. rises[v] = PositiveDiff(peerPoints[v].rx[p], peerPoints[u].rx[p])
      BY <1>8, <3>3
    <3>7. f[j] = rises[v]
      BY <3>4, <3>5, <3>6
    <3> QED
      BY <3>2, <3>3, <3>7
  <2>2. CASE ~(times[j] \in Timestamps(points) /\ times[j + 1] \in Timestamps(points))
    BY <1>5, <2>2
  <2> QED
    BY <2>1, <2>2
<1>10. \A j \in 1 .. N : f[j] \in Nat
  BY <1>8, <1>9
<1> DEFINE S == c + 1 .. z
           h == [i \in S |-> CHOOSE j \in 1 .. K - 1 : times[j] = ts[i - 1] /\ times[j + 1] = ts[i]]
<1>11. \A i \in S : i \in m + 1 .. z
  BY <1>1
<1>12. \A i \in S : h[i] \in 1 .. N /\ times[h[i]] = ts[i - 1] /\ times[h[i] + 1] = ts[i]
  <2> SUFFICES ASSUME NEW i \in S
               PROVE  h[i] \in 1 .. N /\ times[h[i]] = ts[i - 1] /\ times[h[i] + 1] = ts[i]
    OBVIOUS
  <2>1. \E j \in 1 .. K - 1 : times[j] = ts[i - 1] /\ times[j + 1] = ts[i]
    BY <1>6, <1>11
  <2>2. h[i] \in 1 .. K - 1 /\ times[h[i]] = ts[i - 1] /\ times[h[i] + 1] = ts[i]
    BY <2>1
  <2> HIDE DEF h
  <2> QED
    BY <1>5, <2>2
<1>13. \A j \in 1 .. N : j \in J <=> (period # All => times[j + 1] >= clock - period)
  <2> SUFFICES ASSUME NEW j \in 1 .. N
               PROVE  j \in J <=> (period # All => times[j + 1] >= clock - period)
    OBVIOUS
  <2>1. j + 1 \in 1 .. K
    BY <1>3, <1>5
  <2>2. times[j + 1] \in Nat
    BY <1>1, <1>3, <2>1
  <2>3. times[j + 1] # Epoch
    BY <2>2 DEF Epoch
  <2> QED
    BY <1>5, <2>3 DEF J, Drawn
<1>14. J \subseteq 1 .. N
  BY <1>5 DEF J, Drawn
<1> HIDE DEF h
<1>15. \A i \in S : h[i] \in J
  <2> SUFFICES ASSUME NEW i \in S, period # All PROVE ts[i] >= clock - period
    BY <1>12, <1>13
  <2>1. i \in 1 .. L
    BY <1>1, <1>11, <1>8
  <2> QED
    BY <1>1, <2>1
<1>16. \A i \in S : f[h[i]] = rises[i]
  <2> SUFFICES ASSUME NEW i \in S PROVE f[h[i]] = rises[i]
    OBVIOUS
  <2>1. i \in m .. z /\ i - 1 \in m .. z /\ i \in m + 1 .. z
    BY <1>8, <1>11
  <2>2. ts[i] \in Timestamps(points) /\ ts[i - 1] \in Timestamps(points)
    BY <1>2, <2>1
  <2>3. f[h[i]] = PositiveDiff(At(points, ts[i]).rx, At(points, ts[i - 1]).rx)
    BY <1>5, <1>12, <2>2
  <2> QED
    BY <1>2, <1>8, <2>1, <2>3
<1>17. \A i, j \in S : h[i] = h[j] => i = j
  <2> SUFFICES ASSUME NEW i \in S, NEW j \in S, h[i] = h[j] PROVE i = j
    OBVIOUS
  <2>1. ts[i] = ts[j]
    BY <1>12
  <2>2. i \in 1 .. L /\ j \in 1 .. L /\ i \in Int /\ j \in Int
    BY <1>1, <1>8, <1>11
  <2>3. ~(i < j) /\ ~(j < i)
    BY <1>1, <2>1, <2>2
  <2> QED
    BY <2>2, <2>3
<1>18. ASSUME NEW t \in J, \A i \in S : h[i] # t PROVE f[t] = 0
  <2> SUFFICES ASSUME f[t] # 0 PROVE FALSE
    OBVIOUS
  <2>1. t \in 1 .. N
    BY <1>14
  <2>2. PICK i \in m + 1 .. z : times[t + 1] = ts[i]
    BY <1>9, <2>1
  <2>3. i \in 1 .. L /\ i \in m .. z
    BY <1>1, <1>8
  <2>4. CASE i \in S
    <3>1. times[h[i] + 1] = times[t + 1] /\ h[i] \in 1 .. N
      BY <1>12, <2>2, <2>4
    <3>2. h[i] + 1 \in 1 .. K /\ t + 1 \in 1 .. K /\ h[i] \in Int /\ t \in Int
      BY <1>3, <1>5, <2>1, <3>1
    <3>3. times[h[i] + 1] \in Int
      BY <1>3, <3>2
    <3>4. ~(h[i] + 1 < t + 1) /\ ~(t + 1 < h[i] + 1)
      BY <1>3, <3>1, <3>2, <3>3
    <3>5. h[i] = t
      BY <3>2, <3>4
    <3> QED
      BY <1>18, <2>4, <3>5
  <2>5. CASE i \notin S
    <3>1. i \in m .. c /\ c # m
      BY <1>1, <2>5
    <3>2. period # All /\ ts[i] < clock - period
      BY <1>1, <2>3, <3>1
    <3>3. ts[i] >= clock - period
      BY <1>13, <2>1, <2>2, <3>2
    <3>4. ts[i] \in Int /\ clock - period \in Int
      <4>1. clock \in Int
        BY TrafficAssumption DEF TypesInv
      <4>2. period \in Int
        <5>1. period \in Windows /\ \A w \in Windows : w \in Int
          BY <3>2, TrafficAssumption DEF Periods
        <5> QED
          BY <5>1
      <4> QED
        BY <1>1, <2>3, <4>1, <4>2
    <3> QED
      BY <3>2, <3>3, <3>4
  <2> QED
    BY <2>4, <2>5
<1>19. h \in [S -> J]
  BY <1>15 DEF h
<1>20. \A i \in S : rises[i] \in Nat
  BY <1>8, <1>11
<1>21. IsFiniteSet(S)
  <2>1. c + 1 \in Int /\ z \in Int
    BY <1>1
  <2> QED
    BY <2>1, FS_Interval, Zenon
<1> HIDE DEF S
<1>22. Carries(h, rises, S, f, J)
  BY <1>16, <1>17, <1>18, <1>19, <1>20, Zenon DEF Carries
<1>23. Total(rises, S) = Total(f, J)
  BY <1>21, <1>22, TotalCarried
<1> QED
  BY <1>5, <1>10, <1>23 DEF Moves, rises, S, J

(* The chart of the clients shows of each what was received between its last
   point before the period, or its first, and its last one, whatever points
   the batches and the limits have left of the other clients: see PeersExact. *)
THEOREM PeersAreExact == Spec => []PeersExact
<1>1. ASSUME TrafficInv PROVE PeersExact
  <2> DEFINE historyOf == GetTopPeersTrafficHistory
             series == buildPeersTrafficSeries(historyOf)
             drawn(period) == PeersTrafficChart(series, period)
             Shown(p, period) == Sum([i \in DOMAIN drawn(period) |-> drawn(period)[i].download[p]])
             Ordered(points) == \A i \in DOMAIN points : points[i].dump # 0 /\ i \notin Back(points)
  <2>0. TypesInv /\ BatchesInv /\ clock \in Nat /\ series = PeersSeries
    BY <1>1, BatchesHold, TrafficAssumption DEF TrafficInv, TypesInv, PeersSeries
  <2>1. ASSUME NEW p \in DOMAIN historyOf, NEW period \in Periods, Ordered(historyOf[p])
        PROVE  /\ Shown(p, period) <= moved[p]
               /\ p \notin restarted =>
                    Shown(p, period) = Last(historyOf[p]).rx - FromPoint(historyOf[p], period).rx
    <3> DEFINE points == historyOf[p]
    <3>1. PICK m \in Rows, z \in Rows : Holds(points, p, m, z)
      BY <2>0, PeerHistory
    <3> HIDE DEF points
    <3>2. PICK c \in m .. z :
             /\ FromPoint(points, period).rx = peerPoints[c].rx[p]
             /\ \A i \in c + 1 .. z : period # All => peerPoints[i].timestamp >= clock - period
             /\ \A i \in m .. c : c # m =>
                  period # All /\ peerPoints[i].timestamp < clock - period
      BY <2>0, <3>1, FromRow
    <3> DEFINE f == [i \in DOMAIN PeersSeries |-> PeersSeries[i].download[p]]
    <3>3. /\ \A i \in DOMAIN PeersSeries : f[i] \in Nat
          /\ Total(f, Drawn(PeersSeries, period)) = Moves(p, c, z)
      <4>1. \A i \in DOMAIN PeersSeries : f[i] = PeersSeries[i].download[p]
        OBVIOUS
      <4> HIDE DEF f
      <4> QED
        BY <2>0, <3>1, <3>2, <4>1, PeerCarried DEF points
    <3>4. Shown(p, period) = Moves(p, c, z)
      <4> DEFINE g == [i \in DOMAIN drawn(period) |-> drawn(period)[i].download[p]]
                 n == PositiveDiff(Cardinality(PeersTimes), 1)
      <4>1. DOMAIN PeersSeries = 1 .. n /\ n \in Nat
        <5>1. Cardinality(PeersTimes) \in Nat
          BY <2>0, PeersSeriesIs, FS_CardinalityType
        <5> QED
          BY <2>0, <5>1, PeersSeriesIs DEF PositiveDiff
      <4>2. /\ DOMAIN g = DOMAIN filterByPeriod(PeersSeries, period)
            /\ \A k \in DOMAIN g : \A i \in 1 .. n :
                 filterByPeriod(PeersSeries, period)[k] = PeersSeries[i] => g[k] = f[i]
        BY <2>0, <4>1 DEF PeersTrafficChart
      <4> HIDE DEF f, g, n
      <4>3. Shows(g, PeersSeries, n, period, f)
        BY <3>3, <4>1, <4>2 DEF Shows
      <4>4. Sum(g) = Total(f, Drawn(PeersSeries, period))
        BY <4>3, SumDrawn
      <4> QED
        BY <3>3, <4>4 DEF g
    <3>5. Run(p, c, z) /\ c \in Rows /\ c <= z /\ p \in Peers /\ Last(points).rx = peerPoints[z].rx[p]
      <4>1. /\ m \in Int /\ z \in Int /\ m <= z /\ c \in Int /\ Len(points) = z - m + 1
            /\ DOMAIN points = 1 .. z - m + 1 /\ Len(peerPoints) \in Nat /\ Rows = 1 .. Len(peerPoints)
        BY <2>0, <3>1, BatchFields DEF Holds, TypesInv, Rows
      <4>2. \A i \in m .. z : i - m + 1 \in DOMAIN points /\ i \in Rows
        BY <4>1
      <4>3. \A i \in m .. z : Has(p, i) /\ peerPoints[i].dump # 0
        <5> SUFFICES ASSUME NEW i \in m .. z PROVE Has(p, i) /\ peerPoints[i].dump # 0
          OBVIOUS
        <5>1. points[i - m + 1].dump # 0
          BY <2>1, <4>2 DEF points
        <5> QED
          BY <3>1, <5>1 DEF Holds
      <4>4. \A i \in c .. z : i \in m .. z
        BY <4>1
      <4>5. c \in Rows /\ c <= z /\ z \in m .. z /\ c \in m .. z
        BY <4>1, <4>2
      <4>6. p \in Peers
        BY <2>0, <4>3, <4>5, RowFields
      <4>7. Last(points).rx = peerPoints[z].rx[p]
        BY <3>1, <4>1, <4>5 DEF Holds, Last
      <4>8. ASSUME NEW i \in c + 1 .. z PROVE peerPoints[i - 1].dump <= peerPoints[i].dump
        <5> DEFINE k == i - m + 1
        <5>1. /\ i \in m .. z /\ i - 1 \in m .. z /\ k \in 2 .. Len(points) /\ k \in DOMAIN points
              /\ i - 1 - m + 1 = k - 1
          BY <4>1
        <5>2. k \notin Back(points)
          BY <2>1, <5>1 DEF points
        <5>3. ~(points[k].dump < points[k - 1].dump)
          BY <5>1, <5>2 DEF Back
        <5>4. points[k].dump = peerPoints[i].dump /\ points[k - 1].dump = peerPoints[i - 1].dump
          <6>1. \A j \in m .. z : points[j - m + 1].dump = peerPoints[j].dump
            BY <3>1 DEF Holds
          <6> HIDE DEF k
          <6>2. points[i - m + 1].dump = peerPoints[i].dump
            BY <5>1, <6>1
          <6>3. points[i - 1 - m + 1].dump = peerPoints[i - 1].dump
            BY <5>1, <6>1
          <6> QED
            BY <5>1, <6>2, <6>3 DEF k
        <5>5. peerPoints[i].dump \in Nat /\ peerPoints[i - 1].dump \in Nat
          BY <2>0, <4>2, <5>1, RowFields
        <5> QED
          BY <5>3, <5>4, <5>5
      <4> QED
        BY <4>3, <4>4, <4>5, <4>6, <4>7, <4>8 DEF Run
    <3> QED
      <4>1. /\ Moves(p, c, z) <= moved[p]
            /\ p \notin restarted => Moves(p, c, z) = peerPoints[z].rx[p] - peerPoints[c].rx[p]
        BY <1>1, <3>5, RunsHold
      <4> HIDE DEF Shown
      <4> QED
        BY <3>2, <3>4, <3>5, <4>1 DEF points
  <2> QED
    BY <2>1, Zenon DEF PeersExact, FromPoint
<1> QED
  BY <1>1, TrafficHolds, PTL

-----------------------------------------------------------------------------
(* The chart of the interface.                                              *)

\* Points x, never above w, that rise no more than it but for those in back.
Readable(n, x, w, back, M) ==
    /\ n \in Nat \ {0} /\ M \in Nat /\ back \in SUBSET (2 .. n)
    /\ \A i \in 1 .. n : x[i] \in Nat /\ w[i] \in 0 .. M /\ x[i] <= w[i]
    /\ \A i \in 1 .. n - 1 : i + 1 \notin back
         => w[i] <= w[i + 1] /\ x[i + 1] + w[i] <= w[i + 1] + x[i]

LEMMA Chain ==
  ASSUME NEW n, NEW x, NEW w, NEW back, NEW M, Readable(n, x, w, back, M),
         NEW d, \A i \in 1 .. n - 1 : d[i] = PositiveDiff(x[i + 1], x[i])
  PROVE  x[1] + Total(d, 1 .. n - 1) <= M * (1 + Cardinality(back))
<1>0. /\ n \in Nat \ {0} /\ M \in Nat /\ back \in SUBSET (2 .. n)
      /\ \A i \in 1 .. n : x[i] \in Nat /\ w[i] \in 0 .. M /\ x[i] <= w[i]
      /\ \A i \in 1 .. n - 1 : i + 1 \notin back
           => w[i] <= w[i + 1] /\ x[i + 1] + w[i] <= w[i + 1] + x[i]
  BY DEF Readable
<1> DEFINE B(i) == Cardinality(back \cap (1 .. i))
           s(i) == x[1] + Total(d, 1 .. i - 1)
           T == {i \in 1 .. n : s(i) <= w[i] + M * B(i)}
<1>1. ASSUME NEW i \in 1 .. n
      PROVE  /\ B(i) \in Nat
             /\ i + 1 \notin back => B(i + 1) = B(i)
             /\ i + 1 \in back => B(i + 1) = B(i) + 1
  <2> DEFINE V == back \cap (1 .. i)
  <2>1. IsFiniteSet(1 .. i)
    BY <1>0, FS_Interval
  <2>2. IsFiniteSet(V) /\ Cardinality(V) \in Nat
    <3>1. V \in SUBSET (1 .. i)
      OBVIOUS
    <3> HIDE DEF V
    <3> QED
      BY <2>1, <3>1, FS_Subset, FS_CardinalityType
  <2>3. 1 .. i + 1 = (1 .. i) \cup {i + 1} /\ i + 1 \notin 1 .. i
    BY <1>0
  <2>4. i + 1 \notin back => back \cap (1 .. i + 1) = V
    BY <2>3
  <2>5. i + 1 \in back => back \cap (1 .. i + 1) = V \cup {i + 1}
    BY <2>3
  <2>6. i + 1 \notin V
    BY <2>3
  <2> HIDE DEF V
  <2>7. Cardinality(V \cup {i + 1}) = Cardinality(V) + 1
    BY <2>2, <2>6, FS_AddElement
  <2> QED
    BY <2>2, <2>4, <2>5, <2>7 DEF V
<1>2. \A i \in 1 .. n - 1 : i \in 1 .. n /\ i + 1 \in 1 .. n /\ d[i] \in Nat
  <2> SUFFICES ASSUME NEW i \in 1 .. n - 1
               PROVE  i \in 1 .. n /\ i + 1 \in 1 .. n /\ d[i] \in Nat
    OBVIOUS
  <2>1. i \in 1 .. n /\ i + 1 \in 1 .. n
    BY <1>0
  <2>2. x[i] \in Nat /\ x[i + 1] \in Nat
    BY <1>0, <2>1
  <2>3. PositiveDiff(x[i + 1], x[i]) \in Nat
    BY <2>2 DEF PositiveDiff
  <2> QED
    BY <2>1, <2>3
<1>3. ASSUME NEW i \in 1 .. n
      PROVE  /\ s(i) \in Nat
             /\ i < n => s(i + 1) = s(i) + PositiveDiff(x[i + 1], x[i])
  <2>1. i - 1 \in Int /\ i \in Int /\ i - 1 + 1 = i /\ 1 <= i - 1 + 1 /\ i + 1 - 1 = i
    BY <1>0
  <2>2. x[1] \in Nat
    BY <1>0
  <2>3. \A j \in 1 .. i - 1 : d[j] \in Nat
    BY <1>0, <1>2
  <2>4. IsFiniteSet(1 .. i - 1)
    BY <2>1, FS_Interval
  <2>5. Total(d, 1 .. i - 1) \in Nat
    BY <2>3, <2>4, UnitsFinite
  <2>6. ASSUME i < n PROVE Total(d, 1 .. i) = Total(d, 1 .. i - 1) + d[i]
    <3> DEFINE k == i - 1
    <3>1. k \in Int /\ k + 1 = i /\ 1 <= k + 1 /\ 1 \in Int
      BY <2>1
    <3>2. \A j \in 1 .. k + 1 : d[j] \in Nat
      <4>1. \A j \in 1 .. i : j \in 1 .. n - 1
        BY <1>0, <2>6
      <4> QED
        BY <1>2, <3>1, <4>1
    <3> HIDE DEF k
    <3>3. Total(d, 1 .. k + 1) = Total(d, 1 .. k) + d[k + 1]
      BY <3>1, <3>2, TotalToNext
    <3> QED
      BY <3>1, <3>3 DEF k
  <2>7. i < n => d[i] = PositiveDiff(x[i + 1], x[i]) /\ d[i] \in Nat
    <3>1. i < n => i \in 1 .. n - 1
      BY <1>0
    <3> QED
      BY <1>2, <3>1
  <2>8. s(i) \in Nat
    BY <2>2, <2>5
  <2>9. i < n => s(i + 1) = s(i) + d[i]
    BY <2>1, <2>2, <2>5, <2>6, <2>7
  <2> QED
    BY <2>7, <2>8, <2>9
<1>4. \A b \in Nat : M * b \in Nat /\ M * (b + 1) = M * b + M
  BY <1>0
<1> HIDE DEF B, s
<1>5. 1 \in T
  <2>1. 1 \in 1 .. n /\ s(1) = x[1]
    <3>1. 1 .. 1 - 1 = {} /\ 1 \in 1 .. n /\ x[1] \in Nat
      BY <1>0
    <3>2. s(1) = x[1] + 0
      BY <3>1, TotalOfNone DEF s
    <3> QED
      BY <3>1, <3>2
  <2>2. M * B(1) \in Nat
    BY <1>1, <1>4, <2>1
  <2> QED
    BY <1>0, <2>1, <2>2
<1>6. ASSUME NEW i \in 1 .. n, i \in T, i < n PROVE i + 1 \in T
  <2>0. i + 1 \in 1 .. n /\ i \in 1 .. n - 1
    BY <1>0, <1>6
  <2> DEFINE b == M * B(i)
             c == M * B(i + 1)
             s0 == s(i)
             x0 == x[i]
             x1 == x[i + 1]
             w0 == w[i]
             w1 == w[i + 1]
  <2>1. b \in Nat /\ (i + 1 \notin back => c = b) /\ (i + 1 \in back => c = b + M)
    BY <1>1, <1>4
  <2>2. /\ M \in Nat /\ s0 \in Nat /\ s0 <= w0 + b
        /\ x0 \in Nat /\ x1 \in Nat /\ w0 \in 0 .. M /\ w1 \in 0 .. M /\ x0 <= w0 /\ x1 <= w1
        /\ i + 1 \notin back => w0 <= w1 /\ x1 + w0 <= w1 + x0
    BY <1>0, <1>3, <1>6, <2>0
  <2>3. s(i + 1) = s0 + PositiveDiff(x1, x0)
    BY <1>3, <1>6
  <2> HIDE DEF b, c, s0, x0, x1, w0, w1
  <2>4. s0 + PositiveDiff(x1, x0) <= w1 + c
    <3>1. CASE i + 1 \in back
      BY <2>1, <2>2, <3>1 DEF PositiveDiff
    <3>2. CASE i + 1 \notin back
      BY <2>1, <2>2, <3>2 DEF PositiveDiff
    <3> QED
      BY <3>1, <3>2
  <2> QED
    BY <2>0, <2>3, <2>4 DEF c, w1
<1>7. \A i \in 1 .. n : i \in T
  <2>1. n \in Nat
    BY <1>0
  <2> HIDE DEF T
  <2> QED
    BY <1>5, <1>6, <2>1, Induct
<1>8. n \in 1 .. n /\ back \cap (1 .. n) = back /\ w[n] \in 0 .. M
  <2>1. 2 .. n \subseteq 1 .. n /\ n \in 1 .. n
    BY <1>0
  <2> QED
    BY <1>0, <2>1
<1>9. s(n) <= w[n] + M * B(n) /\ s(n) \in Nat /\ B(n) = Cardinality(back) /\ B(n) \in Nat
  BY <1>1, <1>3, <1>7, <1>8 DEF B
<1>10. s(n) <= M * (1 + B(n))
  <2>1. M * (1 + B(n)) = M * B(n) + M /\ M * B(n) \in Nat
    BY <1>0, <1>4, <1>9
  <2> QED
    BY <1>0, <1>8, <1>9, <2>1
<1> QED
  BY <1>9, <1>10 DEF s

\* What a reading has of each client, and what had been received of it, of
\* those who were in a list until then.
Read(l, d) ==
    [p \in Peers |-> IF d = 0 \/ l = 0 \/ p \notin tables[l] THEN 0 ELSE counters[d].bytes[p]]
Received(l, d) ==
    [p \in Peers |-> IF d = 0 \/ p \notin Known(l) THEN 0 ELSE counters[d].moved[p]]

LEMMA ReadIs ==
  ASSUME TypesInv, NEW l \in 0 .. Len(tables), NEW d \in 0 .. Len(counters)
  PROVE  TotalRx(l, d) = Total(Read(l, d), Peers)
<1> DEFINE f == Reading(l, d)
<1>1. l # 0 => tables[l] \in SUBSET Peers
  <2>1. l # 0 => l \in 1 .. Len(tables)
    BY LastEntries
  <2> QED
    BY <2>1, LastEntries
<1>2. DOMAIN f = (IF l = 0 THEN {} ELSE tables[l]) /\ DOMAIN f \subseteq Peers
  BY <1>1 DEF Reading
<1>3. \A p \in DOMAIN f : f[p] = Read(l, d)[p]
  BY <1>2 DEF Reading, Read
<1>4. \A p \in Peers \ DOMAIN f : Read(l, d)[p] = 0
  BY <1>2 DEF Read
<1> HIDE DEF f
<1>5. Units(f, DOMAIN f) = Units(Read(l, d), Peers)
  <2>1. Units(f, DOMAIN f) \subseteq Units(Read(l, d), Peers)
    BY <1>2, <1>3 DEF Units
  <2>2. ASSUME NEW u \in Units(Read(l, d), Peers) PROVE u \in Units(f, DOMAIN f)
    <3>1. PICK p \in Peers : u \in {p} \X (1 .. Read(l, d)[p])
      BY DEF Units
    <3>2. p \in DOMAIN f
      <4>1. Read(l, d)[p] # 0
        BY <3>1
      <4> QED
        BY <1>4, <4>1
    <3> QED
      BY <1>3, <3>1, <3>2 DEF Units
  <2> QED
    BY <2>1, <2>2
<1> QED
  BY <1>5 DEF TotalRx, Total, Units, f

LEMMA OneRead ==
  ASSUME TypesInv, CountersInv,
         NEW l \in 0 .. Len(tables), NEW d \in 0 .. Len(counters), NEW p \in Peers
  PROVE  /\ Read(l, d)[p] \in Nat /\ Received(l, d)[p] \in Nat
         /\ Read(l, d)[p] <= Received(l, d)[p]
         /\ moved[p] \in Nat /\ Received(l, d)[p] <= moved[p]
<1>1. /\ Len(tables) \in Nat \ {0} /\ Len(counters) \in Nat \ {0}
      /\ moved = counters[Len(counters)].moved /\ moved \in [Peers -> Nat]
      /\ \A n \in 1 .. Len(counters) :
           counters[n].bytes \in [Peers -> Nat] /\ counters[n].moved \in [Peers -> Nat]
  BY LastEntries
<1>2. moved[p] \in Nat
  BY <1>1
<1>3. CASE d = 0
  BY <1>2, <1>3 DEF Read, Received
<1>4. CASE d # 0
  <2>1. d \in 1 .. Len(counters) /\ Len(counters) \in 1 .. Len(counters) /\ d <= Len(counters)
    BY <1>1, <1>4
  <2>2. /\ counters[d].bytes[p] \in Nat /\ counters[d].moved[p] \in Nat
        /\ counters[d].bytes[p] <= counters[d].moved[p]
        /\ counters[d].moved[p] <= moved[p]
    BY <1>1, <2>1 DEF CountersInv
  <2>3. l # 0 /\ p \in tables[l] => p \in Known(l)
    <3>1. l # 0 => l \in 1 .. l
      BY <1>1
    <3> QED
      BY <3>1 DEF Known
  <2> QED
    BY <1>2, <2>2, <2>3 DEF Read, Received
<1> QED
  BY <1>3, <1>4

\* A later list with a later dump has gained of no client more than was
\* received: one that is in the later list, and was known, was in the earlier.
LEMMA TwoReads ==
  ASSUME TypesInv, CountersInv, TablesInv, NEW p \in Peers,
         NEW l \in 0 .. Len(tables), NEW m \in 0 .. Len(tables), l <= m,
         NEW d \in 0 .. Len(counters), NEW e \in 0 .. Len(counters), d <= e
  PROVE  /\ Received(l, d)[p] <= Received(m, e)[p]
         /\ Read(m, e)[p] + Received(l, d)[p] <= Received(m, e)[p] + Read(l, d)[p]
<1>1. /\ Read(l, d)[p] \in Nat /\ Received(l, d)[p] \in Nat
      /\ Read(m, e)[p] \in Nat /\ Received(m, e)[p] \in Nat
      /\ Read(l, d)[p] <= Received(l, d)[p] /\ Read(m, e)[p] <= Received(m, e)[p]
  BY OneRead
<1>2. CASE d = 0 \/ p \notin Known(l)
  <2>1. Received(l, d)[p] = 0
    BY <1>2 DEF Received
  <2> QED
    BY <1>1, <2>1
<1>3. CASE d # 0 /\ p \in Known(l)
  <2>1. /\ d \in 1 .. Len(counters) /\ e \in 1 .. Len(counters)
        /\ counters[d].bytes[p] \in Nat /\ counters[d].moved[p] \in Nat
        /\ counters[e].bytes[p] \in Nat /\ counters[e].moved[p] \in Nat
    <3>1. d \in 1 .. Len(counters) /\ e \in 1 .. Len(counters)
      BY <1>3, LastEntries
    <3> QED
      BY <3>1, LastEntries
  <2>2. /\ counters[d].moved[p] <= counters[e].moved[p]
        /\ counters[e].bytes[p] + counters[d].moved[p] <= counters[e].moved[p] + counters[d].bytes[p]
    BY <2>1 DEF CountersInv
  <2>3. PICK j \in 1 .. l : p \in tables[j]
    BY <1>3 DEF Known
  <2>4. /\ j \in 1 .. Len(tables) /\ l \in 1 .. Len(tables) /\ m \in 1 .. Len(tables)
        /\ j \in 1 .. m /\ j <= l /\ l # 0 /\ m # 0 /\ e # 0
    BY <1>3, LastEntries
  <2>5. p \in Known(m)
    BY <2>3, <2>4 DEF Known
  <2>6. p \in tables[m] => p \in tables[l]
    BY <2>3, <2>4 DEF TablesInv
  <2>7. Received(l, d)[p] = counters[d].moved[p] /\ Received(m, e)[p] = counters[e].moved[p]
    BY <1>3, <2>4, <2>5 DEF Received
  <2>8. CASE p \in tables[m]
    <3>1. Read(l, d)[p] = counters[d].bytes[p] /\ Read(m, e)[p] = counters[e].bytes[p]
      BY <1>3, <2>4, <2>6, <2>8 DEF Read
    <3> QED
      BY <2>2, <2>7, <3>1
  <2>9. CASE p \notin tables[m]
    <3>1. Read(m, e)[p] = 0
      BY <2>9 DEF Read
    <3> QED
      BY <1>1, <2>1, <2>2, <2>7, <3>1
  <2> QED
    BY <2>8, <2>9
<1> QED
  BY <1>2, <1>3

\* Points that tell what they read.
LEMMA PointsReadable ==
  ASSUME TypesInv, CountersInv, TablesInv,
         NEW points, NEW n \in Nat \ {0}, Len(points) = n,
         \A i \in 1 .. n : Exists(points[i]) /\ points[i].rx = TotalRx(points[i].load, points[i].dump),
         NEW x, NEW w,
         \A i \in 1 .. n : /\ x[i] = points[i].rx
                          /\ w[i] = Total(Received(points[i].load, points[i].dump), Peers)
  PROVE  Readable(n, x, w, Back(points), Total(moved, Peers))
<1>0. IsFiniteSet(Peers) /\ Peers \in SUBSET Peers
  BY TrafficAssumption
<1>1. ASSUME NEW i \in 1 .. n
      PROVE  /\ points[i].load \in 0 .. Len(tables) /\ points[i].dump \in 0 .. Len(counters)
             /\ points[i].load \in Int /\ points[i].dump \in Int
             /\ x[i] = Total(Read(points[i].load, points[i].dump), Peers)
             /\ w[i] = Total(Received(points[i].load, points[i].dump), Peers)
  <2>1. points[i].load \in 0 .. Len(tables) /\ points[i].dump \in 0 .. Len(counters)
    BY DEF Exists
  <2>2. x[i] = Total(Read(points[i].load, points[i].dump), Peers)
    BY <2>1, ReadIs
  <2> QED
    BY <2>1, <2>2, LastEntries
<1>2. ASSUME NEW i \in 1 .. n
      PROVE  /\ x[i] \in Nat /\ w[i] \in Nat /\ x[i] <= w[i]
             /\ Total(moved, Peers) \in Nat /\ w[i] <= Total(moved, Peers)
  <2> DEFINE f == Read(points[i].load, points[i].dump)
             g == Received(points[i].load, points[i].dump)
  <2>1. \A p \in Peers : /\ f[p] \in Nat /\ g[p] \in Nat /\ f[p] <= g[p]
                         /\ moved[p] \in Nat /\ g[p] <= moved[p]
    BY <1>1, OneRead
  <2> HIDE DEF f, g
  <2>2. Total(f, Peers) \in Nat /\ Total(g, Peers) \in Nat /\ Total(f, Peers) <= Total(g, Peers)
    BY <1>0, <2>1, TotalLess
  <2>3. Total(moved, Peers) \in Nat /\ Total(g, Peers) <= Total(moved, Peers)
    BY <1>0, <2>1, TotalLess
  <2> QED
    BY <1>1, <2>2, <2>3 DEF f, g
<1>3. Total(moved, Peers) \in Nat /\ \A i \in 1 .. n : w[i] \in 0 .. Total(moved, Peers)
  <2>1. 1 \in 1 .. n
    OBVIOUS
  <2> QED
    BY <1>2, <2>1
<1>4. ASSUME NEW i \in 1 .. n - 1, i + 1 \notin Back(points)
      PROVE  w[i] <= w[i + 1] /\ x[i + 1] + w[i] <= w[i + 1] + x[i]
  <2> DEFINE j == i + 1
  <2>1. i \in 1 .. n /\ j \in 1 .. n /\ j \in 2 .. n /\ j - 1 = i
    OBVIOUS
  <2>2. points[i].dump <= points[j].dump /\ points[i].load <= points[j].load
    <3>1. ~(points[j].dump < points[j - 1].dump) /\ ~(points[j].load < points[j - 1].load)
      BY <1>4, <2>1 DEF Back
    <3> QED
      BY <1>1, <2>1, <3>1
  <2> HIDE DEF j
  <2> DEFINE f == Read(points[j].load, points[j].dump)
             h == Received(points[i].load, points[i].dump)
             g == Read(points[i].load, points[i].dump)
             k == Received(points[j].load, points[j].dump)
  <2>3. \A p \in Peers : f[p] \in Nat /\ g[p] \in Nat /\ h[p] \in Nat /\ k[p] \in Nat
    BY <1>1, <2>1, OneRead
  <2>4. \A p \in Peers : h[p] <= k[p] /\ f[p] + h[p] <= k[p] + g[p]
    BY <1>1, <2>1, <2>2, TwoReads
  <2> HIDE DEF f, g, h, k
  <2>5. \A p \in Peers : f[p] + h[p] <= g[p] + k[p]
    BY <2>3, <2>4
  <2>6. Total(f, Peers) + Total(h, Peers) <= Total(g, Peers) + Total(k, Peers)
    BY <1>0, <2>3, <2>4, <2>5, TotalsGain
  <2>7. Total(h, Peers) <= Total(k, Peers)
    BY <1>0, <2>3, <2>4, TotalLess
  <2>8. /\ x[i] = Total(g, Peers) /\ w[i] = Total(h, Peers)
        /\ x[j] = Total(f, Peers) /\ w[j] = Total(k, Peers)
    BY <1>1, <2>1 DEF f, g, h, k
  <2>9. x[i] \in Nat /\ x[j] \in Nat /\ w[i] \in Nat /\ w[j] \in Nat
    BY <1>2, <2>1
  <2> QED
    BY <2>6, <2>7, <2>8, <2>9 DEF j
<1>5. Back(points) \in SUBSET (2 .. n)
  BY DEF Back
<1> QED
  BY <1>2, <1>3, <1>4, <1>5 DEF Readable

\* A timestamp of the points is one of a point that At finds.
LEMMA AtFinds ==
  ASSUME NEW points \in Seq(Point), NEW t \in Timestamps(points)
  PROVE  \E k \in DOMAIN points : At(points, t) = points[k] /\ points[k].timestamp = t
<1> DEFINE I == {i \in DOMAIN points : points[i].timestamp = t}
           k == CHOOSE i \in I : \A j \in I : j <= i
<1>1. I # {}
  BY DEF Timestamps
<1>2. I \in SUBSET Int /\ IsFiniteSet(I)
  <2>1. I \in SUBSET (1 .. Len(points)) /\ Len(points) \in Nat /\ \A i \in 1 .. Len(points) : i \in Int
    OBVIOUS
  <2>2. IsFiniteSet(1 .. Len(points))
    BY <2>1, FS_Interval
  <2> HIDE DEF I
  <2>3. IsFiniteSet(I)
    BY <2>1, <2>2, FS_Subset
  <2> QED
    BY <2>1, <2>3
<1>3. k \in I
  <2>1. \E i \in I : \A j \in I : j <= i
    <3> HIDE DEF I
    <3> QED
      BY <1>1, <1>2, Greatest
  <2> QED
    BY <2>1
<1>4. At(points, t) = points[k]
  BY DEF At
<1> QED
  BY <1>3, <1>4

LEMMA ServerHistory ==
  ASSUME TypesInv, NEW n \in 0 .. Len(totals)
  PROVE  /\ GetTrafficHistory(n) \in Seq(Point)
         /\ \A i \in DOMAIN GetTrafficHistory(n) :
              \E j \in DOMAIN totals : GetTrafficHistory(n)[i] = totals[j]
<1> DEFINE rows == SubSeq(totals, 1, n)
           ends == LastOf(rows, HistorySize)
<1>1. totals \in Seq(Point) /\ n \in 0 .. Len(totals) /\ Len(totals) \in Nat
  BY DEF TypesInv
<1>2. rows \in Seq(Point) /\ Len(rows) = n /\ \A i \in 1 .. n : rows[i] = totals[i]
  <2>1. 1 \in Int /\ n \in Int /\ \A i \in 1 .. n : totals[i] \in Point
    BY <1>1
  <2>2. /\ rows \in Seq(Point) /\ Len(rows) = IF 1 <= n THEN n - 1 + 1 ELSE 0
        /\ \A i \in 1 .. n - 1 + 1 : rows[i] = totals[1 + i - 1]
    BY <2>1, SubSeqProperties
  <2>3. \A i \in 1 .. n : i \in 1 .. n - 1 + 1 /\ 1 + i - 1 = i
    BY <1>1
  <2>4. (IF 1 <= n THEN n - 1 + 1 ELSE 0) = n
    BY <1>1
  <2> HIDE DEF rows
  <2>5. \A i \in 1 .. n : rows[i] = totals[i]
    BY <2>2, <2>3
  <2> QED
    BY <2>2, <2>4, <2>5
<1> HIDE DEF rows
<1>3. PICK k \in 0 .. Len(rows) :
         /\ ends \in Seq(Point) /\ Len(ends) = Len(rows) - k
         /\ \A i \in 1 .. Len(rows) - k : ends[i] = rows[k + i]
  <2>1. rows \in Seq(Point) /\ HistorySize \in Nat
    BY <1>2, TrafficAssumption
  <2> QED
    BY <2>1, LastOfEnds
<1>4. GetTrafficHistory(n) = ends
  BY DEF GetTrafficHistory, rows
<1> HIDE DEF ends
<1>5. ASSUME NEW i \in DOMAIN ends PROVE \E j \in DOMAIN totals : ends[i] = totals[j]
  <2>1. i \in 1 .. Len(rows) - k
    BY <1>3
  <2>2. k + i \in 1 .. n /\ k + i \in DOMAIN totals
    BY <1>1, <1>2, <2>1
  <2>3. ends[i] = totals[k + i]
    BY <1>2, <1>3, <2>1, <2>2
  <2> QED
    BY <2>2, <2>3
<1> QED
  BY <1>3, <1>4, <1>5

\* The points of the chart: from the server or sampled, one for a time.
LEMMA Merged ==
  ASSUME TypesInv, InOrder(live), NEW r \in 0 .. Len(totals)
  PROVE  /\ Len(merged(r)) \in Nat /\ DOMAIN merged(r) = 1 .. Len(merged(r))
         /\ merged(r) # <<>> => Len(merged(r)) # 0
         /\ \A i \in 1 .. Len(merged(r)) :
              /\ merged(r)[i] \in Point
              /\ \/ \E j \in DOMAIN totals : merged(r)[i] = totals[j]
                 \/ \E j \in DOMAIN live : merged(r)[i] = live[j]
         /\ \A i, k \in 1 .. Len(merged(r)) : i < k => merged(r)[i].timestamp < merged(r)[k].timestamp
<1> DEFINE server == GetTrafficHistory(r)
           both == server \o live
           U == Timestamps(both)
           times == Ascending(U)
           n == Cardinality(U)
<1>1. /\ server \in Seq(Point) /\ live \in Seq(Point)
      /\ \A i \in DOMAIN server : \E j \in DOMAIN totals : server[i] = totals[j]
  BY ServerHistory DEF InOrder
<1> HIDE DEF server
<1>2. /\ both \in Seq(Point)
      /\ \A k \in DOMAIN both : \/ \E j \in DOMAIN totals : both[k] = totals[j]
                                \/ \E j \in DOMAIN live : both[k] = live[j]
  <2>1. /\ both \in Seq(Point) /\ Len(both) = Len(server) + Len(live)
        /\ \A k \in 1 .. Len(server) + Len(live) :
             both[k] = IF k <= Len(server) THEN server[k] ELSE live[k - Len(server)]
    BY <1>1
  <2>2. ASSUME NEW k \in DOMAIN both
        PROVE  \/ \E j \in DOMAIN totals : both[k] = totals[j]
               \/ \E j \in DOMAIN live : both[k] = live[j]
    <3>1. k \in 1 .. Len(server) + Len(live) /\ Len(server) \in Nat /\ Len(live) \in Nat
      BY <1>1, <2>1
    <3>2. CASE k <= Len(server)
      <4>1. k \in DOMAIN server /\ both[k] = server[k]
        BY <1>1, <2>1, <3>1, <3>2
      <4> QED
        BY <1>1, <4>1
    <3>3. CASE ~(k <= Len(server))
      <4>1. k - Len(server) \in DOMAIN live /\ both[k] = live[k - Len(server)]
        BY <1>1, <2>1, <3>1, <3>3
      <4> QED
        BY <4>1
    <3> QED
      BY <3>2, <3>3
  <2> QED
    BY <2>1, <2>2
<1> HIDE DEF both
<1>3. U \in SUBSET Int /\ IsFiniteSet(U)
  <2>1. \A k \in DOMAIN both : both[k].timestamp \in Int
    <3> SUFFICES ASSUME NEW k \in DOMAIN both PROVE both[k].timestamp \in Int
      OBVIOUS
    <3>1. both[k] \in Point
      BY <1>2
    <3> QED
      BY <3>1, TrafficAssumption DEF Point
  <2>2. U \in SUBSET Int
    BY <2>1 DEF Timestamps
  <2>3. IsFiniteSet(DOMAIN both)
    <3>1. DOMAIN both = 1 .. Len(both) /\ Len(both) \in Nat
      BY <1>2
    <3>2. IsFiniteSet(1 .. Len(both))
      BY <3>1, FS_Interval
    <3> QED
      BY <3>1, <3>2
  <2>4. IsFiniteSet(U)
    <3> DEFINE g == [k \in DOMAIN both |-> both[k].timestamp]
    <3>1. g \in Surjection(DOMAIN both, U)
      BY DEF Surjection, Timestamps
    <3> HIDE DEF g, U
    <3> QED
      BY <2>3, <3>1, FS_Surjection
  <2> QED
    BY <2>2, <2>4
<1>4. /\ n \in Nat /\ times \in [1 .. n -> U]
      /\ \A i, j \in 1 .. n : i < j <=> times[i] < times[j]
  <2> HIDE DEF U
  <2> QED
    BY <1>3, AscendingOrder
<1>5. merged(r) = [i \in DOMAIN times |-> At(both, times[i])]
  BY DEF merged, mergeTrafficHistory, both, server
<1> HIDE DEF times, n
<1>6. merged(r) = [i \in 1 .. n |-> At(both, times[i])]
  BY <1>4, <1>5
<1>7. ASSUME NEW i \in 1 .. n
      PROVE  \E k \in DOMAIN both : merged(r)[i] = both[k] /\ merged(r)[i].timestamp = times[i]
  <2>1. times[i] \in Timestamps(both)
    BY <1>4
  <2>2. \E k \in DOMAIN both : At(both, times[i]) = both[k] /\ both[k].timestamp = times[i]
    BY <1>2, <2>1, AtFinds
  <2>3. merged(r)[i] = At(both, times[i])
    BY <1>6
  <2> QED
    BY <2>2, <2>3
<1> HIDE DEF U
<1>8. Len(merged(r)) = n /\ DOMAIN merged(r) = 1 .. n /\ (merged(r) # <<>> => n # 0)
  <2>1. Len(merged(r)) = n /\ DOMAIN merged(r) = 1 .. n
    BY <1>4, <1>6
  <2>2. ASSUME n = 0 PROVE merged(r) = <<>>
    <3>1. merged(r) = [i \in 1 .. 0 |-> At(both, times[i])]
      BY <1>6, <2>2
    <3> QED
      BY <3>1
  <2> QED
    BY <2>1, <2>2
<1>9. ASSUME NEW i \in 1 .. n
      PROVE  /\ merged(r)[i] \in Point
             /\ \/ \E j \in DOMAIN totals : merged(r)[i] = totals[j]
                \/ \E j \in DOMAIN live : merged(r)[i] = live[j]
  <2>1. PICK k \in DOMAIN both : merged(r)[i] = both[k]
    BY <1>7
  <2>2. both[k] \in Point
    BY <1>2
  <2> QED
    BY <1>2, <2>1, <2>2
<1>10. ASSUME NEW i \in 1 .. n, NEW k \in 1 .. n, i < k
       PROVE  merged(r)[i].timestamp < merged(r)[k].timestamp
  <2>1. times[i] < times[k]
    BY <1>4, <1>10
  <2>2. merged(r)[i].timestamp = times[i] /\ merged(r)[k].timestamp = times[k]
    BY <1>7
  <2> QED
    BY <2>1, <2>2
<1> QED
  BY <1>4, <1>8, <1>9, <1>10

\* What the chart draws, in a period, is not more than it has.
LEMMA ChartDrawn ==
  ASSUME TypesInv, InOrder(live), NEW r \in 0 .. Len(totals),
         merged(r) # <<>>, NEW period,
         NEW d, \A i \in 1 .. Len(merged(r)) - 1 : d[i] = PositiveDiff(merged(r)[i + 1].rx, merged(r)[i].rx),
         NEW g, DOMAIN g = DOMAIN filterByPeriod(chartSeries(r), period),
         \A k \in DOMAIN g : g[k] = filterByPeriod(chartSeries(r), period)[k].download
  PROVE  /\ Sum(g) \in Nat
         /\ Sum(g) <= Total(d, 1 .. Len(merged(r)) - 1)
<1> DEFINE n == Len(merged(r))
           N == PositiveDiff(n, 1)
           series == buildTrafficSeries(merged(r))
<1>1. /\ n \in Nat \ {0} /\ N = n - 1 /\ N \in Nat
      /\ \A i \in 1 .. n : merged(r)[i].rx \in Nat
      /\ \A i \in 1 .. N : i \in 1 .. n /\ i + 1 \in 1 .. n
  <2>1. n \in Nat \ {0} /\ \A i \in 1 .. n : merged(r)[i] \in Point
    BY Merged
  <2>2. \A i \in 1 .. n : merged(r)[i].rx \in Nat
    BY <2>1, TrafficAssumption DEF Point
  <2> HIDE DEF n
  <2> QED
    BY <2>1, <2>2 DEF PositiveDiff
<1>2. /\ DOMAIN series = 1 .. N
      /\ \A i \in 1 .. N : series[i].download = PositiveDiff(merged(r)[i + 1].rx, merged(r)[i].rx)
  BY DEF buildTrafficSeries
<1>3. \A i \in 1 .. N : d[i] = PositiveDiff(merged(r)[i + 1].rx, merged(r)[i].rx) /\ d[i] \in Nat
  <2> SUFFICES ASSUME NEW i \in 1 .. N
               PROVE  /\ d[i] = PositiveDiff(merged(r)[i + 1].rx, merged(r)[i].rx)
                      /\ d[i] \in Nat
    OBVIOUS
  <2>1. merged(r)[i + 1].rx \in Nat /\ merged(r)[i].rx \in Nat
    BY <1>1
  <2>2. d[i] = PositiveDiff(merged(r)[i + 1].rx, merged(r)[i].rx)
    BY <1>1
  <2> QED
    BY <2>1, <2>2 DEF PositiveDiff
<1> HIDE DEF n, N, series
<1>4. IsFiniteSet(1 .. N) /\ Total(d, 1 .. N) \in Nat
  <2>1. IsFiniteSet(1 .. N)
    BY <1>1, FS_Interval
  <2>2. \A i \in 1 .. N : d[i] \in Nat
    BY <1>3
  <2> QED
    BY <2>1, <2>2, UnitsFinite
<1>5. CASE series # <<>>
  <2>1. chartSeries(r) = series
    BY <1>5 DEF chartSeries, series
  <2>2. Shows(g, series, N, period, d)
    BY <1>1, <1>2, <1>3, <2>1 DEF Shows
  <2>3. Sum(g) = Total(d, Drawn(series, period))
    BY <2>2, SumDrawn
  <2>4. Drawn(series, period) \in SUBSET (1 .. N)
    BY <1>2 DEF Drawn
  <2>5. \A i \in 1 .. N : d[i] \in Nat /\ d[i] <= d[i]
    BY <1>3
  <2>6. /\ Total(d, Drawn(series, period)) \in Nat
        /\ Total(d, Drawn(series, period)) <= Total(d, 1 .. N)
    BY <1>4, <2>4, <2>5, TotalLess
  <2> QED
    BY <1>1, <2>3, <2>6 DEF n
<1>6. CASE series = <<>>
  <2> DEFINE f == [i \in 1 .. 12 |-> 0]
  <2>1. chartSeries(r) = generatePlaceholderSeries
    BY <1>6 DEF chartSeries, series
  <2>2. Shows(g, generatePlaceholderSeries, 12, period, f)
    BY <2>1 DEF Shows, generatePlaceholderSeries
  <2>3. Drawn(generatePlaceholderSeries, period) \subseteq 1 .. 12
    BY DEF Drawn, generatePlaceholderSeries
  <2>4. \A i \in Drawn(generatePlaceholderSeries, period) : f[i] = 0
    BY <2>3
  <2> HIDE DEF f
  <2>5. Sum(g) = 0
    BY <2>2, <2>4, SumDrawn, TotalOfZeroes
  <2> QED
    BY <1>1, <1>4, <2>5 DEF n
<1> QED
  BY <1>5, <1>6

(* The chart of the interface, with what its first point begins from, never
   shows more than was received, in any of the periods, though clients are
   created and deleted and counters begin anew; a point of older counters or
   of an older list than the one before adds as much at most: GhostsBounded. *)
THEOREM GhostsAreBounded == Spec => []GhostsBounded
<1>1. ASSUME TrafficInv PROVE GhostsBounded
  <2>0. TypesInv /\ CountersInv /\ TablesInv /\ InOrder(live) /\ Told(totals) /\ Told(live)
    BY <1>1 DEF TrafficInv, RowsInv
  <2>1. ASSUME NEW r \in 0 .. Len(totals), merged(r) # <<>>, NEW period \in Periods,
               NEW g, DOMAIN g = DOMAIN filterByPeriod(chartSeries(r), period),
               \A k \in DOMAIN g : g[k] = filterByPeriod(chartSeries(r), period)[k].download
        PROVE  merged(r)[1].rx + Sum(g)
                 <= Total(moved, Peers) * (1 + Cardinality(Back(merged(r))))
    <3> DEFINE points == merged(r)
               n == Len(points)
               M == Total(moved, Peers)
               back == Back(points)
               x == [i \in 1 .. n |-> points[i].rx]
               w == [i \in 1 .. n |-> Total(Received(points[i].load, points[i].dump), Peers)]
               d == [i \in 1 .. n - 1 |-> PositiveDiff(points[i + 1].rx, points[i].rx)]
    <3>1. /\ n \in Nat \ {0}
          /\ \A i \in 1 .. n : \/ \E j \in DOMAIN totals : points[i] = totals[j]
                               \/ \E j \in DOMAIN live : points[i] = live[j]
      BY <2>0, <2>1, Merged
    <3>2. \A i \in 1 .. n :
            Exists(points[i]) /\ points[i].rx = TotalRx(points[i].load, points[i].dump)
      <4> HIDE DEF points, n
      <4> QED
        BY <2>0, <3>1 DEF Told
    <3>3. Sum(g) \in Nat /\ Sum(g) <= Total(d, 1 .. n - 1)
      <4>1. \A i \in 1 .. Len(merged(r)) - 1 :
              d[i] = PositiveDiff(merged(r)[i + 1].rx, merged(r)[i].rx)
        OBVIOUS
      <4> HIDE DEF d
      <4> QED
        BY <2>0, <2>1, <4>1, ChartDrawn
    <3> HIDE DEF points
    <3>4. Readable(n, x, w, back, M)
      <4>1. \A i \in 1 .. n :
              /\ x[i] = points[i].rx
              /\ w[i] = Total(Received(points[i].load, points[i].dump), Peers)
        OBVIOUS
      <4> HIDE DEF x, w
      <4> QED
        BY <2>0, <3>1, <3>2, <4>1, PointsReadable
    <3>5. \A i \in 1 .. n - 1 : d[i] = PositiveDiff(x[i + 1], x[i])
      <4>1. \A i \in 1 .. n - 1 : i \in 1 .. n /\ i + 1 \in 1 .. n
        <5> HIDE DEF n
        <5> QED
          BY <3>1
      <4> QED
        BY <4>1
    <3>6. x[1] = points[1].rx /\ x[1] \in Nat
      <4>1. 1 \in 1 .. n
        <5> HIDE DEF n
        <5> QED
          BY <3>1
      <4>2. x[1] \in Nat
        BY <3>4, <4>1 DEF Readable
      <4> QED
        BY <4>1, <4>2
    <3> HIDE DEF x, w, d, back, M, n
    <3>7. x[1] + Total(d, 1 .. n - 1) <= M * (1 + Cardinality(back))
      BY <3>4, <3>5, Chain
    <3>8. Total(d, 1 .. n - 1) \in Int /\ M * (1 + Cardinality(back)) \in Int
      <4>1. IsFiniteSet(1 .. n - 1) /\ IsFiniteSet(2 .. n)
        BY <3>1, FS_Interval
      <4>2. \A i \in 1 .. n - 1 : d[i] \in Nat
        <5> SUFFICES ASSUME NEW i \in 1 .. n - 1 PROVE d[i] \in Nat
          OBVIOUS
        <5>1. i \in 1 .. n /\ i + 1 \in 1 .. n
          BY <3>1
        <5>2. x[i] \in Nat /\ x[i + 1] \in Nat
          BY <3>4, <5>1 DEF Readable
        <5> QED
          BY <3>5, <5>2 DEF PositiveDiff
      <4>3. Total(d, 1 .. n - 1) \in Nat
        BY <4>1, <4>2, UnitsFinite, Zenon
      <4>4. Cardinality(back) \in Nat /\ M \in Nat
        BY <3>4, <4>1, FS_Subset, FS_CardinalityType DEF Readable
      <4> QED
        BY <4>3, <4>4
    <3> DEFINE t == Total(d, 1 .. n - 1)
               bound == M * (1 + Cardinality(back))
    <3> HIDE DEF t, bound
    <3>9. x[1] + Sum(g) <= bound
      BY <3>3, <3>6, <3>7, <3>8 DEF t, bound
    <3> QED
      BY <3>6, <3>9 DEF bound, M, back, points
  <2>2. ASSUME NEW r \in 0 .. Len(totals), merged(r) # <<>>, NEW period \in Periods
        PROVE  merged(r)[1].rx
                 + Sum([i \in DOMAIN TrafficOverview(chartSeries(r), period) |->
                          TrafficOverview(chartSeries(r), period)[i].download])
                 <= Total(moved, Peers) * (1 + Cardinality(Back(merged(r))))
    <3> DEFINE drawn == TrafficOverview(chartSeries(r), period)
               g == [i \in DOMAIN drawn |-> drawn[i].download]
    <3>1. /\ DOMAIN g = DOMAIN filterByPeriod(chartSeries(r), period)
          /\ \A k \in DOMAIN g : g[k] = filterByPeriod(chartSeries(r), period)[k].download
      BY DEF TrafficOverview
    <3> HIDE DEF g
    <3>2. merged(r)[1].rx + Sum(g) <= Total(moved, Peers) * (1 + Cardinality(Back(merged(r))))
      BY <2>1, <2>2, <3>1
    <3> QED
      BY <3>2 DEF g
  <2> QED
    BY <2>2, Zenon DEF GhostsBounded
<1> QED
  BY <1>1, TrafficHolds, PTL
=============================================================================
