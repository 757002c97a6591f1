----------------------------- MODULE AuditProofs -----------------------------
(***************************************************************************)
(* Gate 2, the builder's certificates and the storage roots in them, for   *)
(* every transaction, snapshot source and set of claims.                   *)
(***************************************************************************)
EXTENDS Audit, StreamFacts

(***************************************************************************)
(* Storage roots                                                           *)
(***************************************************************************)

\* f doubles from 1, up to m.
Doubles(f, m) == f[0] = 1 /\ \A h \in 1..m : f[h] = 2 * f[h - 1]

\* The doublings up to each number are there, and only once.
LEMMA DoublingsExist ==
  ASSUME NEW n \in Nat
  PROVE  \E f \in [0..n -> Nat] : Doubles(f, n)
<1> DEFINE Reached == {m \in Nat : \E f \in [0..m -> Nat] : Doubles(f, m)}
<1>1. 0 \in Reached
  <2> DEFINE one == [h \in 0..0 |-> 1]
  <2>1. one \in [0..0 -> Nat] /\ Doubles(one, 0)
    BY DEF Doubles
  <2> QED
    BY <2>1
<1>2. ASSUME NEW m \in Nat, m \in Reached PROVE m + 1 \in Reached
  <2>1. PICK f \in [0..m -> Nat] : Doubles(f, m)
    BY <1>2
  <2> DEFINE g == [h \in 0..m + 1 |-> IF h = m + 1 THEN 2 * f[m] ELSE f[h]]
  <2>2. g \in [0..m + 1 -> Nat]
    OBVIOUS
  <2>3. g[0] = 1
    BY <2>1 DEF Doubles
  <2>4. \A h \in 1..m + 1 : g[h] = 2 * g[h - 1]
    <3>1. TAKE h \in 1..m + 1
    <3>2. CASE h = m + 1
      BY <3>2
    <3>3. CASE h # m + 1
      <4>1. h \in 1..m /\ h - 1 \in 0..m /\ h - 1 # m + 1 /\ h \in 0..m + 1 /\ h - 1 \in 0..m + 1
        BY <3>3
      <4>2. g[h] = f[h] /\ g[h - 1] = f[h - 1]
        BY <3>3, <4>1
      <4> QED
        BY <2>1, <4>1, <4>2 DEF Doubles
    <3> QED
      BY <3>2, <3>3
  <2> HIDE DEF g
  <2>5. Doubles(g, m + 1)
    BY <2>3, <2>4 DEF Doubles
  <2>6. m + 1 \in Nat
    OBVIOUS
  <2> QED
    BY <2>2, <2>5, <2>6
<1> HIDE DEF Reached
<1>3. n \in Reached
  BY <1>1, <1>2, AllNaturals
<1> QED BY <1>3 DEF Reached

LEMMA DoublingsUnique ==
  ASSUME NEW f, NEW g, NEW m \in Nat, NEW n \in Nat, Doubles(f, m), Doubles(g, n)
  PROVE  \A h \in Nat : h <= m /\ h <= n => f[h] = g[h]
<1> DEFINE Same == {h \in Nat : h <= m /\ h <= n => f[h] = g[h]}
<1>1. 0 \in Same
  BY DEF Doubles
<1>2. ASSUME NEW h \in Nat, h \in Same PROVE h + 1 \in Same
  <2>1. SUFFICES ASSUME h + 1 <= m, h + 1 <= n PROVE f[h + 1] = g[h + 1]
    OBVIOUS
  <2>2. f[h] = g[h] /\ h + 1 \in 1..m /\ h + 1 \in 1..n /\ h + 1 - 1 = h
    BY <1>2, <2>1
  <2>3. f[h + 1] = 2 * f[h + 1 - 1] /\ g[h + 1] = 2 * g[h + 1 - 1]
    BY <2>2 DEF Doubles
  <2> QED
    BY <2>2, <2>3
<1> HIDE DEF Same
<1>3. \A h \in Nat : h \in Same
  BY <1>1, <1>2, AllNaturals
<1> QED BY <1>3 DEF Same

\* The sizes that the padding tries double.
LEMMA Sizes ==
  /\ Size \in [Nat -> Nat]
  /\ Size[0] = 1
  /\ \A h \in Nat : Size[h + 1] = 2 * Size[h]
<1> DEFINE upTo(n) == CHOOSE f \in [0..n -> Nat] : Doubles(f, n)
           all == [n \in Nat |-> upTo(n)[n]]
<1>1. \A n \in Nat : upTo(n) \in [0..n -> Nat] /\ Doubles(upTo(n), n)
  BY DoublingsExist
<1> HIDE DEF upTo
<1>2. all \in [Nat -> Nat]
  BY <1>1
<1>3. all[0] = 1
  BY <1>1 DEF Doubles
<1>4. ASSUME NEW h \in Nat PROVE all[h + 1] = 2 * all[h]
  <2>1. upTo(h + 1)[h] = upTo(h)[h]
    <3>1. Doubles(upTo(h + 1), h + 1) /\ Doubles(upTo(h), h) /\ h + 1 \in Nat
      BY <1>1
    <3>2. \A j \in Nat : j <= h + 1 /\ j <= h => upTo(h + 1)[j] = upTo(h)[j]
      BY <3>1, DoublingsUnique
    <3> QED
      BY <3>2
  <2>2. upTo(h + 1)[h + 1] = 2 * upTo(h + 1)[h]
    <3>1. h + 1 \in Nat /\ h + 1 \in 1..h + 1 /\ h + 1 - 1 = h
      OBVIOUS
    <3> QED
      BY <1>1, <3>1 DEF Doubles
  <2> QED
    BY <2>1, <2>2
<1> HIDE DEF all
<1>5. all = [h \in Nat |-> IF h = 0 THEN 1 ELSE 2 * all[h - 1]]
  <2>1. ASSUME NEW h \in Nat PROVE all[h] = IF h = 0 THEN 1 ELSE 2 * all[h - 1]
    <3>1. CASE h = 0
      BY <1>3, <3>1
    <3>2. CASE h # 0
      <4>1. h - 1 \in Nat /\ h - 1 + 1 = h
        BY <3>2
      <4> QED
        BY <1>4, <3>2, <4>1
    <3> QED
      BY <3>1, <3>2
  <2> QED
    BY <1>2, <2>1
<1>6. Size = [h \in Nat |-> IF h = 0 THEN 1 ELSE 2 * Size[h - 1]]
  BY <1>5 DEF Size
<1>7. Size[0] = 1 /\ \A h \in Nat : Size[h + 1] = 2 * Size[h]
  <2>1. \A h \in Nat : Size[h] = IF h = 0 THEN 1 ELSE 2 * Size[h - 1]
    BY <1>6
  <2>2. ASSUME NEW h \in Nat PROVE Size[h + 1] = 2 * Size[h]
    <3>1. h + 1 \in Nat /\ h + 1 # 0 /\ h + 1 - 1 = h
      OBVIOUS
    <3> QED
      BY <2>1, <3>1
  <2> QED
    BY <2>1, <2>2
<1>8. \A h \in Nat : Size[h] \in Nat
  <2> DEFINE Typed == {h \in Nat : Size[h] \in Nat}
  <2>1. 0 \in Typed /\ \A h \in Nat : h \in Typed => h + 1 \in Typed
    BY <1>7
  <2> HIDE DEF Typed
  <2>2. \A h \in Nat : h \in Typed
    BY <2>1, AllNaturals
  <2> QED
    BY <2>2 DEF Typed
<1> QED BY <1>6, <1>7, <1>8

LEMMA SizePositive ==
  ASSUME NEW n \in Nat
  PROVE  1 \in 1..Size[n]
<1> DEFINE Room == {h \in Nat : Size[h] >= 1}
<1>1. 0 \in Room /\ \A h \in Nat : h \in Room => h + 1 \in Room
  BY Sizes
<1> HIDE DEF Room
<1>2. n \in Room
  BY <1>1, AllNaturals
<1> QED BY <1>2, Sizes DEF Room

\* The height of a tree with room for n leaves.
LEMMA HeightIs ==
  ASSUME NEW n \in Nat
  PROVE  Height(n) \in Nat /\ n <= Size[Height(n)]
<1> DEFINE Enough == {h \in Nat : h <= Size[h]}
           Small(h) == \A g \in 0..h : Size[g] < n
           Unsettled == {h \in Nat : Small(h)}
           Wanted == \E h \in 0..n : Size[h] >= n /\ \A g \in 0..h-1 : Size[g] < n
<1>1. 0 \in Enough /\ \A h \in Nat : h \in Enough => h + 1 \in Enough
  <2>1. ASSUME NEW h \in Nat, h <= Size[h] PROVE h + 1 <= 2 * Size[h] \/ h = 0
    BY <2>1, Sizes
  <2>2. ASSUME NEW h \in Nat, h <= Size[h] PROVE h + 1 <= Size[h + 1]
    <3>1. CASE h = 0
      BY <3>1, Sizes
    <3>2. CASE h # 0
      BY <2>1, <2>2, <3>2, Sizes
    <3> QED
      BY <3>1, <3>2
  <2> QED
    BY <2>2, Sizes
<1> HIDE DEF Enough
<1>2. n \in Enough
  BY <1>1, AllNaturals
<1>3. n <= Size[n]
  BY <1>2 DEF Enough
<1>4. ASSUME ~Wanted PROVE FALSE
  <2>1. ASSUME NEW h \in Nat, h \in Unsettled \/ h = 0, ~Wanted
        PROVE  h \in Unsettled
    <3>1. CASE h = 0
      <4>1. Size[0] < n
        <5>1. ~(Size[0] >= n)
          <6>1. 0 \in 0..n /\ \A g \in 0..0 - 1 : Size[g] < n
            OBVIOUS
          <6> QED
            BY <2>1, <6>1
        <5> QED
          BY <5>1, Sizes
      <4> QED
        BY <3>1, <4>1
    <3> QED
      BY <2>1, <3>1
  <2>2. ASSUME NEW h \in Nat, h \in Unsettled PROVE h + 1 \in Unsettled
    <3>1. Size[h + 1] < n
      <4>1. CASE h + 1 <= n
        <5>1. h + 1 \in 0..n /\ \A g \in 0..(h + 1) - 1 : Size[g] < n
          BY <2>2, <4>1
        <5>2. ~(Size[h + 1] >= n)
          BY <1>4, <5>1
        <5> QED
          BY <5>2, Sizes
      <4>2. CASE ~(h + 1 <= n)
        <5>1. n \in 0..h
          BY <4>2
        <5>2. Size[n] < n
          BY <2>2, <5>1
        <5> QED
          BY <1>3, <5>2, Sizes
      <4> QED
        BY <4>1, <4>2
    <3> QED
      BY <2>2, <3>1
  <2>3. 0 \in Unsettled
    BY <1>4, <2>1
  <2> HIDE DEF Unsettled
  <2>4. n \in Unsettled
    BY <2>2, <2>3, AllNaturals
  <2>5. Size[n] < n
    BY <2>4 DEF Unsettled
  <2> QED
    BY <1>3, <2>5, Sizes
<1>5. PICK h \in 0..n : Size[h] >= n /\ \A g \in 0..h-1 : Size[g] < n
  BY <1>4
<1>6. Height(n) \in 0..n /\ Size[Height(n)] >= n
  BY <1>5 DEF Height
<1> QED BY <1>6, Sizes

\* The row above a row of hashes.
RowAbove(row, n) == [i \in 1..n |-> Branch(row[2*i - 1], row[2*i])]

\* The fold over pairs, row by row.
LEMMA LevelsAre ==
  ASSUME NEW leaves, NEW height \in Nat
  PROVE  LET level == Levels(leaves, height)
         IN  /\ level[0] = leaves
             /\ \A h \in Nat : h < height =>
                  level[h + 1] = RowAbove(level[h], Size[height - (h + 1)])
<1> DEFINE Folded(f, m) ==
             f = [h \in 0..m |-> IF h = 0 THEN leaves
                                 ELSE RowAbove(f[h - 1], Size[height - h])]
           Reached == {m \in Nat : \E f : Folded(f, m)}
<1>1. 0 \in Reached
  <2> DEFINE f == [h \in 0..0 |-> leaves]
  <2>1. Folded(f, 0)
    OBVIOUS
  <2> QED
    BY <2>1
<1>2. ASSUME NEW m \in Nat, m \in Reached PROVE m + 1 \in Reached
  <2>1. PICK f : Folded(f, m)
    BY <1>2
  <2> DEFINE g == [h \in 0..m + 1 |-> IF h = m + 1 THEN RowAbove(f[m], Size[height - h])
                                      ELSE f[h]]
  <2>2. \A h \in 0..m + 1 :
          g[h] = IF h = 0 THEN leaves ELSE RowAbove(g[h - 1], Size[height - h])
    <3>1. TAKE h \in 0..m + 1
    <3>2. CASE h = m + 1
      <4>1. h # 0 /\ h - 1 = m /\ m # m + 1 /\ m \in 0..m + 1
        BY <3>2
      <4>2. g[h] = RowAbove(f[m], Size[height - h]) /\ g[m] = f[m]
        BY <3>2, <4>1
      <4> QED
        BY <4>1, <4>2
    <3>3. CASE h # m + 1
      <4>1. h \in 0..m /\ g[h] = f[h]
        BY <3>3
      <4>2. f[h] = IF h = 0 THEN leaves ELSE RowAbove(f[h - 1], Size[height - h])
        BY <2>1, <4>1
      <4>3. ASSUME h # 0 PROVE g[h - 1] = f[h - 1]
        <5>1. h - 1 \in 0..m + 1 /\ h - 1 # m + 1
          BY <4>1, <4>3
        <5> QED
          BY <5>1
      <4> QED
        BY <4>1, <4>2, <4>3
    <3> QED
      BY <3>2, <3>3
  <2>3. g = [h \in 0..m + 1 |-> g[h]]
    OBVIOUS
  <2> HIDE DEF g
  <2>4. Folded(g, m + 1)
    BY <2>2, <2>3
  <2> QED
    BY <2>4
<1> HIDE DEF Reached
<1>3. \E f : Folded(f, height)
  <2>1. height \in Reached
    BY <1>1, <1>2, AllNaturals
  <2> QED
    BY <2>1 DEF Reached
<1> DEFINE level == Levels(leaves, height)
<1>4. level = CHOOSE f : Folded(f, height)
  BY DEF Levels, RowAbove
<1> HIDE DEF level
<1>5. Folded(level, height)
  <2> HIDE DEF Folded
  <2> QED
    BY <1>3, <1>4
<1>6. \A h \in 0..height :
        level[h] = IF h = 0 THEN leaves ELSE RowAbove(level[h - 1], Size[height - h])
  BY <1>5
<1>7. ASSUME NEW h \in Nat, h < height
      PROVE  level[h + 1] = RowAbove(level[h], Size[height - (h + 1)])
  <2>1. h + 1 \in 0..height /\ h + 1 # 0 /\ h + 1 - 1 = h
    BY <1>7
  <2> QED
    BY <1>6, <2>1
<1> QED BY <1>6, <1>7 DEF level

\* Two folds that end in the same root start from the same leaves, if the lower
\* one starts from a leaf.
LEMMA SameRootSameLeaves ==
  ASSUME NEW p, NEW q, NEW n \in Nat, NEW m \in Nat, n <= m,
         Levels(p, n)[n][1] = Levels(q, m)[m][1],
         \A left, right : p[1] # Branch(left, right)
  PROVE  n = m /\ \A i \in 1..Size[n] : p[i] = q[i]
<1> DEFINE P == Levels(p, n)
           Q == Levels(q, m)
<1>1. /\ P[0] = p
      /\ \A h \in Nat : h < n => P[h + 1] = RowAbove(P[h], Size[n - (h + 1)])
  BY LevelsAre
<1>2. /\ Q[0] = q
      /\ \A h \in Nat : h < m => Q[h + 1] = RowAbove(Q[h], Size[m - (h + 1)])
  BY LevelsAre
<1>3. P[n][1] = Q[m][1]
  OBVIOUS
<1> HIDE DEF P, Q
<1> DEFINE Same == {d \in Nat : d <= n => \A i \in 1..Size[d] : P[n - d][i] = Q[m - d][i]}
<1>4. 0 \in Same
  BY <1>3, Sizes
<1>5. ASSUME NEW d \in Nat, d \in Same PROVE d + 1 \in Same
  <2>1. SUFFICES ASSUME d + 1 <= n, NEW j \in 1..Size[d + 1]
                 PROVE  P[n - (d + 1)][j] = Q[m - (d + 1)][j]
    OBVIOUS
  <2>2. PICK a \in Nat : a = n - (d + 1)
    BY <2>1
  <2>3. PICK b \in Nat : b = m - (d + 1)
    BY <2>1
  <2>4. /\ a < n /\ a + 1 = n - d /\ n - (a + 1) = d
        /\ b < m /\ b + 1 = m - d /\ m - (b + 1) = d
    BY <2>1, <2>2, <2>3
  <2>5. P[n - d] = RowAbove(P[a], Size[d]) /\ Q[m - d] = RowAbove(Q[b], Size[d])
    BY <1>1, <1>2, <2>4
  <2>6. \A i \in 1..Size[d] : P[n - d][i] = Q[m - d][i]
    BY <1>5, <2>1
  <2>7. PICK i \in 1..Size[d] : j = 2 * i - 1 \/ j = 2 * i
    <3>1. PICK size \in Nat : size = Size[d] /\ Size[d + 1] = 2 * size
      BY Sizes
    <3>2. \E i \in 1..size : j = 2 * i - 1 \/ j = 2 * i
      <4>1. j \in 1..2 * size
        BY <2>1, <3>1
      <4>2. PICK i \in Nat : i = (j + 1) \div 2
        BY <4>1
      <4>3. i \in 1..size /\ (j = 2 * i - 1 \/ j = 2 * i)
        BY <4>1, <4>2
      <4> QED
        BY <4>3
    <3> QED
      BY <3>1, <3>2
  <2>8. Branch(P[a][2*i - 1], P[a][2*i]) = Branch(Q[b][2*i - 1], Q[b][2*i])
    <3>1. RowAbove(P[a], Size[d])[i] = RowAbove(Q[b], Size[d])[i]
      BY <2>5, <2>6
    <3> QED
      BY <3>1 DEF RowAbove
  <2>9. P[a][2*i - 1] = Q[b][2*i - 1] /\ P[a][2*i] = Q[b][2*i]
    BY <2>8 DEF Branch
  <2> QED
    BY <2>2, <2>3, <2>7, <2>9
<1> HIDE DEF Same
<1>6. n \in Same
  BY <1>4, <1>5, AllNaturals
<1>7. \A i \in 1..Size[n] : p[i] = Q[m - n][i]
  BY <1>1, <1>6 DEF Same
<1>8. 1 \in 1..Size[n]
  BY SizePositive
<1>9. n = m
  <2>1. SUFFICES ASSUME n < m PROVE FALSE
    OBVIOUS
  <2>2. PICK b \in Nat : b + 1 = m - n /\ b < m /\ m - (b + 1) = n
    <3>1. m - n - 1 \in Nat /\ m - n - 1 + 1 = m - n /\ m - n - 1 < m /\ m - (m - n - 1 + 1) = n
      BY <2>1
    <3> QED
      BY <3>1
  <2>3. Q[m - n] = RowAbove(Q[b], Size[n])
    BY <1>2, <2>2
  <2>4. p[1] = Branch(Q[b][2*1 - 1], Q[b][2*1])
    BY <1>7, <1>8, <2>3 DEF RowAbove
  <2> QED
    BY <2>4
<1> QED BY <1>2, <1>7, <1>9

\* What the leaves of a tree are.
LEMMA LeavesAre ==
  ASSUME NEW slots, DOMAIN slots \in SUBSET Nat, IsFiniteSet(DOMAIN slots)
  PROVE  LET n == Cardinality(DOMAIN slots)
             order == Ascending(DOMAIN slots)
         IN  /\ n \in Nat /\ Height(n) \in Nat
             /\ \A i \in 1..n : /\ i \in 1..Size[Height(n)] /\ order[i] \in DOMAIN slots
                                /\ Leaves(slots)[i] = Leaf(order[i], slots[order[i]])
             /\ \A i \in 1..Size[Height(n)] : i \notin 1..n => Leaves(slots)[i] = ZeroLeaf
             /\ \A left, right : Leaves(slots)[1] # Branch(left, right)
<1> DEFINE n == Cardinality(DOMAIN slots)
           order == Ascending(DOMAIN slots)
           size == Size[Height(n)]
<1>1. n \in Nat /\ order \in [1..n -> DOMAIN slots]
  BY AscendingIs
<1>2. Height(n) \in Nat /\ n <= size /\ size \in Nat
  BY <1>1, HeightIs, Sizes
<1>3. Leaves(slots) = [i \in 1..size |-> IF i <= n THEN Leaf(order[i], slots[order[i]])
                                         ELSE ZeroLeaf]
  BY DEF Leaves
<1> HIDE DEF n, order, size
<1>4. \A i \in 1..n : /\ i \in 1..size /\ order[i] \in DOMAIN slots
                      /\ Leaves(slots)[i] = Leaf(order[i], slots[order[i]])
  BY <1>1, <1>2, <1>3
<1>5. \A i \in 1..size : i \notin 1..n => Leaves(slots)[i] = ZeroLeaf
  BY <1>1, <1>2, <1>3
<1>6. \A left, right : Leaves(slots)[1] # Branch(left, right)
  <2>1. 1 \in 1..size
    BY <1>2, SizePositive DEF size
  <2>2. Leaves(slots)[1] = ZeroLeaf \/ \E s, v : Leaves(slots)[1] = Leaf(s, v)
    BY <1>4, <1>5, <2>1
  <2> QED
    BY <2>2 DEF ZeroLeaf, Leaf, Branch
<1> QED BY <1>1, <1>2, <1>4, <1>5, <1>6 DEF n, order, size

\* A storage root pins down every slot (SimpleStorageRootDeriver::derive).
LEMMA RootBinds ==
  ASSUME NEW S \in SUBSET Nat, NEW T \in SUBSET Nat, IsFiniteSet(S), IsFiniteSet(T),
         NEW V, NEW s \in [S -> V], NEW t \in [T -> V], derive(s) = derive(t)
  PROVE  s = t
<1>1. ASSUME NEW A \in SUBSET Nat, NEW B \in SUBSET Nat, IsFiniteSet(A), IsFiniteSet(B),
             NEW a \in [A -> V], NEW b \in [B -> V], derive(a) = derive(b),
             Height(Cardinality(A)) <= Height(Cardinality(B))
      PROVE  a = b
  <2>1. DOMAIN a = A /\ DOMAIN b = B
    OBVIOUS
  <2> DEFINE n == Cardinality(A)
             m == Cardinality(B)
             u == Ascending(A)
             w == Ascending(B)
  <2>2. /\ n \in Nat /\ Height(n) \in Nat
        /\ \A i \in 1..n : /\ i \in 1..Size[Height(n)] /\ u[i] \in A
                           /\ Leaves(a)[i] = Leaf(u[i], a[u[i]])
        /\ \A i \in 1..Size[Height(n)] : i \notin 1..n => Leaves(a)[i] = ZeroLeaf
        /\ \A left, right : Leaves(a)[1] # Branch(left, right)
    BY <1>1, <2>1, LeavesAre
  <2>3. /\ m \in Nat /\ Height(m) \in Nat
        /\ \A i \in 1..m : /\ i \in 1..Size[Height(m)] /\ w[i] \in B
                           /\ Leaves(b)[i] = Leaf(w[i], b[w[i]])
        /\ \A i \in 1..Size[Height(m)] : i \notin 1..m => Leaves(b)[i] = ZeroLeaf
    BY <1>1, <2>1, LeavesAre
  <2>4. Levels(Leaves(a), Height(n))[Height(n)][1] = Levels(Leaves(b), Height(m))[Height(m)][1]
    BY <1>1, <2>1 DEF derive
  <2>5. (\A x \in A : \E i \in 1..n : u[i] = x) /\ (\A x \in B : \E i \in 1..m : w[i] = x)
    BY <1>1, AscendingIs
  <2>6. Height(n) <= Height(m)
    BY <1>1
  <2> HIDE DEF n, m, u, w
  <2>7. Height(n) = Height(m) /\ \A i \in 1..Size[Height(n)] : Leaves(a)[i] = Leaves(b)[i]
    <3>1. PICK p, q, h, g : p = Leaves(a) /\ q = Leaves(b) /\ h = Height(n) /\ g = Height(m)
      OBVIOUS
    <3>2. /\ h \in Nat /\ g \in Nat /\ h <= g
          /\ Levels(p, h)[h][1] = Levels(q, g)[g][1]
          /\ \A left, right : p[1] # Branch(left, right)
      BY <2>2, <2>3, <2>4, <2>6, <3>1
    <3>3. h = g /\ \A i \in 1..Size[h] : p[i] = q[i]
      BY <3>2, SameRootSameLeaves
    <3> QED
      BY <3>1, <3>3
  <2>8. \A i \in 1..n : i \in 1..m /\ u[i] = w[i] /\ a[u[i]] = b[u[i]]
    <3>1. TAKE i \in 1..n
    <3>2. i \in 1..Size[Height(m)] /\ Leaves(b)[i] = Leaf(u[i], a[u[i]])
      BY <2>2, <2>7
    <3>3. i \in 1..m
      BY <2>3, <3>2 DEF Leaf, ZeroLeaf
    <3>4. Leaf(w[i], b[w[i]]) = Leaf(u[i], a[u[i]])
      BY <2>3, <3>2, <3>3
    <3>5. w[i] = u[i] /\ b[w[i]] = a[u[i]]
      BY <3>4 DEF Leaf
    <3> QED
      BY <3>3, <3>5
  <2>9. \A i \in 1..m : i \in 1..n
    <3>1. TAKE i \in 1..m
    <3>2. i \in 1..Size[Height(n)] /\ Leaves(a)[i] = Leaf(w[i], b[w[i]])
      BY <2>3, <2>7
    <3> QED
      BY <2>2, <3>2 DEF Leaf, ZeroLeaf
  <2>10. \A x \in A : x \in B /\ a[x] = b[x]
    BY <2>3, <2>5, <2>8
  <2>11. \A x \in B : x \in A
    BY <2>2, <2>5, <2>8, <2>9
  <2>12. A = B
    BY <2>10, <2>11
  <2>13. a = [x \in A |-> a[x]] /\ b = [x \in B |-> b[x]]
    BY <1>1
  <2>14. [x \in A |-> a[x]] = [x \in B |-> b[x]]
    BY <2>10, <2>12
  <2> QED
    BY <2>13, <2>14
<1>2. Height(Cardinality(S)) \in Nat /\ Height(Cardinality(T)) \in Nat
  BY FS_CardinalityType, HeightIs
<1>3. CASE Height(Cardinality(S)) <= Height(Cardinality(T))
  BY <1>1, <1>3
<1>4. CASE Height(Cardinality(T)) <= Height(Cardinality(S))
  BY <1>1, <1>4
<1> QED BY <1>2, <1>3, <1>4

-----------------------------------------------------------------------------
(***************************************************************************)
(* One more event                                                          *)
(***************************************************************************)

\* What occurs in the input.
Traced == Payloads \cup [type : {"BeginTransaction", "EndTransaction"}]

LEMMA TracedTypes ==
  ASSUME NEW p \in Traced
  PROVE  /\ p.type = "StateChanged" =>
              p.key \in Key \cup TransientKey /\ p.before \in Value /\ p.after \in Value
         /\ p.type \in {"ContractCreated", "ContractDestroyed"} => p.address \in Address
         /\ p.type \in {"BeginTransaction", "EndTransaction"} =>
              p \in [type : {"BeginTransaction", "EndTransaction"}]
  BY AuditAssumption DEF Traced

\* r is q with the event e behind it.
Extends(q, e, r, n) ==
  /\ n \in Nat
  /\ q \in Seq(AuditEvent) /\ Len(q) = n /\ DOMAIN q = 1..n
  /\ r \in Seq(AuditEvent) /\ Len(r) = n + 1 /\ DOMAIN r = 1..n + 1
  /\ \A i \in 1..n : r[i] = q[i]
  /\ r[n + 1] = e /\ e \in AuditEvent

LEMMA AppendExtends ==
  ASSUME NEW q \in Seq(AuditEvent), NEW e \in AuditEvent
  PROVE  Extends(q, e, Append(q, e), Len(q)) /\ Append(q, e) # << >>
<1>1. PICK r : r = Append(q, e)
  OBVIOUS
<1>2. /\ r \in Seq(AuditEvent) /\ Len(r) = Len(q) + 1
      /\ \A i \in 1..Len(q) : r[i] = q[i]
      /\ r[Len(q) + 1] = e
  BY <1>1, AppendProperties
<1>3. Len(q) \in Nat /\ DOMAIN q = 1..Len(q) /\ DOMAIN r = 1..Len(q) + 1 /\ r # << >>
  BY <1>2
<1> QED BY <1>1, <1>2, <1>3 DEF Extends

\* The cells that an event writes.
Overwrites(e, k) == e.payload.type = "StateChanged" /\ e.payload.key = k

LEMMA WritersNext ==
  ASSUME NEW q, NEW e, NEW r, NEW n \in Nat, Extends(q, e, r, n), NEW k
  PROVE  /\ \A m \in 0..n : Writers(r, k, m) = Writers(q, k, m)
         /\ (Overwrites(e, k) => Writers(r, k, n + 1) = Writers(q, k, n) \cup {n + 1})
         /\ (~Overwrites(e, k) => Writers(r, k, n + 1) = Writers(q, k, n))
<1>1. n \in Nat /\ (\A i \in 1..n : r[i] = q[i]) /\ r[n + 1] = e
  BY DEF Extends
<1>2. \A i \in 1..n : Writes(r, i, k) <=> Writes(q, i, k)
  BY <1>1 DEF Writes
<1>3. Writes(r, n + 1, k) <=> Overwrites(e, k)
  BY <1>1 DEF Writes, Overwrites
<1>4. 1..n + 1 = (1..n) \cup {n + 1}
  BY <1>1
<1>5. ASSUME NEW m \in 0..n PROVE Writers(r, k, m) = Writers(q, k, m)
  <2>1. \A i \in 1..m : i \in 1..n
    BY <1>1
  <2> QED
    BY <1>2, <2>1 DEF Writers
<1>6. Writers(r, k, n + 1) = {i \in 1..n + 1 : Writes(r, i, k)}
  BY DEF Writers
<1>7. Writers(q, k, n) = {i \in 1..n : Writes(q, i, k)}
  BY DEF Writers
<1>8. /\ (Overwrites(e, k) => Writers(r, k, n + 1) = Writers(q, k, n) \cup {n + 1})
      /\ (~Overwrites(e, k) => Writers(r, k, n + 1) = Writers(q, k, n))
  BY <1>2, <1>3, <1>4, <1>6, <1>7
<1> QED BY <1>5, <1>8

\* The last event that writes a cell.
LEMMA LastWriteIs ==
  ASSUME NEW q, NEW k, NEW n \in Nat, Writers(q, k, n) # {}
  PROVE  \E i \in 1..n : ValueAfter(q, k, n) = q[i].payload.after /\ Writes(q, i, k)
                         /\ i = CHOOSE j \in Writers(q, k, n) :
                                  \A h \in Writers(q, k, n) : h <= j
<1>1. Writers(q, k, n) \in SUBSET (1..n)
  BY DEF Writers
<1>2. \E m \in Writers(q, k, n) : \A j \in Writers(q, k, n) : j <= m
  BY <1>1, Largest
<1>3. PICK i : i = CHOOSE j \in Writers(q, k, n) : \A h \in Writers(q, k, n) : h <= j
  OBVIOUS
<1>4. i \in Writers(q, k, n)
  BY <1>2, <1>3
<1>5. ValueAfter(q, k, n) = q[i].payload.after
  BY <1>3 DEF ValueAfter
<1>6. i \in 1..n /\ Writes(q, i, k)
  BY <1>4 DEF Writers
<1> QED BY <1>3, <1>5, <1>6

\* What a cell holds depends on the events that write it.
LEMMA SameWritersSameValue ==
  ASSUME NEW q, NEW r, NEW k, NEW n \in Nat, NEW m, Writers(r, k, m) = Writers(q, k, n),
         \A i \in 1..n : r[i] = q[i]
  PROVE  ValueAfter(r, k, m) = ValueAfter(q, k, n)
<1>1. CASE Writers(q, k, n) = {}
  BY <1>1 DEF ValueAfter
<1>2. CASE Writers(q, k, n) # {}
  <2>1. PICK i \in 1..n :
          /\ ValueAfter(q, k, n) = q[i].payload.after
          /\ i = CHOOSE j \in Writers(q, k, n) : \A h \in Writers(q, k, n) : h <= j
    BY <1>2, LastWriteIs
  <2>2. ValueAfter(r, k, m) = r[i].payload.after
    BY <1>2, <2>1 DEF ValueAfter
  <2> QED
    BY <2>1, <2>2
<1> QED BY <1>1, <1>2

LEMMA ValueNext ==
  ASSUME NEW q, NEW e, NEW r, NEW n \in Nat, Extends(q, e, r, n), NEW k
  PROVE  /\ \A m \in 0..n : ValueAfter(r, k, m) = ValueAfter(q, k, m)
         /\ (Overwrites(e, k) => ValueAfter(r, k, n + 1) = e.payload.after)
         /\ (~Overwrites(e, k) => ValueAfter(r, k, n + 1) = ValueAfter(q, k, n))
<1>1. n \in Nat /\ (\A i \in 1..n : r[i] = q[i]) /\ r[n + 1] = e
  BY DEF Extends
<1>2. /\ \A m \in 0..n : Writers(r, k, m) = Writers(q, k, m)
      /\ (Overwrites(e, k) => Writers(r, k, n + 1) = Writers(q, k, n) \cup {n + 1})
      /\ (~Overwrites(e, k) => Writers(r, k, n + 1) = Writers(q, k, n))
  BY WritersNext
<1>3. ASSUME NEW m \in 0..n PROVE ValueAfter(r, k, m) = ValueAfter(q, k, m)
  <2>1. m \in Nat /\ Writers(r, k, m) = Writers(q, k, m) /\ \A i \in 1..m : r[i] = q[i]
    BY <1>1, <1>2
  <2> QED
    BY <2>1, SameWritersSameValue
<1>4. CASE ~Overwrites(e, k)
  <2>1. Writers(r, k, n + 1) = Writers(q, k, n)
    BY <1>2, <1>4
  <2>2. ValueAfter(r, k, n + 1) = ValueAfter(q, k, n)
    BY <1>1, <2>1, SameWritersSameValue
  <2> QED
    BY <1>3, <1>4, <2>2
<1>5. CASE Overwrites(e, k)
  <2>1. PICK w : w = Writers(q, k, n) \cup {n + 1}
    OBVIOUS
  <2>2. n + 1 \in w /\ \A j \in w : j <= n + 1 /\ j \in Int
    <3>1. \A j \in Writers(q, k, n) : j \in 1..n
      BY DEF Writers
    <3> QED
      BY <1>1, <2>1, <3>1
  <2>3. \A i \in w : (\A j \in w : j <= i) => i = n + 1
    BY <1>1, <2>2
  <2>4. (CHOOSE i \in w : \A j \in w : j <= i) = n + 1
    BY <2>2, <2>3
  <2>5. Writers(r, k, n + 1) = w
    BY <1>2, <1>5, <2>1
  <2>6. ValueAfter(r, k, n + 1) = r[n + 1].payload.after
    BY <2>2, <2>4, <2>5 DEF ValueAfter
  <2> QED
    BY <1>1, <1>3, <1>5, <2>6
<1> QED BY <1>4, <1>5

\* Whether a cell is written, and whether an account is touched.
WrittenIn(q, k) == Writers(q, k, Len(q)) # {}
TouchedIn(q, a) == \E i \in DOMAIN q : Touches(q, i, a)
TouchedBy(e, a) == Touches(<<e>>, 1, a)

LEMMA WrittenNext ==
  ASSUME NEW q, NEW e, NEW r, NEW n \in Nat, Extends(q, e, r, n), NEW k
  PROVE  WrittenIn(r, k) <=> Overwrites(e, k) \/ WrittenIn(q, k)
<1>1. /\ (Overwrites(e, k) => Writers(r, k, n + 1) = Writers(q, k, n) \cup {n + 1})
      /\ (~Overwrites(e, k) => Writers(r, k, n + 1) = Writers(q, k, n))
  BY WritersNext
<1>2. Len(q) = n /\ Len(r) = n + 1
  BY DEF Extends
<1> QED BY <1>1, <1>2 DEF WrittenIn

LEMMA TouchedNext ==
  ASSUME NEW q, NEW e, NEW r, NEW n \in Nat, Extends(q, e, r, n), NEW a
  PROVE  TouchedIn(r, a) <=> TouchedBy(e, a) \/ TouchedIn(q, a)
<1>1. /\ n \in Nat /\ DOMAIN q = 1..n /\ DOMAIN r = 1..n + 1
      /\ \A i \in 1..n : r[i] = q[i]
      /\ r[n + 1] = e
  BY DEF Extends
<1>2. \A i \in 1..n : Touches(r, i, a) <=> Touches(q, i, a)
  BY <1>1 DEF Touches
<1>3. Touches(r, n + 1, a) <=> TouchedBy(e, a)
  BY <1>1 DEF Touches, TouchedBy
<1>4. \A i \in 1..n + 1 : i \in 1..n \/ i = n + 1
  BY <1>1
<1>5. n + 1 \in 1..n + 1 /\ \A i \in 1..n : i \in 1..n + 1
  BY <1>1
<1> QED BY <1>1, <1>2, <1>3, <1>4, <1>5 DEF TouchedIn

\* A write to a persistent cell touches its account.
LEMMA WrittenIsTouched ==
  ASSUME NEW q \in Seq(AuditEvent), NEW k \in Key, WrittenIn(q, k)
  PROVE  TouchedIn(q, k.address)
<1>1. PICK i \in 1..Len(q) : Writes(q, i, k)
  BY DEF WrittenIn, Writers
<1>2. k.kind # "Transient"
  BY DEF Key
<1>3. Touches(q, i, k.address)
  BY <1>1, <1>2 DEF Writes, Touches
<1>4. DOMAIN q = 1..Len(q)
  OBVIOUS
<1> QED BY <1>1, <1>3, <1>4 DEF TouchedIn

\* Whether the events chain is decided one event after the other.
LEMMA ChainedNext ==
  ASSUME NEW q, NEW e, NEW r, NEW n \in Nat, Extends(q, e, r, n)
  PROVE  Chained(r) <=> /\ Chained(q)
                        /\ \A k \in Key : Overwrites(e, k) /\ TouchedIn(q, k.address) =>
                             e.payload.before = ValueAfter(q, k, n)
<1>1. /\ n \in Nat /\ DOMAIN q = 1..n /\ Len(q) = n /\ Len(r) = n + 1
      /\ \A i \in 1..n : r[i] = q[i]
      /\ r[n + 1] = e
  BY DEF Extends
<1> DEFINE Follows(s, k, i) == (\E h \in 1..i - 1 : Touches(s, h, k.address)) =>
                                 s[i].payload.before = ValueAfter(s, k, i - 1)
<1>2. ASSUME NEW k \in Key, NEW i \in 1..n
      PROVE  Follows(r, k, i) <=> Follows(q, k, i)
  <2>1. i - 1 \in 0..n /\ \A h \in 1..i - 1 : h \in 1..n
    BY <1>1
  <2>2. ValueAfter(r, k, i - 1) = ValueAfter(q, k, i - 1)
    BY <2>1, ValueNext
  <2>3. \A h \in 1..i - 1 : Touches(r, h, k.address) <=> Touches(q, h, k.address)
    BY <1>1, <2>1 DEF Touches
  <2> QED
    BY <1>1, <2>2, <2>3
<1>3. ASSUME NEW k \in Key
      PROVE  Follows(r, k, n + 1) <=>
               (TouchedIn(q, k.address) => e.payload.before = ValueAfter(q, k, n))
  <2>1. n + 1 - 1 = n /\ n \in 0..n
    BY <1>1
  <2>2. ValueAfter(r, k, n) = ValueAfter(q, k, n)
    BY <2>1, ValueNext
  <2>3. \A h \in 1..n : Touches(r, h, k.address) <=> Touches(q, h, k.address)
    BY <1>1 DEF Touches
  <2> QED
    BY <1>1, <2>1, <2>2, <2>3 DEF TouchedIn
<1>4. Chained(r) <=> \A k \in Key : \A i \in Writers(r, k, n + 1) : Follows(r, k, i)
  BY <1>1 DEF Chained
<1>5. Chained(q) <=> \A k \in Key : \A i \in Writers(q, k, n) : Follows(q, k, i)
  BY <1>1 DEF Chained
<1>6. \A k \in Key : Writers(q, k, n) \subseteq 1..n
  BY DEF Writers
<1>7. \A k \in Key : /\ (Overwrites(e, k) => Writers(r, k, n + 1) = Writers(q, k, n) \cup {n + 1})
                     /\ (~Overwrites(e, k) => Writers(r, k, n + 1) = Writers(q, k, n))
  BY WritersNext
<1> HIDE DEF Follows
<1>8. ASSUME NEW k \in Key
      PROVE  (\A i \in Writers(r, k, n + 1) : Follows(r, k, i)) <=>
               /\ \A i \in Writers(q, k, n) : Follows(q, k, i)
               /\ Overwrites(e, k) /\ TouchedIn(q, k.address) =>
                    e.payload.before = ValueAfter(q, k, n)
  BY <1>2, <1>3, <1>6, <1>7
<1> QED BY <1>4, <1>5, <1>8

-----------------------------------------------------------------------------
(***************************************************************************)
(* Gate 2 replays                                                          *)
(***************************************************************************)

\* The state st is what Gate 2 should hold after q.
Replays(st, q) ==
  /\ DOMAIN st = {a \in Address : TouchedIn(q, a)}
  /\ \A a \in DOMAIN st :
       /\ DOMAIN st[a] = {k \in Key : k.address = a /\ WrittenIn(q, k)}
       /\ \A k \in DOMAIN st[a] : st[a][k] = ValueAfter(q, k, Len(q))

AccountIn(st, a) == IF a \in DOMAIN st THEN st[a] ELSE << >>

\* Accounts that were not touched have no cells.
LEMMA AccountReplayed ==
  ASSUME NEW q \in Seq(AuditEvent), NEW st, Replays(st, q), NEW a \in Address
  PROVE  /\ \A k : k \in DOMAIN AccountIn(st, a) <=>
                     k \in Key /\ k.address = a /\ WrittenIn(q, k)
         /\ \A k \in DOMAIN AccountIn(st, a) : AccountIn(st, a)[k] = ValueAfter(q, k, Len(q))
<1>1. CASE a \in DOMAIN st
  BY <1>1 DEF Replays, AccountIn
<1>2. CASE a \notin DOMAIN st
  <2>1. ~TouchedIn(q, a)
    BY <1>2 DEF Replays
  <2>2. \A k \in Key : ~(k.address = a /\ WrittenIn(q, k))
    BY <2>1, WrittenIsTouched
  <2>3. AccountIn(st, a) = << >>
    BY <1>2 DEF AccountIn
  <2> QED
    BY <2>2, <2>3
<1> QED BY <1>1, <1>2

LEMMA KeyAddress ==
  ASSUME NEW k \in Key
  PROVE  k.address \in Address /\ k.kind # "Transient" /\ k \notin TransientKey
  BY DEF Key, TransientKey

\* A write.
LEMMA ReplaysWrite ==
  ASSUME NEW q, NEW e, NEW r, NEW n \in Nat, Extends(q, e, r, n), NEW st, Replays(st, q),
         NEW k \in Key, e.payload.type = "StateChanged", e.payload.key = k
  PROVE  Replays(Insert(st, k.address, Insert(AccountIn(st, k.address), k, e.payload.after)), r)
<1> DEFINE a == k.address
           account == Insert(AccountIn(st, a), k, e.payload.after)
           next == Insert(st, a, account)
<1>1. a \in Address /\ k.kind # "Transient" /\ q \in Seq(AuditEvent)
      /\ Len(q) = n /\ Len(r) = n + 1
  BY KeyAddress DEF Extends
<1>2. \A x \in Address : TouchedBy(e, x) <=> x = a
  BY <1>1 DEF TouchedBy, Touches
<1>3. \A x \in Address : TouchedIn(r, x) <=> x = a \/ TouchedIn(q, x)
  BY <1>2, TouchedNext
<1>4. \A j : Overwrites(e, j) <=> j = k
  BY DEF Overwrites
<1>5. \A j \in Key : WrittenIn(r, j) <=> j = k \/ WrittenIn(q, j)
  BY <1>4, WrittenNext
<1>6. \A j \in Key : /\ j = k => ValueAfter(r, j, n + 1) = e.payload.after
                     /\ j # k => ValueAfter(r, j, n + 1) = ValueAfter(q, j, n)
  BY <1>4, ValueNext
<1>7. /\ DOMAIN account = {k} \cup DOMAIN AccountIn(st, a)
      /\ account[k] = e.payload.after
      /\ \A j \in DOMAIN AccountIn(st, a) : j # k => account[j] = AccountIn(st, a)[j]
  BY DEF Insert
<1>8. /\ \A j : j \in DOMAIN AccountIn(st, a) <=> j \in Key /\ j.address = a /\ WrittenIn(q, j)
      /\ \A j \in DOMAIN AccountIn(st, a) : AccountIn(st, a)[j] = ValueAfter(q, j, n)
  BY <1>1, AccountReplayed
<1> HIDE DEF account
<1>9. /\ DOMAIN next = {a} \cup DOMAIN st
      /\ next[a] = account
      /\ \A x \in DOMAIN st : x # a => next[x] = st[x]
  BY DEF Insert
<1> HIDE DEF next
<1>10. DOMAIN next = {x \in Address : TouchedIn(r, x)}
  BY <1>1, <1>3, <1>9 DEF Replays
<1>11. ASSUME NEW x \in DOMAIN next
       PROVE  /\ DOMAIN next[x] = {j \in Key : j.address = x /\ WrittenIn(r, j)}
              /\ \A j \in DOMAIN next[x] : next[x][j] = ValueAfter(r, j, n + 1)
  <2>1. CASE x = a
    <3>1. next[x] = account
      BY <1>9, <2>1
    <3>2. DOMAIN account = {j \in Key : j.address = x /\ WrittenIn(r, j)}
      BY <1>5, <1>7, <1>8, <2>1
    <3>3. \A j \in DOMAIN account : j \in Key /\ account[j] = ValueAfter(r, j, n + 1)
      BY <1>6, <1>7, <1>8
    <3> QED
      BY <3>1, <3>2, <3>3
  <2>2. CASE x # a
    <3>1. x \in DOMAIN st /\ next[x] = st[x]
      BY <1>9, <2>2
    <3>2. /\ DOMAIN st[x] = {j \in Key : j.address = x /\ WrittenIn(q, j)}
          /\ \A j \in DOMAIN st[x] : st[x][j] = ValueAfter(q, j, n)
      BY <1>1, <3>1 DEF Replays
    <3>3. \A j \in Key : j.address = x => j # k
      BY <2>2
    <3> QED
      BY <1>5, <1>6, <3>1, <3>2, <3>3
  <2> QED
    BY <2>1, <2>2
<1>12. Replays(next, r)
  BY <1>1, <1>10, <1>11 DEF Replays
<1> QED BY <1>12 DEF next, account

\* An event that writes no persistent cell, but may touch an account.
LEMMA ReplaysOther ==
  ASSUME NEW q, NEW e, NEW r, NEW n \in Nat, Extends(q, e, r, n), NEW st, Replays(st, q),
         \A k \in Key : ~Overwrites(e, k),
         NEW next, DOMAIN next = {a \in Address : TouchedIn(q, a) \/ TouchedBy(e, a)},
         \A a \in DOMAIN next : next[a] = AccountIn(st, a)
  PROVE  Replays(next, r)
<1>1. q \in Seq(AuditEvent) /\ Len(q) = n /\ Len(r) = n + 1
  BY DEF Extends
<1>2. DOMAIN next = {a \in Address : TouchedIn(r, a)}
  BY TouchedNext
<1>3. \A k \in Key : /\ WrittenIn(r, k) <=> WrittenIn(q, k)
                     /\ ValueAfter(r, k, n + 1) = ValueAfter(q, k, n)
  BY WrittenNext, ValueNext
<1>4. ASSUME NEW a \in DOMAIN next
      PROVE  /\ DOMAIN next[a] = {k \in Key : k.address = a /\ WrittenIn(r, k)}
             /\ \A k \in DOMAIN next[a] : next[a][k] = ValueAfter(r, k, n + 1)
  <2>1. a \in Address /\ next[a] = AccountIn(st, a)
    BY <1>4
  <2>2. PICK account : account = AccountIn(st, a)
    OBVIOUS
  <2>3. /\ \A k : k \in DOMAIN account <=> k \in Key /\ k.address = a /\ WrittenIn(q, k)
        /\ \A k \in DOMAIN account : account[k] = ValueAfter(q, k, n)
    BY <1>1, <2>1, <2>2, AccountReplayed
  <2>4. next[a] = account
    BY <2>1, <2>2
  <2> QED
    BY <1>3, <2>3, <2>4
<1> QED BY <1>1, <1>2, <1>4 DEF Replays

\* What Read says of the input, by names that do not change with the state.
LEMMA ReadExtends ==
  ASSUME input \in Seq(AuditEvent), NEW payload \in Traced, Read(payload)
  PROVE  \E q, e, r : \E n \in Nat :
           /\ q = input /\ r = input' /\ Extends(q, e, r, n) /\ n = Len(q)
           /\ e = EventOf(payload) /\ e.payload = payload /\ r # << >>
<1>1. EventOf(payload) \in AuditEvent /\ EventOf(payload).payload = payload
  <2>1. Len(input) \in Nat
    OBVIOUS
  <2> QED
    BY <2>1 DEF EventOf, AuditEvent, Traced
<1>2. PICK q \in Seq(AuditEvent) : q = input
  OBVIOUS
<1>3. PICK e \in AuditEvent : e = EventOf(payload)
  BY <1>1
<1>4. Extends(q, e, Append(q, e), Len(q)) /\ Append(q, e) # << >>
  BY AppendExtends
<1>5. PICK r : r = Append(q, e)
  OBVIOUS
<1>6. PICK n \in Nat : n = Len(q)
  OBVIOUS
<1>7. r = input'
  BY <1>2, <1>3, <1>5 DEF Read
<1>8. e.payload = payload
  BY <1>1, <1>3
<1> QED BY <1>2, <1>3, <1>4, <1>5, <1>6, <1>7, <1>8

\* Gate 2 reads an event.
LEMMA ReadReplays ==
  ASSUME input \in Seq(AuditEvent), ReplayRight, NEW payload \in Traced, Read(payload)
  PROVE  ReplayRight'
<1>1. PICK q, e, r : \E n \in Nat :
           /\ q = input /\ r = input' /\ Extends(q, e, r, n) /\ n = Len(q)
           /\ e.payload = payload
  BY ReadExtends
<1>2. PICK n \in Nat : Extends(q, e, r, n) /\ n = Len(q)
  BY <1>1
<1>3. q = input /\ r = input' /\ e.payload = payload
  BY <1>1
<1>4. PICK st : st = replay_state
  OBVIOUS
<1>5. /\ Replays(st, q)
      /\ gate2_result = "replaying" => (gate2_errors = {} <=> Chained(q))
  BY <1>3, <1>4 DEF ReplayRight, Replays, Touched, TouchedIn, Written, WrittenIn, Final,
                    ChainedFromZero
<1>6. SUFFICES /\ Replays(replay_state', r)
               /\ gate2_result' = "replaying" => (gate2_errors' = {} <=> Chained(r))
  <2>1. PICK new : new = replay_state'
    OBVIOUS
  <2>2. Replays(new, r)
    BY <1>6, <2>1
  <2>3. (/\ DOMAIN replay_state = Touched
         /\ \A a \in Touched :
              /\ DOMAIN replay_state[a] = {k \in Key : k.address = a /\ Written(k)}
              /\ \A k \in DOMAIN replay_state[a] : replay_state[a][k] = Final(k))'
    BY <1>3, <2>1, <2>2 DEF Replays, Touched, TouchedIn, Written, WrittenIn, Final
  <2>4. ChainedFromZero' <=> Chained(r)
    BY <1>3 DEF ChainedFromZero
  <2> QED
    BY <1>6, <2>3, <2>4 DEF ReplayRight
<1>7. gate2_result = "replaying" /\ ReplayTrace(payload)
  BY DEF Read, ReplayTrace
<1>8. \A a : Account(a) = AccountIn(st, a)
  BY <1>4 DEF Account, AccountIn
<1>9. CASE /\ payload.type = "StateChanged" /\ payload.key.kind # "Transient"
           /\ ReplayWrite(payload.key, payload.before, payload.after)
  <2>1. PICK k \in Key : k = payload.key
    BY <1>9, TracedTypes DEF TransientKey
  <2>2. replay_state' = Insert(st, k.address,
                               Insert(AccountIn(st, k.address), k, payload.after))
    BY <1>4, <1>8, <1>9, <2>1 DEF ReplayWrite
  <2>3. Replays(replay_state', r)
    BY <1>2, <1>3, <1>5, <1>9, <2>1, <2>2, ReplaysWrite
  <2>4. \A j \in Key : Overwrites(e, j) <=> j = k
    BY <1>3, <1>9, <2>1 DEF Overwrites
  <2>5. Chained(r) <=> /\ Chained(q)
                       /\ TouchedIn(q, k.address) => payload.before = ValueAfter(q, k, n)
    BY <1>2, <1>3, <2>1, <2>4, ChainedNext
  <2>6. k.address \in Address /\ q \in Seq(AuditEvent)
    BY <1>3, KeyAddress
  <2>7. k.address \in DOMAIN replay_state <=> TouchedIn(q, k.address)
    BY <1>4, <1>5, <2>6 DEF Replays
  <2>8. TouchedIn(q, k.address) => CellOf(Account(k.address), k) = ValueAfter(q, k, n)
    <3>1. PICK account : account = AccountIn(st, k.address)
      OBVIOUS
    <3>2. /\ k \in DOMAIN account <=> WrittenIn(q, k)
          /\ k \in DOMAIN account => account[k] = ValueAfter(q, k, n)
      BY <1>2, <1>5, <2>6, <3>1, AccountReplayed
    <3>3. ~WrittenIn(q, k) => ValueAfter(q, k, n) = Zero
      BY <1>2 DEF WrittenIn, ValueAfter
    <3> QED
      BY <1>8, <3>1, <3>2, <3>3 DEF CellOf
  <2>9. gate2_errors' = IF TouchedIn(q, k.address) /\ ValueAfter(q, k, n) # payload.before
                        THEN gate2_errors \cup {[error |-> "TraceInconsistency",
                                                 address |-> k.address]}
                        ELSE gate2_errors
    BY <1>9, <2>1, <2>7, <2>8 DEF ReplayWrite
  <2>10. gate2_errors' = {} <=> Chained(r)
    BY <1>5, <1>7, <2>5, <2>9
  <2> QED
    BY <2>3, <2>10
<1>10. ASSUME ~(payload.type = "StateChanged" /\ payload.key.kind # "Transient")
       PROVE  /\ \A k \in Key : ~Overwrites(e, k)
              /\ Chained(r) <=> Chained(q)
  <2>1. \A k \in Key : ~Overwrites(e, k)
    BY <1>3, <1>10, KeyAddress DEF Overwrites
  <2> QED
    BY <1>2, <2>1, ChainedNext
<1>11. CASE payload.type \in {"ContractCreated", "ContractDestroyed"}
            /\ ReplayTouch(payload.address)
  <2>1. PICK a \in Address : a = payload.address
    BY <1>11, TracedTypes
  <2>2. \A x \in Address : TouchedBy(e, x) <=> x = a
    BY <1>3, <1>11, <2>1 DEF TouchedBy, Touches
  <2>3. PICK next : next = Insert(st, a, AccountIn(st, a))
    OBVIOUS
  <2>4. /\ DOMAIN next = {a} \cup DOMAIN st
        /\ next[a] = AccountIn(st, a)
        /\ \A x \in DOMAIN st : x # a => next[x] = st[x]
    BY <2>3 DEF Insert
  <2>5. DOMAIN next = {x \in Address : TouchedIn(q, x) \/ TouchedBy(e, x)}
    BY <1>5, <2>2, <2>4 DEF Replays
  <2>6. \A x \in DOMAIN next : next[x] = AccountIn(st, x)
    BY <2>4 DEF AccountIn
  <2>7. \A k \in Key : ~Overwrites(e, k)
    BY <1>10, <1>11
  <2>8. Replays(next, r)
    BY <1>2, <1>5, <2>5, <2>6, <2>7, ReplaysOther
  <2>9. replay_state' = next /\ gate2_errors' = gate2_errors
    BY <1>4, <1>8, <1>11, <2>1, <2>3 DEF ReplayTouch
  <2> QED
    BY <1>5, <1>7, <1>10, <1>11, <2>8, <2>9
<1>12. CASE /\ payload.type = "StateChanged" => payload.key.kind = "Transient"
            /\ payload.type \notin {"ContractCreated", "ContractDestroyed"}
            /\ UNCHANGED gate2Vars
  <2>1. \A x \in Address : ~TouchedBy(e, x)
    BY <1>3, <1>12 DEF TouchedBy, Touches
  <2>2. DOMAIN st = {x \in Address : TouchedIn(q, x) \/ TouchedBy(e, x)}
    BY <1>5, <2>1 DEF Replays
  <2>3. \A x \in DOMAIN st : st[x] = AccountIn(st, x)
    BY DEF AccountIn
  <2>4. \A k \in Key : ~Overwrites(e, k)
    BY <1>10, <1>12
  <2>5. Replays(st, r)
    BY <1>2, <1>5, <2>2, <2>3, <2>4, ReplaysOther
  <2> QED
    BY <1>4, <1>5, <1>7, <1>10, <1>12, <2>5 DEF gate2Vars
<1> QED BY <1>7, <1>9, <1>11, <1>12 DEF ReplayTrace

-----------------------------------------------------------------------------
(***************************************************************************)
(* The builder files                                                       *)
(***************************************************************************)

Observation == [before : Value, after : Value, event_id : Nat]

Cell == Key \cup TransientKey

\* The history ends in v.
EndsIn(history, v) ==
  /\ history \in Seq(Observation)
  /\ history # << >>
  /\ history[Len(history)].after = v

\* Table has the histories of the cells that q writes.
Histories(table, q) ==
  /\ \A k : k \in DOMAIN table <=> k \in Cell /\ WrittenIn(q, k)
  /\ \A k \in DOMAIN table : EndsIn(table[k], ValueAfter(q, k, Len(q)))

LEMMA FiledIs ==
  ASSUME NEW b, NEW q
  PROVE  Filed(q, b) <=> Histories(b.state_tables, q)
<1>1. ASSUME Filed(q, b) PROVE Histories(b.state_tables, q)
  BY <1>1 DEF Filed, Histories, Cell, EndsIn, Observation, WrittenIn
<1>2. ASSUME Histories(b.state_tables, q) PROVE Filed(q, b)
  <2>1. DOMAIN b.state_tables = {k \in Key \cup TransientKey : Writers(q, k, Len(q)) # {}}
    BY <1>2 DEF Histories, Cell, WrittenIn
  <2> QED
    BY <1>2, <2>1 DEF Filed, Histories, EndsIn, Observation
<1> QED BY <1>1, <1>2

\* An event that writes no cell.
LEMMA HistoriesStay ==
  ASSUME NEW q, NEW e, NEW r, NEW n \in Nat, Extends(q, e, r, n), NEW table,
         Histories(table, q), \A k : ~Overwrites(e, k)
  PROVE  Histories(table, r)
<1>1. Len(q) = n /\ Len(r) = n + 1
  BY DEF Extends
<1>2. \A k : WrittenIn(r, k) <=> WrittenIn(q, k)
  BY WrittenNext
<1>3. \A k : ValueAfter(r, k, n + 1) = ValueAfter(q, k, n)
  BY ValueNext
<1> QED BY <1>1, <1>2, <1>3 DEF Histories

\* One that writes.
LEMMA HistoriesGrow ==
  ASSUME NEW q, NEW e, NEW r, NEW n \in Nat, Extends(q, e, r, n), NEW table,
         Histories(table, q), NEW k \in Cell, NEW x \in Observation,
         e.payload.type = "StateChanged", e.payload.key = k, e.payload.after = x.after
  PROVE  Histories(Push(table, k, x), r)
<1>1. Len(q) = n /\ Len(r) = n + 1
  BY DEF Extends
<1>2. \A j : Overwrites(e, j) <=> j = k
  BY DEF Overwrites
<1>3. \A j : WrittenIn(r, j) <=> j = k \/ WrittenIn(q, j)
  BY <1>2, WrittenNext
<1>4. /\ ValueAfter(r, k, n + 1) = x.after
      /\ \A j : j # k => ValueAfter(r, j, n + 1) = ValueAfter(q, j, n)
  BY <1>2, ValueNext
<1>5. PICK old : old = IF k \in DOMAIN table THEN table[k] ELSE << >>
  OBVIOUS
<1>6. old \in Seq(Observation)
  BY <1>5 DEF Histories, EndsIn
<1>7. PICK next : next = Push(table, k, x)
  OBVIOUS
<1>8. /\ \A j : j \in DOMAIN next <=> j = k \/ j \in DOMAIN table
      /\ next[k] = Append(old, x)
      /\ \A j \in DOMAIN table : j # k => next[j] = table[j]
  BY <1>5, <1>7 DEF Push
<1>9. EndsIn(Append(old, x), x.after)
  BY <1>6, AppendProperties DEF EndsIn
<1>10. Histories(next, r)
  BY <1>1, <1>3, <1>4, <1>8, <1>9 DEF Histories
<1> QED BY <1>7, <1>10

\* Any event between the boundaries.
LEMMA FileFollows ==
  ASSUME NEW q, NEW e, NEW r, NEW n \in Nat, Extends(q, e, r, n), NEW b,
         Histories(b.state_tables, q), e.payload \in Payloads
  PROVE  Histories(File(b, e).state_tables, r)
<1>1. e \in AuditEvent
  BY DEF Extends
<1>2. CASE e.payload.type = "StateChanged"
  <2>1. /\ e.payload.key \in Cell /\ e.payload.before \in Value /\ e.payload.after \in Value
        /\ e.sequence_number \in Nat
    BY <1>1, <1>2, TracedTypes DEF Traced, Cell, AuditEvent
  <2>2. Transition(e) \in Observation /\ Transition(e).after = e.payload.after
    BY <2>1 DEF Transition, Observation
  <2>3. Histories(Push(b.state_tables, e.payload.key, Transition(e)), r)
    BY <1>2, <2>1, <2>2, HistoriesGrow
  <2>4. File(b, e).state_tables = Push(b.state_tables, e.payload.key, Transition(e))
    BY <1>2 DEF File
  <2> QED
    BY <2>3, <2>4
<1>3. CASE e.payload.type # "StateChanged"
  <2>1. Histories(b.state_tables, r)
    BY <1>3, HistoriesStay DEF Overwrites
  <2>2. File(b, e).state_tables = b.state_tables
    BY <1>3 DEF File
  <2> QED
    BY <2>1, <2>2
<1> QED BY <1>2, <1>3

\* Nothing is filed before the transaction begins.
LEMMA NothingFiled ==
  ASSUME NEW table, DOMAIN table = {}
  PROVE  Histories(table, << >>)
<1>1. \A k : ~WrittenIn(<< >>, k)
  BY DEF WrittenIn, Writers
<1> QED BY <1>1 DEF Histories

LEMMA BeginBuilds ==
  ASSUME AuditInvariant, Begin
  PROVE  BuilderRight'
<1> DEFINE payload == [type |-> "BeginTransaction"]
<1>1. payload \in Traced /\ Read(payload) /\ input = << >> /\ input \in Seq(AuditEvent)
  BY DEF Begin, Traced, AuditInvariant
<1>2. PICK q, e, r : \E n \in Nat :
           /\ q = input /\ r = input' /\ Extends(q, e, r, n) /\ n = Len(q)
           /\ e = EventOf(payload) /\ e.payload = payload /\ r # << >>
  BY <1>1, ReadExtends
<1>3. PICK n \in Nat : Extends(q, e, r, n)
  BY <1>2
<1>4. current_bucket = << >> /\ buckets = << >> /\ builder_result = "partition"
  BY <1>1 DEF AuditInvariant, BuilderRight
<1>5. Partition(EventOf(payload))
  BY <1>1 DEF Read
<1>6. current_bucket' = <<EmptyBucket(e)>> /\ buckets' = << >> /\ builder_result' = "partition"
  BY <1>2, <1>4, <1>5 DEF Partition, PartitionBegin, PartitionEnd, PartitionOther, BuilderFail
<1>7. PICK b : b = EmptyBucket(e)
  OBVIOUS
<1>8. Histories(b.state_tables, q)
  BY <1>1, <1>2, <1>7, NothingFiled DEF EmptyBucket
<1>9. Histories(b.state_tables, r)
  BY <1>2, <1>3, <1>8, HistoriesStay DEF Overwrites
<1>10. Filed(r, b)
  BY <1>9, FiledIs
<1> QED BY <1>2, <1>6, <1>7, <1>10 DEF BuilderRight

LEMMA TraceBuilds ==
  ASSUME AuditInvariant, NEW payload \in Payloads, Trace(payload)
  PROVE  BuilderRight'
<1>1. payload \in Traced /\ Read(payload) /\ input \in Seq(AuditEvent)
  BY DEF Trace, Traced, AuditInvariant
<1>2. PICK q, e, r : \E n \in Nat :
           /\ q = input /\ r = input' /\ Extends(q, e, r, n) /\ n = Len(q)
           /\ e = EventOf(payload) /\ e.payload = payload /\ r # << >>
  BY <1>1, ReadExtends
<1>3. PICK n \in Nat : Extends(q, e, r, n)
  BY <1>2
<1>4. /\ current_bucket # << >> /\ buckets = << >> /\ builder_result = "partition"
      /\ Filed(q, current_bucket[1])
  BY <1>2 DEF AuditInvariant, BuilderRight, Trace
<1>5. Partition(e)
  BY <1>1, <1>2 DEF Read
<1>6. payload.type \notin {"BeginTransaction", "EndTransaction"}
  BY AuditAssumption
<1>7. /\ current_bucket' = <<File(current_bucket[1], e)>>
      /\ buckets' = << >> /\ builder_result' = "partition"
  BY <1>2, <1>4, <1>5, <1>6 DEF Partition, PartitionOther
<1>8. PICK b : b = current_bucket[1]
  OBVIOUS
<1>9. Histories(b.state_tables, q)
  BY <1>4, <1>8, FiledIs
<1>10. Histories(File(b, e).state_tables, r)
  BY <1>2, <1>3, <1>9, FileFollows
<1>11. Filed(r, File(b, e))
  BY <1>10, FiledIs
<1> QED BY <1>2, <1>7, <1>8, <1>11 DEF BuilderRight

LEMMA EndBuilds ==
  ASSUME AuditInvariant, End
  PROVE  BuilderRight'
<1> DEFINE payload == [type |-> "EndTransaction"]
<1>1. payload \in Traced /\ Read(payload) /\ input \in Seq(AuditEvent)
  BY DEF End, Traced, AuditInvariant
<1>2. PICK q, e, r : \E n \in Nat :
           /\ q = input /\ r = input' /\ Extends(q, e, r, n) /\ n = Len(q)
           /\ e = EventOf(payload) /\ e.payload = payload /\ r # << >>
  BY <1>1, ReadExtends
<1>3. PICK n \in Nat : Extends(q, e, r, n)
  BY <1>2
<1>4. PICK b : b = current_bucket[1]
  OBVIOUS
<1>5. /\ current_bucket = <<b>> /\ buckets = << >> /\ builder_result = "partition"
      /\ Filed(q, b)
  BY <1>2, <1>4 DEF AuditInvariant, BuilderRight, End
<1>6. Partition(e)
  BY <1>1, <1>2 DEF Read
<1>7. buckets' = << >> \o <<b>> /\ current_bucket' = << >> /\ builder_result' = "partition"
  BY <1>2, <1>5, <1>6 DEF Partition, PartitionBegin, PartitionEnd, PartitionOther
<1>8. << >> \o <<b>> = <<b>>
  OBVIOUS
<1>9. Histories(b.state_tables, q)
  BY <1>5, FiledIs
<1>10. Histories(b.state_tables, r)
  BY <1>2, <1>3, <1>9, HistoriesStay DEF Overwrites
<1>11. Filed(r, b)
  BY <1>10, FiledIs
<1> QED BY <1>2, <1>7, <1>8, <1>11 DEF BuilderRight

-----------------------------------------------------------------------------
(***************************************************************************)
(* The invariant of the audit                                              *)
(***************************************************************************)

LEMMA ReplayFrame ==
  ASSUME ReplayRight, UNCHANGED <<gate2Vars, input>>
  PROVE  ReplayRight'
  BY DEF ReplayRight, gate2Vars, Touched, Written, Final, ChainedFromZero

LEMMA BuilderFrame ==
  ASSUME BuilderRight, UNCHANGED <<builderVars, input>>
  PROVE  BuilderRight'
  BY DEF BuilderRight, builderVars

LEMMA CertificatesFrame ==
  ASSUME CertificatesRight,
         UNCHANGED <<builder_result, reduced_ir, source, certificates, claims, origin>>
  PROVE  CertificatesRight'
  BY DEF CertificatesRight, Table, Generations

LEMMA ErrorsFrame ==
  ASSUME UNCHANGED <<replay_state, certificates>>
  PROVE  CertificateErrors(certificates)' = CertificateErrors(certificates)
  BY DEF CertificateErrors, Mismatches, CellOf, Account, ReplayedSlots

LEMMA VerdictFrame ==
  ASSUME VerdictRight, UNCHANGED <<gate2Vars, input, certificates, origin>>
  PROVE  VerdictRight'
  BY ErrorsFrame DEF VerdictRight, gate2Vars, ChainedFromZero

LEMMA ReadKeeps ==
  ASSUME AuditInvariant, NEW payload \in Traced, Read(payload), BuilderRight'
  PROVE  AuditInvariant'
<1>1. input' \in Seq(AuditEvent)
  BY ReadExtends DEF Extends, AuditInvariant
<1>2. ReplayRight'
  BY ReadReplays DEF AuditInvariant
<1>3. builder_result = "partition" /\ UNCHANGED <<source, certificates, claims, origin>>
  BY DEF Read, Partition
<1>4. origin = "none"
  BY <1>3 DEF AuditInvariant, CertificatesRight
<1>5. CertificatesRight'
  BY <1>3, <1>4 DEF CertificatesRight
<1>6. gate2_result' = "replaying"
  BY DEF Read, ReplayTrace, ReplayWrite, ReplayTouch, gate2Vars
<1>7. VerdictRight'
  BY <1>6 DEF VerdictRight
<1> QED BY <1>1, <1>2, <1>5, <1>7 DEF AuditInvariant

LEMMA FinishKeeps ==
  ASSUME AuditInvariant, Finish
  PROVE  AuditInvariant'
<1>1. /\ builder_result = "partition" /\ buckets # << >>
      /\ UNCHANGED <<buckets, reduced_ir, gate2Vars, input, source, certificates, claims, origin>>
  BY DEF Finish, PartitionFinish, BuilderFail
<1>2. /\ input # << >> /\ current_bucket = << >> /\ buckets = <<buckets[1]>>
      /\ Filed(input, buckets[1])
  BY <1>1 DEF AuditInvariant, BuilderRight
<1>3. current_bucket' = << >> /\ builder_result' = "reduce"
  BY <1>2 DEF Finish, PartitionFinish
<1>4. BuilderRight'
  BY <1>1, <1>2, <1>3 DEF BuilderRight
<1>5. CertificatesRight'
  BY <1>1 DEF CertificatesRight, AuditInvariant
<1> QED BY <1>1, <1>4, <1>5, ReplayFrame, VerdictFrame DEF AuditInvariant

LEMMA ReduceKeeps ==
  ASSUME AuditInvariant, ReduceTimelines
  PROVE  AuditInvariant'
<1>1. /\ builder_result = "reduce"
      /\ UNCHANGED <<buckets, current_bucket, gate2Vars, input, source, certificates, claims,
                     origin>>
  BY DEF ReduceTimelines, Reduce, BuilderFail
<1>2. /\ input # << >> /\ current_bucket = << >> /\ buckets # << >> /\ buckets = <<buckets[1]>>
      /\ Filed(input, buckets[1])
  BY <1>1 DEF AuditInvariant, BuilderRight
<1>3. /\ builder_result' \in {"TimelineFailure", "Ok"}
      /\ builder_result' = "Ok" => reduced_ir' = [i \in DOMAIN buckets |-> ReducedBucket(buckets[i])]
  BY DEF ReduceTimelines, Reduce, BuilderFail
<1>4. PICK b : b = buckets[1]
  OBVIOUS
<1>5. 1 \in DOMAIN buckets
  BY <1>2, <1>4
<1>6. builder_result' = "Ok" => reduced_ir'[1] = ReducedBucket(buckets[1])
  BY <1>3, <1>5
<1>7. BuilderRight'
  BY <1>1, <1>2, <1>3, <1>6 DEF BuilderRight
<1>8. CertificatesRight'
  BY <1>1 DEF CertificatesRight, AuditInvariant
<1> QED BY <1>1, <1>7, <1>8, ReplayFrame, VerdictFrame DEF AuditInvariant

LEMMA CertifyKeeps ==
  ASSUME AuditInvariant, NEW s \in Sources, Certify(s)
  PROVE  AuditInvariant'
<1>1. /\ builder_result = "Ok" /\ origin = "none"
      /\ UNCHANGED <<builderVars, gate2Vars, input, claims>>
      /\ source' = <<s>>
  BY DEF Certify
<1>2. UNCHANGED <<builder_result, reduced_ir>>
  BY <1>1 DEF builderVars
<1>3. Table' = Table /\ Generations' = Generations
  BY <1>2 DEF Table, Generations
<1>4. \/ origin' = "failed"
      \/ /\ origin' = "pipeline" /\ Certifiable(Table, Generations, s)
         /\ certificates' = resolve_storage_roots(
                              build_canonical_certificates(Table, Generations, s), Table)
  BY DEF Certify
<1>5. CertificatesRight'
  <2>1. CASE origin' = "failed"
    BY <1>1, <1>2, <2>1 DEF CertificatesRight
  <2>2. CASE origin' # "failed"
    <3>1. PICK t, g : t = Table /\ g = Generations
      OBVIOUS
    <3>2. /\ origin' = "pipeline" /\ Certifiable(t, g, s)
          /\ certificates' = resolve_storage_roots(build_canonical_certificates(t, g, s), t)
          /\ Table' = t /\ Generations' = g
      BY <1>3, <1>4, <2>2, <3>1
    <3> QED
      BY <1>1, <1>2, <3>2 DEF CertificatesRight
  <2> QED
    BY <2>1, <2>2
<1>6. gate2_result = "replaying"
  BY <1>1 DEF AuditInvariant, VerdictRight
<1>7. VerdictRight'
  BY <1>1, <1>6 DEF VerdictRight, gate2Vars
<1> QED BY <1>1, <1>5, <1>7, ReplayFrame, BuilderFrame DEF AuditInvariant

LEMMA ClaimKeeps ==
  ASSUME AuditInvariant, NEW some \in Claimed, Claim(some)
  PROVE  AuditInvariant'
<1>1. /\ builder_result \in {"Ok", "TimelineFailure"} /\ origin = "none"
      /\ UNCHANGED <<builderVars, gate2Vars, input, source>>
      /\ claims' = some /\ certificates' = {CertificateOf(c) : c \in some}
      /\ origin' = "elsewhere"
  BY DEF Claim
<1>2. some \in Claims \cup {{}}
  BY DEF Claimed
<1>3. builder_result' = builder_result
  BY <1>1 DEF builderVars
<1>4. CertificatesRight'
  BY <1>1, <1>2, <1>3 DEF CertificatesRight
<1>5. gate2_result = "replaying"
  BY <1>1 DEF AuditInvariant, VerdictRight
<1>6. VerdictRight'
  BY <1>1, <1>5 DEF VerdictRight, gate2Vars
<1> QED BY <1>1, <1>4, <1>6, ReplayFrame, BuilderFrame DEF AuditInvariant

LEMMA VerifyKeeps ==
  ASSUME AuditInvariant, Verify
  PROVE  AuditInvariant'
<1>1. /\ origin \in {"pipeline", "elsewhere"} /\ Compare(certificates)
      /\ UNCHANGED <<builderVars, input, source, certificates, claims, origin>>
  BY DEF Verify
<1>2. /\ gate2_result = "replaying" /\ UNCHANGED replay_state
      /\ gate2_result' = IF gate2_errors' = {} THEN "Ok" ELSE "Err"
      /\ gate2_errors' = {} <=> gate2_errors = {} /\ CertificateErrors(certificates) = {}
  BY <1>1 DEF Compare
<1>3. gate2_errors = {} <=> ChainedFromZero
  BY <1>2 DEF AuditInvariant, ReplayRight
<1>4. CertificateErrors(certificates)' = CertificateErrors(certificates)
  BY <1>1, <1>2, ErrorsFrame
<1>5. ChainedFromZero' <=> ChainedFromZero
  BY <1>1 DEF ChainedFromZero
<1>6. VerdictRight'
  BY <1>1, <1>2, <1>3, <1>4, <1>5 DEF VerdictRight
<1>7. ReplayRight'
  BY <1>1, <1>2 DEF AuditInvariant, ReplayRight, Touched, Written, Final
<1>8. CertificatesRight'
  BY <1>1, CertificatesFrame DEF AuditInvariant, builderVars
<1> QED BY <1>1, <1>6, <1>7, <1>8, BuilderFrame DEF AuditInvariant

LEMMA InitialAudit == Init => AuditInvariant
<1> SUFFICES ASSUME Init PROVE AuditInvariant
  OBVIOUS
<1>1. input = << >> /\ replay_state = << >> /\ gate2_errors = {} /\ gate2_result = "replaying"
  BY DEF Init, Gate2Init
<1>2. ReplayRight
  <2>1. Touched = {}
    BY <1>1 DEF Touched
  <2>2. \A k : Writers(input, k, Len(input)) = {}
    BY <1>1 DEF Writers
  <2>3. ChainedFromZero
    BY <2>2 DEF ChainedFromZero, Chained
  <2> QED
    BY <1>1, <2>1, <2>3 DEF ReplayRight
<1>3. BuilderRight
  BY DEF Init, BuilderInit, BuilderRight
<1> QED BY <1>1, <1>2, <1>3 DEF AuditInvariant, CertificatesRight, VerdictRight, Init

LEMMA AuditKeeps == AuditInvariant /\ [Next]_vars => AuditInvariant'
<1> SUFFICES ASSUME AuditInvariant, [Next]_vars PROVE AuditInvariant'
  OBVIOUS
<1>1. CASE Begin
  BY <1>1, BeginBuilds, ReadKeeps DEF Begin, Traced
<1>2. ASSUME NEW payload \in Payloads, Trace(payload) PROVE AuditInvariant'
  BY <1>2, TraceBuilds, ReadKeeps DEF Trace, Traced
<1>3. CASE End
  BY <1>3, EndBuilds, ReadKeeps DEF End, Traced
<1>4. CASE Finish
  BY <1>4, FinishKeeps
<1>5. CASE ReduceTimelines
  BY <1>5, ReduceKeeps
<1>6. ASSUME NEW s \in Sources, Certify(s) PROVE AuditInvariant'
  BY <1>6, CertifyKeeps
<1>7. ASSUME NEW some \in Claimed, Claim(some) PROVE AuditInvariant'
  BY <1>7, ClaimKeeps
<1>8. CASE Verify
  BY <1>8, VerifyKeeps
<1>9. CASE UNCHANGED vars
  <2>1. UNCHANGED <<builderVars, gate2Vars, input, source, certificates, claims, origin>>
    BY <1>9 DEF vars
  <2>2. UNCHANGED <<builder_result, reduced_ir, replay_state>>
    BY <2>1 DEF builderVars, gate2Vars
  <2> QED
    BY <2>1, <2>2, ReplayFrame, BuilderFrame, CertificatesFrame, VerdictFrame DEF AuditInvariant
<1> QED
  BY <1>1, <1>2, <1>3, <1>4, <1>5, <1>6, <1>7, <1>8, <1>9 DEF Next, Audited

\* At every point of a transaction the builder and Gate 2, each on its own, hold
\* what the events so far say, and Gate 2 judges the batch that was certified
\* (partition.rs process, verify/src/lib.rs replay_and_verify).
THEOREM AuditIsRight == Spec => []AuditInvariant
<1> QED BY InitialAudit, AuditKeeps, PTL DEF Spec

-----------------------------------------------------------------------------
(***************************************************************************)
(* What Gate 2 compares                                                    *)
(***************************************************************************)

LEMMA UnwrittenIsZero ==
  ASSUME NEW k, ~Written(k)
  PROVE  Final(k) = Zero
  BY DEF Written, Final, ValueAfter

\* Every value that Gate 2 reads from its replay is the one the events lead to.
LEMMA ReplayedIsFinal ==
  ASSUME ReplayRight, NEW a \in Touched
  PROVE  /\ a \in Address /\ a \in DOMAIN replay_state
         /\ \A k \in Key : k.address = a => CellOf(Account(a), k) = Final(k)
         /\ ReplayedSlots(a) = StorageOf(a)
<1>1. a \in Address /\ a \in DOMAIN replay_state /\ Account(a) = replay_state[a]
  BY DEF ReplayRight, Touched, Account
<1>2. PICK account : account = Account(a)
  OBVIOUS
<1>3. /\ \A k : k \in DOMAIN account <=> k \in Key /\ k.address = a /\ Written(k)
      /\ \A k \in DOMAIN account : account[k] = Final(k)
  BY <1>1, <1>2 DEF ReplayRight
<1>4. \A k : ~Written(k) => Final(k) = Zero
  BY UnwrittenIsZero
<1>5. \A k \in Key : k.address = a => CellOf(account, k) = Final(k)
  BY <1>3, <1>4 DEF CellOf
<1>6. ReplayedSlots(a) = StorageOf(a)
  <2> DEFINE key(s) == [kind |-> "Storage", address |-> a, slot |-> s]
  <2>1. \A s \in Slot : key(s) \in Key /\ key(s).address = a
    BY <1>1 DEF Key
  <2>2. \A s \in Slot : key(s) \in DOMAIN account <=> Written(key(s))
    BY <1>3, <2>1
  <2>3. \A s \in Slot : Written(key(s)) => account[key(s)] = Final(key(s))
    BY <1>3, <2>2
  <2>4. ReplayedSlots(a) = [s \in {s \in Slot : key(s) \in DOMAIN account} |-> account[key(s)]]
    BY <1>2 DEF ReplayedSlots
  <2>5. StorageOf(a) = [s \in {s \in Slot : Written(key(s))} |-> Final(key(s))]
    BY DEF StorageOf
  <2> HIDE DEF key
  <2> QED
    BY <2>2, <2>3, <2>4, <2>5
<1> QED BY <1>1, <1>2, <1>5, <1>6

\* When a batch has no errors.
LEMMA NoMismatch ==
  ASSUME NEW c, c.storage_root # AwaitingDerivation
  PROVE  Mismatches(c) = {} <=>
           /\ \A f \in Field : c.fields[f] = CellOf(Account(c.address), FieldKey(c.address, f))
           /\ c.storage_root = Verified(derive(ReplayedSlots(c.address)))
  BY DEF Mismatches

LEMMA NoErrors ==
  ASSUME NEW batch
  PROVE  CertificateErrors(batch) = {} <=>
           /\ \A a : a \in DOMAIN replay_state <=> \E c \in batch : c.address = a
           /\ \A c \in batch : c.storage_root # AwaitingDerivation /\ Mismatches(c) = {}
<1> DEFINE touched == DOMAIN replay_state
           certified == {c.address : c \in batch}
           compared == {c \in batch : c.address \in touched}
           open == {c.address : c \in {d \in compared : d.storage_root = AwaitingDerivation}}
           wrong == {c.address : c \in {d \in compared : Mismatches(d) # {}}}
           report(error, addresses) == {[error |-> error, address |-> a] : a \in addresses}
<1>1. CertificateErrors(batch) = report("MissingCertificate", touched \ certified)
                                   \cup report("UntouchedCertificate", certified \ touched)
                                   \cup report("UnresolvedStorageRoot", open)
                                   \cup report("CertificateMismatch", wrong)
  BY DEF CertificateErrors
<1>2. \E A, B, C, D : /\ A = touched \ certified /\ B = certified \ touched
                      /\ C = open /\ D = wrong
  OBVIOUS
<1> HIDE DEF touched, certified, compared, open, wrong
<1>3. CertificateErrors(batch) = {} <=> /\ touched \ certified = {} /\ certified \ touched = {}
                                        /\ open = {} /\ wrong = {}
  <2>1. PICK A, B, C, D : /\ A = touched \ certified /\ B = certified \ touched
                          /\ C = open /\ D = wrong
    BY <1>2
  <2>2. CertificateErrors(batch) = report("MissingCertificate", A)
                                     \cup report("UntouchedCertificate", B)
                                     \cup report("UnresolvedStorageRoot", C)
                                     \cup report("CertificateMismatch", D)
    BY <1>1, <2>1
  <2>3. ASSUME NEW error, NEW some PROVE report(error, some) = {} <=> some = {}
    OBVIOUS
  <2> HIDE DEF report
  <2>4. CertificateErrors(batch) = {} <=> A = {} /\ B = {} /\ C = {} /\ D = {}
    <3>1. report("MissingCertificate", A) = {} <=> A = {}
      BY <2>3
    <3>2. report("UntouchedCertificate", B) = {} <=> B = {}
      BY <2>3
    <3>3. report("UnresolvedStorageRoot", C) = {} <=> C = {}
      BY <2>3
    <3>4. report("CertificateMismatch", D) = {} <=> D = {}
      BY <2>3
    <3> QED
      BY <2>2, <3>1, <3>2, <3>3, <3>4
  <2> QED
    BY <2>1, <2>4
<1> USE DEF touched, certified, compared, open, wrong
<1>4. touched \ certified = {} /\ certified \ touched = {} <=>
        \A a : a \in DOMAIN replay_state <=> \E c \in batch : c.address = a
  OBVIOUS
<1>5. ASSUME \A a : a \in DOMAIN replay_state <=> \E c \in batch : c.address = a
      PROVE  open = {} /\ wrong = {} <=>
               \A c \in batch : c.storage_root # AwaitingDerivation /\ Mismatches(c) = {}
  <2>1. compared = batch
    BY <1>5
  <2>2. open = {} <=> \A c \in batch : c.storage_root # AwaitingDerivation
    BY <2>1
  <2>3. wrong = {} <=> \A c \in batch : Mismatches(c) = {}
    BY <2>1
  <2> QED
    BY <2>2, <2>3
<1> QED BY <1>3, <1>4, <1>5

\* What Gate 2 asks of a batch, in terms of the events.
LEMMA Judged ==
  ASSUME ReplayRight, NEW batch
  PROVE  CertificateErrors(batch) = {} <=>
           /\ \A a : a \in Touched <=> \E c \in batch : c.address = a
           /\ \A c \in batch :
                /\ \A f \in Field : c.fields[f] = Final(FieldKey(c.address, f))
                /\ c.storage_root = Verified(derive(StorageOf(c.address)))
<1>1. DOMAIN replay_state = Touched
  BY DEF ReplayRight
<1>2. ASSUME \A a : a \in Touched <=> \E c \in batch : c.address = a, NEW c \in batch
      PROVE  (c.storage_root # AwaitingDerivation /\ Mismatches(c) = {}) <=>
               /\ \A f \in Field : c.fields[f] = Final(FieldKey(c.address, f))
               /\ c.storage_root = Verified(derive(StorageOf(c.address)))
  <2>1. PICK a \in Touched : a = c.address
    BY <1>2
  <2>2. /\ a \in Address
        /\ \A k \in Key : k.address = a => CellOf(Account(a), k) = Final(k)
        /\ ReplayedSlots(a) = StorageOf(a)
    BY ReplayedIsFinal
  <2>3. \A f \in Field : FieldKey(a, f) \in Key /\ FieldKey(a, f).address = a
    BY <2>2 DEF FieldKey, Field, Key
  <2>4. \A f \in Field : CellOf(Account(a), FieldKey(a, f)) = Final(FieldKey(a, f))
    BY <2>2, <2>3
  <2>5. \A root : Verified(root) # AwaitingDerivation
    BY DEF Verified, AwaitingDerivation
  <2>6. c.storage_root # AwaitingDerivation =>
          (Mismatches(c) = {} <=>
             /\ \A f \in Field : c.fields[f] = CellOf(Account(a), FieldKey(a, f))
             /\ c.storage_root = Verified(derive(ReplayedSlots(a))))
    BY <2>1, NoMismatch
  <2> QED
    BY <2>1, <2>2, <2>4, <2>5, <2>6
<1> QED BY <1>1, <1>2, NoErrors

-----------------------------------------------------------------------------
(***************************************************************************)
(* Certificates from elsewhere                                             *)
(***************************************************************************)

\* What the events lead to, for a cell that they write.
LEMMA FinalIsValue ==
  ASSUME input \in Seq(AuditEvent), NEW k, Written(k)
  PROVE  \E i \in 1..Len(input) : /\ input[i].payload.type = "StateChanged"
                                  /\ input[i].payload.key = k
                                  /\ Final(k) \in Value
<1>1. PICK q, n : q = input /\ n = Len(q) /\ n \in Nat /\ q \in Seq(AuditEvent)
  OBVIOUS
<1>2. Writers(q, k, n) # {} /\ Final(k) = ValueAfter(q, k, n)
  BY <1>1 DEF Written, Final
<1>3. PICK i \in 1..n : ValueAfter(q, k, n) = q[i].payload.after /\ Writes(q, i, k)
  BY <1>1, <1>2, LastWriteIs
<1>4. q[i] \in AuditEvent
  BY <1>1, <1>3
<1>5. q[i].payload \in Traced
  BY <1>4 DEF AuditEvent, Traced
<1>6. q[i].payload.type = "StateChanged" /\ q[i].payload.key = k
  BY <1>3 DEF Writes
<1>7. q[i].payload.after \in Value
  BY <1>5, <1>6, TracedTypes
<1> QED BY <1>1, <1>2, <1>3, <1>6, <1>7

\* The storage that the events leave is that of finitely many slots.
LEMMA StorageIsFinite ==
  ASSUME input \in Seq(AuditEvent), NEW a
  PROVE  /\ DOMAIN StorageOf(a) \in SUBSET Nat /\ IsFiniteSet(DOMAIN StorageOf(a))
         /\ StorageOf(a) \in [DOMAIN StorageOf(a) -> Value]
<1> DEFINE key(s) == [kind |-> "Storage", address |-> a, slot |-> s]
           written == {s \in Slot : Written(key(s))}
<1>1. StorageOf(a) = [s \in written |-> Final(key(s))]
  BY DEF StorageOf
<1>2. PICK n \in Nat : n = Len(input)
  OBVIOUS
<1>3. \A s \in written : Final(key(s)) \in Value /\ \E i \in 1..n : input[i].payload.key.slot = s
  <2>1. TAKE s \in written
  <2>2. PICK k : k = key(s)
    OBVIOUS
  <2>3. Written(k) /\ k.slot = s
    BY <2>2
  <2>4. \E i \in 1..n : input[i].payload.key = k /\ Final(k) \in Value
    BY <1>2, <2>3, FinalIsValue
  <2> QED
    BY <2>2, <2>3, <2>4
<1>4. PICK slotOf : slotOf = [i \in 1..n |-> input[i].payload.key.slot]
  OBVIOUS
<1>5. PICK slots : slots = {slotOf[i] : i \in 1..n}
  OBVIOUS
<1>6. slotOf \in Surjection(1..n, slots)
  BY <1>4, <1>5 DEF Surjection
<1>7. IsFiniteSet(slots)
  BY <1>6, FS_NatSurjection DEF ExistsSurjection
<1>8. written \subseteq slots
  BY <1>3, <1>4, <1>5
<1>9. IsFiniteSet(written)
  BY <1>7, <1>8, FS_Subset
<1>10. written \subseteq Nat
  BY ZeroAssumption
<1>11. StorageOf(a) \in [written -> Value] /\ DOMAIN StorageOf(a) = written
  BY <1>1, <1>3
<1> QED BY <1>9, <1>10, <1>11

LEMMA ClaimIs ==
  ASSUME NEW some \in Claims \cup {{}}, NEW c \in some
  PROVE  /\ c.derived \in BOOLEAN
         /\ DOMAIN c.slots \in SUBSET Nat /\ IsFiniteSet(DOMAIN c.slots)
         /\ c.slots \in [DOMAIN c.slots -> Value]
<1>1. PICK written \in SUBSET Slot : IsFiniteSet(written) /\ c.slots \in [written -> Value]
  BY AuditAssumption
<1>2. DOMAIN c.slots = written /\ written \in SUBSET Nat
  BY <1>1, ZeroAssumption
<1> QED BY <1>1, <1>2, AuditAssumption

\* A claim is as good as its storage root.
LEMMA RootJudged ==
  ASSUME input \in Seq(AuditEvent), NEW some \in Claims \cup {{}}, NEW c \in some
  PROVE  CertificateOf(c).storage_root = Verified(derive(StorageOf(c.address))) <=>
           c.derived /\ c.slots = StorageOf(c.address)
<1>1. PICK t : t = StorageOf(c.address)
  OBVIOUS
<1>2. DOMAIN t \in SUBSET Nat /\ IsFiniteSet(DOMAIN t) /\ t \in [DOMAIN t -> Value]
  BY <1>1, StorageIsFinite
<1>3. /\ c.derived \in BOOLEAN
      /\ DOMAIN c.slots \in SUBSET Nat /\ IsFiniteSet(DOMAIN c.slots)
      /\ c.slots \in [DOMAIN c.slots -> Value]
  BY ClaimIs
<1>4. derive(c.slots) = derive(t) => c.slots = t
  BY <1>2, <1>3, RootBinds
<1>5. derive(c.slots) = derive(t) <=> c.slots = t
  BY <1>4
<1>6. CertificateOf(c).storage_root = IF c.derived THEN Verified(derive(c.slots))
                                      ELSE AwaitingDerivation
  BY DEF CertificateOf, Certificate
<1>7. \A x, y : Verified(x) # AwaitingDerivation /\ (Verified(x) = Verified(y) <=> x = y)
  BY DEF Verified, AwaitingDerivation
<1> QED BY <1>1, <1>3, <1>5, <1>6, <1>7

\* A batch from elsewhere is accepted exactly when the events chain and it
\* claims, attribute by attribute and slot by slot, what they lead to
\* (replay_and_verify, SimpleStorageRootDeriver).
THEOREM ClaimsAreJudgedByTheEvents == Spec => []ClaimsJudged
<1>1. ASSUME AuditInvariant, origin = "elsewhere", gate2_result # "replaying"
      PROVE  gate2_result = "Ok" <=>
               /\ ChainedFromZero
               /\ {c.address : c \in claims} = Touched
               /\ \A c \in claims :
                    /\ c.derived /\ c.slots = StorageOf(c.address)
                    /\ \A f \in Field : c.fields[f] = Final(FieldKey(c.address, f))
  <2>1. /\ ReplayRight /\ input \in Seq(AuditEvent)
        /\ claims \in Claims \cup {{}} /\ certificates = {CertificateOf(c) : c \in claims}
        /\ gate2_result = "Ok" <=> ChainedFromZero /\ CertificateErrors(certificates) = {}
    BY <1>1 DEF AuditInvariant, CertificatesRight, VerdictRight
  <2>2. CertificateErrors(certificates) = {} <=>
           /\ \A a : a \in Touched <=> \E d \in certificates : d.address = a
           /\ \A d \in certificates :
                /\ \A f \in Field : d.fields[f] = Final(FieldKey(d.address, f))
                /\ d.storage_root = Verified(derive(StorageOf(d.address)))
    BY <2>1, Judged
  <2>3. \A c \in claims : /\ CertificateOf(c).address = c.address
                          /\ CertificateOf(c).fields = c.fields
    BY DEF CertificateOf, Certificate
  <2>4. \A c \in claims :
          CertificateOf(c).storage_root = Verified(derive(StorageOf(c.address))) <=>
            c.derived /\ c.slots = StorageOf(c.address)
    BY <2>1, RootJudged
  <2>5. (\A a : a \in Touched <=> \E d \in certificates : d.address = a) <=>
          {c.address : c \in claims} = Touched
    BY <2>1, <2>3
  <2>6. (\A d \in certificates :
           /\ \A f \in Field : d.fields[f] = Final(FieldKey(d.address, f))
           /\ d.storage_root = Verified(derive(StorageOf(d.address)))) <=>
        \A c \in claims :
           /\ \A f \in Field : CertificateOf(c).fields[f] =
                                 Final(FieldKey(CertificateOf(c).address, f))
           /\ CertificateOf(c).storage_root =
                Verified(derive(StorageOf(CertificateOf(c).address)))
    BY <2>1
  <2> QED
    BY <2>1, <2>2, <2>3, <2>4, <2>5, <2>6
<1>2. AuditInvariant => ClaimsJudged
  BY <1>1 DEF ClaimsJudged
<1> QED BY <1>2, AuditIsRight, PTL

-----------------------------------------------------------------------------
(***************************************************************************)
(* Certificates of the pipeline                                            *)
(***************************************************************************)

\* A certificate has all attributes, each from the table or from the snapshot,
\* in one go as in two steps (certificate.rs, hydration.rs).
LEMMA CombinedIsHydrated ==
  ASSUME NEW table, NEW gens, NEW s \in Sources, Certifiable(table, gens, s),
         NEW a \in Accounts(table)
  PROVE  Combined(Projected(table, a),
                  IF DOMAIN Projected(table, a) = Field THEN << >> ELSE s.account[a]) =
           HydratedFields(table, s, a)
<1>1. PICK changed, snapshot :
        /\ changed = Projected(table, a)
        /\ snapshot = IF DOMAIN changed = Field THEN << >> ELSE s.account[a]
  OBVIOUS
<1>2. /\ DOMAIN changed = {f \in Field : FieldKey(a, f) \in DOMAIN table}
      /\ \A f \in DOMAIN changed : changed[f] = table[FieldKey(a, f)].terminal
  BY <1>1 DEF Projected
<1>3. DOMAIN changed # Field => DOMAIN snapshot = Field
  BY <1>1, AuditAssumption DEF Certifiable
<1>4. DOMAIN changed = Field => DOMAIN snapshot = {}
  BY <1>1
<1>5. DOMAIN changed \cup DOMAIN snapshot = Field
  BY <1>2, <1>3, <1>4
<1>6. Combined(changed, snapshot) =
        [f \in Field |-> IF f \in DOMAIN changed THEN changed[f] ELSE snapshot[f]]
  BY <1>5 DEF Combined
<1>7. \A f \in Field : (IF f \in DOMAIN changed THEN changed[f] ELSE snapshot[f]) =
                       (IF FieldKey(a, f) \in DOMAIN table THEN table[FieldKey(a, f)].terminal
                        ELSE s.account[a][f])
  BY <1>1, <1>2
<1>8. Combined(changed, snapshot) = HydratedFields(table, s, a)
  BY <1>6, <1>7 DEF HydratedFields
<1> QED BY <1>1, <1>8

LEMMA Assembled ==
  ASSUME NEW table, NEW gens, NEW s \in Sources, Certifiable(table, gens, s)
  PROVE  /\ ~Misfiled(hydrate_accounts(table, gens, s))
         /\ assemble_certificates(hydrate_accounts(table, gens, s)) =
              build_canonical_certificates(table, gens, s)
<1>1. PICK hydrated : hydrated = hydrate_accounts(table, gens, s)
  OBVIOUS
<1>2. /\ DOMAIN hydrated = Accounts(table)
      /\ \A a \in Accounts(table) :
           /\ hydrated[a].address = a
           /\ hydrated[a].snapshot = HydratedFields(table, s, a)
           /\ hydrated[a].generation = Identity(gens, s, a)
           /\ hydrated[a].storage_root = AwaitingDerivation
  BY <1>1 DEF hydrate_accounts
<1>3. PICK fields : fields = [a \in Accounts(table) |-> HydratedFields(table, s, a)]
  OBVIOUS
<1>4. \A a \in Accounts(table) :
        Combined(Projected(table, a),
                 IF DOMAIN Projected(table, a) = Field THEN << >> ELSE s.account[a]) = fields[a]
  BY <1>3, CombinedIsHydrated
<1>5. build_canonical_certificates(table, gens, s) =
        {Certificate(a, Identity(gens, s, a), fields[a], AwaitingDerivation) :
           a \in Accounts(table)}
  BY <1>4 DEF build_canonical_certificates
<1>6. assemble_certificates(hydrated) =
        {Certificate(a, Identity(gens, s, a), fields[a], AwaitingDerivation) :
           a \in Accounts(table)}
  BY <1>2, <1>3 DEF assemble_certificates
<1> QED BY <1>1, <1>2, <1>5, <1>6 DEF Misfiled

\* The two ways to certify give the same certificates, and hydration never files
\* an account under another (certificate.rs build_canonical_certificates,
\* hydration.rs hydrate_accounts and assemble_certificates).
THEOREM BothPathsAgree == Spec => []PathsAgree
<1>1. ASSUME AuditInvariant, origin = "pipeline"
      PROVE  LET hydrated == hydrate_accounts(Table, Generations, source[1]) IN
             /\ ~Misfiled(hydrated)
             /\ resolve_storage_roots(assemble_certificates(hydrated), Table) = certificates
  <2>1. PICK table, gens : table = Table /\ gens = Generations
    OBVIOUS
  <2>2. PICK s \in Sources :
          /\ source = <<s>> /\ Certifiable(table, gens, s)
          /\ certificates = resolve_storage_roots(build_canonical_certificates(table, gens, s),
                                                  table)
    BY <1>1, <2>1 DEF AuditInvariant, CertificatesRight
  <2>3. /\ ~Misfiled(hydrate_accounts(table, gens, s))
        /\ assemble_certificates(hydrate_accounts(table, gens, s)) =
             build_canonical_certificates(table, gens, s)
    BY <2>2, Assembled
  <2>4. source[1] = s
    BY <2>2
  <2> QED
    BY <2>1, <2>2, <2>3, <2>4
<1>2. AuditInvariant => PathsAgree
  BY <1>1 DEF PathsAgree
<1> QED BY <1>2, AuditIsRight, PTL

\* The reduced table has the final values of the cells written.
LEMMA TableIs ==
  ASSUME AuditInvariant, builder_result = "Ok"
  PROVE  /\ \A k : k \in DOMAIN Table <=> k \in Cell /\ Written(k)
         /\ \A k \in DOMAIN Table : Table[k].terminal = Final(k)
<1>1. reduced_ir[1] = ReducedBucket(buckets[1]) /\ Filed(input, buckets[1])
  BY DEF AuditInvariant, BuilderRight
<1>2. PICK b, q : b = buckets[1] /\ q = input
  OBVIOUS
<1>3. Histories(b.state_tables, q)
  BY <1>1, <1>2, FiledIs
<1>4. Table = [k \in DOMAIN b.state_tables |-> Reduced(b.state_tables[k])]
  BY <1>1, <1>2 DEF Table, ReducedBucket
<1>5. \A k : (Written(k) <=> WrittenIn(q, k)) /\ Final(k) = ValueAfter(q, k, Len(q))
  BY <1>2 DEF Written, WrittenIn, Final
<1> QED BY <1>3, <1>4, <1>5 DEF Histories, EndsIn, Reduced

LEMMA SlotsAre ==
  ASSUME AuditInvariant, builder_result = "Ok", NEW a \in Address
  PROVE  TerminalSlots(Table, a) = StorageOf(a)
<1> DEFINE key(s) == [kind |-> "Storage", address |-> a, slot |-> s]
<1>1. \A s \in Slot : key(s) \in Cell
  BY DEF Cell, Key
<1>2. PICK table : table = Table
  OBVIOUS
<1>3. /\ \A k : k \in DOMAIN table <=> k \in Cell /\ Written(k)
      /\ \A k \in DOMAIN table : table[k].terminal = Final(k)
  BY <1>2, TableIs
<1>4. /\ \A s \in Slot : key(s) \in DOMAIN table <=> Written(key(s))
      /\ \A s \in Slot : Written(key(s)) => table[key(s)].terminal = Final(key(s))
  BY <1>1, <1>3
<1>5. TerminalSlots(table, a) = [s \in {s \in Slot : key(s) \in DOMAIN table} |->
                                   table[key(s)].terminal]
  BY DEF TerminalSlots
<1>6. StorageOf(a) = [s \in {s \in Slot : Written(key(s))} |-> Final(key(s))]
  BY DEF StorageOf
<1> HIDE DEF key
<1> QED BY <1>2, <1>4, <1>5, <1>6

\* What the pipeline certifies.
LEMMA Certified ==
  ASSUME AuditInvariant, origin = "pipeline"
  PROVE  \E s \in Sources :
           /\ source = <<s>>
           /\ \A a : (\E c \in certificates : c.address = a) <=> a \in Accounts(Table)
           /\ \A c \in certificates :
                /\ c.generation = Identity(Generations, s, c.address)
                /\ c.fields = HydratedFields(Table, s, c.address)
                /\ c.storage_root = Verified(derive(TerminalSlots(Table, c.address)))
<1>1. PICK table, gens : table = Table /\ gens = Generations
  OBVIOUS
<1>2. PICK s \in Sources :
        /\ source = <<s>> /\ Certifiable(table, gens, s)
        /\ certificates = resolve_storage_roots(build_canonical_certificates(table, gens, s),
                                                table)
  BY <1>1 DEF AuditInvariant, CertificatesRight
<1>3. PICK fields, ids, roots :
        /\ fields = [a \in Accounts(table) |-> HydratedFields(table, s, a)]
        /\ ids = [a \in Accounts(table) |-> Identity(gens, s, a)]
        /\ roots = [a \in Accounts(table) |-> Verified(derive(TerminalSlots(table, a)))]
  OBVIOUS
<1>4. \A a \in Accounts(table) :
        Combined(Projected(table, a),
                 IF DOMAIN Projected(table, a) = Field THEN << >> ELSE s.account[a]) = fields[a]
  BY <1>2, <1>3, CombinedIsHydrated
<1>5. build_canonical_certificates(table, gens, s) =
        {Certificate(a, ids[a], fields[a], AwaitingDerivation) : a \in Accounts(table)}
  BY <1>3, <1>4 DEF build_canonical_certificates
<1>6. PICK built : built = build_canonical_certificates(table, gens, s)
  OBVIOUS
<1>7. certificates = {[c EXCEPT !.storage_root = Verified(derive(TerminalSlots(table, c.address)))] :
                        c \in built}
  BY <1>2, <1>6 DEF resolve_storage_roots
<1>8. PICK made, done :
        /\ made = [a \in Accounts(table) |-> Certificate(a, ids[a], fields[a], AwaitingDerivation)]
        /\ done = [a \in Accounts(table) |-> Certificate(a, ids[a], fields[a], roots[a])]
  OBVIOUS
<1>9. certificates = {done[a] : a \in Accounts(table)}
  <2>1. built = {made[a] : a \in Accounts(table)}
    BY <1>5, <1>6, <1>8
  <2>2. certificates = {[made[a] EXCEPT
                           !.storage_root = Verified(derive(TerminalSlots(table, made[a].address)))] :
                          a \in Accounts(table)}
    BY <1>7, <2>1
  <2>3. ASSUME NEW a \in Accounts(table)
        PROVE  [made[a] EXCEPT
                  !.storage_root = Verified(derive(TerminalSlots(table, made[a].address)))] =
               done[a]
    <3>1. /\ made[a] = Certificate(a, ids[a], fields[a], AwaitingDerivation)
          /\ made[a].address = a
      BY <1>8 DEF Certificate
    <3>2. done[a] = Certificate(a, ids[a], fields[a], Verified(derive(TerminalSlots(table, a))))
      BY <1>3, <1>8
    <3> QED
      BY <3>1, <3>2 DEF Certificate
  <2> QED
    BY <2>2, <2>3
<1>10. \A a \in Accounts(table) :
         /\ done[a].address = a
         /\ done[a].generation = Identity(gens, s, a)
         /\ done[a].fields = HydratedFields(table, s, a)
         /\ done[a].storage_root = Verified(derive(TerminalSlots(table, a)))
  BY <1>3, <1>8 DEF Certificate
<1>11. \A a : (\E c \in certificates : c.address = a) <=> a \in Accounts(table)
  BY <1>9, <1>10
<1>12. \A c \in certificates :
         /\ c.generation = Identity(gens, s, c.address)
         /\ c.fields = HydratedFields(table, s, c.address)
         /\ c.storage_root = Verified(derive(TerminalSlots(table, c.address)))
  BY <1>9, <1>10
<1> QED BY <1>1, <1>2, <1>11, <1>12

\* The accounts that the table names are those with a cell that was written.
LEMMA AccountsAre ==
  ASSUME AuditInvariant, builder_result = "Ok", NEW a
  PROVE  /\ a \in Accounts(Table) <=>
              {k \in Key \cup TransientKey : k.address = a /\ Written(k)} # {}
         /\ a \in Accounts(Table) => a \in Address
<1>1. PICK table : table = Table
  OBVIOUS
<1>2. \A k : k \in DOMAIN table <=> k \in Cell /\ Written(k)
  BY <1>1, TableIs
<1>3. \A k \in Cell : k.address \in Address
  BY DEF Cell, Key, TransientKey
<1>4. a \in Accounts(table) <=> \E k \in Cell : k.address = a /\ Written(k)
  BY <1>2 DEF Accounts
<1> QED BY <1>1, <1>3, <1>4 DEF Cell

\* The attributes are final exactly when those that did not change are zero.
LEMMA AttributesAre ==
  ASSUME AuditInvariant, builder_result = "Ok", NEW s, NEW a \in Address
  PROVE  (\A f \in Field : HydratedFields(Table, s, a)[f] = Final(FieldKey(a, f))) <=>
         \A f \in Field \ {f \in Field : Written(FieldKey(a, f))} : s.account[a][f] = Zero
<1>1. PICK table : table = Table
  OBVIOUS
<1>2. /\ \A k : k \in DOMAIN table <=> k \in Cell /\ Written(k)
      /\ \A k \in DOMAIN table : table[k].terminal = Final(k)
  BY <1>1, TableIs
<1>3. \A f \in Field : FieldKey(a, f) \in Cell
  BY DEF Cell, Key, FieldKey, Field
<1>4. \A k : ~Written(k) => Final(k) = Zero
  BY UnwrittenIsZero
<1>5. \A f \in Field :
        /\ Written(FieldKey(a, f)) => HydratedFields(table, s, a)[f] = Final(FieldKey(a, f))
        /\ ~Written(FieldKey(a, f)) => HydratedFields(table, s, a)[f] = s.account[a][f]
  BY <1>2, <1>3 DEF HydratedFields
<1> QED BY <1>1, <1>4, <1>5

\* What the pipeline certifies, Gate 2 accepts exactly when it all started from
\* zero (full_pipeline.rs, replay_and_verify).
THEOREM PipelineIsJudgedFromZero == Spec => []HonestJudged
<1>1. ASSUME AuditInvariant, origin = "pipeline", gate2_result # "replaying"
      PROVE  gate2_result = "Ok" <=>
               /\ ChainedFromZero
               /\ \A a \in Address :
                    LET written == {f \in Field : Written(FieldKey(a, f))}
                        keys    == {k \in Key \cup TransientKey : k.address = a /\ Written(k)}
                    IN  /\ a \in Touched <=> keys # {}
                        /\ keys # {} => \A f \in Field \ written : source[1].account[a][f] = Zero
  <2>1. /\ ReplayRight /\ builder_result = "Ok"
        /\ gate2_result = "Ok" <=> ChainedFromZero /\ CertificateErrors(certificates) = {}
    BY <1>1 DEF AuditInvariant, CertificatesRight, VerdictRight
  <2>2. PICK s \in Sources :
          /\ source = <<s>>
          /\ \A a : (\E c \in certificates : c.address = a) <=> a \in Accounts(Table)
          /\ \A c \in certificates :
               /\ c.generation = Identity(Generations, s, c.address)
               /\ c.fields = HydratedFields(Table, s, c.address)
               /\ c.storage_root = Verified(derive(TerminalSlots(Table, c.address)))
    BY <1>1, Certified
  <2>3. CertificateErrors(certificates) = {} <=>
           /\ \A a : a \in Touched <=> \E c \in certificates : c.address = a
           /\ \A c \in certificates :
                /\ \A f \in Field : c.fields[f] = Final(FieldKey(c.address, f))
                /\ c.storage_root = Verified(derive(StorageOf(c.address)))
    BY <2>1, Judged
  <2>4. \A a \in Accounts(Table) : a \in Address
    BY <1>1, <2>1, AccountsAre
  <2>5. \A c \in certificates : c.address \in Accounts(Table) /\ c.address \in Address
    BY <2>2, <2>4
  <2>6. \A c \in certificates : c.storage_root = Verified(derive(StorageOf(c.address)))
    <3>1. TAKE c \in certificates
    <3>2. TerminalSlots(Table, c.address) = StorageOf(c.address)
      BY <1>1, <2>1, <2>5, SlotsAre
    <3> QED
      BY <2>2, <3>2
  <2>7. CertificateErrors(certificates) = {} <=>
           /\ \A a : a \in Touched <=> a \in Accounts(Table)
           /\ \A a \in Accounts(Table) :
                \A f \in Field : HydratedFields(Table, s, a)[f] = Final(FieldKey(a, f))
    BY <2>2, <2>3, <2>5, <2>6
  <2>8. \A a \in Accounts(Table) :
          (\A f \in Field : HydratedFields(Table, s, a)[f] = Final(FieldKey(a, f))) <=>
          \A f \in Field \ {f \in Field : Written(FieldKey(a, f))} : s.account[a][f] = Zero
    BY <1>1, <2>1, <2>4, AttributesAre
  <2>9. \A a : a \in Accounts(Table) <=>
                 {k \in Key \cup TransientKey : k.address = a /\ Written(k)} # {}
    BY <1>1, <2>1, AccountsAre
  <2>10. \A a \in Touched : a \in Address
    BY DEF Touched
  <2>11. source[1] = s
    BY <2>2
  <2> QED
    BY <2>1, <2>4, <2>7, <2>8, <2>9, <2>10, <2>11
<1>2. AuditInvariant => HonestJudged
  BY <1>1 DEF HonestJudged
<1> QED BY <1>2, AuditIsRight, PTL

-----------------------------------------------------------------------------
(***************************************************************************)
(* Incarnations                                                            *)
(***************************************************************************)

\* The lifecycle table keeps the histories of the accounts in q.
TableKept(b, q) == Keeps(b.lifecycle_table, q, LifecycleIn(q, 0, Len(q)))

LifecyclesRight ==
  /\ \A j \in 1..Len(input) : input[j].sequence_number = j - 1
  /\ current_bucket # << >> => TableKept(current_bucket[1], input)
  /\ buckets # << >> => TableKept(buckets[1], input)

\* r is q with the event e behind it, filed in b.
LEMMA KeptFurther ==
  ASSUME NEW q, NEW e, q \in Seq(AuditEvent), e \in AuditEvent, NEW b, TableKept(b, q)
  PROVE  /\ TableKept(File(b, e), Append(q, e))
         /\ e.payload.type \notin LifecycleType => TableKept(b, Append(q, e))
<1>1. Len(Append(q, e)) = Len(q) + 1 /\ 0 \in 0..Len(q)
  OBVIOUS
<1>2. Keeps(b.lifecycle_table, q, LifecycleIn(q, 0, Len(q)))
  BY DEF TableKept
<1>3. TableKept(File(b, e), Append(q, e))
  BY <1>1, <1>2, KeepsFiled DEF TableKept
<1>4. ASSUME e.payload.type \notin LifecycleType PROVE File(b, e).lifecycle_table = b.lifecycle_table
  BY <1>4 DEF File, LifecycleType
<1> QED BY <1>3, <1>4 DEF TableKept

LEMMA ReadNumbers ==
  ASSUME AuditInvariant, LifecyclesRight, NEW payload \in Traced, Read(payload)
  PROVE  /\ input' = Append(input, EventOf(payload)) /\ EventOf(payload) \in AuditEvent
         /\ input \in Seq(AuditEvent)
         /\ \A j \in 1..Len(input') : input'[j].sequence_number = j - 1
<1>1. input \in Seq(AuditEvent) /\ input' = Append(input, EventOf(payload))
  BY DEF AuditInvariant, Read
<1>2. EventOf(payload) \in AuditEvent /\ EventOf(payload).sequence_number = Len(input)
  <2>1. Len(input) \in Nat
    BY <1>1
  <2> QED BY <2>1 DEF EventOf, AuditEvent, Traced
<1>3. \A j \in 1..Len(input) : input[j].sequence_number = j - 1
  BY DEF LifecyclesRight
<1> QED BY <1>1, <1>2, <1>3, AppendProperties

LEMMA LifecyclesKeep ==
  ASSUME AuditInvariant, LifecyclesRight, [Next]_vars
  PROVE  LifecyclesRight'
<1>1. CASE Begin
  <2> DEFINE payload == [type |-> "BeginTransaction"]
             e == EventOf(payload)
  <2>1. payload \in Traced /\ Read(payload) /\ input = << >>
    BY <1>1 DEF Begin, Traced
  <2>2. /\ input' = Append(input, e) /\ e \in AuditEvent /\ input \in Seq(AuditEvent)
        /\ \A j \in 1..Len(input') : input'[j].sequence_number = j - 1
    BY <2>1, ReadNumbers
  <2>3. e.payload.type = "BeginTransaction"
    BY DEF EventOf
  <2>4. current_bucket = << >> /\ buckets = << >> /\ Partition(e)
    BY <2>1 DEF AuditInvariant, BuilderRight, Read
  <2> HIDE DEF e
  <2>5. current_bucket' = <<EmptyBucket(e)>> /\ buckets' = << >>
    BY <2>3, <2>4 DEF Partition, PartitionBegin, PartitionEnd, PartitionOther, BuilderFail
  <2>6. TableKept(EmptyBucket(e), << >>)
    <3>1. EmptyBucket(e).lifecycle_table = << >> /\ DOMAIN << >> = {}
      BY DEF EmptyBucket
    <3>2. LifecycleIn(<< >>, 0, Len(<< >>)) = {}
      BY DEF LifecycleIn
    <3> QED BY <3>1, <3>2 DEF TableKept, Keeps
  <2>7. TableKept(EmptyBucket(e), Append(input, e))
    <3>1. e.payload.type \notin LifecycleType
      BY <2>3 DEF LifecycleType
    <3> QED BY <2>1, <2>2, <2>6, <3>1, KeptFurther
  <2> QED BY <2>2, <2>5, <2>7 DEF LifecyclesRight
<1>2. ASSUME NEW payload \in Payloads, Trace(payload) PROVE LifecyclesRight'
  <2> DEFINE e == EventOf(payload)
             b == current_bucket[1]
  <2>1. payload \in Traced /\ Read(payload) /\ current_bucket # << >>
    BY <1>2 DEF Trace, Traced
  <2>2. /\ input' = Append(input, e) /\ e \in AuditEvent /\ input \in Seq(AuditEvent)
        /\ \A j \in 1..Len(input') : input'[j].sequence_number = j - 1
    BY <2>1, ReadNumbers
  <2>3. e.payload.type \notin {"BeginTransaction", "EndTransaction"}
    BY AuditAssumption DEF EventOf
  <2>4. buckets = << >> /\ Partition(e)
    BY <2>1 DEF AuditInvariant, BuilderRight, Read
  <2> HIDE DEF e
  <2>5. current_bucket' = <<File(b, e)>> /\ buckets' = << >>
    BY <2>1, <2>3, <2>4 DEF Partition, PartitionBegin, PartitionEnd, PartitionOther
  <2>6. TableKept(b, input)
    BY <2>1 DEF LifecyclesRight
  <2>7. TableKept(File(b, e), Append(input, e))
    BY <2>2, <2>6, KeptFurther
  <2> QED BY <2>2, <2>5, <2>7 DEF LifecyclesRight
<1>3. CASE End
  <2> DEFINE payload == [type |-> "EndTransaction"]
             e == EventOf(payload)
  <2>1. payload \in Traced /\ Read(payload) /\ current_bucket # << >>
    BY <1>3 DEF End, Traced
  <2>2. /\ input' = Append(input, e) /\ e \in AuditEvent /\ input \in Seq(AuditEvent)
        /\ \A j \in 1..Len(input') : input'[j].sequence_number = j - 1
    BY <2>1, ReadNumbers
  <2>3. e.payload.type = "EndTransaction"
    BY DEF EventOf
  <2>4. PICK b : current_bucket = <<b>>
    BY <2>1 DEF AuditInvariant, BuilderRight
  <2>5. buckets = << >> /\ Partition(e)
    BY <2>1 DEF AuditInvariant, BuilderRight, Read
  <2> HIDE DEF e
  <2>6. current_bucket' = << >> /\ buckets' = << >> \o <<b>>
    BY <2>1, <2>3, <2>4, <2>5 DEF Partition, PartitionBegin, PartitionEnd, PartitionOther
  <2>7. buckets' = <<b>>
    BY <2>6
  <2>8. TableKept(b, input)
    BY <2>1, <2>4 DEF LifecyclesRight
  <2>9. TableKept(b, Append(input, e))
    <3>1. e.payload.type \notin LifecycleType
      BY <2>3 DEF LifecycleType
    <3> QED BY <2>2, <2>8, <3>1, KeptFurther
  <2> QED BY <2>2, <2>6, <2>7, <2>9 DEF LifecyclesRight
<1>4. CASE UNCHANGED <<input, current_bucket, buckets>>
  BY <1>4 DEF LifecyclesRight
<1>5. ASSUME \/ Finish \/ ReduceTimelines \/ Verify \/ Audited \/ UNCHANGED vars
             \/ \E s \in Sources : Certify(s)
             \/ \E some \in Claimed : Claim(some)
      PROVE  UNCHANGED <<input, current_bucket, buckets>>
  BY <1>5 DEF Finish, PartitionFinish, ReduceTimelines, Reduce, BuilderFail, Verify, Audited,
              Certify, Claim, vars, builderVars
<1> QED BY <1>1, <1>2, <1>3, <1>4, <1>5 DEF Next

\* The events in places W of one type, and the incarnation that they lead to.
OfType(s, W, type) == {j \in W : s[j].payload.type = type}

Incarnation(gone, made) ==
  Cardinality(gone) - IF \E d \in gone : \A i \in made : i < d THEN 1 ELSE 0

\* As many generations end as events destroy, and one more is open when the last
\* event is a creation.
LEMMA GenerationsCount ==
  ASSUME NEW s, NEW W \in SUBSET Nat, NEW h, Records(h, s, W), History(h),
         NEW a, NEW R, Spans(R, a, h),
         NEW gone, gone = OfType(s, W, "ContractDestroyed"),
         NEW made, made = OfType(s, W, "ContractCreated")
  PROVE  Len(R) - 1 = Incarnation(gone, made)
<1> DEFINE L == Len(h)
           D == DestroyedTo(h, L)
<1>1. PICK n \in Nat : \E place : /\ Along(place, n, W)
                                  /\ h = [i \in 1..n |-> ObservedLifecycle(s[place[i]])]
  BY RecordsAlong
<1>2. PICK p : Along(p, n, W) /\ h = [i \in 1..n |-> ObservedLifecycle(s[p[i]])]
  BY <1>1
<1>3. L = n /\ L \in 1..L
  BY <1>2 DEF History
<1>4. /\ p \in [1..L -> W]
      /\ \A i, j \in 1..L : i < j => p[i] < p[j]
      /\ \A x \in W : \E i \in 1..L : p[i] = x
  BY <1>2, <1>3 DEF Along
<1>5. \A i \in 1..L : h[i].payload = s[p[i]].payload.type /\ h[i].payload \in LifecycleType
  <2>1. \A i \in 1..L : h[i] = ObservedLifecycle(s[p[i]])
    BY <1>2, <1>3
  <2>2. \A e : ObservedLifecycle(e).payload = e.payload.type
    BY DEF ObservedLifecycle
  <2>3. \A i \in 1..L : h[i].payload \in LifecycleType
    BY DEF History
  <2>4. \A i \in 1..L : h[i].payload = s[p[i]].payload.type
    BY <2>1, <2>2
  <2> QED BY <2>3, <2>4
<1> HIDE DEF L
<1>6. \A i \in 1..L : p[i] \in gone <=> h[i].payload = "ContractDestroyed"
  BY <1>4, <1>5 DEF OfType
<1>7. \A i \in 1..L : p[i] \in made <=> h[i].payload = "ContractCreated"
  BY <1>4, <1>5 DEF OfType
<1>8. D = {i \in 1..L : p[i] \in gone}
  BY <1>6 DEF DestroyedTo
<1>9. PICK m \in Nat : \E place \in [1..m -> DestroyedTo(h, Len(h))] : SpansFrom(R, a, h, m, place)
  BY DEF Spans
<1>10. PICK place \in [1..m -> D] : SpansFrom(R, a, h, m, place)
  BY <1>9 DEF L
<1>11. /\ \A k, l \in 1..m : k < l => place[k] < place[l]
       /\ \A j \in D : \E k \in 1..m : place[k] = j
       /\ Len(R) = IF IsOpen(h) THEN m + 1 ELSE m
  BY <1>10 DEF SpansFrom, L
<1>12. \A k \in 1..m : place[k] \in 1..L /\ p[place[k]] \in gone
  BY <1>8, <1>10
<1> HIDE DEF D
<1>13. Cardinality(gone) = m
  <2> DEFINE both == [k \in 1..m |-> p[place[k]]]
  <2>1. both \in [1..m -> gone] /\ \A k \in 1..m : both[k] = p[place[k]]
    BY <1>12
  <2> HIDE DEF both
  <2>2. ASSUME NEW k \in 1..m, NEW l \in 1..m, k < l PROVE both[k] < both[l]
    <3>1. place[k] < place[l] /\ place[k] \in 1..L /\ place[l] \in 1..L
      BY <1>11, <1>12, <2>2
    <3>2. p[place[k]] < p[place[l]]
      BY <1>4, <3>1
    <3> QED BY <2>1, <3>2
  <2>3. ASSUME NEW x \in gone PROVE \E k \in 1..m : both[k] = x
    <3>1. PICK i \in 1..L : p[i] = x
      BY <1>4 DEF OfType
    <3>2. i \in D
      BY <1>8, <3>1
    <3>3. PICK k \in 1..m : place[k] = i
      BY <1>11, <3>2
    <3> QED BY <2>1, <3>1, <3>3
  <2>4. Along(both, m, gone)
    BY <2>1, <2>2, <2>3 DEF Along
  <2>5. gone \in SUBSET Nat
    BY DEF OfType
  <2> QED BY <2>4, <2>5, AlongCounts
<1>14. IsOpen(h) <=> h[L].payload = "ContractCreated"
  BY DEF IsOpen, L
<1>15. ASSUME NEW i \in 1..L PROVE p[i] <= p[L] /\ p[i] \in Nat /\ p[L] \in Nat
  <2>1. L \in 1..L /\ p[i] \in Nat /\ p[L] \in Nat
    BY <1>3, <1>4 DEF L
  <2>2. i < L \/ i = L
    BY <2>1
  <2> QED BY <1>4, <2>1, <2>2
<1>16. L \in 1..L
  BY <1>3 DEF L
<1>17. CASE h[L].payload = "ContractCreated"
  <2>1. p[L] \in made
    BY <1>7, <1>16, <1>17
  <2>2. ASSUME NEW d \in gone PROVE ~(p[L] < d)
    <3>1. PICK i \in 1..L : p[i] = d
      BY <1>4 DEF OfType
    <3> QED BY <1>15, <3>1
  <2>3. ~\E d \in gone : \A i \in made : i < d
    BY <2>1, <2>2
  <2>4. Len(R) = m + 1
    BY <1>11, <1>14, <1>17
  <2> QED BY <1>13, <2>3, <2>4 DEF Incarnation
<1>18. CASE h[L].payload # "ContractCreated"
  <2>1. h[L].payload = "ContractDestroyed"
    BY <1>5, <1>16, <1>18 DEF LifecycleType
  <2>2. p[L] \in gone
    BY <1>6, <1>16, <2>1
  <2>3. ASSUME NEW x \in made PROVE x < p[L]
    <3>1. PICK i \in 1..L : p[i] = x
      BY <1>4 DEF OfType
    <3>2. i # L
      BY <1>7, <1>18, <3>1
    <3>3. i < L
      BY <1>16, <3>2
    <3> QED BY <1>4, <1>16, <3>1, <3>3
  <2>4. \E d \in gone : \A i \in made : i < d
    BY <2>2, <2>3
  <2>5. Len(R) = m
    BY <1>11, <1>14, <1>18
  <2> QED BY <1>13, <2>4, <2>5 DEF Incarnation
<1> QED BY <1>17, <1>18

\* The last generation of an account is the only one that claims to be the last.
LEMMA LastIsTerminal ==
  ASSUME NEW table, NEW pre, Chronicled(table, pre), NEW a \in DOMAIN table,
         NEW gens, gens = LifecyclePass(table, pre).generations,
         NEW R, R = Resolved(table, pre, a).generations, NEW s
  PROVE  Identity(gens, s, a) = GenerationKey(a, Len(R) - 1)
<1> DEFINE n == Len(R)
           mine == {i \in DOMAIN gens : gens[i].key.address = a}
<1>1. ListsAll(gens, FactsOf(table, pre))
  BY PassLists
<1>2. /\ gens \in Seq(GenerationFact) /\ DistinctKeys(gens) /\ Elements(gens) = FactsOf(table, pre)
  BY <1>1, ListedOnce DEF ListsAll
<1>3. /\ DOMAIN gens = 1..Len(gens)
      /\ \A i \in DOMAIN gens : gens[i] \in FactsOf(table, pre)
      /\ \A x \in FactsOf(table, pre) : \E i \in DOMAIN gens : gens[i] = x
  BY <1>2 DEF Elements
<1>4. /\ R \in Seq(GenerationFact) /\ n \in Nat /\ n > 0 /\ n \in 1..n
      /\ \A k \in 1..n : R[k].key = GenerationKey(a, k - 1)
  BY ResolvedFacts DEF Generated
<1>5. \A x : x \in Made(table, pre, a) <=> \E k \in 1..n : R[k] = x
  BY DEF Made, Elements
<1> HIDE DEF n
<1>6. ASSUME NEW i \in DOMAIN gens, gens[i].key.address = a
      PROVE  \E k \in 1..n : gens[i].key = GenerationKey(a, k - 1)
  <2>1. gens[i] \in Made(table, pre, a)
    BY <1>3, <1>6, OwnFacts
  <2> QED BY <1>4, <1>5, <2>1
<1>7. R[n] \in FactsOf(table, pre)
  <2>1. R[n] \in Made(table, pre, a)
    BY <1>4, <1>5
  <2> QED BY <2>1 DEF FactsOf
<1>8. PICK z \in DOMAIN gens : gens[z] = R[n]
  BY <1>3, <1>7
<1>9. gens[z].key = GenerationKey(a, n - 1)
  BY <1>4, <1>8
<1>10. \A k : GenerationKey(a, k).address = a /\ GenerationKey(a, k).generation_id = k
  BY DEF GenerationKey
<1>11. Terminal(gens, a) = {z}
  <2>1. z \in Terminal(gens, a)
    <3>1. z \in mine
      BY <1>9, <1>10
    <3>2. ASSUME NEW j \in mine PROVE gens[j].key.generation_id <= gens[z].key.generation_id
      <4>1. PICK k \in 1..n : gens[j].key = GenerationKey(a, k - 1)
        BY <1>6
      <4>2. k - 1 <= n - 1
        BY <1>4
      <4> QED BY <1>9, <1>10, <4>1, <4>2
    <3> QED BY <3>1, <3>2 DEF Terminal
  <2>2. ASSUME NEW i \in Terminal(gens, a) PROVE i = z
    <3>1. /\ i \in DOMAIN gens /\ gens[i].key.address = a
          /\ gens[z].key.generation_id <= gens[i].key.generation_id
      BY <1>9, <1>10 DEF Terminal
    <3>2. PICK k \in 1..n : gens[i].key = GenerationKey(a, k - 1)
      BY <1>6, <3>1
    <3>3. n - 1 <= k - 1
      BY <1>9, <1>10, <3>1, <3>2
    <3>4. k - 1 = n - 1
      BY <1>4, <3>3
    <3>5. gens[i].key = gens[z].key
      BY <1>9, <3>2, <3>4
    <3> QED BY <1>2, <1>3, <3>1, <3>5 DEF DistinctKeys
  <2> QED BY <2>1, <2>2
<1>12. Cardinality(Terminal(gens, a)) = 1
  BY <1>11, FS_Singleton
<1>13. (CHOOSE i \in Terminal(gens, a) : TRUE) = z
  BY <1>11
<1> QED BY <1>9, <1>12, <1>13 DEF Identity, n

\* The table that was resolved, and the histories in it.
LEMMA ResolvedTable ==
  ASSUME AuditInvariant, LifecyclesRight, builder_result = "Ok"
  PROVE  \E table :
           /\ Generations = LifecyclePass(table, << >>).generations
           /\ Chronicled(table, << >>)
           /\ Keeps(table, input, LifecycleIn(input, 0, Len(input)))
<1> DEFINE V == LifecycleIn(input, 0, Len(input))
           table == buckets[1].lifecycle_table
<1>1. buckets # << >> /\ reduced_ir[1] = ReducedBucket(buckets[1])
  BY DEF AuditInvariant, BuilderRight
<1>2. Generations = LifecyclePass(table, << >>).generations
  BY <1>1 DEF Generations, ReducedBucket
<1>3. Keeps(table, input, V)
  BY <1>1 DEF LifecyclesRight, TableKept
<1>4. input \in Seq(AuditEvent) /\ Len(input) \in Nat
  BY DEF AuditInvariant
<1>5. V \in SUBSET (1..Len(input))
  BY <1>4 DEF LifecycleIn
<1>6. ASSUME NEW j \in V
      PROVE  /\ input[j].payload.type \in LifecycleType /\ input[j].payload.address \in Nat
             /\ input[j].sequence_number = j - 1 /\ j - 1 \in Nat
  <2>1. j \in 1..Len(input) /\ input[j].payload.type \in LifecycleType
    BY <1>4, <1>6 DEF LifecycleIn
  <2>2. input[j].payload \in Traced
    <3>1. input[j] \in AuditEvent
      BY <1>4, <2>1
    <3> QED BY <3>1 DEF AuditEvent, Traced
  <2>3. input[j].payload.address \in Address
    BY <2>1, <2>2, TracedTypes DEF LifecycleType
  <2>4. input[j].payload.address \in Nat
    BY <2>3, AuditAssumption
  <2>5. input[j].sequence_number = j - 1
    BY <2>1 DEF LifecyclesRight
  <2>6. j - 1 \in Nat
    BY <1>4, <2>1
  <2> QED BY <2>1, <2>4, <2>5, <2>6
<1> HIDE DEF V
<1>7. Dated(input, V)
  <2>1. \A i, j \in V : i < j => input[i].sequence_number < input[j].sequence_number
    BY <1>5, <1>6
  <2> QED BY <1>6, <2>1 DEF Dated
<1> HIDE DEF table
<1>8. \A a : Existed(<< >>, a) \in BOOLEAN
  BY DEF Existed
<1>9. Chronicled(table, << >>)
  BY <1>3, <1>4, <1>5, <1>7, <1>8, KeepsChronicled
<1> QED BY <1>2, <1>3, <1>9 DEF V

\* A certificate of the pipeline is for the last incarnation of its account
\* (resolve.rs, resolve_generation_for_address).
THEOREM LastIncarnationIsCertified == Spec => []LastIncarnation
<1>1. ASSUME AuditInvariant, LifecyclesRight PROVE LastIncarnation
  <2> DEFINE of(type, a) == {i \in DOMAIN input : /\ input[i].payload.type = type
                                                  /\ input[i].payload.address = a}
             V == LifecycleIn(input, 0, Len(input))
  <2> SUFFICES ASSUME origin = "pipeline", NEW c \in certificates,
                      of("ContractDestroyed", c.address) \cup of("ContractCreated", c.address)
                        # {}
               PROVE  c.generation =
                        GenerationKey(c.address,
                          Incarnation(of("ContractDestroyed", c.address),
                                      of("ContractCreated", c.address)))
    BY DEF LastIncarnation, Incarnation
  <2>1. PICK a, gone, made : /\ a = c.address
                             /\ gone = of("ContractDestroyed", a)
                             /\ made = of("ContractCreated", a)
    OBVIOUS
  <2>1a. gone \cup made # {}
    BY <2>1
  <2>2. builder_result = "Ok" /\ input \in Seq(AuditEvent)
    BY <1>1 DEF AuditInvariant, CertificatesRight
  <2>3. PICK table : /\ Generations = LifecyclePass(table, << >>).generations
                     /\ Chronicled(table, << >>)
                     /\ Keeps(table, input, V)
    BY <1>1, <2>2, ResolvedTable
  <2>4. PICK s : c.generation = Identity(Generations, s, a)
    BY <1>1, <2>1, Certified
  <2> DEFINE W == About(input, V, a)
             h == table[a]
             R == Resolved(table, << >>, a).generations
  <2>5. /\ gone = OfType(input, W, "ContractDestroyed")
        /\ made = OfType(input, W, "ContractCreated")
        /\ W \in SUBSET Nat
    BY <2>1, <2>2 DEF About, LifecycleIn, LifecycleType, OfType
  <2>6. a \in DOMAIN table
    <3>1. PICK j : j \in V /\ input[j].payload.address = a
      BY <2>1a, <2>5 DEF About, OfType
    <3> QED BY <2>3, <3>1 DEF Keeps
  <2>7. Records(h, input, W)
    BY <2>3, <2>6 DEF Keeps
  <2>8. History(h)
    BY <2>3, <2>6 DEF Chronicled
  <2>9. Spans(R, a, h)
    BY <2>3, <2>6, ResolvedFacts
  <2> HIDE DEF W, h, R, V, of
  <2>10. Len(R) - 1 = Incarnation(gone, made)
    BY <2>5, <2>7, <2>8, <2>9, GenerationsCount
  <2>11. c.generation = GenerationKey(a, Len(R) - 1)
    BY <2>3, <2>4, <2>6, LastIsTerminal DEF R
  <2> QED BY <2>1, <2>10, <2>11
<1>2. Init => LifecyclesRight
  BY DEF Init, BuilderInit, LifecyclesRight
<1>3. AuditInvariant /\ LifecyclesRight /\ [Next]_vars => LifecyclesRight'
  BY LifecyclesKeep
<1> QED BY <1>1, <1>2, <1>3, AuditIsRight, PTL DEF Spec

=============================================================================
