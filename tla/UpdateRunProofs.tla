---------------------------- MODULE UpdateRunProofs ----------------------------
(***************************************************************************)
(* What a run of cli.update.main leaves behind, proved for any ISINs,      *)
(* asset classes, portfolios, caches and sets of brokers.                  *)
(***************************************************************************)
EXTENDS UpdateRun, FunctionTheorems, FiniteSetTheorems, SequenceTheorems, WellFoundedInduction,
        TLAPS

-----------------------------------------------------------------------------
(* Lists of rows.                                                          *)

LEMMA FunctionIsList ==
    ASSUME NEW R, NEW n \in Nat, NEW s \in [1 .. n -> R]
    PROVE  s \in Seq(R) /\ Len(s) = n
OBVIOUS

LEMMA ListsParts ==
    ASSUME NEW p \in Lists, NEW b \in Buckets
    PROVE  /\ p[b] \in Seq(Rows)
           /\ Len(p[b]) \in Nat
           /\ DOMAIN p[b] = 1 .. Len(p[b])
           /\ p[b] \in [1 .. Len(p[b]) -> Rows]
BY LenProperties DEF Lists

\* A cell is a bucket and a place in its list.
LEMMA CellPlaces ==
    ASSUME NEW p, NEW c
    PROVE  c \in Cells(p) <=> \E b \in Buckets : \E k \in 1 .. Len(p[b]) : c = <<b, k>>
BY DEF Cells

LEMMA CellOf ==
    ASSUME NEW p, NEW b \in Buckets, NEW k \in 1 .. Len(p[b])
    PROVE  <<b, k>> \in Cells(p) /\ RowAt(p, <<b, k>>) = p[b][k]
BY CellPlaces DEF RowAt

LEMMA CellParts ==
    ASSUME NEW p, NEW c \in Cells(p)
    PROVE  /\ c = <<c[1], c[2]>>
           /\ c[1] \in Buckets
           /\ c[2] \in 1 .. Len(p[c[1]])
           /\ RowAt(p, c) = p[c[1]][c[2]]
BY CellPlaces DEF RowAt

LEMMA CellRow ==
    ASSUME NEW p \in Lists, NEW c \in Cells(p)
    PROVE  RowAt(p, c) \in Rows
BY CellParts, ListsParts

LEMMA ListsEqual ==
    ASSUME NEW p \in Lists, NEW q \in Lists,
           \A b \in Buckets : Len(p[b]) = Len(q[b]),
           \A b \in Buckets : \A k \in 1 .. Len(p[b]) : p[b][k] = q[b][k]
    PROVE  p = q
<1>1. \A b \in Buckets : p[b] = q[b]
  BY ListsParts, SeqEqual
<1> QED BY <1>1 DEF Lists

\* Replacing rows keeps the cells.
LEMMA MappedCells ==
    ASSUME NEW p \in Lists, NEW g, \A c \in Cells(p) : g[c] \in Rows
    PROVE  /\ Mapped(p, g) \in Lists
           /\ Cells(Mapped(p, g)) = Cells(p)
           /\ \A b \in Buckets : Len(Mapped(p, g)[b]) = Len(p[b])
           /\ \A c \in Cells(p) : RowAt(Mapped(p, g), c) = g[c]
<1> DEFINE m == Mapped(p, g)
<1>1. \A b \in Buckets : /\ m[b] = [k \in 1 .. Len(p[b]) |-> g[<<b, k>>]]
                         /\ m[b] \in Seq(Rows)
                         /\ Len(m[b]) = Len(p[b])
  <2> TAKE b \in Buckets
  <2>1. m[b] = [k \in 1 .. Len(p[b]) |-> g[<<b, k>>]]
    BY DEF Mapped
  <2>2. \A k \in 1 .. Len(p[b]) : g[<<b, k>>] \in Rows
    BY CellOf
  <2>3. Len(p[b]) \in Nat
    BY ListsParts
  <2> QED BY <2>1, <2>2, <2>3
<1>2. m \in Lists
  BY <1>1 DEF Mapped, Lists
<1> HIDE DEF m
<1>3. \A c : c \in Cells(m) <=> c \in Cells(p)
  <2> TAKE c
  <2>1. c \in Cells(m) <=> \E b \in Buckets : \E k \in 1 .. Len(m[b]) : c = <<b, k>>
    BY CellPlaces
  <2>2. c \in Cells(p) <=> \E b \in Buckets : \E k \in 1 .. Len(p[b]) : c = <<b, k>>
    BY CellPlaces
  <2> QED BY <2>1, <2>2, <1>1
<1>4. \A c \in Cells(p) : RowAt(m, c) = g[c]
  <2> TAKE c \in Cells(p)
  <2>1. c = <<c[1], c[2]>> /\ c[1] \in Buckets /\ c[2] \in 1 .. Len(p[c[1]])
    BY CellParts
  <2>2. RowAt(m, c) = m[c[1]][c[2]]
    BY DEF RowAt
  <2>3. m[c[1]] = [k \in 1 .. Len(p[c[1]]) |-> g[<<c[1], k>>]]
    BY <2>1, <1>1
  <2> QED BY <2>1, <2>2, <2>3
<1> USE DEF m
<1> QED BY <1>1, <1>2, <1>3, <1>4

-----------------------------------------------------------------------------
(* Keeping some places of a list.                                          *)

\* Ascending(S) lists S, each number once, the smaller first: the rank of a
\* number in S is its place.
LEMMA AscendingLists ==
    ASSUME NEW n \in Nat, NEW S \in SUBSET (1 .. n)
    PROVE  /\ IsFiniteSet(S) /\ Cardinality(S) \in Nat
           /\ DOMAIN Ascending(S) = 1 .. Cardinality(S)
           /\ \A j \in 1 .. Cardinality(S) :
                 /\ Ascending(S)[j] \in S
                 /\ Cardinality({i \in S : i <= Ascending(S)[j]}) = j
           /\ \A k \in S : /\ Cardinality({i \in S : i <= k}) \in 1 .. Cardinality(S)
                           /\ Ascending(S)[Cardinality({i \in S : i <= k})] = k
<1> DEFINE N == Cardinality(S)
           Upto(k) == {i \in S : i <= k}
           rank == [k \in S |-> Cardinality(Upto(k))]
<1>0. \A i \in S : i \in Int
  OBVIOUS
<1>1. IsFiniteSet(S) /\ N \in Nat
  <2>1. IsFiniteSet(1 .. n)
    BY FS_Interval
  <2> QED BY <2>1, FS_Subset, FS_CardinalityType
<1>2. ASSUME NEW k \in S
      PROVE  /\ IsFiniteSet(Upto(k)) /\ Cardinality(Upto(k)) \in 1 .. N
  <2>1. IsFiniteSet(Upto(k)) /\ Cardinality(Upto(k)) <= N /\ Cardinality(Upto(k)) \in Nat
    BY <1>1, FS_Subset, FS_CardinalityType
  <2>2. k \in Upto(k)
    OBVIOUS
  <2>3. Cardinality(Upto(k)) # 0
    BY <2>1, <2>2, FS_EmptySet
  <2> QED BY <2>1, <2>3, <1>1
<1>3. ASSUME NEW k \in S, NEW l \in S, k < l
      PROVE  Cardinality(Upto(k)) < Cardinality(Upto(l))
  <2>1. Upto(k) \in SUBSET Upto(l)
    <3>1. ASSUME NEW i \in S, i <= k PROVE i <= l
      BY <3>1, <1>3, <1>0
    <3> QED BY <3>1
  <2>2. l \in Upto(l) /\ l \notin Upto(k)
    BY <1>3, <1>0
  <2>3. Cardinality(Upto(k)) <= Cardinality(Upto(l)) /\ Cardinality(Upto(k)) # Cardinality(Upto(l))
    BY <2>1, <2>2, <1>2, FS_Subset
  <2> QED BY <2>3, <1>2
<1>4. rank \in [S -> 1 .. N]
  BY <1>2
<1>5. \A k, l \in S : rank[k] = rank[l] => k = l
  <2> TAKE k, l \in S
  <2>1. k \in Int /\ l \in Int
    OBVIOUS
  <2>2. rank[k] = Cardinality(Upto(k)) /\ rank[l] = Cardinality(Upto(l))
    OBVIOUS
  <2>3. rank[k] \in Int /\ rank[l] \in Int
    BY <1>4
  <2> HIDE DEF rank
  <2> QED BY <2>1, <2>2, <2>3, <1>3
<1>6. rank \in Surjection(S, 1 .. N)
  <2>1. rank \in Injection(S, 1 .. N)
    BY <1>4, <1>5, Fun_IsInj
  <2>2. IsFiniteSet(1 .. N) /\ Cardinality(1 .. N) = N
    BY <1>1, FS_Interval
  <2> HIDE DEF rank
  <2> QED BY <2>1, <2>2, FS_Injection
<1>7. ASSUME NEW j \in 1 .. N
      PROVE  Ascending(S)[j] \in S /\ Cardinality(Upto(Ascending(S)[j])) = j
  <2>1. \E k \in S : rank[k] = j
    <3> HIDE DEF rank, N
    <3>1. \A t \in 1 .. N : \E k \in S : rank[k] = t
      BY <1>6, Fun_SurjectionProperties, Zenon
    <3> QED BY <3>1
  <2>2. \E k \in S : Cardinality(Upto(k)) = j
    BY <2>1
  <2>3. Ascending(S)[j] = CHOOSE k \in S : Cardinality(Upto(k)) = j
    BY DEF Ascending
  <2> QED BY <2>2, <2>3
<1>8. ASSUME NEW k \in S PROVE Ascending(S)[Cardinality(Upto(k))] = k
  <2> DEFINE j == Cardinality(Upto(k))
  <2>1. j \in 1 .. N
    BY <1>2
  <2>2. Ascending(S)[j] \in S /\ Cardinality(Upto(Ascending(S)[j])) = j
    BY <2>1, <1>7
  <2> QED BY <2>2, <1>5
<1>9. DOMAIN Ascending(S) = 1 .. N
  BY DEF Ascending
<1> QED BY <1>1, <1>2, <1>7, <1>8, <1>9

LEMMA AscendingGrows ==
    ASSUME NEW n \in Nat, NEW S \in SUBSET (1 .. n),
           NEW i \in 1 .. Cardinality(S), NEW j \in 1 .. Cardinality(S), i < j
    PROVE  Ascending(S)[i] < Ascending(S)[j]
<1> DEFINE a == Ascending(S)[i]
           b == Ascending(S)[j]
           Upto(k) == {l \in S : l <= k}
<1>1. /\ a \in S /\ b \in S
      /\ Cardinality(Upto(a)) = i /\ Cardinality(Upto(b)) = j
      /\ IsFiniteSet(S) /\ Cardinality(S) \in Nat
  BY AscendingLists
<1>2. a \in Int /\ b \in Int
  <2>1. \A x \in S : x \in Int
    OBVIOUS
  <2> HIDE DEF a, b
  <2> QED BY <1>1, <2>1
<1> HIDE DEF a, b
<1>3. ASSUME b <= a PROVE FALSE
  <2>1. ASSUME NEW l \in S, l <= b PROVE l <= a
    BY <2>1, <1>2, <1>3
  <2>2. Upto(b) \in SUBSET Upto(a)
    BY <2>1
  <2>3. IsFiniteSet(Upto(a))
    BY <1>1, FS_Subset
  <2>4. Cardinality(Upto(b)) <= Cardinality(Upto(a))
    BY <2>2, <2>3, FS_Subset
  <2> QED BY <2>4, <1>1
<1>4. a < b
  BY <1>2, <1>3
<1> QED BY <1>4 DEF a, b

LEMMA AscendingInjective ==
    ASSUME NEW n \in Nat, NEW S \in SUBSET (1 .. n),
           NEW i \in 1 .. Cardinality(S), NEW j \in 1 .. Cardinality(S),
           Ascending(S)[i] = Ascending(S)[j]
    PROVE  i = j
<1>1. /\ Cardinality({l \in S : l <= Ascending(S)[i]}) = i
      /\ Cardinality({l \in S : l <= Ascending(S)[j]}) = j
  BY AscendingLists
<1> QED BY <1>1

LEMMA AscendingReaches ==
    ASSUME NEW n \in Nat, NEW S \in SUBSET (1 .. n), NEW k \in S
    PROVE  \E j \in 1 .. Cardinality(S) : Ascending(S)[j] = k
BY AscendingLists

LEMMA SameCardinality ==
    ASSUME NEW S, NEW T, IsFiniteSet(S), NEW g \in [S -> T],
           \A i, j \in S : g[i] = g[j] => i = j,
           \A t \in T : \E i \in S : g[i] = t
    PROVE  Cardinality(T) = Cardinality(S)
<1>1. g \in Bijection(S, T)
  BY Fun_IsBij
<1> QED BY <1>1, FS_Bijection DEF ExistsBijection

\* A set of places, and a map from one onto another that grows.
Numbers(S) == \E n \in Nat : S \in SUBSET (1 .. n)
GrowsOnto(g, T, S) ==
    /\ g \in [T -> S]
    /\ \A i, j \in T : i < j => g[i] < g[j]
    /\ \A s \in S : \E i \in T : g[i] = s

\* A growing map from one set of numbers onto another takes ranks to ranks.
LEMMA AscendingMaps ==
    ASSUME NEW T, Numbers(T), NEW S, Numbers(S), NEW g, GrowsOnto(g, T, S)
    PROVE  /\ Cardinality(T) = Cardinality(S)
           /\ \A j \in 1 .. Cardinality(T) : g[Ascending(T)[j]] = Ascending(S)[j]
<1> USE DEF GrowsOnto
<1> PICK m \in Nat : T \in SUBSET (1 .. m)
  BY DEF Numbers
<1> PICK n \in Nat : S \in SUBSET (1 .. n)
  BY DEF Numbers
<1>0. /\ IsFiniteSet(T) /\ Cardinality(T) \in Nat
      /\ \A i \in T : i \in Int
      /\ \A i \in S : i \in Int
      /\ \A i \in T : g[i] \in S
  <2>1. IsFiniteSet(T) /\ Cardinality(T) \in Nat
    BY AscendingLists
  <2> QED BY <2>1
<1>1. ASSUME NEW i \in T, NEW j \in T
      PROVE  (g[i] = g[j] => i = j) /\ (g[i] <= g[j] <=> i <= j)
  <2>1. /\ i \in Int /\ j \in Int /\ g[i] \in Int /\ g[j] \in Int
        /\ (i < j => g[i] < g[j]) /\ (j < i => g[j] < g[i])
    BY <1>0
  <2> QED BY <2>1
<1>2. /\ \A i, j \in T : g[i] = g[j] => i = j
      /\ \A i, j \in T : g[i] <= g[j] <=> i <= j
  BY <1>1
<1>3. Cardinality(T) = Cardinality(S)
  BY <1>0, <1>2, SameCardinality
<1>4. ASSUME NEW e \in T
      PROVE  Cardinality({i \in S : i <= g[e]}) = Cardinality({t \in T : t <= e})
  <2> DEFINE U == {t \in T : t <= e}
             V == {i \in S : i <= g[e]}
             h == [t \in U |-> g[t]]
  <2>1. IsFiniteSet(U)
    BY <1>0, FS_Subset
  <2>2. h \in [U -> V]
    BY <1>0, <1>2
  <2>3. \A i, j \in U : h[i] = h[j] => i = j
    BY <1>2
  <2>4. ASSUME NEW v \in V PROVE \E t \in U : h[t] = v
    <3>1. PICK t \in T : g[t] = v
      OBVIOUS
    <3>2. t \in U
      BY <1>2, <3>1
    <3> QED BY <3>1, <3>2
  <2> HIDE DEF U, V, h
  <2>5. Cardinality(V) = Cardinality(U)
    BY <2>1, <2>2, <2>3, <2>4, SameCardinality
  <2> QED BY <2>5 DEF U, V
<1>5. ASSUME NEW j \in 1 .. Cardinality(T) PROVE g[Ascending(T)[j]] = Ascending(S)[j]
  <2> DEFINE e == Ascending(T)[j]
  <2>1. e \in T /\ Cardinality({t \in T : t <= e}) = j
    BY AscendingLists
  <2> HIDE DEF e
  <2>2. g[e] \in S /\ Cardinality({i \in S : i <= g[e]}) = j
    BY <1>0, <1>4, <2>1
  <2>3. Ascending(S)[Cardinality({i \in S : i <= g[e]})] = g[e]
    BY <2>2, AscendingLists
  <2> QED BY <2>2, <2>3 DEF e
<1> QED BY <1>3, <1>5

LEMMA PickedRows ==
    ASSUME NEW R, NEW rows \in Seq(R), NEW S \in SUBSET (1 .. Len(rows))
    PROVE  /\ Picked(rows, S) \in Seq(R)
           /\ Cardinality(S) \in Nat
           /\ Len(Picked(rows, S)) = Cardinality(S)
           /\ \A j \in 1 .. Cardinality(S) : /\ Ascending(S)[j] \in S
                                             /\ Picked(rows, S)[j] = rows[Ascending(S)[j]]
           /\ \A k \in S : \E j \in 1 .. Cardinality(S) : Ascending(S)[j] = k
<1>1. Len(rows) \in Nat /\ rows \in [1 .. Len(rows) -> R]
  BY LenProperties
<1>2. /\ Cardinality(S) \in Nat
      /\ \A j \in 1 .. Cardinality(S) : Ascending(S)[j] \in S
      /\ \A k \in S : \E j \in 1 .. Cardinality(S) : Ascending(S)[j] = k
  BY <1>1, AscendingLists
<1>3. \A j \in 1 .. Cardinality(S) : rows[Ascending(S)[j]] \in R
  BY <1>1, <1>2
<1> QED BY <1>2, <1>3 DEF Picked

\* SetToSeq lists a finite set, each element once.
LEMMA SetToSeqLists ==
    ASSUME NEW S, IsFiniteSet(S)
    PROVE  /\ Cardinality(S) \in Nat
           /\ SetToSeq(S) \in [1 .. Cardinality(S) -> S]
           /\ \A i, j \in 1 .. Cardinality(S) : SetToSeq(S)[i] = SetToSeq(S)[j] => i = j
           /\ \A x \in S : \E i \in 1 .. Cardinality(S) : SetToSeq(S)[i] = x
<1> DEFINE n == Cardinality(S)
           s == SetToSeq(S)
<1>1. n \in Nat /\ \E f \in Bijection(1 .. n, S) : TRUE
  BY FS_CardinalityType DEF ExistsBijection
<1>2. PICK f \in Bijection(1 .. n, S) : TRUE
  BY <1>1
<1>3. f \in [1 .. n -> S] /\ \A a, b \in 1 .. n : f[a] = f[b] => a = b
  BY Fun_BijectionProperties
<1>4. f \in [1 .. n -> S] /\ IsInjective(f)
  BY <1>3 DEF IsInjective
<1>5. s \in [1 .. n -> S] /\ IsInjective(s)
  BY <1>4 DEF SetToSeq
<1> HIDE DEF s
<1>6. \A a, b \in 1 .. n : s[a] = s[b] => a = b
  BY <1>5 DEF IsInjective
<1>7. s \in Injection(1 .. n, S)
  BY <1>5, <1>6, Fun_IsInj
<1>8. Cardinality(1 .. n) = n
  BY <1>1, FS_Interval
<1>9. s \in Surjection(1 .. n, S)
  BY <1>7, <1>8, FS_Injection
<1>10. \A x \in S : \E i \in 1 .. n : s[i] = x
  BY <1>9 DEF Surjection
<1> QED BY <1>1, <1>5, <1>6, <1>10 DEF s

-----------------------------------------------------------------------------
(* Merging what a broker reports.                                          *)

\* What a reading can bring: holdings the broker offers, with amounts.
Holdings == UNION {[ids -> Figures] : ids \in SUBSET Ids}

LEMMA FiniteIds == IsFiniteSet(Ids)
<1>1. IsFiniteSet(Names)
  <2>1. Names = {"overnight"} \union {"cash"} \union {"other"}
    BY DEF Names
  <2> QED BY <2>1, FS_Singleton, FS_Union
<1> QED BY <1>1, UpdateAssumption, FS_Union DEF Ids

LEMMA CountFigure ==
    ASSUME NEW b, NEW id
    PROVE  Count(b, id) \in Figures
BY DEF Count, Figures, ScrapedShares

LEMMA RefreshedRow ==
    ASSUME NEW row \in Rows, NEW b, NEW f \in Holdings, row.id \in DOMAIN f
    PROVE  /\ Refreshed(row, b, f) \in Rows
           /\ Refreshed(row, b, f).id = row.id
           /\ Refreshed(row, b, f).broker = row.broker
           /\ Refreshed(row, b, f).value = f[row.id]
<1>1. f[row.id] \in Figures
  BY DEF Holdings
<1>2. Count(b, row.id) \in Figures
  BY CountFigure
<1> QED BY <1>1, <1>2 DEF Refreshed, Rows

LEMMA NewRowsLists ==
    ASSUME NEW b \in Owners, NEW f \in Holdings, NEW ids \in SUBSET DOMAIN f
    PROVE  /\ Cardinality(ids) \in Nat
           /\ NewRows(b, f, ids) \in Seq(Rows)
           /\ Len(NewRows(b, f, ids)) = Cardinality(ids)
           /\ SetToSeq(ids) \in [1 .. Cardinality(ids) -> ids]
           /\ \A i, j \in 1 .. Cardinality(ids) : SetToSeq(ids)[i] = SetToSeq(ids)[j] => i = j
           /\ \A id \in ids : \E j \in 1 .. Cardinality(ids) : SetToSeq(ids)[j] = id
           /\ \A j \in 1 .. Cardinality(ids) :
                 /\ NewRows(b, f, ids)[j].id = SetToSeq(ids)[j]
                 /\ NewRows(b, f, ids)[j].broker = b
                 /\ NewRows(b, f, ids)[j].value = f[SetToSeq(ids)[j]]
<1> DEFINE n == Cardinality(ids)
           order == SetToSeq(ids)
<1>1. DOMAIN f \subseteq Ids /\ \A id \in DOMAIN f : f[id] \in Figures
  BY DEF Holdings
<1>2. IsFiniteSet(ids)
  BY <1>1, FiniteIds, FS_Subset
<1>3. /\ n \in Nat
      /\ order \in [1 .. n -> ids]
      /\ \A i, j \in 1 .. n : order[i] = order[j] => i = j
      /\ \A id \in ids : \E j \in 1 .. n : order[j] = id
  BY <1>2, SetToSeqLists
<1>4. NewRows(b, f, ids) = [j \in 1 .. n |-> Row(order[j], b, f[order[j]], Count(b, order[j]))]
  BY DEF NewRows
<1> HIDE DEF order, n
<1>5. ASSUME NEW j \in 1 .. n
      PROVE  Row(order[j], b, f[order[j]], Count(b, order[j])) \in Rows
  <2>1. order[j] \in ids
    BY <1>3
  <2>2. order[j] \in Ids /\ f[order[j]] \in Figures
    BY <2>1, <1>1
  <2>3. Count(b, order[j]) \in Figures
    BY CountFigure
  <2> QED BY <2>2, <2>3 DEF Row, Rows
<1>6. NewRows(b, f, ids) \in Seq(Rows) /\ Len(NewRows(b, f, ids)) = n
  <2>1. NewRows(b, f, ids) \in [1 .. n -> Rows]
    BY <1>4, <1>5
  <2> QED BY <2>1, <1>3, FunctionIsList
<1>7. \A j \in 1 .. n : /\ NewRows(b, f, ids)[j].id = order[j]
                        /\ NewRows(b, f, ids)[j].broker = b
                        /\ NewRows(b, f, ids)[j].value = f[order[j]]
  BY <1>4 DEF Row
<1> QED BY <1>3, <1>6, <1>7 DEF order, n

LEMMA NewRowAt ==
    ASSUME NEW b \in Owners, NEW f \in Holdings, NEW ids \in SUBSET DOMAIN f,
           NEW j \in 1 .. Cardinality(ids)
    PROVE  /\ SetToSeq(ids)[j] \in ids
           /\ NewRows(b, f, ids)[j].id = SetToSeq(ids)[j]
           /\ NewRows(b, f, ids)[j].broker = b
           /\ NewRows(b, f, ids)[j].value = f[SetToSeq(ids)[j]]
BY NewRowsLists

\* What the merge makes of a row that stays.
After(p, b, f, hit, c) == IF c \in hit THEN Refreshed(RowAt(p, c), b, f) ELSE RowAt(p, c)

\* A bucket's places that stay, and the holdings it gets a row for.
Kept(p, gone, k) == {j \in 1 .. Len(p[k]) : <<k, j>> \notin gone}
FreshIn(p, f, hit, k) == {id \in Fresh(p, f, hit) : HomeBucket(id) = k}

\* What is to be known before a merge.
Mergeable(p, b, f, hit) ==
    /\ p \in Lists
    /\ b \in Owners
    /\ f \in Holdings
    /\ \A c \in hit : c \in Cells(p) /\ RowAt(p, c).id \in DOMAIN f

LEMMA AfterRow ==
    ASSUME NEW p, NEW b, NEW f, NEW hit, Mergeable(p, b, f, hit), NEW c \in Cells(p)
    PROVE  /\ After(p, b, f, hit, c) \in Rows
           /\ After(p, b, f, hit, c).id = RowAt(p, c).id
           /\ After(p, b, f, hit, c).broker = RowAt(p, c).broker
           /\ c \in hit => After(p, b, f, hit, c).value = f[RowAt(p, c).id]
<1>1. RowAt(p, c) \in Rows
  BY CellRow DEF Mergeable
<1>2. CASE c \in hit
  <2>1. RowAt(p, c).id \in DOMAIN f /\ f \in Holdings
    BY <1>2 DEF Mergeable
  <2>2. After(p, b, f, hit, c) = Refreshed(RowAt(p, c), b, f)
    BY <1>2 DEF After
  <2> QED BY <1>1, <2>1, <2>2, RefreshedRow
<1>3. CASE c \notin hit
  BY <1>1, <1>3 DEF After
<1> QED BY <1>2, <1>3

LEMMA MergedParts ==
    ASSUME NEW p, NEW b, NEW f, NEW hit, NEW gone, Mergeable(p, b, f, hit)
    PROVE  /\ Merged(p, b, f, hit, gone) \in Lists
           /\ \A k \in Buckets :
                /\ Cardinality(Kept(p, gone, k)) \in Nat
                /\ Cardinality(FreshIn(p, f, hit, k)) \in Nat
                /\ Len(Merged(p, b, f, hit, gone)[k]) =
                     Cardinality(Kept(p, gone, k)) + Cardinality(FreshIn(p, f, hit, k))
                /\ \A j \in 1 .. Cardinality(Kept(p, gone, k)) :
                     /\ Ascending(Kept(p, gone, k))[j] \in Kept(p, gone, k)
                     /\ Merged(p, b, f, hit, gone)[k][j] =
                          After(p, b, f, hit, <<k, Ascending(Kept(p, gone, k))[j]>>)
                /\ \A j \in 1 .. Cardinality(FreshIn(p, f, hit, k)) :
                     Merged(p, b, f, hit, gone)[k][Cardinality(Kept(p, gone, k)) + j] =
                       NewRows(b, f, FreshIn(p, f, hit, k))[j]
<1> DEFINE m == Merged(p, b, f, hit, gone)
           g == [c \in Cells(p) |-> After(p, b, f, hit, c)]
           marked == Mapped(p, g)
           kept(k) == Kept(p, gone, k)
           fresh(k) == FreshIn(p, f, hit, k)
           old(k) == Picked(marked[k], kept(k))
           new(k) == NewRows(b, f, fresh(k))
<1>1. p \in Lists /\ b \in Owners /\ f \in Holdings
  BY DEF Mergeable
<1>2. \A c \in Cells(p) : g[c] \in Rows
  BY AfterRow
<1>3. m = [k \in Buckets |-> old(k) \o new(k)]
  BY DEF Merged, After, Kept, FreshIn
<1>4. /\ marked \in Lists
      /\ Cells(marked) = Cells(p)
      /\ \A k \in Buckets : Len(marked[k]) = Len(p[k])
      /\ \A c \in Cells(p) : RowAt(marked, c) = g[c]
  <2> HIDE DEF g
  <2> QED BY <1>1, <1>2, MappedCells
<1>5. ASSUME NEW k \in Buckets
      PROVE  /\ Cardinality(kept(k)) \in Nat
             /\ Cardinality(fresh(k)) \in Nat
             /\ m[k] \in Seq(Rows)
             /\ Len(m[k]) = Cardinality(kept(k)) + Cardinality(fresh(k))
             /\ \A j \in 1 .. Cardinality(kept(k)) :
                  /\ Ascending(kept(k))[j] \in kept(k)
                  /\ m[k][j] = After(p, b, f, hit, <<k, Ascending(kept(k))[j]>>)
             /\ \A j \in 1 .. Cardinality(fresh(k)) : m[k][Cardinality(kept(k)) + j] = new(k)[j]
  <2>1. /\ marked[k] \in Seq(Rows) /\ Len(marked[k]) = Len(p[k])
        /\ Len(p[k]) \in Nat
    <3> HIDE DEF marked
    <3> QED BY <1>1, <1>4, ListsParts
  <2>2. kept(k) \in SUBSET (1 .. Len(marked[k]))
    BY <2>1 DEF Kept
  <2>3. /\ old(k) \in Seq(Rows)
        /\ Cardinality(kept(k)) \in Nat
        /\ Len(old(k)) = Cardinality(kept(k))
        /\ \A j \in 1 .. Cardinality(kept(k)) : /\ Ascending(kept(k))[j] \in kept(k)
                                                /\ old(k)[j] = marked[k][Ascending(kept(k))[j]]
    <3> HIDE DEF marked, kept
    <3> QED BY <2>1, <2>2, PickedRows
  <2>4. fresh(k) \in SUBSET DOMAIN f
    BY DEF FreshIn, Fresh
  <2>5. new(k) \in Seq(Rows) /\ Len(new(k)) = Cardinality(fresh(k)) /\ Cardinality(fresh(k)) \in Nat
    <3> HIDE DEF fresh
    <3> QED BY <1>1, <2>4, NewRowsLists
  <2>6. m[k] = old(k) \o new(k)
    BY <1>3
  <2>7. ASSUME NEW j \in kept(k) PROVE marked[k][j] = After(p, b, f, hit, <<k, j>>)
    <3>1. j \in 1 .. Len(p[k])
      BY DEF Kept
    <3>2. <<k, j>> \in Cells(p)
      BY <3>1, CellOf
    <3>3. RowAt(marked, <<k, j>>) = marked[k][j]
      BY DEF RowAt
    <3> QED BY <1>4, <3>2, <3>3
  <2> HIDE DEF old, new, m, kept, fresh, marked
  <2>8. /\ old(k) \o new(k) \in Seq(Rows)
        /\ Len(old(k) \o new(k)) = Len(old(k)) + Len(new(k))
        /\ \A i \in 1 .. Len(old(k)) + Len(new(k)) :
             (old(k) \o new(k))[i] = IF i <= Len(old(k)) THEN old(k)[i] ELSE new(k)[i - Len(old(k))]
    BY <2>3, <2>5, ConcatProperties
  <2>9. \A j \in 1 .. Cardinality(kept(k)) : m[k][j] = old(k)[j]
    BY <2>3, <2>5, <2>6, <2>8
  <2>10. \A j \in 1 .. Cardinality(fresh(k)) : m[k][Cardinality(kept(k)) + j] = new(k)[j]
    BY <2>3, <2>5, <2>6, <2>8
  <2>11. \A j \in 1 .. Cardinality(kept(k)) :
           m[k][j] = After(p, b, f, hit, <<k, Ascending(kept(k))[j]>>)
    BY <2>3, <2>7, <2>9
  <2> QED BY <2>3, <2>5, <2>6, <2>8, <2>10, <2>11
<1>6. m \in Lists
  <2>1. m = [k \in Buckets |-> m[k]]
    BY <1>3
  <2> HIDE DEF m
  <2> QED BY <1>5, <2>1 DEF Lists
<1> QED BY <1>5, <1>6

LEMMA MergedLengths ==
    ASSUME NEW p, NEW b, NEW f, NEW hit, NEW gone, Mergeable(p, b, f, hit), NEW k \in Buckets
    PROVE  /\ Cardinality(Kept(p, gone, k)) \in Nat
           /\ Cardinality(FreshIn(p, f, hit, k)) \in Nat
           /\ Len(Merged(p, b, f, hit, gone)[k]) =
                Cardinality(Kept(p, gone, k)) + Cardinality(FreshIn(p, f, hit, k))
BY MergedParts

LEMMA MergedOldRow ==
    ASSUME NEW p, NEW b, NEW f, NEW hit, NEW gone, Mergeable(p, b, f, hit), NEW k \in Buckets,
           NEW j \in 1 .. Cardinality(Kept(p, gone, k))
    PROVE  /\ Ascending(Kept(p, gone, k))[j] \in Kept(p, gone, k)
           /\ Merged(p, b, f, hit, gone)[k][j] =
                After(p, b, f, hit, <<k, Ascending(Kept(p, gone, k))[j]>>)
BY MergedParts

LEMMA MergedNewRow ==
    ASSUME NEW p, NEW b, NEW f, NEW hit, NEW gone, Mergeable(p, b, f, hit), NEW k \in Buckets,
           NEW j \in 1 .. Cardinality(FreshIn(p, f, hit, k))
    PROVE  Merged(p, b, f, hit, gone)[k][Cardinality(Kept(p, gone, k)) + j] =
             NewRows(b, f, FreshIn(p, f, hit, k))[j]
BY MergedParts

\* Where the row at cell e of the merged portfolio comes from.
IsOld(p, gone, e) == e[2] <= Cardinality(Kept(p, gone, e[1]))
OldCell(p, gone, e) == <<e[1], Ascending(Kept(p, gone, e[1]))[e[2]]>>
NewId(p, f, hit, gone, e) ==
    SetToSeq(FreshIn(p, f, hit, e[1]))[e[2] - Cardinality(Kept(p, gone, e[1]))]

LEMMA HomeBucketType ==
    ASSUME NEW id
    PROVE  HomeBucket(id) \in Buckets
BY UpdateAssumption DEF HomeBucket

\* Every row of the merged portfolio is one that stays or one of a fresh holding.
LEMMA MergedOrigin ==
    ASSUME NEW p, NEW b, NEW f, NEW hit, NEW gone, Mergeable(p, b, f, hit),
           NEW m, m = Merged(p, b, f, hit, gone), NEW e \in Cells(m)
    PROVE  /\ IsOld(p, gone, e) =>
                /\ OldCell(p, gone, e) \in Cells(p) \ gone
                /\ RowAt(m, e) = After(p, b, f, hit, OldCell(p, gone, e))
           /\ ~IsOld(p, gone, e) =>
                /\ NewId(p, f, hit, gone, e) \in Fresh(p, f, hit)
                /\ HomeBucket(NewId(p, f, hit, gone, e)) = e[1]
                /\ RowAt(m, e).id = NewId(p, f, hit, gone, e)
                /\ RowAt(m, e).broker = b
                /\ RowAt(m, e).value = f[NewId(p, f, hit, gone, e)]
<1> DEFINE k == e[1]
           K == Kept(p, gone, k)
           I == FreshIn(p, f, hit, k)
           n == Cardinality(K)
<1>1. p \in Lists /\ b \in Owners /\ f \in Holdings
  BY DEF Mergeable
<1>2. k \in Buckets /\ e[2] \in 1 .. Len(m[k]) /\ RowAt(m, e) = m[k][e[2]]
  BY CellParts
<1>3. /\ n \in Nat /\ Cardinality(I) \in Nat
      /\ Len(m[k]) = n + Cardinality(I)
      /\ \A j \in 1 .. n : /\ Ascending(K)[j] \in K
                           /\ m[k][j] = After(p, b, f, hit, <<k, Ascending(K)[j]>>)
      /\ \A j \in 1 .. Cardinality(I) : m[k][n + j] = NewRows(b, f, I)[j]
  <2> HIDE DEF k
  <2>1. n \in Nat /\ Cardinality(I) \in Nat /\ Len(m[k]) = n + Cardinality(I)
    BY <1>2, MergedLengths
  <2>2. \A j \in 1 .. n : /\ Ascending(K)[j] \in K
                          /\ m[k][j] = After(p, b, f, hit, <<k, Ascending(K)[j]>>)
    BY <1>2, MergedOldRow
  <2>3. \A j \in 1 .. Cardinality(I) : m[k][n + j] = NewRows(b, f, I)[j]
    BY <1>2, MergedNewRow
  <2> QED BY <2>1, <2>2, <2>3
<1>4. ASSUME IsOld(p, gone, e)
      PROVE  /\ OldCell(p, gone, e) \in Cells(p) \ gone
             /\ RowAt(m, e) = After(p, b, f, hit, OldCell(p, gone, e))
  <2>1. e[2] \in 1 .. n
    BY <1>2, <1>3, <1>4 DEF IsOld
  <2>2. Ascending(K)[e[2]] \in K
    BY <2>1, <1>3
  <2>3. OldCell(p, gone, e) = <<k, Ascending(K)[e[2]]>>
    BY DEF OldCell
  <2>4. OldCell(p, gone, e) \in Cells(p) \ gone
    BY <1>2, <2>2, <2>3, CellOf DEF Kept
  <2> QED BY <1>2, <1>3, <2>1, <2>3, <2>4
<1>5. ASSUME ~IsOld(p, gone, e)
      PROVE  /\ NewId(p, f, hit, gone, e) \in Fresh(p, f, hit)
             /\ HomeBucket(NewId(p, f, hit, gone, e)) = e[1]
             /\ RowAt(m, e).id = NewId(p, f, hit, gone, e)
             /\ RowAt(m, e).broker = b
             /\ RowAt(m, e).value = f[NewId(p, f, hit, gone, e)]
  <2> DEFINE j == e[2] - n
             id == NewId(p, f, hit, gone, e)
  <2>1. j \in 1 .. Cardinality(I) /\ e[2] = n + j
    BY <1>2, <1>3, <1>5 DEF IsOld
  <2>2. id = SetToSeq(I)[j]
    BY DEF NewId
  <2>3. I \in SUBSET DOMAIN f
    BY DEF FreshIn, Fresh
  <2> HIDE DEF j, id, I
  <2>4. /\ SetToSeq(I)[j] \in I
        /\ NewRows(b, f, I)[j].id = SetToSeq(I)[j]
        /\ NewRows(b, f, I)[j].broker = b
        /\ NewRows(b, f, I)[j].value = f[SetToSeq(I)[j]]
    BY <1>1, <2>1, <2>3, NewRowAt
  <2>5. RowAt(m, e) = NewRows(b, f, I)[j]
    BY <1>2, <1>3, <2>1
  <2>6. id \in Fresh(p, f, hit) /\ HomeBucket(id) = e[1]
    BY <2>2, <2>4 DEF I, FreshIn
  <2> QED BY <2>2, <2>4, <2>5, <2>6 DEF id
<1> QED BY <1>4, <1>5

\* No two of them come from the same row, or from the same holding.
LEMMA MergedDistinct ==
    ASSUME NEW p, NEW b, NEW f, NEW hit, NEW gone, Mergeable(p, b, f, hit),
           NEW m, m = Merged(p, b, f, hit, gone), NEW e \in Cells(m), NEW d \in Cells(m)
    PROVE  /\ /\ IsOld(p, gone, e) /\ IsOld(p, gone, d)
              /\ OldCell(p, gone, e) = OldCell(p, gone, d)
              => e = d
           /\ /\ ~IsOld(p, gone, e) /\ ~IsOld(p, gone, d)
              /\ NewId(p, f, hit, gone, e) = NewId(p, f, hit, gone, d)
              => e = d
<1> DEFINE k == e[1]
           K == Kept(p, gone, k)
           I == FreshIn(p, f, hit, k)
           n == Cardinality(K)
<1>1. p \in Lists /\ b \in Owners /\ f \in Holdings
  BY DEF Mergeable
<1>2. /\ k \in Buckets /\ e[2] \in 1 .. Len(m[k]) /\ e = <<k, e[2]>>
      /\ d[1] \in Buckets /\ d[2] \in 1 .. Len(m[d[1]]) /\ d = <<d[1], d[2]>>
  BY CellParts
<1>3. n \in Nat /\ Cardinality(I) \in Nat /\ Len(m[k]) = n + Cardinality(I)
  <2> HIDE DEF k
  <2> QED BY <1>2, MergedParts
<1>4. ASSUME IsOld(p, gone, e), IsOld(p, gone, d), OldCell(p, gone, e) = OldCell(p, gone, d)
      PROVE  e = d
  <2>1. d[1] = k /\ Ascending(K)[e[2]] = Ascending(K)[d[2]]
    BY <1>4 DEF OldCell
  <2>2. e[2] \in 1 .. n /\ d[2] \in 1 .. n
    BY <1>2, <1>3, <1>4, <2>1 DEF IsOld
  <2>3. K \in SUBSET (1 .. Len(p[k])) /\ Len(p[k]) \in Nat
    BY <1>1, <1>2, ListsParts DEF Kept
  <2>4. e[2] = d[2]
    <3> HIDE DEF K
    <3> QED BY <2>1, <2>2, <2>3, AscendingInjective
  <2> QED BY <1>2, <2>1, <2>4
<1>5. ASSUME ~IsOld(p, gone, e), ~IsOld(p, gone, d),
             NewId(p, f, hit, gone, e) = NewId(p, f, hit, gone, d)
      PROVE  e = d
  <2>1. d[1] = k
    BY <1>5, MergedOrigin
  <2>2. /\ e[2] - n \in 1 .. Cardinality(I) /\ d[2] - n \in 1 .. Cardinality(I)
        /\ e[2] \in Nat /\ d[2] \in Nat
    BY <1>2, <1>3, <1>5, <2>1 DEF IsOld
  <2>3. SetToSeq(I)[e[2] - n] = SetToSeq(I)[d[2] - n]
    BY <1>5, <2>1 DEF NewId
  <2>4. I \in SUBSET DOMAIN f
    BY DEF FreshIn, Fresh
  <2>5. e[2] - n = d[2] - n
    <3> HIDE DEF I, n
    <3> QED BY <1>1, <2>2, <2>3, <2>4, NewRowsLists
  <2>6. e[2] = d[2]
    BY <2>2, <2>5, <1>3
  <2> QED BY <1>2, <2>1, <2>6
<1> QED BY <1>4, <1>5

\* Every row that is not gone stays, and every fresh holding gets one.
LEMMA MergedCovers ==
    ASSUME NEW p, NEW b, NEW f, NEW hit, NEW gone, Mergeable(p, b, f, hit),
           NEW m, m = Merged(p, b, f, hit, gone)
    PROVE  /\ \A c \in Cells(p) \ gone : \E e \in Cells(m) :
                IsOld(p, gone, e) /\ OldCell(p, gone, e) = c
           /\ \A id \in Fresh(p, f, hit) : \E e \in Cells(m) :
                ~IsOld(p, gone, e) /\ NewId(p, f, hit, gone, e) = id
<1>1. p \in Lists /\ b \in Owners /\ f \in Holdings
  BY DEF Mergeable
<1>2. ASSUME NEW c \in Cells(p) \ gone
      PROVE  \E e \in Cells(m) : IsOld(p, gone, e) /\ OldCell(p, gone, e) = c
  <2> DEFINE k == c[1]
             K == Kept(p, gone, k)
  <2>1. k \in Buckets /\ c[2] \in 1 .. Len(p[k]) /\ c = <<k, c[2]>>
    BY CellParts
  <2>2. c[2] \in K
    BY <1>2, <2>1 DEF Kept
  <2>3. K \in SUBSET (1 .. Len(p[k])) /\ Len(p[k]) \in Nat
    BY <1>1, <2>1, ListsParts DEF Kept
  <2>4. \E j \in 1 .. Cardinality(K) : Ascending(K)[j] = c[2]
    <3> HIDE DEF K, k
    <3> QED BY <2>2, <2>3, AscendingReaches
  <2>5. PICK j \in 1 .. Cardinality(K) : Ascending(K)[j] = c[2]
    BY <2>4
  <2>6. /\ Cardinality(K) \in Nat
        /\ Cardinality(FreshIn(p, f, hit, k)) \in Nat
        /\ Len(m[k]) = Cardinality(K) + Cardinality(FreshIn(p, f, hit, k))
    <3> HIDE DEF k
    <3> QED BY <2>1, MergedParts
  <2>7. <<k, j>> \in Cells(m)
    BY <2>1, <2>6, CellOf
  <2>8. IsOld(p, gone, <<k, j>>) /\ OldCell(p, gone, <<k, j>>) = c
    BY <2>1, <2>5, <2>6 DEF IsOld, OldCell
  <2> QED BY <2>7, <2>8
<1>3. ASSUME NEW id \in Fresh(p, f, hit)
      PROVE  \E e \in Cells(m) : ~IsOld(p, gone, e) /\ NewId(p, f, hit, gone, e) = id
  <2> DEFINE k == HomeBucket(id)
             I == FreshIn(p, f, hit, k)
             n == Cardinality(Kept(p, gone, k))
  <2>1. k \in Buckets /\ id \in I
    BY HomeBucketType DEF FreshIn
  <2>2. I \in SUBSET DOMAIN f
    BY DEF FreshIn, Fresh
  <2>3. \E j \in 1 .. Cardinality(I) : SetToSeq(I)[j] = id
    <3> HIDE DEF I
    <3> QED BY <1>1, <2>1, <2>2, NewRowsLists
  <2>4. PICK j \in 1 .. Cardinality(I) : SetToSeq(I)[j] = id
    BY <2>3
  <2>5. n \in Nat /\ Cardinality(I) \in Nat /\ Len(m[k]) = n + Cardinality(I)
    <3> HIDE DEF k
    <3> QED BY <2>1, MergedParts
  <2> DEFINE e == <<k, n + j>>
  <2> HIDE DEF k, I, n
  <2>6. n + j \in 1 .. Len(m[k])
    BY <2>5
  <2>7. e \in Cells(m)
    BY <2>1, <2>6, CellOf
  <2>8. ~IsOld(p, gone, e)
    BY <2>5 DEF IsOld, n
  <2>9. NewId(p, f, hit, gone, e) = SetToSeq(I)[(n + j) - n]
    BY DEF NewId, n, I
  <2>10. (n + j) - n = j
    BY <2>5
  <2> QED BY <2>4, <2>7, <2>8, <2>9, <2>10
<1> QED BY <1>2, <1>3

-----------------------------------------------------------------------------
(* The inductive invariant.                                                *)

Quotes == (Nat \ {0}) \union {NoFigure}
Amounts == [Buckets -> Seq(Figures)]
ShareQueues == UNION {[ks -> Int] : ks \in SUBSET (Ids \X Figures)}
ValueQueues == UNION {[ks -> Int] : ks \in SUBSET (Ids \X Owners)}

FetchType ==
    /\ account \in [Brokers -> SUBSET Ids]
    /\ \A b \in Brokers : account[b] \subseteq Offered(b)
    /\ broker \in Brokers
    /\ session \in BOOLEAN /\ browser \in BOOLEAN /\ missed \in BOOLEAN
    /\ seen \in [Offered("oskar") -> Texts]
    /\ fetched \in Holdings
    /\ DOMAIN fetched \subseteq Offered(broker)

RunType ==
    /\ stored \in Lists /\ portfolio \in Lists
    /\ quotes \in [Isins -> Quotes]
    /\ scrape \subseteq Brokers
    /\ fetchPrices \in BOOLEAN /\ doubled \in BOOLEAN
    /\ phase \in {"load", "fetch", "estimate", "persist", "compose", "shares", "values",
                  "plot", "done", "dead"}
    /\ pendingShares \in ShareQueues /\ pendingValues \in ValueQueues
    /\ charted \in Amounts

\* The browser and the session are closed before the reading is over.
SessionsClosed ==
    phase # "fetch" \/ fstep \in {"fetched", "failed"} => ~session /\ ~browser

\* OSKAR: what was seen is held, and what is held and was expanded was seen.
SeenSoFar ==
    phase = "fetch" /\ broker = "oskar" /\ fstep \in {"open", "signin", "allocation", "expand"} =>
        \A i \in Offered("oskar") :
            /\ seen[i] # "none" => i \in account["oskar"]
            /\ ~missed /\ i \in account["oskar"] /\ i \notin todo => seen[i] # "none"

\* A reading that swallowed no failure brings what the user holds.
ExactReading ==
    phase \in {"fetch", "estimate", "persist"} /\ fstep \in {"read", "fetched"} /\ ~missed =>
        DOMAIN fetched = account[broker]

\* A broker's rows in p are different holdings.
Distinct(p, b) ==
    \A c, d \in CellsOf(p, b) : Alike(RowAt(p, c), RowAt(p, d)) => c = d

\* A portfolio loaded without duplicates has none of the brokers not merged yet.
Undoubled ==
    ~doubled =>
        /\ phase = "fetch" => \A b \in Brokers : Place(b) >= Place(broker) => Distinct(portfolio, b)
        /\ phase \in {"estimate", "persist"} =>
             \A b \in Brokers : Place(b) > Place(broker) => Distinct(portfolio, b)

\* Until the positions are built there is nothing to chart and nothing queued.
NothingBuilt ==
    phase \in {"load", "fetch", "estimate", "persist"} =>
        charted = Empty /\ pendingShares = NoQueue /\ pendingValues = NoQueue

\* From then on the store follows the portfolio in memory.
StoreFollows ==
    phase \in {"compose", "shares", "values", "plot", "done"} => stored = portfolio

BuiltSoFar ==
    /\ phase = "compose" => \A b \in Buckets : Len(charted[b]) <= Len(portfolio[b])
    /\ phase \in {"shares", "values", "plot", "done"} =>
         \A b \in Buckets : Len(charted[b]) = Len(portfolio[b])

\* The value row is to have once the queue q is written.
Due(q, row) == IF Holder(row) \in DOMAIN q THEN q[Holder(row)] ELSE row.value

\* A row that was built is charted with the value it has or is queued for, and
\* only what was built is queued.
ChartedIsDue ==
    phase \in {"compose", "shares", "values"} /\ fetchPrices /\ Unique(portfolio) =>
        /\ \A b \in Buckets : \A k \in 1 .. Len(charted[b]) :
             charted[b][k] = Due(pendingValues, portfolio[b][k])
        /\ \A h \in DOMAIN pendingValues :
             \E b \in Buckets : \E k \in 1 .. Len(charted[b]) : h = Holder(portfolio[b][k])

ChartedIsStored ==
    phase \in {"plot", "done"} /\ fetchPrices /\ Unique(portfolio) =>
        \A b \in Buckets : \A k \in 1 .. Len(portfolio[b]) : charted[b][k] = portfolio[b][k].value

ChartsAreCharted == phase = "done" => charts = charted

Reading == SessionsClosed /\ SeenSoFar /\ ExactReading
Merging == Undoubled /\ MirrorsBroker
Charting == NothingBuilt /\ StoreFollows /\ BuiltSoFar /\ ChartedIsDue /\ ChartedIsStored
            /\ ChartsAreCharted
Typing == FetchType /\ RunType

IInv == Typing /\ Reading /\ Merging /\ Charting

-----------------------------------------------------------------------------
(* Types.                                                                  *)

LEMMA OfferedIds ==
    /\ \A b \in Brokers : Offered(b) \subseteq Ids
    /\ Offered("oskar") = Isins \union {"overnight"}
BY DEF Offered, Brokers, Ids, Names

LEMMA HoldingHoldings ==
    ASSUME NEW ids \in SUBSET Ids
    PROVE  Holding(ids) \in Holdings /\ DOMAIN Holding(ids) = ids
BY DEF Holding, Holdings, Figures, ScrapedValue

LEMMA NoHoldingsHoldings == NoHoldings \in Holdings /\ DOMAIN NoHoldings = {}
<1>1. NoHoldings \in [{} -> Figures] /\ DOMAIN NoHoldings = {}
  BY DEF NoHoldings
<1> QED BY <1>1 DEF Holdings

LEMMA UnseenSeen == Unseen \in [Offered("oskar") -> Texts]
BY DEF Unseen, Texts

LEMMA Places ==
    /\ DOMAIN Order = 1 .. 3
    /\ Order[1] = "oskar" /\ Order[2] = "scalable" /\ Order[3] = "traderepublic"
    /\ Place("oskar") = 1 /\ Place("scalable") = 2 /\ Place("traderepublic") = 3
<1>1. DOMAIN Order = 1 .. 3 /\ Order[1] = "oskar" /\ Order[2] = "scalable" /\ Order[3] = "traderepublic"
  BY DEF Order
<1>2. \A k \in 1 .. 3 : k = 1 \/ k = 2 \/ k = 3
  OBVIOUS
<1>3. \A k \in 1 .. 3 : /\ Order[k] = "oskar" <=> k = 1
                        /\ Order[k] = "scalable" <=> k = 2
                        /\ Order[k] = "traderepublic" <=> k = 3
  BY <1>1, <1>2
<1>4. 1 \in 1 .. 3 /\ 2 \in 1 .. 3 /\ 3 \in 1 .. 3
  OBVIOUS
<1>5. Place("oskar") = 1
  BY <1>1, <1>3, <1>4 DEF Place
<1>6. Place("scalable") = 2
  BY <1>1, <1>3, <1>4 DEF Place
<1>7. Place("traderepublic") = 3
  BY <1>1, <1>3, <1>4 DEF Place
<1> QED BY <1>1, <1>5, <1>6, <1>7

\* The run goes on to one of the brokers to read, or to the positions.
LEMMA NextBroker ==
    ASSUME NEW bs \in SUBSET Brokers, ReadNext(bs)
    PROVE  \/ /\ bs = {} /\ phase' = "compose"
              /\ fetched' = NoHoldings /\ missed' = FALSE
              /\ UNCHANGED <<account, broker, fstep, page, browser, sc, session, scrapeVars>>
           \/ /\ phase' = "fetch"
              /\ \E b \in bs : StartFetch(b)
<1>1. CASE bs = {}
  BY <1>1 DEF ReadNext
<1>2. CASE bs # {}
  <2> DEFINE k == CHOOSE k \in DOMAIN Order : Order[k] \in bs /\ \A b \in bs : k <= Place(b)
  <2>1. phase' = "fetch" /\ StartFetch(Order[k])
    BY <1>2 DEF ReadNext
  <2>2. \A b \in bs : b = "oskar" \/ b = "scalable" \/ b = "traderepublic"
    BY DEF Brokers
  <2>3. \E j \in 1 .. 3 : Order[j] \in bs /\ \A b \in bs : j <= Place(b)
    <3>1. CASE "oskar" \in bs
      <4>1. Order[1] \in bs /\ \A b \in bs : 1 <= Place(b)
        BY <2>2, <3>1, Places
      <4> QED BY <4>1
    <3>2. CASE "oskar" \notin bs /\ "scalable" \in bs
      <4>1. Order[2] \in bs /\ \A b \in bs : 2 <= Place(b)
        BY <2>2, <3>2, Places
      <4> QED BY <4>1
    <3>3. CASE "oskar" \notin bs /\ "scalable" \notin bs
      <4>1. Order[3] \in bs /\ \A b \in bs : 3 <= Place(b)
        BY <1>2, <2>2, <3>3, Places
      <4> QED BY <4>1
    <3> QED BY <3>1, <3>2, <3>3
  <2>4. Order[k] \in bs
    BY <2>3, Places
  <2> QED BY <2>1, <2>4
<1> QED BY <1>1, <1>2

LEMMA StartFetchTyped ==
    ASSUME FetchType, NEW b \in Brokers, StartFetch(b)
    PROVE  FetchType'
<1>1. fetched' = NoHoldings /\ broker' = b /\ seen' = Unseen /\ missed' = FALSE
      /\ account' = account /\ browser' = browser /\ session' = session
  BY DEF StartFetch
<1>2. fetched' \in Holdings /\ DOMAIN fetched' \subseteq Offered(broker')
  BY <1>1, NoHoldingsHoldings
<1> QED BY <1>1, <1>2, UnseenSeen DEF FetchType

LEMMA ReadNextTyped ==
    ASSUME FetchType, NEW bs \in SUBSET Brokers, ReadNext(bs)
    PROVE  FetchType' /\ phase' \in {"compose", "fetch"}
<1>1. CASE \E b \in bs : phase' = "fetch" /\ StartFetch(b)
  BY <1>1, StartFetchTyped
<1>2. CASE /\ phase' = "compose"
           /\ fetched' = NoHoldings /\ missed' = FALSE
           /\ UNCHANGED <<account, broker, fstep, page, browser, sc, session, scrapeVars>>
  BY <1>2, NoHoldingsHoldings DEF FetchType, scrapeVars
<1> QED BY <1>1, <1>2, NextBroker

LEMMA RaiseTyped ==
    ASSUME FetchType, Raise
    PROVE  FetchType'
BY NoHoldingsHoldings DEF FetchType, Raise, scrapeVars

LEMMA SnapshotTyped ==
    ASSUME FetchType, NEW s \in Snapshots, MergeSnapshot(s)
    PROVE  seen' \in [Offered("oskar") -> Texts]
<1>1. s \in [Offered("oskar") -> Texts]
  BY DEF Snapshots
<1>2. \A t, u \in Texts : Longer(t, u) \in Texts
  BY DEF Longer
<1> QED BY <1>1, <1>2 DEF MergeSnapshot, FetchType

LEMMA FetchTyped ==
    ASSUME FetchType, FetchNext
    PROVE  FetchType'
<1> USE DEF FetchType
<1>1. CASE OpenCockpit
  BY <1>1, RaiseTyped DEF OpenCockpit, Turn, scrapeVars
<1>2. CASE PageArrives
  BY <1>2 DEF PageArrives, Turn, scrapeVars
<1>3. CASE SignedIn
  BY <1>3 DEF SignedIn, Turn, scrapeVars
<1>4. CASE Submit
  BY <1>4 DEF Submit, Turn, scrapeVars
<1>5. CASE SignInFails
  BY <1>5, RaiseTyped DEF SignInFails
<1>6. CASE OpenAllocation
  BY <1>6, RaiseTyped DEF OpenAllocation, Turn, scrapeVars
<1>7. CASE Expand
  <2>1. seen' \in [Offered("oskar") -> Texts]
    BY <1>7, SnapshotTyped DEF Expand
  <2>2. missed' \in BOOLEAN
    BY <1>7 DEF Expand
  <2> QED BY <1>7, <2>1, <2>2 DEF Expand
<1>8. CASE Collect
  <2>1. seen' \in [Offered("oskar") -> Texts]
    BY <1>8, SnapshotTyped DEF Collect
  <2> DEFINE ids == {i \in Offered("oskar") : seen'[i] # "none"}
  <2>2. fetched' = [i \in ids |-> Amount(seen'[i])]
    BY <1>8 DEF Collect
  <2>3. \A i \in ids : Amount(seen'[i]) \in Figures
    BY DEF Amount, Figures, ScrapedValue
  <2>4. fetched' \in Holdings
    <3>1. ids \in SUBSET Ids
      BY OfferedIds DEF Brokers
    <3> QED BY <2>2, <2>3, <3>1 DEF Holdings
  <2>5. DOMAIN fetched' \subseteq Offered("oskar") /\ broker = "oskar" /\ broker' = broker
    BY <1>8, <2>2 DEF Collect, At
  <2> QED BY <1>8, <2>1, <2>4, <2>5 DEF Collect
<1>9. CASE StartDeviceLogin
  BY <1>9 DEF StartDeviceLogin, scrapeVars
<1>10. CASE DevicePage
  BY <1>10 DEF DevicePage, Turn, scrapeVars
<1>11. CASE DeviceForm
  BY <1>11, RaiseTyped DEF DeviceForm, Turn, scrapeVars
<1>12. CASE DeviceConfirm
  BY <1>12, RaiseTyped DEF DeviceConfirm, Turn, scrapeVars
<1>13. CASE ScEnds
  BY <1>13 DEF ScEnds, scrapeVars
<1>14. CASE DeviceTimesOut
  BY <1>14, RaiseTyped DEF DeviceTimesOut
<1>15. CASE DeviceDone
  BY <1>15 DEF DeviceDone, scrapeVars
<1>16. CASE ReadHoldings
  <2>1. CASE Raise
    BY <2>1, RaiseTyped
  <2>2. CASE /\ fetched' = Holding(account["scalable"] \ {"cash"})
             /\ UNCHANGED <<account, broker, page, browser, sc, session, scrapeVars, missed>>
    <3>1. broker = "scalable"
      BY <1>16 DEF ReadHoldings, At
    <3>2. account["scalable"] \subseteq Offered("scalable") /\ account["scalable"] \subseteq Ids
      BY OfferedIds DEF Brokers
    <3>3. fetched' \in Holdings /\ DOMAIN fetched' = account["scalable"] \ {"cash"}
      BY <2>2, <3>2, HoldingHoldings
    <3> QED BY <2>2, <3>1, <3>2, <3>3 DEF scrapeVars
  <2> QED BY <1>16, <2>1, <2>2 DEF ReadHoldings
<1>17. CASE ReadCash
  <2>1. CASE Raise
    BY <2>1, RaiseTyped
  <2>2. CASE /\ fetched' = Holding(account["scalable"]) /\ UNCHANGED missed
             /\ UNCHANGED <<account, broker, page, browser, sc, session, scrapeVars>>
    <3>1. broker = "scalable"
      BY <1>17 DEF ReadCash, At
    <3>2. account["scalable"] \subseteq Offered("scalable") /\ account["scalable"] \subseteq Ids
      BY OfferedIds DEF Brokers
    <3>3. fetched' \in Holdings /\ DOMAIN fetched' = account["scalable"]
      BY <2>2, <3>2, HoldingHoldings
    <3> QED BY <2>2, <3>1, <3>2, <3>3 DEF scrapeVars
  <2>3. CASE /\ missed' = TRUE
             /\ UNCHANGED <<account, broker, page, browser, sc, session, scrapeVars, fetched>>
    BY <2>3 DEF scrapeVars
  <2> QED BY <1>17, <2>1, <2>2, <2>3 DEF ReadCash
<1>18. CASE LogInTradeRepublic
  BY <1>18, RaiseTyped DEF LogInTradeRepublic, Turn, scrapeVars
<1>19. CASE ReadPortfolio
  <2>1. CASE Raise
    BY <2>1, RaiseTyped
  <2>2. CASE /\ fetched' = Holding(account["traderepublic"])
             /\ UNCHANGED <<account, broker, page, browser, sc, session, scrapeVars, missed>>
    <3>1. broker = "traderepublic"
      BY <1>19 DEF ReadPortfolio, At
    <3>2. /\ account["traderepublic"] \subseteq Offered("traderepublic")
          /\ account["traderepublic"] \subseteq Ids
      BY OfferedIds DEF Brokers
    <3>3. fetched' \in Holdings /\ DOMAIN fetched' = account["traderepublic"]
      BY <2>2, <3>2, HoldingHoldings
    <3> QED BY <2>2, <3>1, <3>2, <3>3 DEF scrapeVars
  <2> QED BY <1>19, <2>1, <2>2 DEF ReadPortfolio
<1>20. CASE CloseSession
  BY <1>20, UnseenSeen DEF CloseSession
<1> QED BY <1>1, <1>2, <1>3, <1>4, <1>5, <1>6, <1>7, <1>8, <1>9, <1>10, <1>11, <1>12, <1>13,
           <1>14, <1>15, <1>16, <1>17, <1>18, <1>19, <1>20 DEF FetchNext

-----------------------------------------------------------------------------
(* What each merge refreshes and removes.                                  *)

Hits(p, b, f) ==
    IF b = "oskar"
    THEN {c \in Firsts(p) \union {c \in CellsOf(p, "oskar") :
                                    RowAt(p, c).id = "overnight" /\ ~Hidden(p, f, c)} :
            RowAt(p, c).id \in DOMAIN f}
    ELSE {c \in CellsOf(p, b) : RowAt(p, c).id \in DOMAIN f}
Removed(p, b, f) ==
    IF b = "oskar"
    THEN {c \in Firsts(p) : RowAt(p, c).id \notin DOMAIN f} \union FirstNameless(p)
    ELSE CellsOf(p, b) \ Hits(p, b, f)

LEMMA MergePlan ==
    ASSUME NEW p \in Lists, NEW b \in Brokers, NEW f \in Holdings, DOMAIN f # {}
    PROVE  /\ MergeHoldings(p, b, f) = Merged(p, b, f, Hits(p, b, f), Removed(p, b, f))
           /\ Hits(p, b, f) \subseteq CellsOf(p, b)
           /\ Removed(p, b, f) \subseteq CellsOf(p, b)
           /\ Mergeable(p, b, f, Hits(p, b, f))
<1>1. MergeHoldings(p, b, f) = Merged(p, b, f, Hits(p, b, f), Removed(p, b, f))
  BY DEF MergeHoldings, OskarMerge, PlainMerge, Hits, Removed
<1>2. Hits(p, b, f) \subseteq CellsOf(p, b) /\ \A c \in Hits(p, b, f) : RowAt(p, c).id \in DOMAIN f
  BY DEF Hits, Firsts
<1>3. Removed(p, b, f) \subseteq CellsOf(p, b)
  BY DEF Removed, Firsts, FirstNameless, Nameless, CellsOf
<1>4. b \in Owners
  BY DEF Owners
<1>5. \A c \in CellsOf(p, b) : c \in Cells(p)
  BY DEF CellsOf
<1> QED BY <1>1, <1>2, <1>3, <1>4, <1>5 DEF Mergeable

LEMMA MergeTyped ==
    ASSUME RunType, FetchType, Merge
    PROVE  RunType' /\ FetchType'
<1>1. portfolio' \in Lists
  <2>1. portfolio' = MergeHoldings(portfolio, broker, fetched)
    BY DEF Merge
  <2>2. portfolio \in Lists /\ broker \in Brokers /\ fetched \in Holdings
    BY DEF RunType, FetchType
  <2>3. CASE DOMAIN fetched = {}
    BY <2>1, <2>2, <2>3 DEF MergeHoldings
  <2>4. CASE DOMAIN fetched # {}
    BY <2>1, <2>2, <2>4, MergePlan, MergedParts
  <2> QED BY <2>3, <2>4
<1>2. quotes' \in [Isins -> Quotes]
  BY DEF Merge, BrokerQuotes, RunType, Quotes, FreshQuote
<1>3. phase' \in {"estimate", "persist"}
  BY DEF Merge
<1>4. UNCHANGED <<fetchVars, stored, scrape, fetchPrices, pendingShares, pendingValues,
                  charted, charts, doubled>>
  BY DEF Merge
<1> QED BY <1>1, <1>2, <1>3, <1>4 DEF RunType, FetchType, fetchVars

-----------------------------------------------------------------------------
(* Building the positions.                                                 *)

LEMMA LeastOfSome ==
    ASSUME NEW T \in SUBSET Nat, T # {}
    PROVE  \E x \in T : \A y \in T : ~(y < x)
<1> DEFINE R == OpToRel(<, Nat)
<1>1. \A x, y \in Nat : y < x => <<y, x>> \in R
  BY DEF OpToRel
<1> HIDE DEF R
<1>2. \E x \in T : \A y \in T : ~(<<y, x>> \in R)
  BY NatLessThanWellFounded, WFMin DEF R
<1> QED BY <1>1, <1>2

LEMMA NextCellUnbuilt ==
    ASSUME RunType, Unbuilt # {}
    PROVE  /\ NextCell \in Unbuilt
           /\ NextCell \in Cells(portfolio)
           /\ NextCell[1] \in Buckets
           /\ NextCell[2] = Len(charted[NextCell[1]]) + 1
           /\ NextCell[2] \in 1 .. Len(portfolio[NextCell[1]])
           /\ RowAt(portfolio, NextCell) = portfolio[NextCell[1]][NextCell[2]]
           /\ RowAt(portfolio, NextCell) \in Rows
<1>1. \A c \in Unbuilt : /\ c \in Cells(portfolio) /\ c[1] \in Nat
                         /\ c[2] = Len(charted[c[1]]) + 1
                         /\ Len(charted[c[1]]) \in Nat
  <2> TAKE c \in Unbuilt
  <2>1. c \in Cells(portfolio) /\ c[2] = Len(charted[c[1]]) + 1
    BY DEF Unbuilt
  <2>2. c[1] \in Buckets
    BY <2>1, CellParts
  <2>3. Len(charted[c[1]]) \in Nat
    <3>1. charted[c[1]] \in Seq(Figures)
      BY <2>2 DEF RunType, Amounts
    <3> QED BY <3>1, LenProperties
  <2>4. c[1] \in Nat
    BY <2>2, UpdateAssumption DEF Buckets
  <2> QED BY <2>1, <2>3, <2>4
<1> DEFINE T == {c[1] : c \in Unbuilt}
<1>2. T \in SUBSET Nat /\ T # {}
  BY <1>1
<1>3. PICK x \in T : \A y \in T : ~(y < x)
  BY <1>2, LeastOfSome
<1>4. PICK c \in Unbuilt : c[1] = x
  BY <1>3
<1>5. \A d \in Unbuilt : ~Before(d, c)
  BY <1>1, <1>3, <1>4 DEF Before
<1>6. NextCell \in Unbuilt
  BY <1>4, <1>5 DEF NextCell
<1>7. NextCell \in Cells(portfolio) /\ NextCell[2] = Len(charted[NextCell[1]]) + 1
  BY <1>6 DEF Unbuilt
<1>8. portfolio \in Lists
  BY DEF RunType
<1> QED BY <1>6, <1>7, <1>8, CellParts, CellRow

LEMMA PriceQuote ==
    ASSUME RunType, NEW row \in Rows, NEW answer \in {NoFigure, FreshQuote}
    PROVE  Price(row, answer) \in Quotes
<1>1. answer \in Quotes /\ NoFigure \in Quotes
  BY DEF Quotes, FreshQuote
<1>2. row.id \in Isins => quotes[row.id] \in Quotes
  BY DEF RunType
<1> QED BY <1>1, <1>2 DEF Price

LEMMA HoldingsFigure ==
    ASSUME NEW row \in Rows, NEW price \in Quotes
    PROVE  /\ HoldingsValue(row, price) \in Figures
           /\ FromQuote(row, price) => HoldingsValue(row, price) \in Int
           /\ ValuePrevails(row) /\ price # NoFigure => SharesFor(row.value, price) \in Int
<1>1. row.value \in Figures /\ row.shares \in Figures
  BY DEF Rows
<1>2. ASSUME FromQuote(row, price) PROVE HoldingsValue(row, price) \in Int
  <2>1. row.shares \in Int /\ price \in Int
    BY <1>1, <1>2 DEF FromQuote, Figures, Quotes
  <2>2. \A x, y \in Int : x * y \in Int
    OBVIOUS
  <2> QED BY <1>2, <2>1, <2>2 DEF HoldingsValue
<1>3. HoldingsValue(row, price) \in Figures
  BY <1>1, <1>2 DEF HoldingsValue, Figures
<1>4. ASSUME ValuePrevails(row), price # NoFigure PROVE SharesFor(row.value, price) \in Int
  <2>1. row.value \in Int /\ price \in Nat \ {0}
    BY <1>1, <1>4 DEF ValuePrevails, Figures, Quotes
  <2>2. \A x \in Int, y \in Nat \ {0} : x \div y \in Int
    OBVIOUS
  <2> QED BY <2>1, <2>2 DEF SharesFor
<1> QED BY <1>2, <1>3, <1>4

LEMMA AssignShareQueue ==
    ASSUME NEW q \in ShareQueues, NEW cond \in BOOLEAN, NEW key \in Ids \X Figures, NEW x, cond => x \in Int
    PROVE  Assign(q, cond, key, x) \in ShareQueues
<1>1. CASE cond
  <2>1. PICK ks \in SUBSET (Ids \X Figures) : q \in [ks -> Int]
    BY DEF ShareQueues
  <2> DEFINE all == ks \union {key}
             r == Assign(q, cond, key, x)
  <2>2. r = [k \in all |-> IF k = key THEN x ELSE q[k]]
    BY <1>1, <2>1 DEF Assign
  <2>3. \A k \in all : (IF k = key THEN x ELSE q[k]) \in Int
    BY <1>1, <2>1
  <2>4. r \in [all -> Int] /\ all \in SUBSET (Ids \X Figures)
    BY <2>1, <2>2, <2>3
  <2> HIDE DEF r, all
  <2>5. r \in ShareQueues
    BY <2>4 DEF ShareQueues
  <2> QED BY <2>5 DEF r
<1>2. CASE ~cond
  BY <1>2 DEF Assign
<1> QED BY <1>1, <1>2

LEMMA AssignValueQueue ==
    ASSUME NEW q \in ValueQueues, NEW cond \in BOOLEAN, NEW key \in Ids \X Owners, NEW x, cond => x \in Int
    PROVE  Assign(q, cond, key, x) \in ValueQueues
<1>1. CASE cond
  <2>1. PICK ks \in SUBSET (Ids \X Owners) : q \in [ks -> Int]
    BY DEF ValueQueues
  <2> DEFINE all == ks \union {key}
             r == Assign(q, cond, key, x)
  <2>2. r = [k \in all |-> IF k = key THEN x ELSE q[k]]
    BY <1>1, <2>1 DEF Assign
  <2>3. \A k \in all : (IF k = key THEN x ELSE q[k]) \in Int
    BY <1>1, <2>1
  <2>4. r \in [all -> Int] /\ all \in SUBSET (Ids \X Owners)
    BY <2>1, <2>2, <2>3
  <2> HIDE DEF r, all
  <2>5. r \in ValueQueues
    BY <2>4 DEF ValueQueues
  <2> QED BY <2>5 DEF r
<1>2. CASE ~cond
  BY <1>2 DEF Assign
<1> QED BY <1>1, <1>2

\* One position: the next row is charted at the end of its bucket.
LEMMA BuildStep ==
    ASSUME RunType, Build
    PROVE  \E price \in Quotes :
             LET c == NextCell
                 row == RowAt(portfolio, c)
             IN  /\ charted' = [charted EXCEPT ![c[1]] = Append(charted[c[1]], HoldingsValue(row, price))]
                 /\ pendingValues' = Assign(pendingValues, Queued(row, price), Holder(row),
                                            HoldingsValue(row, price))
                 /\ pendingShares' = Assign(pendingShares, OskarShares(row, price),
                                            <<row.id, row.value>>, SharesFor(row.value, price))
                 /\ quotes' = IF row.id \in Isins /\ price # NoFigure
                              THEN [quotes EXCEPT ![row.id] = price] ELSE quotes
<1>1. Unbuilt # {}
  BY DEF Build
<1>2. RowAt(portfolio, NextCell) \in Rows
  BY <1>1, NextCellUnbuilt
<1>3. PICK answer \in {NoFigure, FreshQuote} :
        LET c == NextCell
            row == RowAt(portfolio, c)
            price == Price(row, answer)
        IN  /\ charted' = [charted EXCEPT ![c[1]] = Append(@, HoldingsValue(row, price))]
            /\ pendingValues' = Assign(pendingValues, Queued(row, price), Holder(row),
                                       HoldingsValue(row, price))
            /\ pendingShares' = Assign(pendingShares, OskarShares(row, price),
                                       <<row.id, row.value>>, SharesFor(row.value, price))
            /\ quotes' = IF row.id \in Isins /\ price # NoFigure
                         THEN [quotes EXCEPT ![row.id] = price] ELSE quotes
  BY DEF Build
<1>4. Price(RowAt(portfolio, NextCell), answer) \in Quotes
  BY <1>2, PriceQuote
<1> QED BY <1>3, <1>4

LEMMA BuildTyped ==
    ASSUME RunType, FetchType, Build
    PROVE  RunType' /\ FetchType'
<1>1. Unbuilt # {}
  BY DEF Build
<1> DEFINE c == NextCell
           row == RowAt(portfolio, c)
<1>2. row \in Rows /\ c[1] \in Buckets
  BY <1>1, NextCellUnbuilt
<1>3. PICK price \in Quotes :
        /\ charted' = [charted EXCEPT ![c[1]] = Append(charted[c[1]], HoldingsValue(row, price))]
        /\ pendingValues' = Assign(pendingValues, Queued(row, price), Holder(row),
                                   HoldingsValue(row, price))
        /\ pendingShares' = Assign(pendingShares, OskarShares(row, price),
                                   <<row.id, row.value>>, SharesFor(row.value, price))
        /\ quotes' = IF row.id \in Isins /\ price # NoFigure
                     THEN [quotes EXCEPT ![row.id] = price] ELSE quotes
  BY BuildStep
<1> HIDE DEF c, row
<1>4. HoldingsValue(row, price) \in Figures
  BY <1>2, HoldingsFigure
<1>5. charted' \in Amounts
  <2>1. charted \in [Buckets -> Seq(Figures)]
    BY DEF RunType, Amounts
  <2>2. Append(charted[c[1]], HoldingsValue(row, price)) \in Seq(Figures)
    BY <1>2, <1>4, <2>1, AppendProperties
  <2> QED BY <1>2, <1>3, <2>1, <2>2 DEF Amounts
<1>6. pendingValues' \in ValueQueues
  <2>1. Holder(row) \in Ids \X Owners
    BY <1>2 DEF Holder, Rows
  <2>2. Queued(row, price) => HoldingsValue(row, price) \in Int
    BY <1>2, HoldingsFigure DEF Queued
  <2>3. Queued(row, price) \in BOOLEAN
    BY DEF Queued, RunType
  <2>4. pendingValues \in ValueQueues
    BY DEF RunType
  <2> QED BY <1>3, <2>1, <2>2, <2>3, <2>4, AssignValueQueue
<1>7. pendingShares' \in ShareQueues
  <2>1. <<row.id, row.value>> \in Ids \X Figures
    BY <1>2 DEF Rows
  <2>2. OskarShares(row, price) => SharesFor(row.value, price) \in Int
    BY <1>2, HoldingsFigure DEF OskarShares
  <2>3. OskarShares(row, price) \in BOOLEAN
    BY DEF OskarShares, ValuePrevails
  <2>4. pendingShares \in ShareQueues
    BY DEF RunType
  <2> QED BY <1>3, <2>1, <2>2, <2>3, <2>4, AssignShareQueue
<1>8. quotes' \in [Isins -> Quotes]
  BY <1>3 DEF RunType
<1>9. UNCHANGED <<fetchVars, stored, scrape, fetchPrices, phase, portfolio, charts, doubled>>
  BY DEF Build
<1> QED BY <1>5, <1>6, <1>7, <1>8, <1>9 DEF RunType, FetchType, fetchVars

-----------------------------------------------------------------------------
(* Writing what was queued.                                                *)

LEMMA WithSharesRows ==
    ASSUME NEW p \in Lists, NEW q \in ShareQueues
    PROVE  /\ WithShares(p, q) \in Lists
           /\ Cells(WithShares(p, q)) = Cells(p)
           /\ \A b \in Buckets : Len(WithShares(p, q)[b]) = Len(p[b])
           /\ \A c \in Cells(p) : /\ RowAt(WithShares(p, q), c).id = RowAt(p, c).id
                                  /\ RowAt(WithShares(p, q), c).broker = RowAt(p, c).broker
                                  /\ RowAt(WithShares(p, q), c).value = RowAt(p, c).value
<1> DEFINE Given(c) == RowAt(p, c).broker = "oskar"
                       /\ <<RowAt(p, c).id, RowAt(p, c).value>> \in DOMAIN q
           g == [c \in Cells(p) |->
                   IF Given(c)
                   THEN [RowAt(p, c) EXCEPT !.shares = q[<<RowAt(p, c).id, RowAt(p, c).value>>]]
                   ELSE RowAt(p, c)]
<1>1. ASSUME NEW c \in Cells(p)
      PROVE  /\ g[c] \in Rows
             /\ g[c].id = RowAt(p, c).id /\ g[c].broker = RowAt(p, c).broker
             /\ g[c].value = RowAt(p, c).value
  <2>1. RowAt(p, c) \in Rows
    BY CellRow
  <2>2. CASE Given(c)
    <3>1. q[<<RowAt(p, c).id, RowAt(p, c).value>>] \in Figures
      BY <2>2 DEF ShareQueues, Figures
    <3> QED BY <2>1, <2>2, <3>1 DEF Rows
  <2>3. CASE ~Given(c)
    BY <2>1, <2>3
  <2> QED BY <2>2, <2>3
<1>2. WithShares(p, q) = Mapped(p, g)
  BY DEF WithShares
<1> HIDE DEF g
<1> QED BY <1>1, <1>2, MappedCells

LEMMA WithValuesRows ==
    ASSUME NEW p \in Lists, NEW q \in ValueQueues
    PROVE  /\ WithValues(p, q) \in Lists
           /\ Cells(WithValues(p, q)) = Cells(p)
           /\ \A b \in Buckets : Len(WithValues(p, q)[b]) = Len(p[b])
           /\ \A c \in Cells(p) :
                /\ RowAt(WithValues(p, q), c).id = RowAt(p, c).id
                /\ RowAt(WithValues(p, q), c).broker = RowAt(p, c).broker
                /\ RowAt(WithValues(p, q), c).value =
                     IF Holder(RowAt(p, c)) \in DOMAIN q THEN q[Holder(RowAt(p, c))]
                     ELSE RowAt(p, c).value
                /\ Holder(RowAt(p, c)) \notin DOMAIN q => RowAt(WithValues(p, q), c) = RowAt(p, c)
<1> DEFINE Given(c) == Holder(RowAt(p, c)) \in DOMAIN q
           g == [c \in Cells(p) |->
                   IF Given(c) THEN [RowAt(p, c) EXCEPT !.value = q[Holder(RowAt(p, c))]]
                   ELSE RowAt(p, c)]
<1>1. ASSUME NEW c \in Cells(p)
      PROVE  /\ g[c] \in Rows
             /\ g[c].id = RowAt(p, c).id /\ g[c].broker = RowAt(p, c).broker
             /\ g[c].value = IF Given(c) THEN q[Holder(RowAt(p, c))] ELSE RowAt(p, c).value
             /\ ~Given(c) => g[c] = RowAt(p, c)
  <2>1. RowAt(p, c) \in Rows
    BY CellRow
  <2>2. CASE Given(c)
    <3>1. q[Holder(RowAt(p, c))] \in Figures
      BY <2>2 DEF ValueQueues, Figures
    <3> QED BY <2>1, <2>2, <3>1 DEF Rows
  <2>3. CASE ~Given(c)
    BY <2>1, <2>3
  <2> QED BY <2>2, <2>3
<1>2. WithValues(p, q) = Mapped(p, g)
  BY DEF WithValues
<1> HIDE DEF g
<1> QED BY <1>1, <1>2, MappedCells

LEMMA EstimateRows ==
    ASSUME RunType, Estimate
    PROVE  /\ portfolio' \in Lists
           /\ Cells(portfolio') = Cells(portfolio)
           /\ \A c \in Cells(portfolio) :
                /\ RowAt(portfolio', c).id = RowAt(portfolio, c).id
                /\ RowAt(portfolio', c).broker = RowAt(portfolio, c).broker
                /\ RowAt(portfolio', c).value = RowAt(portfolio, c).value
           /\ quotes' \in [Isins -> Quotes]
<1>1. PICK answered \in SUBSET Isins :
        LET priced == {c \in CellsOf(portfolio, "oskar") :
                         /\ ~fetchPrices
                         /\ RowAt(portfolio, c).id \in answered
                         /\ RowAt(portfolio, c).value # NoFigure}
            ids == {RowAt(portfolio, c).id : c \in priced}
        IN  /\ portfolio' = Mapped(portfolio, [c \in Cells(portfolio) |->
                   IF c \in priced
                   THEN [RowAt(portfolio, c) EXCEPT
                           !.shares = SharesFor(RowAt(portfolio, c).value, FreshQuote)]
                   ELSE RowAt(portfolio, c)])
            /\ quotes' = [i \in Isins |-> IF i \in ids THEN FreshQuote ELSE quotes[i]]
  BY DEF Estimate
<1> DEFINE priced == {c \in CellsOf(portfolio, "oskar") :
                        /\ ~fetchPrices
                        /\ RowAt(portfolio, c).id \in answered
                        /\ RowAt(portfolio, c).value # NoFigure}
           g == [c \in Cells(portfolio) |->
                   IF c \in priced
                   THEN [RowAt(portfolio, c) EXCEPT
                           !.shares = SharesFor(RowAt(portfolio, c).value, FreshQuote)]
                   ELSE RowAt(portfolio, c)]
<1>2. portfolio \in Lists
  BY DEF RunType
<1>3. ASSUME NEW c \in Cells(portfolio)
      PROVE  /\ g[c] \in Rows
             /\ g[c].id = RowAt(portfolio, c).id /\ g[c].broker = RowAt(portfolio, c).broker
             /\ g[c].value = RowAt(portfolio, c).value
  <2>1. RowAt(portfolio, c) \in Rows
    BY <1>2, CellRow
  <2>2. CASE c \in priced
    <3>1. RowAt(portfolio, c).value \in Int
      BY <2>1, <2>2 DEF Rows, Figures
    <3>2. \A x \in Int : x \div 2 \in Int
      OBVIOUS
    <3>3. SharesFor(RowAt(portfolio, c).value, FreshQuote) \in Figures
      BY <3>1, <3>2 DEF SharesFor, FreshQuote, Figures
    <3> HIDE DEF priced
    <3> QED BY <2>1, <2>2, <3>3 DEF Rows
  <2>3. CASE c \notin priced
    <3> HIDE DEF priced
    <3> QED BY <2>1, <2>3
  <2> QED BY <2>2, <2>3
<1>4. portfolio' = Mapped(portfolio, g)
  BY <1>1
<1>5. quotes' \in [Isins -> Quotes]
  BY <1>1 DEF RunType, Quotes, FreshQuote
<1> HIDE DEF g
<1> QED BY <1>2, <1>3, <1>4, <1>5, MappedCells

LEMMA EmptyLists ==
    /\ Empty \in Lists /\ Empty \in Amounts
    /\ \A b \in Buckets : Len(Empty[b]) = 0
    /\ NoQueue \in ShareQueues /\ NoQueue \in ValueQueues /\ DOMAIN NoQueue = {}
<1>1. Empty \in Lists /\ Empty \in Amounts /\ \A b \in Buckets : Len(Empty[b]) = 0
  BY EmptySeq DEF Empty, Lists, Amounts
<1>2. NoQueue \in [{} -> Int] /\ DOMAIN NoQueue = {}
  BY DEF NoQueue
<1> QED BY <1>1, <1>2 DEF ShareQueues, ValueQueues

LEMMA InitTyping ==
    ASSUME Init
    PROVE  Typing
<1>1. FetchType
  <2>1. account \in [Brokers -> SUBSET Ids] /\ \A b \in Brokers : account[b] \subseteq Offered(b)
    BY DEF Init, FetchInit, Ids, Names
  <2>2. /\ broker \in Brokers /\ session \in BOOLEAN /\ browser \in BOOLEAN /\ missed \in BOOLEAN
        /\ seen = Unseen /\ fetched = NoHoldings
    BY DEF Init, FetchInit, Brokers
  <2> QED BY <2>1, <2>2, UnseenSeen, NoHoldingsHoldings DEF FetchType
<1>2. stored \in Lists /\ scrape \subseteq Brokers /\ quotes \in [Isins -> Quotes]
  BY UpdateAssumption DEF Init, Quotes
<1>3. RunType
  BY <1>2, EmptyLists DEF Init, RunType
<1> QED BY <1>1, <1>3 DEF Typing

\* The state the steps of the run other than the reading leave alone.
LEMMA FetchTypeKept ==
    ASSUME FetchType, UNCHANGED fetchVars
    PROVE  FetchType'
BY DEF FetchType, fetchVars

LEMMA TypingStep ==
    ASSUME Typing, [Next]_vars
    PROVE  Typing'
<1>0. FetchType /\ RunType
  BY DEF Typing
<1> USE <1>0
<1>1. CASE Fetch
  <2>1. FetchType'
    BY <1>1, FetchTyped DEF Fetch
  <2>2. RunType'
    BY <1>1 DEF Fetch, runVars, RunType
  <2> QED BY <2>1, <2>2 DEF Typing
<1>2. CASE Load
  <2>1. FetchType' /\ phase' \in {"compose", "fetch"}
    <3>1. scrape \in SUBSET Brokers /\ ReadNext(scrape)
      BY <1>2 DEF Load, RunType
    <3> QED BY <3>1, ReadNextTyped
  <2>2. doubled' \in BOOLEAN
    BY <1>2 DEF Load
  <2>3. RunType'
    BY <1>2, <2>1, <2>2 DEF Load, RunType
  <2> QED BY <2>1, <2>3 DEF Typing
<1>3. CASE Merge
  BY <1>3, MergeTyped DEF Typing
<1>4. CASE Estimate
  <2>1. RunType'
    BY <1>4, EstimateRows DEF Estimate, RunType
  <2> QED BY <1>4, <2>1, FetchTypeKept DEF Estimate, Typing
<1>5. CASE Persist
  <2>1. FetchType' /\ phase' \in {"compose", "fetch"}
    <3>1. ReadNext({b \in scrape : Place(b) > Place(broker)})
      BY <1>5 DEF Persist
    <3>2. {b \in scrape : Place(b) > Place(broker)} \in SUBSET Brokers
      BY DEF RunType
    <3> QED BY <3>1, <3>2, ReadNextTyped
  <2>2. RunType'
    BY <1>5, <2>1 DEF Persist, RunType
  <2> QED BY <2>1, <2>2 DEF Typing
<1>6. CASE Build
  BY <1>6, BuildTyped DEF Typing
<1>7. CASE Composed
  BY <1>7, FetchTypeKept DEF Composed, RunType, Typing
<1>8. CASE PersistShares
  <2>1. portfolio' \in Lists /\ stored' \in Lists
    BY <1>8, WithSharesRows DEF PersistShares, RunType
  <2>2. RunType'
    BY <1>8, <2>1, EmptyLists DEF PersistShares, RunType
  <2> QED BY <1>8, <2>2, FetchTypeKept DEF PersistShares, Typing
<1>9. CASE PersistValues
  <2>1. portfolio' \in Lists /\ stored' \in Lists
    BY <1>9, WithValuesRows DEF PersistValues, RunType
  <2>2. RunType'
    BY <1>9, <2>1, EmptyLists DEF PersistValues, RunType
  <2> QED BY <1>9, <2>2, FetchTypeKept DEF PersistValues, Typing
<1>10. CASE Plot
  BY <1>10, FetchTypeKept DEF Plot, RunType, Typing
<1>11. CASE Die
  BY <1>11, FetchTypeKept DEF Die, RunType, Typing
<1>12. CASE UNCHANGED vars
  <2>1. UNCHANGED fetchVars /\ UNCHANGED runVars
    BY <1>12 DEF vars
  <2> QED BY <2>1, FetchTypeKept DEF runVars, RunType, Typing
<1> QED BY <1>1, <1>2, <1>3, <1>4, <1>5, <1>6, <1>7, <1>8, <1>9, <1>10, <1>11, <1>12
        DEF Next, Advance, FetchFails, ComposeFails, Cancel, Ended

-----------------------------------------------------------------------------
(* Reading.                                                                *)

\* A broker is begun with nothing seen and nothing missed.
LEMMA StartFetchReading ==
    ASSUME NEW b \in Brokers, StartFetch(b)
    PROVE  /\ ~missed' /\ fstep' \in {"open", "login"}
           /\ seen' = Unseen /\ todo' = Offered("oskar")
           /\ broker' = b /\ UNCHANGED <<account, browser, session>>
BY DEF StartFetch

LEMMA ReadNextReading ==
    ASSUME NEW bs \in SUBSET Brokers, ReadNext(bs), ~session, ~browser
    PROVE  Reading'
<1>1. CASE phase' = "fetch" /\ \E b \in bs : StartFetch(b)
  <2>1. /\ ~missed' /\ fstep' \in {"open", "login"}
        /\ seen' = Unseen /\ todo' = Offered("oskar")
        /\ UNCHANGED <<account, browser, session>>
    BY <1>1, StartFetchReading
  <2>2. SessionsClosed' /\ ExactReading'
    BY <2>1 DEF SessionsClosed, ExactReading
  <2>3. \A i \in Offered("oskar") : seen'[i] = "none" /\ i \in todo'
    BY <2>1 DEF Unseen
  <2>4. SeenSoFar'
    BY <2>3 DEF SeenSoFar, Offered
  <2> QED BY <2>2, <2>4 DEF Reading
<1>2. CASE /\ phase' = "compose"
           /\ fetched' = NoHoldings /\ missed' = FALSE
           /\ UNCHANGED <<account, broker, fstep, page, browser, sc, session, scrapeVars>>
  BY <1>2 DEF Reading, SessionsClosed, SeenSoFar, ExactReading
<1> QED BY <1>1, <1>2, NextBroker

LEMMA RaiseReading ==
    ASSUME Reading, phase = "fetch", UNCHANGED phase, Raise
    PROVE  Reading'
BY DEF Raise, Reading, SessionsClosed, SeenSoFar, ExactReading

\* A page that moves on: nothing is read and the reading is not over.
LEMMA TurnReading ==
    ASSUME Reading, phase = "fetch", UNCHANGED phase, NEW s,
           s \notin {"read", "fetched", "failed"}, Turn(s),
           broker = "oskar" /\ s \in {"open", "signin", "allocation", "expand"} =>
             fstep \in {"open", "signin", "allocation", "expand"}
    PROVE  Reading'
<1>1. UNCHANGED <<account, broker, todo, seen, missed, fetched>> /\ fstep' = s
  BY DEF Turn, scrapeVars
<1>2. SessionsClosed' /\ ExactReading'
  BY <1>1 DEF SessionsClosed, ExactReading
<1>3. SeenSoFar'
  BY <1>1 DEF SeenSoFar, Reading, Offered
<1> QED BY <1>2, <1>3 DEF Reading

LEMMA LongerSeen ==
    ASSUME NEW t \in Texts, NEW u \in Texts
    PROVE  Longer(t, u) = "none" <=> t = "none" /\ u = "none"
BY DEF Longer, Texts

\* A snapshot adds the held rows that are open to what was seen.
LEMMA SnapshotSeen ==
    ASSUME FetchType, NEW s \in Snapshots, MergeSnapshot(s), NEW i \in Offered("oskar")
    PROVE  seen'[i] # "none" <=> seen[i] # "none" \/ (i \in opened' /\ i \in account["oskar"])
<1>1. s[i] \in Texts /\ (s[i] # "none" <=> i \in opened' /\ i \in account["oskar"])
  BY DEF Snapshots
<1>2. seen[i] \in Texts
  BY DEF FetchType
<1>3. seen'[i] = Longer(seen[i], s[i])
  BY DEF MergeSnapshot
<1> QED BY <1>1, <1>2, <1>3, LongerSeen

LEMMA FetchReading ==
    ASSUME FetchType, Reading, Fetch
    PROVE  Reading'
<1>0. phase = "fetch" /\ UNCHANGED phase /\ FetchNext
  BY DEF Fetch, runVars
<1> USE <1>0
<1>1. CASE OpenCockpit
  BY <1>1, RaiseReading, TurnReading DEF OpenCockpit, At
<1>2. CASE PageArrives
  BY <1>2, TurnReading DEF PageArrives, At
<1>3. CASE SignedIn
  BY <1>3, TurnReading DEF SignedIn, At
<1>4. CASE Submit
  BY <1>4, TurnReading DEF Submit, At
<1>5. CASE SignInFails
  BY <1>5, RaiseReading DEF SignInFails
<1>6. CASE OpenAllocation
  BY <1>6, RaiseReading, TurnReading DEF OpenAllocation, At
<1>7. CASE Expand
  <2>1. fstep = "expand" /\ broker = "oskar" /\ UNCHANGED <<account, broker, fstep>>
    BY <1>7 DEF Expand, At
  <2>2. SessionsClosed' /\ ExactReading'
    BY <2>1 DEF SessionsClosed, ExactReading
  <2>3. PICK i : /\ todo' = todo \ {i}
                 /\ \/ /\ Opens(i)
                       /\ \E s \in Snapshots : MergeSnapshot(s)
                       /\ UNCHANGED missed
                    \/ /\ UNCHANGED opened
                       /\ \E s \in Snapshots : MergeSnapshot(s)
                       /\ missed' = TRUE
                    \/ missed' = TRUE /\ UNCHANGED <<opened, seen>>
    BY <1>7, Zenon DEF Expand
  <2>4. ASSUME NEW j \in Offered("oskar")
        PROVE  /\ seen'[j] # "none" => j \in account["oskar"]
               /\ ~missed' /\ j \in account["oskar"] /\ j \notin todo' => seen'[j] # "none"
    <3>1. /\ seen[j] # "none" => j \in account["oskar"]
          /\ ~missed /\ j \in account["oskar"] /\ j \notin todo => seen[j] # "none"
      BY <2>1 DEF Reading, SeenSoFar
    <3>2. CASE Opens(i) /\ (\E s \in Snapshots : MergeSnapshot(s)) /\ UNCHANGED missed
      <4>1. i \in opened'
        BY <3>2 DEF Opens
      <4>2. seen'[j] # "none" <=> seen[j] # "none" \/ (j \in opened' /\ j \in account["oskar"])
        BY <3>2, SnapshotSeen
      <4> QED BY <2>3, <3>1, <3>2, <4>1, <4>2
    <3>3. CASE (\E s \in Snapshots : MergeSnapshot(s)) /\ missed' = TRUE
      <4>1. seen'[j] # "none" <=> seen[j] # "none" \/ (j \in opened' /\ j \in account["oskar"])
        BY <3>3, SnapshotSeen
      <4> QED BY <3>1, <3>3, <4>1
    <3>4. CASE missed' = TRUE /\ UNCHANGED <<opened, seen>>
      BY <3>1, <3>4
    <3> QED BY <2>3, <3>2, <3>3, <3>4
  <2>5. SeenSoFar'
    BY <2>1, <2>4 DEF SeenSoFar, Offered
  <2> QED BY <2>2, <2>5 DEF Reading
<1>8. CASE Collect
  <2>1. /\ fstep = "expand" /\ broker = "oskar" /\ todo = {}
        /\ fstep' = "read" /\ UNCHANGED <<account, broker, missed>>
        /\ fetched' = [i \in {i \in Offered("oskar") : seen'[i] # "none"} |-> Amount(seen'[i])]
        /\ \E s \in Snapshots : MergeSnapshot(s)
    BY <1>8 DEF Collect, At
  <2>2. ASSUME ~missed, NEW i \in Offered("oskar")
        PROVE  seen'[i] # "none" <=> i \in account["oskar"]
    <3>1. seen[i] # "none" <=> i \in account["oskar"]
      BY <2>1, <2>2 DEF Reading, SeenSoFar
    <3>2. seen'[i] # "none" <=> seen[i] # "none" \/ (i \in opened' /\ i \in account["oskar"])
      BY <2>1, SnapshotSeen
    <3> QED BY <3>1, <3>2
  <2>3. account["oskar"] \subseteq Offered("oskar")
    BY DEF FetchType, Brokers
  <2>4. DOMAIN fetched' = {i \in Offered("oskar") : seen'[i] # "none"}
    BY <2>1
  <2>5. ~missed => DOMAIN fetched' = account["oskar"]
    BY <2>2, <2>3, <2>4
  <2>6. ExactReading'
    BY <2>1, <2>5 DEF ExactReading
  <2> QED BY <2>1, <2>6 DEF Reading, SessionsClosed, SeenSoFar
<1>9. CASE StartDeviceLogin
  BY <1>9 DEF StartDeviceLogin, At, Reading, SessionsClosed, SeenSoFar, ExactReading
<1>10. CASE DevicePage
  BY <1>10, TurnReading DEF DevicePage, At
<1>11. CASE DeviceForm
  BY <1>11, RaiseReading, TurnReading DEF DeviceForm, At
<1>12. CASE DeviceConfirm
  BY <1>12, RaiseReading, TurnReading DEF DeviceConfirm, At
<1>13. CASE ScEnds
  <2>1. UNCHANGED <<account, broker, fstep, browser, session, todo, seen, missed, fetched>>
    BY <1>13 DEF ScEnds, scrapeVars
  <2> QED BY <2>1 DEF Reading, SessionsClosed, SeenSoFar, ExactReading, Offered
<1>14. CASE DeviceTimesOut
  BY <1>14, RaiseReading DEF DeviceTimesOut
<1>15. CASE DeviceDone
  BY <1>15 DEF DeviceDone, At, Reading, SessionsClosed, SeenSoFar, ExactReading
<1>16. CASE ReadHoldings
  <2>1. CASE Raise
    BY <2>1, RaiseReading
  <2>2. CASE /\ fstep' = "cash"
             /\ UNCHANGED <<account, broker, page, browser, sc, session, scrapeVars, missed>>
    BY <2>2 DEF Reading, SessionsClosed, SeenSoFar, ExactReading
  <2> QED BY <1>16, <2>1, <2>2 DEF ReadHoldings
<1>17. CASE ReadCash
  <2>0. broker = "scalable" /\ account["scalable"] \in SUBSET Ids
    BY <1>17 DEF ReadCash, At, FetchType, Brokers
  <2>1. CASE Raise
    BY <2>1, RaiseReading
  <2>2. CASE /\ fetched' = Holding(account["scalable"])
             /\ fstep' = "read"
             /\ UNCHANGED <<account, broker, page, browser, sc, session, scrapeVars>>
    BY <2>0, <2>2, HoldingHoldings DEF Reading, SessionsClosed, SeenSoFar, ExactReading
  <2>3. CASE /\ fstep' = "read"
             /\ missed' = TRUE
    BY <2>3 DEF Reading, SessionsClosed, SeenSoFar, ExactReading
  <2> QED BY <1>17, <2>1, <2>2, <2>3 DEF ReadCash
<1>18. CASE LogInTradeRepublic
  BY <1>18, RaiseReading, TurnReading DEF LogInTradeRepublic, At
<1>19. CASE ReadPortfolio
  <2>0. broker = "traderepublic" /\ account["traderepublic"] \in SUBSET Ids
    BY <1>19 DEF ReadPortfolio, At, FetchType, Brokers
  <2>1. CASE Raise
    BY <2>1, RaiseReading
  <2>2. CASE /\ fetched' = Holding(account["traderepublic"])
             /\ fstep' = "read"
             /\ UNCHANGED <<account, broker, page, browser, sc, session, scrapeVars, missed>>
    BY <2>0, <2>2, HoldingHoldings DEF Reading, SessionsClosed, SeenSoFar, ExactReading
  <2> QED BY <1>19, <2>1, <2>2 DEF ReadPortfolio
<1>20. CASE CloseSession
  <2>1. /\ fstep \in {"read", "raised"}
        /\ fstep' = IF fstep = "read" THEN "fetched" ELSE "failed"
        /\ browser' = FALSE /\ session' = FALSE
        /\ UNCHANGED <<account, broker, missed, fetched>>
    BY <1>20 DEF CloseSession
  <2> QED BY <2>1 DEF Reading, SessionsClosed, SeenSoFar, ExactReading
<1> QED BY <1>1, <1>2, <1>3, <1>4, <1>5, <1>6, <1>7, <1>8, <1>9, <1>10, <1>11, <1>12, <1>13,
           <1>14, <1>15, <1>16, <1>17, <1>18, <1>19, <1>20 DEF FetchNext

LEMMA ReadingStep ==
    ASSUME Typing, Reading, [Next]_vars
    PROVE  Reading'
<1>0. FetchType /\ RunType
  BY DEF Typing
<1>1. CASE Fetch
  BY <1>0, <1>1, FetchReading
<1>2. CASE Load
  <2>1. ~session /\ ~browser
    BY <1>2 DEF Load, Reading, SessionsClosed
  <2>2. scrape \in SUBSET Brokers /\ ReadNext(scrape)
    BY <1>0, <1>2 DEF Load, RunType
  <2> QED BY <2>1, <2>2, ReadNextReading
<1>3. CASE Merge
  BY <1>3 DEF Merge, Reading, SessionsClosed, SeenSoFar, ExactReading, fetchVars
<1>4. CASE Estimate
  BY <1>4 DEF Estimate, Reading, SessionsClosed, SeenSoFar, ExactReading, fetchVars
<1>5. CASE Persist
  <2>1. ~session /\ ~browser
    BY <1>5 DEF Persist, Reading, SessionsClosed
  <2>2. ReadNext({b \in scrape : Place(b) > Place(broker)})
    BY <1>5 DEF Persist
  <2>3. {b \in scrape : Place(b) > Place(broker)} \in SUBSET Brokers
    BY <1>0 DEF RunType
  <2> QED BY <2>1, <2>2, <2>3, ReadNextReading
<1>6. CASE Build \/ Composed \/ PersistShares \/ PersistValues \/ Plot
  <2>1. UNCHANGED fetchVars /\ phase # "fetch"
        /\ phase' \in {"compose", "shares", "values", "plot", "done"}
    BY <1>6 DEF Build, Composed, PersistShares, PersistValues, Plot
  <2> QED BY <2>1 DEF Reading, SessionsClosed, SeenSoFar, ExactReading, fetchVars
<1>7. CASE FetchFails
  BY <1>7 DEF FetchFails, Die, Reading, SessionsClosed, SeenSoFar, ExactReading, fetchVars
<1>8. CASE ComposeFails \/ Cancel
  <2>1. phase = "compose" /\ phase' = "dead" /\ UNCHANGED fetchVars
    BY <1>8 DEF ComposeFails, Cancel, Die
  <2> QED BY <2>1 DEF Reading, SessionsClosed, SeenSoFar, ExactReading, fetchVars
<1>9. CASE UNCHANGED vars
  <2>1. UNCHANGED fetchVars /\ UNCHANGED phase
    BY <1>9 DEF vars, runVars
  <2> QED BY <2>1 DEF Reading, SessionsClosed, SeenSoFar, ExactReading, fetchVars, Offered
<1> QED BY <1>1, <1>2, <1>3, <1>4, <1>5, <1>6, <1>7, <1>8, <1>9 DEF Next, Advance, Ended

-----------------------------------------------------------------------------
(* Merging.                                                                *)

LEMMA BeforeIsStrict ==
    ASSUME NEW p \in Lists, NEW c \in Cells(p)
    PROVE  ~Before(c, c)
<1>1. c[1] \in Buckets /\ c[2] \in 1 .. Len(p[c[1]])
  BY CellParts
<1>2. c[1] \in Nat /\ c[2] \in Nat
  BY <1>1, ListsParts, UpdateAssumption DEF Buckets
<1> QED BY <1>2 DEF Before

\* What is refreshed is not removed.
LEMMA HitsStay ==
    ASSUME NEW p, NEW b, NEW f, NEW c \in Hits(p, b, f)
    PROVE  c \notin Removed(p, b, f)
<1>1. CASE b = "oskar"
  <2>1. RowAt(p, c).id \in DOMAIN f /\ RowAt(p, c).id \in Isins \union {"overnight"}
    BY <1>1 DEF Hits, Firsts
  <2> QED BY <1>1, <2>1 DEF Removed, FirstNameless, Nameless
<1>2. CASE b # "oskar"
  BY <1>2 DEF Removed
<1> QED BY <1>1, <1>2

\* A row of a broker without duplicates is refreshed or removed, OSKAR's
\* Tagesgeld aside.
LEMMA RefreshedOrRemoved ==
    ASSUME NEW p \in Lists, NEW b \in Brokers, NEW f, Distinct(p, b),
           NEW c \in CellsOf(p, b), c \notin Removed(p, b, f),
           b = "oskar" => RowAt(p, c).id # "overnight"
    PROVE  c \in Hits(p, b, f)
<1>1. CASE b # "oskar"
  BY <1>1 DEF Removed
<1>2. CASE b = "oskar"
  <2>1. c \in Cells(p) /\ RowAt(p, c).broker = "oskar"
    BY <1>2 DEF CellsOf
  <2>2. ~Before(c, c)
    BY <2>1, BeforeIsStrict
  <2>3. CASE RowAt(p, c).id \in Isins
    <3>1. ASSUME NEW d \in CellsOf(p, "oskar"), Before(d, c) PROVE RowAt(p, d).id # RowAt(p, c).id
      <4>1. ASSUME RowAt(p, d).id = RowAt(p, c).id PROVE FALSE
        <5>1. Alike(RowAt(p, d), RowAt(p, c))
          BY <2>1, <3>1, <4>1 DEF Alike, CellsOf
        <5>2. d = c
          BY <1>2, <3>1, <5>1 DEF Distinct
        <5> QED BY <2>2, <3>1, <5>2
      <4> QED BY <4>1
    <3>2. c \in Firsts(p)
      BY <1>2, <2>3, <3>1 DEF Firsts
    <3> QED BY <1>2, <3>2 DEF Removed, Hits
  <2>4. CASE RowAt(p, c).id \notin Isins
    <3>1. Nameless(RowAt(p, c))
      BY <1>2, <2>1, <2>4 DEF Nameless
    <3>2. ASSUME NEW d \in Cells(p), Nameless(RowAt(p, d)) PROVE ~Before(d, c)
      <4>1. Alike(RowAt(p, d), RowAt(p, c)) /\ d \in CellsOf(p, "oskar")
        BY <2>1, <3>1, <3>2 DEF Alike, Nameless, CellsOf
      <4>2. d = c
        BY <1>2, <4>1 DEF Distinct
      <4> QED BY <2>2, <4>2
    <3>3. c \in FirstNameless(p)
      BY <2>1, <3>1, <3>2 DEF FirstNameless
    <3> QED BY <1>2, <3>3 DEF Removed
  <2> QED BY <2>3, <2>4
<1> QED BY <1>1, <1>2

\* Alike is a matter of the identifier and the broker.
LEMMA AlikeRows ==
    ASSUME NEW r, NEW s, NEW t, NEW u, Alike(r, s),
           r.id = t.id, r.broker = t.broker, s.id = u.id, s.broker = u.broker
    PROVE  Alike(t, u)
BY DEF Alike, Nameless

\* The rows of broker b after the merge of broker a.
LEMMA MergedOwners ==
    ASSUME NEW p \in Lists, NEW a \in Brokers, NEW f \in Holdings, DOMAIN f # {},
           NEW m, m = MergeHoldings(p, a, f), NEW b, NEW e \in CellsOf(m, b)
    PROVE  /\ IsOld(p, Removed(p, a, f), e) =>
                LET c == OldCell(p, Removed(p, a, f), e)
                IN  /\ c \in CellsOf(p, b) /\ c \notin Removed(p, a, f)
                    /\ RowAt(m, e) = After(p, a, f, Hits(p, a, f), c)
                    /\ RowAt(m, e).id = RowAt(p, c).id
                    /\ RowAt(m, e).broker = RowAt(p, c).broker
           /\ ~IsOld(p, Removed(p, a, f), e) =>
                LET id == NewId(p, f, Hits(p, a, f), Removed(p, a, f), e)
                IN  /\ b = a
                    /\ id \in Fresh(p, f, Hits(p, a, f))
                    /\ RowAt(m, e).id = id
                    /\ RowAt(m, e).value = f[id]
<1> DEFINE H == Hits(p, a, f)
           G == Removed(p, a, f)
<1>1. m = Merged(p, a, f, H, G) /\ Mergeable(p, a, f, H)
  BY MergePlan
<1>2. e \in Cells(m) /\ RowAt(m, e).broker = b
  BY DEF CellsOf
<1> HIDE DEF H, G
<1>3. /\ IsOld(p, G, e) => /\ OldCell(p, G, e) \in Cells(p) \ G
                           /\ RowAt(m, e) = After(p, a, f, H, OldCell(p, G, e))
      /\ ~IsOld(p, G, e) => /\ NewId(p, f, H, G, e) \in Fresh(p, f, H)
                            /\ RowAt(m, e).id = NewId(p, f, H, G, e)
                            /\ RowAt(m, e).broker = a
                            /\ RowAt(m, e).value = f[NewId(p, f, H, G, e)]
  BY <1>1, <1>2, MergedOrigin
<1>4. IsOld(p, G, e) => /\ RowAt(m, e).id = RowAt(p, OldCell(p, G, e)).id
                        /\ RowAt(m, e).broker = RowAt(p, OldCell(p, G, e)).broker
  BY <1>1, <1>3, AfterRow
<1>5. IsOld(p, G, e) => OldCell(p, G, e) \in CellsOf(p, b)
  BY <1>2, <1>3, <1>4 DEF CellsOf
<1> QED BY <1>2, <1>3, <1>4, <1>5 DEF H, G

\* The merge of one broker doubles nothing of another.
LEMMA MergeKeepsDistinct ==
    ASSUME NEW p \in Lists, NEW a \in Brokers, NEW f \in Holdings, DOMAIN f # {},
           NEW m, m = MergeHoldings(p, a, f), NEW b, b # a, Distinct(p, b)
    PROVE  Distinct(m, b)
<1> SUFFICES ASSUME NEW e \in CellsOf(m, b), NEW d \in CellsOf(m, b), Alike(RowAt(m, e), RowAt(m, d))
             PROVE  e = d
  BY DEF Distinct
<1> DEFINE H == Hits(p, a, f)
           G == Removed(p, a, f)
<1>1. m = Merged(p, a, f, H, G) /\ Mergeable(p, a, f, H)
  BY MergePlan
<1>2. IsOld(p, G, e) /\ IsOld(p, G, d)
  BY MergedOwners
<1> DEFINE x == OldCell(p, G, e)
           y == OldCell(p, G, d)
<1>3. /\ x \in CellsOf(p, b) /\ RowAt(m, e).id = RowAt(p, x).id
      /\ RowAt(m, e).broker = RowAt(p, x).broker
  BY <1>2, MergedOwners
<1>4. /\ y \in CellsOf(p, b) /\ RowAt(m, d).id = RowAt(p, y).id
      /\ RowAt(m, d).broker = RowAt(p, y).broker
  BY <1>2, MergedOwners
<1>5. x = y
  <2> HIDE DEF x, y
  <2>1. Alike(RowAt(p, x), RowAt(p, y))
    BY <1>3, <1>4, AlikeRows
  <2> QED BY <1>3, <1>4, <2>1 DEF Distinct
<1>6. e \in Cells(m) /\ d \in Cells(m)
  BY DEF CellsOf
<1> HIDE DEF H, G
<1> QED BY <1>1, <1>2, <1>5, <1>6, MergedDistinct

\* The merge of a broker without duplicates shows what was fetched, each
\* holding once and with its figure.
LEMMA MergeMirrors ==
    ASSUME NEW p \in Lists, NEW b \in Brokers, NEW f \in Holdings, DOMAIN f # {},
           NEW m, m = MergeHoldings(p, b, f), Distinct(p, b)
    PROVE  /\ Shown(m, b) = DOMAIN f \ (IF b = "oskar" THEN {"overnight"} ELSE {})
           /\ \A id \in DOMAIN f : \E c \in CellsOf(m, b) :
                RowAt(m, c).id = id /\ RowAt(m, c).value = f[id]
           /\ \A c, d \in CellsOf(m, b) :
                RowAt(m, c).id = RowAt(m, d).id /\ RowAt(m, c).id \in Isins => c = d
<1> DEFINE H == Hits(p, b, f)
           G == Removed(p, b, f)
           aside == IF b = "oskar" THEN {"overnight"} ELSE {}
<1>1. m = Merged(p, b, f, H, G) /\ Mergeable(p, b, f, H) /\ H \subseteq CellsOf(p, b)
  BY MergePlan
<1>2. \A c \in H : c \in Cells(p) /\ c \notin G /\ RowAt(p, c).id \in DOMAIN f /\ RowAt(p, c).broker = b
  BY <1>1, HitsStay DEF CellsOf, Mergeable
<1>3. ASSUME NEW e \in CellsOf(m, b), RowAt(m, e).id \notin aside
      PROVE  \/ /\ IsOld(p, G, e) /\ OldCell(p, G, e) \in H
                /\ RowAt(m, e).id = RowAt(p, OldCell(p, G, e)).id
                /\ RowAt(m, e).id \in DOMAIN f
             \/ /\ ~IsOld(p, G, e) /\ RowAt(m, e).id = NewId(p, f, H, G, e)
                /\ RowAt(m, e).id \in Fresh(p, f, H)
  <2>1. CASE IsOld(p, G, e)
    <3> DEFINE c == OldCell(p, G, e)
    <3>1. c \in CellsOf(p, b) /\ c \notin G /\ RowAt(m, e).id = RowAt(p, c).id
      BY <2>1, MergedOwners
    <3>2. b = "oskar" => RowAt(p, c).id # "overnight"
      BY <1>3, <3>1
    <3> HIDE DEF c
    <3>3. c \in H
      BY <3>1, <3>2, RefreshedOrRemoved
    <3> QED BY <1>2, <2>1, <3>1, <3>3 DEF c
  <2>2. CASE ~IsOld(p, G, e)
    BY <2>2, MergedOwners
  <2> QED BY <2>1, <2>2
<1>4. ASSUME NEW id \in DOMAIN f
      PROVE  \E c \in CellsOf(m, b) : RowAt(m, c).id = id /\ RowAt(m, c).value = f[id]
  <2>1. CASE \E c \in H : RowAt(p, c).id = id
    <3>1. PICK c \in H : RowAt(p, c).id = id
      BY <2>1
    <3>2. c \in Cells(p) \ G
      BY <1>2
    <3> HIDE DEF H, G
    <3>3. PICK e \in Cells(m) : IsOld(p, G, e) /\ OldCell(p, G, e) = c
      BY <1>1, <3>2, MergedCovers
    <3>4. RowAt(m, e) = After(p, b, f, H, c)
      BY <1>1, <3>3, MergedOrigin
    <3>5. RowAt(m, e).id = id /\ RowAt(m, e).broker = b /\ RowAt(m, e).value = f[id]
      BY <1>1, <1>2, <3>1, <3>4, AfterRow
    <3> QED BY <3>5 DEF CellsOf
  <2>2. CASE \A c \in H : RowAt(p, c).id # id
    <3>1. id \in Fresh(p, f, H)
      BY <2>2 DEF Fresh
    <3> HIDE DEF H, G
    <3>2. PICK e \in Cells(m) : ~IsOld(p, G, e) /\ NewId(p, f, H, G, e) = id
      BY <1>1, <3>1, MergedCovers
    <3>3. RowAt(m, e).id = id /\ RowAt(m, e).broker = b /\ RowAt(m, e).value = f[id]
      BY <1>1, <3>2, MergedOrigin
    <3> QED BY <3>3 DEF CellsOf
  <2> QED BY <2>1, <2>2
<1>5. Shown(m, b) = {RowAt(m, c).id : c \in CellsOf(m, b)} \ aside
  BY DEF Shown
<1>6. \A x \in Shown(m, b) : x \in DOMAIN f \ aside
  <2> SUFFICES ASSUME NEW e \in CellsOf(m, b), RowAt(m, e).id \notin aside
               PROVE  RowAt(m, e).id \in DOMAIN f
    BY <1>5
  <2> QED BY <1>3 DEF Fresh
<1>7. \A x \in DOMAIN f \ aside : x \in Shown(m, b)
  BY <1>4, <1>5
<1>8. ASSUME NEW e \in CellsOf(m, b), NEW d \in CellsOf(m, b),
             RowAt(m, e).id = RowAt(m, d).id, RowAt(m, e).id \in Isins
      PROVE  e = d
  <2>0. RowAt(m, e).id \notin aside /\ RowAt(m, d).id \notin aside
    BY <1>8, UpdateAssumption DEF Names
  <2> DEFINE x == OldCell(p, G, e)
             y == OldCell(p, G, d)
  <2>1. \/ /\ IsOld(p, G, e) /\ x \in H /\ RowAt(m, e).id = RowAt(p, x).id
        \/ /\ ~IsOld(p, G, e) /\ RowAt(m, e).id = NewId(p, f, H, G, e)
           /\ RowAt(m, e).id \in Fresh(p, f, H)
    BY <1>3, <2>0
  <2>2. \/ /\ IsOld(p, G, d) /\ y \in H /\ RowAt(m, d).id = RowAt(p, y).id
        \/ /\ ~IsOld(p, G, d) /\ RowAt(m, d).id = NewId(p, f, H, G, d)
           /\ RowAt(m, d).id \in Fresh(p, f, H)
    BY <1>3, <2>0
  <2>3. e \in Cells(m) /\ d \in Cells(m)
    BY DEF CellsOf
  <2> HIDE DEF H, G, x, y
  <2>4. CASE IsOld(p, G, e) /\ IsOld(p, G, d)
    <3>1. x \in CellsOf(p, b) /\ y \in CellsOf(p, b) /\ RowAt(p, x).id = RowAt(p, y).id
      BY <1>1, <1>8, <2>1, <2>2, <2>4
    <3>2. Alike(RowAt(p, x), RowAt(p, y))
      BY <3>1 DEF Alike, CellsOf
    <3>3. x = y
      BY <3>1, <3>2 DEF Distinct
    <3> QED BY <1>1, <2>3, <2>4, <3>3, MergedDistinct DEF x, y
  <2>5. CASE ~IsOld(p, G, e) /\ ~IsOld(p, G, d)
    <3>1. NewId(p, f, H, G, e) = NewId(p, f, H, G, d)
      BY <1>8, <2>1, <2>2, <2>5
    <3> QED BY <1>1, <2>3, <2>5, <3>1, MergedDistinct
  <2>6. CASE IsOld(p, G, e) /\ ~IsOld(p, G, d)
    BY <1>8, <2>1, <2>2, <2>6 DEF Fresh
  <2>7. CASE ~IsOld(p, G, e) /\ IsOld(p, G, d)
    BY <1>8, <2>1, <2>2, <2>7 DEF Fresh
  <2> QED BY <2>4, <2>5, <2>6, <2>7
<1>9. Shown(m, b) = DOMAIN f \ aside
  BY <1>6, <1>7
<1> QED BY <1>4, <1>8, <1>9

\* What MirrorsBroker says of the portfolio p after the merge.
Mirrored(p) ==
    /\ Shown(p, broker) = account[broker] \ (IF broker = "oskar" THEN {"overnight"} ELSE {})
    /\ \A id \in account[broker] : \E c \in CellsOf(p, broker) :
         RowAt(p, c).id = id /\ RowAt(p, c).value = fetched[id]
    /\ \A c, d \in CellsOf(p, broker) :
         RowAt(p, c).id = RowAt(p, d).id /\ RowAt(p, c).id \in Isins => c = d

\* The estimates change share counts only.
LEMMA SameRowsMirrored ==
    ASSUME NEW p, NEW q, Cells(q) = Cells(p),
           \A c \in Cells(p) : /\ RowAt(q, c).id = RowAt(p, c).id
                               /\ RowAt(q, c).broker = RowAt(p, c).broker
                               /\ RowAt(q, c).value = RowAt(p, c).value
    PROVE  /\ Mirrored(p) => Mirrored(q)
           /\ \A b : Distinct(p, b) => Distinct(q, b)
<1>1. \A b : CellsOf(q, b) = CellsOf(p, b)
  BY DEF CellsOf
<1>2. \A b : \A c \in CellsOf(p, b) : /\ RowAt(q, c).id = RowAt(p, c).id
                                      /\ RowAt(q, c).broker = RowAt(p, c).broker
                                      /\ RowAt(q, c).value = RowAt(p, c).value
  BY DEF CellsOf
<1>3. Shown(q, broker) = Shown(p, broker)
  BY <1>1, <1>2 DEF Shown
<1>4. Mirrored(p) => Mirrored(q)
  BY <1>1, <1>2, <1>3 DEF Mirrored
<1>5. ASSUME NEW b, Distinct(p, b) PROVE Distinct(q, b)
  <2> SUFFICES ASSUME NEW c \in CellsOf(q, b), NEW d \in CellsOf(q, b), Alike(RowAt(q, c), RowAt(q, d))
               PROVE  c = d
    BY DEF Distinct
  <2>1. c \in CellsOf(p, b) /\ d \in CellsOf(p, b)
    BY <1>1
  <2>2. Alike(RowAt(p, c), RowAt(p, d))
    BY <1>2, <2>1, AlikeRows
  <2> QED BY <1>5, <2>1, <2>2 DEF Distinct
<1> QED BY <1>4, <1>5

LEMMA PlaceNumber == \A b \in Brokers : Place(b) \in Nat
BY Places DEF Brokers

LEMMA MergingStep ==
    ASSUME Typing, Reading, Merging, [Next]_vars
    PROVE  Merging'
<1>0. /\ FetchType /\ RunType
      /\ portfolio \in Lists /\ broker \in Brokers /\ fetched \in Holdings
  BY DEF Typing, FetchType, RunType
<1> DEFINE All(p) == \A b \in Brokers : Distinct(p, b)
           From(p, a) == \A b \in Brokers : Place(b) >= Place(a) => Distinct(p, b)
           Later(p, a) == \A b \in Brokers : Place(b) > Place(a) => Distinct(p, b)
<1>1. CASE Fetch
  <2>1. FetchNext /\ UNCHANGED runVars /\ phase = "fetch" /\ UNCHANGED broker
    <3>1. FetchNext /\ UNCHANGED runVars /\ phase = "fetch"
      BY <1>1 DEF Fetch
    <3>2. UNCHANGED broker
      BY <3>1 DEF FetchNext, OpenCockpit, PageArrives, SignedIn, Submit, SignInFails, OpenAllocation,
         Expand, Collect, StartDeviceLogin, DevicePage, DeviceForm, DeviceConfirm, ScEnds,
         DeviceTimesOut, DeviceDone, ReadHoldings, ReadCash, LogInTradeRepublic, ReadPortfolio,
         CloseSession, Raise, Turn
    <3> QED BY <3>1, <3>2
  <2> QED BY <2>1 DEF runVars, Merging, Undoubled, MirrorsBroker
<1>2. CASE Load
  <2>1. ReadNext(scrape) /\ scrape \in SUBSET Brokers /\ portfolio' = stored
    BY <1>0, <1>2 DEF Load, RunType
  <2>2. phase' \in {"compose", "fetch"}
    BY <1>0, <2>1, ReadNextTyped
  <2>3. ~doubled' => All(stored)
    <3>1. doubled' = \E c, d \in Cells(stored) : c # d /\ Alike(RowAt(stored, c), RowAt(stored, d))
      BY <1>2 DEF Load
    <3> QED BY <3>1 DEF Distinct, CellsOf
  <2>4. MirrorsBroker'
    BY <2>2 DEF MirrorsBroker
  <2>5. Undoubled'
    BY <2>1, <2>2, <2>3 DEF Undoubled
  <2> QED BY <2>4, <2>5 DEF Merging
<1>3. CASE Merge
  <2>1. /\ portfolio' = MergeHoldings(portfolio, broker, fetched)
        /\ phase = "fetch" /\ fstep = "fetched" /\ phase' \in {"estimate", "persist"}
        /\ UNCHANGED <<account, broker, fetched, missed, doubled>>
    BY <1>3 DEF Merge, fetchVars
  <2>2. ~doubled => Distinct(portfolio, broker) /\ Later(portfolio, broker)
    BY <1>0, <2>1, PlaceNumber DEF Merging, Undoubled
  <2>3. ASSUME ~doubled PROVE Later(portfolio', broker)
    <3> SUFFICES ASSUME NEW b \in Brokers, Place(b) > Place(broker) PROVE Distinct(portfolio', b)
      OBVIOUS
    <3>1. Distinct(portfolio, b) /\ b # broker
      BY <1>0, <2>2, <2>3, PlaceNumber
    <3>2. CASE DOMAIN fetched = {}
      BY <2>1, <3>1, <3>2 DEF MergeHoldings
    <3>3. CASE DOMAIN fetched # {}
      BY <1>0, <2>1, <3>1, <3>3, MergeKeepsDistinct
    <3> QED BY <3>2, <3>3
  <2>4. Undoubled'
    BY <2>1, <2>3 DEF Undoubled
  <2>5. ASSUME ~missed, account[broker] # {}, ~doubled PROVE Mirrored(portfolio')
    <3>1. DOMAIN fetched = account[broker]
      BY <2>1, <2>5 DEF Reading, ExactReading
    <3>2. Distinct(portfolio, broker)
      BY <2>2, <2>5
    <3> QED BY <1>0, <2>1, <2>5, <3>1, <3>2, MergeMirrors DEF Mirrored
  <2>6. MirrorsBroker'
    BY <2>1, <2>5 DEF MirrorsBroker, Mirrored
  <2> QED BY <2>4, <2>6 DEF Merging
<1>4. CASE Estimate
  <2>1. /\ UNCHANGED <<account, broker, fetched, missed, doubled>>
        /\ phase = "estimate" /\ phase' = "persist"
    BY <1>4 DEF Estimate, fetchVars
  <2>2. /\ Mirrored(portfolio) => Mirrored(portfolio')
        /\ \A b : Distinct(portfolio, b) => Distinct(portfolio', b)
    <3>1. /\ Cells(portfolio') = Cells(portfolio)
          /\ \A c \in Cells(portfolio) : /\ RowAt(portfolio', c).id = RowAt(portfolio, c).id
                                         /\ RowAt(portfolio', c).broker = RowAt(portfolio, c).broker
                                         /\ RowAt(portfolio', c).value = RowAt(portfolio, c).value
      BY <1>0, <1>4, EstimateRows
    <3> QED BY <3>1, SameRowsMirrored
  <2>3. Undoubled'
    BY <2>1, <2>2 DEF Merging, Undoubled
  <2>4. MirrorsBroker'
    BY <2>1, <2>2 DEF Merging, MirrorsBroker, Mirrored
  <2> QED BY <2>3, <2>4 DEF Merging
<1>5. CASE Persist
  <2> DEFINE bs == {b \in scrape : Place(b) > Place(broker)}
  <2>1. /\ ReadNext(bs) /\ bs \in SUBSET Brokers /\ phase = "persist"
        /\ UNCHANGED <<portfolio, doubled>>
    BY <1>0, <1>5 DEF Persist, RunType
  <2>2. phase' = "compose" \/ (phase' = "fetch" /\ broker' \in bs)
    <3> HIDE DEF bs
    <3> QED BY <2>1, NextBroker DEF StartFetch
  <2>3. broker' \in bs => \A b \in Brokers : Place(b) >= Place(broker') => Place(b) > Place(broker)
    BY <1>0, <2>1, PlaceNumber
  <2>4. Undoubled'
    <3> HIDE DEF bs
    <3> QED BY <2>1, <2>2, <2>3 DEF Merging, Undoubled
  <2>5. MirrorsBroker'
    BY <2>2 DEF MirrorsBroker
  <2> QED BY <2>4, <2>5 DEF Merging
<1>6. CASE Build \/ Composed \/ PersistShares \/ PersistValues \/ Plot \/ Die
  <2>1. phase' \in {"compose", "shares", "values", "plot", "done", "dead"}
    BY <1>6 DEF Build, Composed, PersistShares, PersistValues, Plot, Die
  <2> QED BY <2>1 DEF Merging, Undoubled, MirrorsBroker
<1>7. CASE UNCHANGED vars
  BY <1>7 DEF vars, fetchVars, runVars, Merging, Undoubled, MirrorsBroker
<1> QED BY <1>1, <1>2, <1>3, <1>4, <1>5, <1>6, <1>7
        DEF Next, Advance, FetchFails, ComposeFails, Cancel, Ended

-----------------------------------------------------------------------------
(* Charting.                                                               *)

\* A row by its bucket and place.
LEMMA RowsAt ==
    ASSUME NEW p, NEW q, Cells(q) = Cells(p), \A b \in Buckets : Len(q[b]) = Len(p[b]),
           \A c \in Cells(p) : /\ RowAt(q, c).id = RowAt(p, c).id
                               /\ RowAt(q, c).broker = RowAt(p, c).broker
    PROVE  /\ Unique(q) <=> Unique(p)
           /\ \A b \in Buckets : \A k \in 1 .. Len(p[b]) : Holder(q[b][k]) = Holder(p[b][k])
<1>1. Unique(q) <=> Unique(p)
  BY DEF Unique
<1>2. ASSUME NEW b \in Buckets, NEW k \in 1 .. Len(p[b]) PROVE Holder(q[b][k]) = Holder(p[b][k])
  <2>1. <<b, k>> \in Cells(p) /\ RowAt(p, <<b, k>>) = p[b][k] /\ RowAt(q, <<b, k>>) = q[b][k]
    BY CellOf
  <2> QED BY <2>1 DEF Holder
<1> QED BY <1>1, <1>2

\* Different cells of a portfolio without duplicates have different holders.
LEMMA UniqueHolders ==
    ASSUME NEW p, Unique(p), NEW a \in Buckets, NEW j \in 1 .. Len(p[a]),
           NEW b \in Buckets, NEW k \in 1 .. Len(p[b]), Holder(p[a][j]) = Holder(p[b][k])
    PROVE  a = b /\ j = k
<1>1. /\ <<a, j>> \in Cells(p) /\ RowAt(p, <<a, j>>) = p[a][j]
      /\ <<b, k>> \in Cells(p) /\ RowAt(p, <<b, k>>) = p[b][k]
  BY CellOf
<1>2. <<a, j>> = <<b, k>>
  BY <1>1 DEF Unique, Holder
<1> QED BY <1>2

LEMMA ChartedLists ==
    ASSUME RunType, NEW b \in Buckets
    PROVE  charted[b] \in Seq(Figures) /\ Len(charted[b]) \in Nat /\ Len(portfolio[b]) \in Nat
<1>1. charted[b] \in Seq(Figures) /\ portfolio \in Lists
  BY DEF RunType, Amounts
<1> QED BY <1>1, LenProperties, ListsParts

LEMMA BuildCharting ==
    ASSUME RunType, Charting, Build
    PROVE  Charting'
<1>0. /\ phase = "compose" /\ Unbuilt # {}
      /\ UNCHANGED <<stored, fetchPrices, phase, portfolio, charts>>
  BY DEF Build
<1> DEFINE a == NextCell[1]
           j == NextCell[2]
           row == portfolio[a][j]
           h == Holder(row)
<1>1. /\ a \in Buckets /\ j = Len(charted[a]) + 1 /\ j \in 1 .. Len(portfolio[a])
      /\ RowAt(portfolio, NextCell) = row /\ row \in Rows
  BY <1>0, NextCellUnbuilt
<1>2. PICK price \in Quotes :
        /\ charted' = [charted EXCEPT ![a] = Append(charted[a], HoldingsValue(row, price))]
        /\ pendingValues' = Assign(pendingValues, Queued(row, price), h, HoldingsValue(row, price))
  <2> HIDE DEF row
  <2> QED BY <1>1, BuildStep
<1> DEFINE v == HoldingsValue(row, price)
           queued == Queued(row, price)
<1>3. v \in Figures /\ (queued \in BOOLEAN) /\ (fetchPrices /\ ~queued => v = row.value)
  BY <1>1, HoldingsFigure DEF Queued, HoldingsValue
<1>3a. pendingValues' = Assign(pendingValues, queued, h, v)
  BY <1>2
<1> HIDE DEF v, h, row, j, a, queued
<1>3b. /\ DOMAIN pendingValues' = DOMAIN pendingValues \union (IF queued THEN {h} ELSE {})
       /\ \A r : Holder(r) # h => Due(pendingValues', r) = Due(pendingValues, r)
       /\ \A r : queued /\ Holder(r) = h => Due(pendingValues', r) = v
       /\ ~queued => pendingValues' = pendingValues
  <2>1. pendingValues' = IF queued THEN [k \in DOMAIN pendingValues \union {h} |->
                                          IF k = h THEN v ELSE pendingValues[k]]
                         ELSE pendingValues
    BY <1>3a DEF Assign
  <2>2. CASE queued
    BY <2>1, <2>2 DEF Due
  <2>3. CASE ~queued
    BY <2>1, <2>3 DEF Due
  <2> QED BY <1>3, <2>2, <2>3
<1>4. /\ Len(charted'[a]) = Len(charted[a]) + 1
      /\ \A k \in 1 .. Len(charted[a]) : charted'[a][k] = charted[a][k]
      /\ charted'[a][j] = v
      /\ \A b \in Buckets : b # a => charted'[b] = charted[b]
  <2>1. charted[a] \in Seq(Figures)
    BY <1>1, ChartedLists
  <2>2. charted \in [Buckets -> Seq(Figures)]
    BY DEF RunType, Amounts
  <2>3. charted'[a] = Append(charted[a], v) /\ \A b \in Buckets : b # a => charted'[b] = charted[b]
    BY <1>1, <1>2, <2>2 DEF v
  <2> QED BY <1>1, <1>3, <2>1, <2>3, AppendProperties
<1>5. \A b \in Buckets : Len(charted[b]) \in Nat /\ Len(portfolio[b]) \in Nat
  BY ChartedLists
<1>6. \A b \in Buckets : Len(charted[b]) <= Len(portfolio[b])
  BY <1>0 DEF Charting, BuiltSoFar
<1>7. BuiltSoFar'
  <2>1. \A b \in Buckets : Len(charted'[b]) <= Len(portfolio[b])
    BY <1>1, <1>4, <1>5, <1>6
  <2> QED BY <1>0, <2>1 DEF BuiltSoFar
<1>8. ASSUME fetchPrices, Unique(portfolio)
      PROVE  /\ \A b \in Buckets : \A k \in 1 .. Len(charted'[b]) :
                  charted'[b][k] = Due(pendingValues', portfolio[b][k])
             /\ \A g \in DOMAIN pendingValues' :
                  \E b \in Buckets : \E k \in 1 .. Len(charted'[b]) : g = Holder(portfolio[b][k])
  <2>1. /\ \A b \in Buckets : \A k \in 1 .. Len(charted[b]) :
             charted[b][k] = Due(pendingValues, portfolio[b][k])
        /\ \A g \in DOMAIN pendingValues :
             \E b \in Buckets : \E k \in 1 .. Len(charted[b]) : g = Holder(portfolio[b][k])
    BY <1>0, <1>8 DEF Charting, ChartedIsDue
  <2>2. ASSUME NEW b \in Buckets, NEW k \in 1 .. Len(charted[b]) PROVE Holder(portfolio[b][k]) # h
    <3>1. k \in 1 .. Len(portfolio[b])
      BY <1>5, <1>6
    <3>2. ~(b = a /\ k = j)
      BY <1>1, <1>5
    <3> QED BY <1>1, <1>8, <3>1, <3>2, UniqueHolders DEF h, row
  <2>3. h \notin DOMAIN pendingValues
    BY <2>1, <2>2
  <2>4. \A b \in Buckets : \A k \in 1 .. Len(charted[b]) :
          charted[b][k] = Due(pendingValues', portfolio[b][k])
    BY <1>3b, <2>1, <2>2
  <2>5. v = Due(pendingValues', row)
    <3>1. CASE queued
      BY <1>3b, <3>1 DEF h
    <3>2. CASE ~queued
      <4>1. v = row.value
        BY <1>3, <1>8, <3>2
      <4>2. pendingValues' = pendingValues
        BY <1>3b, <3>2
      <4> QED BY <2>3, <4>1, <4>2 DEF Due, h
    <3> QED BY <3>1, <3>2
  <2>6. ASSUME NEW b \in Buckets, NEW k \in 1 .. Len(charted'[b])
        PROVE  charted'[b][k] = Due(pendingValues', portfolio[b][k])
    <3>1. CASE b # a
      BY <1>4, <2>4, <3>1
    <3>2. CASE b = a /\ k # j
      <4>1. k \in 1 .. Len(charted[a])
        BY <1>1, <1>4, <1>5, <3>2
      <4> QED BY <1>1, <1>4, <2>4, <3>2, <4>1
    <3>3. CASE b = a /\ k = j
      BY <1>4, <2>5, <3>3 DEF row
    <3> QED BY <3>1, <3>2, <3>3
  <2>7. ASSUME NEW g \in DOMAIN pendingValues'
        PROVE  \E b \in Buckets : \E k \in 1 .. Len(charted'[b]) : g = Holder(portfolio[b][k])
    <3>1. CASE g \in DOMAIN pendingValues
      <4>1. PICK b \in Buckets : \E k \in 1 .. Len(charted[b]) : g = Holder(portfolio[b][k])
        BY <2>1, <3>1
      <4>2. PICK k \in 1 .. Len(charted[b]) : g = Holder(portfolio[b][k])
        BY <4>1
      <4>3. k \in 1 .. Len(charted'[b])
        BY <1>1, <1>4, <1>5
      <4> QED BY <4>2, <4>3
    <3>2. CASE g = h
      <4>1. j \in 1 .. Len(charted'[a])
        BY <1>1, <1>4, <1>5
      <4> QED BY <1>1, <3>2, <4>1 DEF h, row
    <3> QED BY <1>3b, <3>1, <3>2
  <2> QED BY <2>6, <2>7
<1>9. ChartedIsDue'
  <2>1. UNCHANGED Unique(portfolio)
    BY <1>0 DEF Unique, Cells, RowAt
  <2> QED BY <1>0, <1>8, <2>1 DEF ChartedIsDue
<1>10. StoreFollows'
  BY <1>0 DEF Charting, StoreFollows
<1> QED BY <1>0, <1>7, <1>9, <1>10 DEF Charting, NothingBuilt, ChartedIsStored, ChartsAreCharted

LEMMA SameCharting ==
    ASSUME Charting,
           UNCHANGED <<stored, fetchPrices, phase, portfolio, pendingShares, pendingValues,
                       charted, charts>>
    PROVE  Charting'
BY DEF Charting, NothingBuilt, StoreFollows, BuiltSoFar, ChartedIsDue, ChartedIsStored,
       ChartsAreCharted, Unique, Cells, RowAt, Due, Holder

\* The next broker is read, or nothing is left to read: nothing is built yet.
LEMMA ReadNextCharting ==
    ASSUME FetchType, NothingBuilt, NEW bs \in SUBSET Brokers, ReadNext(bs),
           phase \in {"load", "persist"}, stored' = portfolio', portfolio' \in Lists,
           UNCHANGED <<charted, pendingShares, pendingValues>>
    PROVE  Charting'
<1>1. phase' \in {"compose", "fetch"}
  BY ReadNextTyped
<1>2. charted' = Empty /\ pendingShares' = NoQueue /\ pendingValues' = NoQueue
  BY DEF NothingBuilt
<1>3. BuiltSoFar'
  <2>1. \A b \in Buckets : Len(charted'[b]) = 0 /\ Len(portfolio'[b]) \in Nat
    BY <1>2, EmptyLists, ListsParts
  <2>2. \A b \in Buckets : Len(charted'[b]) <= Len(portfolio'[b])
    BY <2>1
  <2> QED BY <1>1, <2>2 DEF BuiltSoFar
<1>4. ChartedIsDue'
  <2>1. \A b \in Buckets : Len(charted'[b]) = 0
    BY <1>2, EmptyLists
  <2>2. DOMAIN pendingValues' = {}
    BY <1>2, EmptyLists
  <2> QED BY <1>1, <2>1, <2>2 DEF ChartedIsDue
<1> QED BY <1>1, <1>2, <1>3, <1>4
        DEF Charting, NothingBuilt, StoreFollows, ChartedIsStored, ChartsAreCharted

\* With no cell left unbuilt every bucket is charted whole.
LEMMA ComposedCharting ==
    ASSUME RunType, Charting, Composed
    PROVE  Charting'
<1>1. /\ phase = "compose" /\ phase' = "shares" /\ Unbuilt = {}
      /\ UNCHANGED <<stored, fetchPrices, portfolio, pendingValues, charted>>
  BY DEF Composed
<1>2. ASSUME NEW b \in Buckets PROVE Len(charted[b]) = Len(portfolio[b])
  <2>1. Len(charted[b]) \in Nat /\ Len(portfolio[b]) \in Nat
    BY ChartedLists
  <2>2. Len(charted[b]) <= Len(portfolio[b])
    BY <1>1 DEF Charting, BuiltSoFar
  <2>3. ASSUME Len(charted[b]) < Len(portfolio[b]) PROVE FALSE
    <3> DEFINE c == <<b, Len(charted[b]) + 1>>
    <3>1. Len(charted[b]) + 1 \in 1 .. Len(portfolio[b])
      BY <2>1, <2>3
    <3>2. c \in Cells(portfolio)
      BY <3>1, CellOf
    <3>3. c \in Unbuilt
      BY <3>2 DEF Unbuilt
    <3> QED BY <1>1, <3>3
  <2> QED BY <2>1, <2>2, <2>3
<1>3. BuiltSoFar'
  BY <1>1, <1>2 DEF BuiltSoFar
<1>4. UNCHANGED Unique(portfolio)
  BY <1>1 DEF Unique, Cells, RowAt
<1>5. ChartedIsDue'
  BY <1>1, <1>4 DEF Charting, ChartedIsDue
<1> QED BY <1>1, <1>3, <1>5
        DEF Charting, NothingBuilt, StoreFollows, ChartedIsStored, ChartsAreCharted

\* The share counts leave the values as they are.
LEMMA SharesCharting ==
    ASSUME RunType, Charting, PersistShares
    PROVE  Charting'
<1>1. /\ phase = "shares" /\ phase' = "values"
      /\ portfolio' = WithShares(portfolio, pendingShares)
      /\ stored' = IF portfolio' # portfolio THEN portfolio' ELSE stored
      /\ UNCHANGED <<fetchPrices, pendingValues, charted>>
  BY DEF PersistShares
<1>2. portfolio \in Lists /\ pendingShares \in ShareQueues /\ stored = portfolio
  BY <1>1 DEF RunType, Charting, StoreFollows
<1>3. /\ Cells(portfolio') = Cells(portfolio)
      /\ \A b \in Buckets : Len(portfolio'[b]) = Len(portfolio[b])
      /\ \A c \in Cells(portfolio) : /\ RowAt(portfolio', c).id = RowAt(portfolio, c).id
                                     /\ RowAt(portfolio', c).broker = RowAt(portfolio, c).broker
                                     /\ RowAt(portfolio', c).value = RowAt(portfolio, c).value
  BY <1>1, <1>2, WithSharesRows
<1>4. stored' = portfolio'
  BY <1>1, <1>2
<1>5. BuiltSoFar'
  BY <1>1, <1>3 DEF Charting, BuiltSoFar
<1>6. ASSUME fetchPrices, Unique(portfolio')
      PROVE  /\ \A b \in Buckets : \A k \in 1 .. Len(charted[b]) :
                  charted[b][k] = Due(pendingValues, portfolio'[b][k])
             /\ \A h \in DOMAIN pendingValues :
                  \E b \in Buckets : \E k \in 1 .. Len(charted[b]) : h = Holder(portfolio'[b][k])
  <2>1. Unique(portfolio)
    BY <1>3, <1>6, RowsAt
  <2>2. ASSUME NEW b \in Buckets, NEW k \in 1 .. Len(charted[b])
        PROVE  /\ Holder(portfolio'[b][k]) = Holder(portfolio[b][k])
               /\ portfolio'[b][k].value = portfolio[b][k].value
    <3>1. k \in 1 .. Len(portfolio[b]) /\ k \in 1 .. Len(portfolio'[b])
      BY <1>1, <1>3 DEF Charting, BuiltSoFar
    <3>2. /\ <<b, k>> \in Cells(portfolio) /\ RowAt(portfolio, <<b, k>>) = portfolio[b][k]
          /\ RowAt(portfolio', <<b, k>>) = portfolio'[b][k]
      BY <3>1, CellOf
    <3> QED BY <1>3, <3>1, <3>2, RowsAt
  <2>3. /\ \A b \in Buckets : \A k \in 1 .. Len(charted[b]) :
             charted[b][k] = Due(pendingValues, portfolio[b][k])
        /\ \A h \in DOMAIN pendingValues :
             \E b \in Buckets : \E k \in 1 .. Len(charted[b]) : h = Holder(portfolio[b][k])
    BY <1>1, <1>6, <2>1 DEF Charting, ChartedIsDue
  <2> QED BY <2>2, <2>3 DEF Due
<1>7. ChartedIsDue'
  BY <1>1, <1>6 DEF ChartedIsDue
<1> QED BY <1>1, <1>4, <1>5, <1>7
        DEF Charting, NothingBuilt, StoreFollows, ChartedIsStored, ChartsAreCharted

\* The queued values are what was charted.
LEMMA ValuesCharting ==
    ASSUME RunType, Charting, PersistValues
    PROVE  Charting'
<1>1. /\ phase = "values" /\ phase' = "plot"
      /\ portfolio' = WithValues(portfolio, pendingValues)
      /\ stored' = IF DOMAIN pendingValues # {} THEN portfolio' ELSE stored
      /\ UNCHANGED <<fetchPrices, charted>>
  BY DEF PersistValues
<1>2. portfolio \in Lists /\ pendingValues \in ValueQueues /\ stored = portfolio
  BY <1>1 DEF RunType, Charting, StoreFollows
<1>3. /\ portfolio' \in Lists /\ Cells(portfolio') = Cells(portfolio)
      /\ \A b \in Buckets : Len(portfolio'[b]) = Len(portfolio[b])
      /\ \A c \in Cells(portfolio) :
           /\ RowAt(portfolio', c).id = RowAt(portfolio, c).id
           /\ RowAt(portfolio', c).broker = RowAt(portfolio, c).broker
           /\ RowAt(portfolio', c).value = Due(pendingValues, RowAt(portfolio, c))
           /\ DOMAIN pendingValues = {} => RowAt(portfolio', c) = RowAt(portfolio, c)
  BY <1>1, <1>2, WithValuesRows DEF Due
<1>4. ASSUME NEW b \in Buckets, NEW k \in 1 .. Len(portfolio[b])
      PROVE  /\ portfolio'[b][k].value = Due(pendingValues, portfolio[b][k])
             /\ DOMAIN pendingValues = {} => portfolio'[b][k] = portfolio[b][k]
  <2>1. k \in 1 .. Len(portfolio'[b])
    BY <1>3
  <2>2. /\ <<b, k>> \in Cells(portfolio) /\ RowAt(portfolio, <<b, k>>) = portfolio[b][k]
        /\ RowAt(portfolio', <<b, k>>) = portfolio'[b][k]
    BY <2>1, CellOf
  <2> QED BY <1>3, <2>2
<1>5. stored' = portfolio'
  <2>1. CASE DOMAIN pendingValues # {}
    BY <1>1, <2>1
  <2>2. CASE DOMAIN pendingValues = {}
    <3>1. portfolio = portfolio'
      BY <1>2, <1>3, <1>4, <2>2, ListsEqual
    <3> QED BY <1>1, <1>2, <2>2, <3>1
  <2> QED BY <2>1, <2>2
<1>6. BuiltSoFar'
  BY <1>1, <1>3 DEF Charting, BuiltSoFar
<1>7. ChartedIsStored'
  <2>1. ASSUME fetchPrices, Unique(portfolio'), NEW b \in Buckets, NEW k \in 1 .. Len(portfolio'[b])
        PROVE  charted[b][k] = portfolio'[b][k].value
    <3>1. Unique(portfolio)
      BY <1>3, <2>1, RowsAt
    <3>2. k \in 1 .. Len(portfolio[b]) /\ k \in 1 .. Len(charted[b])
      BY <1>1, <1>3 DEF Charting, BuiltSoFar
    <3>3. charted[b][k] = Due(pendingValues, portfolio[b][k])
      BY <1>1, <2>1, <3>1, <3>2 DEF Charting, ChartedIsDue
    <3> QED BY <1>4, <3>2, <3>3
  <2> QED BY <1>1, <2>1 DEF ChartedIsStored
<1> QED BY <1>1, <1>5, <1>6, <1>7
        DEF Charting, NothingBuilt, StoreFollows, ChartedIsDue, ChartsAreCharted

LEMMA ChartingStep ==
    ASSUME Typing, Charting, [Next]_vars
    PROVE  Charting'
<1>0. FetchType /\ RunType /\ RunType'
  BY TypingStep DEF Typing
<1>1. CASE Fetch
  BY <1>1, SameCharting DEF Fetch, runVars
<1>2. CASE Load
  <2>1. /\ ReadNext(scrape) /\ scrape \in SUBSET Brokers /\ phase = "load"
        /\ portfolio' = stored /\ UNCHANGED <<stored, charted, pendingShares, pendingValues>>
    BY <1>0, <1>2 DEF Load, RunType
  <2> QED BY <1>0, <2>1, ReadNextCharting DEF Charting, RunType
<1>3. CASE Merge \/ Estimate
  <2>1. /\ phase \in {"fetch", "estimate"} /\ phase' \in {"estimate", "persist"}
        /\ UNCHANGED <<charted, pendingShares, pendingValues>>
    BY <1>3 DEF Merge, Estimate
  <2> QED BY <2>1 DEF Charting, NothingBuilt, StoreFollows, BuiltSoFar, ChartedIsDue,
                      ChartedIsStored, ChartsAreCharted
<1>4. CASE Persist
  <2> DEFINE bs == {b \in scrape : Place(b) > Place(broker)}
  <2>1. /\ ReadNext(bs) /\ bs \in SUBSET Brokers /\ phase = "persist"
        /\ stored' = portfolio /\ UNCHANGED <<portfolio, charted, pendingShares, pendingValues>>
    BY <1>0, <1>4 DEF Persist, RunType
  <2> HIDE DEF bs
  <2> QED BY <1>0, <2>1, ReadNextCharting DEF Charting, RunType
<1>5. CASE Build
  BY <1>0, <1>5, BuildCharting
<1>6. CASE Composed
  BY <1>0, <1>6, ComposedCharting
<1>7. CASE PersistShares
  BY <1>0, <1>7, SharesCharting
<1>8. CASE PersistValues
  BY <1>0, <1>8, ValuesCharting
<1>9. CASE Plot
  <2>1. /\ phase = "plot" /\ phase' = "done" /\ charts' = charted
        /\ UNCHANGED <<stored, fetchPrices, portfolio, charted>>
    BY <1>9 DEF Plot
  <2>2. UNCHANGED Unique(portfolio)
    BY <2>1 DEF Unique, Cells, RowAt
  <2> QED BY <2>1, <2>2 DEF Charting, NothingBuilt, StoreFollows, BuiltSoFar, ChartedIsDue,
                           ChartedIsStored, ChartsAreCharted
<1>10. CASE Die
  <2>1. phase' = "dead"
    BY <1>10 DEF Die
  <2> QED BY <2>1 DEF Charting, NothingBuilt, StoreFollows, BuiltSoFar, ChartedIsDue,
                      ChartedIsStored, ChartsAreCharted
<1>11. CASE UNCHANGED vars
  BY <1>11, SameCharting DEF vars, runVars
<1> QED BY <1>1, <1>2, <1>3, <1>4, <1>5, <1>6, <1>7, <1>8, <1>9, <1>10, <1>11
        DEF Next, Advance, FetchFails, ComposeFails, Cancel, Ended

-----------------------------------------------------------------------------
(* The invariant and what follows from it.                                 *)

LEMMA InitInvariant ==
    ASSUME Init
    PROVE  IInv
<1>1. Typing
  BY InitTyping
<1>2. /\ phase = "load" /\ ~session /\ ~browser
      /\ charted = Empty /\ pendingShares = NoQueue /\ pendingValues = NoQueue
  BY DEF Init, FetchInit
<1>3. Reading
  BY <1>2 DEF Reading, SessionsClosed, SeenSoFar, ExactReading
<1>4. Merging
  BY <1>2 DEF Merging, Undoubled, MirrorsBroker
<1>5. Charting
  BY <1>2 DEF Charting, NothingBuilt, StoreFollows, BuiltSoFar, ChartedIsDue,
              ChartedIsStored, ChartsAreCharted
<1> QED BY <1>1, <1>3, <1>4, <1>5 DEF IInv

\* The inductive invariant of a run.
THEOREM Invariance == Spec => []IInv
<1>1. Init => IInv
  BY InitInvariant
<1>2. IInv /\ [Next]_vars => IInv'
  BY TypingStep, ReadingStep, MergingStep, ChartingStep DEF IInv
<1> QED BY <1>1, <1>2, PTL DEF Spec

\* Whatever happens while a broker is read - a page that does not load, a
\* confirmation that does not come, a command that fails - the browser and the
\* broker session are closed when the reading is over (the finally blocks of
\* the three clients).
THEOREM SessionsClose == Spec => []SessionsEnd
<1>1. IInv => SessionsEnd
  BY DEF IInv, Reading, SessionsClosed, SessionsEnd
<1> QED BY <1>1, Invariance, PTL

\* What the merge is given: a reading of which no failed command was passed over
\* brings the holdings of the account, all of them and nothing else, through
\* whatever log-in and whatever folded rows (fetch_<broker>_holdings and the
\* clients behind them).
THEOREM ReadingIsExact == Spec => []ExactReading
<1>1. IInv => ExactReading
  BY DEF IInv, Reading
<1> QED BY <1>1, Invariance, PTL

\* The portfolio after a merge shows what the broker reported: what was sold is
\* gone, what was bought is there once and with its new figure.
THEOREM Mirrors == Spec => []MirrorsBroker
<1>1. IInv => MirrorsBroker
  BY DEF IInv, Merging
<1> QED BY <1>1, Invariance, PTL

\* A run that fetched prices leaves in the store the values it charted.
THEOREM ChartsAgree == Spec => []ChartsMatchStore
<1>1. ASSUME IInv PROVE ChartsMatchStore
  <2>1. SUFFICES ASSUME phase = "done", fetchPrices, Unique(portfolio), NEW c \in Cells(stored)
                 PROVE  RowAt(stored, c).value = charts[c[1]][c[2]]
    BY DEF ChartsMatchStore
  <2>2. stored = portfolio /\ charts = charted
    BY <1>1, <2>1 DEF IInv, Charting, StoreFollows, ChartsAreCharted
  <2>3. c[1] \in Buckets /\ c[2] \in 1 .. Len(portfolio[c[1]])
        /\ RowAt(portfolio, c) = portfolio[c[1]][c[2]]
    BY <2>1, <2>2, CellParts
  <2> QED BY <1>1, <2>1, <2>2, <2>3 DEF IInv, Charting, ChartedIsStored
<1>2. IInv => ChartsMatchStore
  BY <1>1
<1> QED BY <1>2, Invariance, PTL

-----------------------------------------------------------------------------
(* The rows of other brokers.                                              *)

\* A merge leaves the rows of the other brokers in a bucket as they are, in
\* their order.
LEMMA MergedOthers ==
    ASSUME NEW p, NEW b, NEW f, NEW hit, NEW gone, Mergeable(p, b, f, hit),
           hit \subseteq CellsOf(p, b), gone \subseteq CellsOf(p, b),
           NEW m, m = Merged(p, b, f, hit, gone), NEW k \in Buckets
    PROVE  OtherRows(m[k], b) = OtherRows(p[k], b)
<1> DEFINE K == Kept(p, gone, k)
           I == FreshIn(p, f, hit, k)
           n == Cardinality(K)
           T == {e \in DOMAIN m[k] : m[k][e].broker # b}
           S == {j \in DOMAIN p[k] : p[k][j].broker # b}
           g == [e \in T |-> Ascending(K)[e]]
<1>1. p \in Lists /\ m \in Lists
  BY MergedParts DEF Mergeable
<1>2. /\ DOMAIN m[k] = 1 .. Len(m[k]) /\ Len(m[k]) \in Nat
      /\ DOMAIN p[k] = 1 .. Len(p[k]) /\ Len(p[k]) \in Nat
  BY <1>1, ListsParts
<1>3. /\ n \in Nat /\ Cardinality(I) \in Nat /\ Len(m[k]) = n + Cardinality(I)
      /\ K \in SUBSET (1 .. Len(p[k]))
  BY MergedLengths DEF Kept
<1>4. ASSUME NEW j \in 1 .. Len(p[k])
      PROVE  /\ <<k, j>> \in Cells(p) /\ RowAt(p, <<k, j>>) = p[k][j]
             /\ p[k][j].broker # b => <<k, j>> \notin hit /\ j \in K
  <2>1. <<k, j>> \in Cells(p) /\ RowAt(p, <<k, j>>) = p[k][j]
    BY CellOf
  <2> QED BY <2>1 DEF CellsOf, Kept
\* A row that stays: what it was, or a refreshed row of the broker.
<1>5. ASSUME NEW e \in 1 .. n
      PROVE  /\ e \in DOMAIN m[k] /\ Ascending(K)[e] \in K
             /\ m[k][e].broker = p[k][Ascending(K)[e]].broker
             /\ p[k][Ascending(K)[e]].broker # b => m[k][e] = p[k][Ascending(K)[e]]
  <2> DEFINE j == Ascending(K)[e]
  <2>1. j \in K /\ m[k][e] = After(p, b, f, hit, <<k, j>>)
    BY MergedOldRow
  <2>2. e \in DOMAIN m[k]
    BY <1>2, <1>3
  <2> HIDE DEF j, K
  <2>3. j \in 1 .. Len(p[k])
    BY <1>3, <2>1
  <2>4. After(p, b, f, hit, <<k, j>>).broker = p[k][j].broker
    BY <1>4, <2>3, AfterRow
  <2>5. p[k][j].broker # b => After(p, b, f, hit, <<k, j>>) = p[k][j]
    BY <1>4, <2>3 DEF After
  <2> QED BY <2>1, <2>2, <2>4, <2>5 DEF j
\* The rows behind these are new ones of the broker.
<1>6. ASSUME NEW e \in DOMAIN m[k], e > n PROVE m[k][e].broker = b
  <2> DEFINE j == e - n
  <2>1. j \in 1 .. Cardinality(I) /\ e = n + j
    BY <1>2, <1>3, <1>6
  <2>2. b \in Owners /\ f \in Holdings /\ I \in SUBSET DOMAIN f
    BY DEF Mergeable, FreshIn, Fresh
  <2> HIDE DEF j
  <2>3. m[k][n + j] = NewRows(b, f, I)[j]
    BY <2>1, MergedNewRow
  <2> HIDE DEF n, I
  <2>4. NewRows(b, f, I)[j].broker = b
    BY <2>1, <2>2, NewRowAt
  <2> QED BY <2>1, <2>3, <2>4
<1>7. \A e \in T : e \in 1 .. n
  BY <1>2, <1>3, <1>6
<1>8. g \in [T -> S]
  <2>1. ASSUME NEW e \in T PROVE Ascending(K)[e] \in S
    BY <1>2, <1>3, <1>5, <1>7
  <2> QED BY <2>1
<1>9. ASSUME NEW i \in T, NEW j \in T, i < j PROVE g[i] < g[j]
  <2>1. i \in 1 .. n /\ j \in 1 .. n
    BY <1>7
  <2>2. Ascending(K)[i] < Ascending(K)[j]
    <3> HIDE DEF K, T
    <3> QED BY <1>2, <1>3, <1>9, <2>1, AscendingGrows
  <2> QED BY <2>2
<1>10. ASSUME NEW s \in S PROVE \E e \in T : g[e] = s
  <2>1. s \in K /\ p[k][s].broker # b
    BY <1>2, <1>4
  <2>2. PICK e \in 1 .. n : Ascending(K)[e] = s
    <3> HIDE DEF K
    <3> QED BY <1>2, <1>3, <2>1, AscendingReaches
  <2>3. e \in T
    BY <1>5, <2>1, <2>2
  <2> QED BY <2>2, <2>3
<1>11. T \in SUBSET (1 .. Len(m[k])) /\ S \in SUBSET (1 .. Len(p[k]))
  BY <1>2
<1>12. /\ Cardinality(T) = Cardinality(S)
       /\ \A j \in 1 .. Cardinality(T) : g[Ascending(T)[j]] = Ascending(S)[j]
  <2>1. GrowsOnto(g, T, S)
    <3>1. /\ \A i, j \in T : i < j => g[i] < g[j]
          /\ \A s \in S : \E e \in T : g[e] = s
      BY <1>9, <1>10
    <3> HIDE DEF T, S, g
    <3> QED BY <1>8, <3>1 DEF GrowsOnto
  <2>2. Numbers(T) /\ Numbers(S)
    BY <1>2, <1>11 DEF Numbers
  <2> HIDE DEF T, S, g
  <2> QED BY <2>1, <2>2, AscendingMaps
<1>13. ASSUME NEW j \in 1 .. Cardinality(T) PROVE m[k][Ascending(T)[j]] = p[k][Ascending(S)[j]]
  <2> DEFINE e == Ascending(T)[j]
  <2>1. e \in T
    <3> HIDE DEF T
    <3> QED BY <1>2, <1>11, AscendingLists
  <2>2. g[e] = Ascending(S)[j]
    BY <1>12
  <2> HIDE DEF e
  <2>3. Ascending(K)[e] = Ascending(S)[j] /\ e \in 1 .. n /\ m[k][e].broker # b
    BY <1>7, <2>1, <2>2
  <2>4. m[k][e] = p[k][Ascending(K)[e]]
    BY <1>5, <2>3
  <2> QED BY <2>3, <2>4 DEF e
<1>14. OtherRows(m[k], b) = Picked(m[k], T) /\ OtherRows(p[k], b) = Picked(p[k], S)
  BY DEF OtherRows
<1> HIDE DEF T, S
<1>15. Picked(m[k], T) = Picked(p[k], S)
  BY <1>12, <1>13 DEF Picked
<1> QED BY <1>14, <1>15

\* The merge of a broker keeps its hands off the rows of all others: they
\* keep their figures and their order, whatever is removed, refreshed and
\* appended around them (update_<broker>_etfs_in_portfolio).
THEOREM OthersStay == Spec => OthersUntouched
<1> DEFINE A == portfolio' # portfolio /\ phase = "fetch" =>
                  \A b \in Buckets : OtherRows(portfolio'[b], broker) = OtherRows(portfolio[b], broker)
<1>1. ASSUME Typing, [Next]_vars, portfolio' # portfolio, phase = "fetch", NEW b \in Buckets
      PROVE  OtherRows(portfolio'[b], broker) = OtherRows(portfolio[b], broker)
  <2>1. Merge
    BY <1>1 DEF Next, Fetch, Advance, Cancel, Ended, Load, Estimate, Persist, Build, Composed,
                PersistShares, PersistValues, Plot, FetchFails, ComposeFails, Die, vars, runVars
  <2>2. portfolio \in Lists /\ broker \in Brokers /\ fetched \in Holdings
    BY <1>1 DEF Typing, RunType, FetchType
  <2>3. portfolio' = MergeHoldings(portfolio, broker, fetched)
    BY <2>1 DEF Merge
  <2>4. DOMAIN fetched # {}
    BY <1>1, <2>3 DEF MergeHoldings
  <2>5. LET H == Hits(portfolio, broker, fetched)
            G == Removed(portfolio, broker, fetched)
        IN  /\ portfolio' = Merged(portfolio, broker, fetched, H, G)
            /\ Mergeable(portfolio, broker, fetched, H)
            /\ H \subseteq CellsOf(portfolio, broker) /\ G \subseteq CellsOf(portfolio, broker)
    BY <2>2, <2>3, <2>4, MergePlan
  <2> QED BY <2>5, MergedOthers
<1>2. IInv /\ [Next]_vars => A
  BY <1>1 DEF IInv
<1>3. IInv /\ [Next]_vars => [A]_vars
  BY <1>2
<1> QED BY <1>3, Invariance, PTL DEF Spec, OthersUntouched

================================================================================
