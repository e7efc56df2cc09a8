------------------------- MODULE DecisionCycleProofs -------------------------
(***************************************************************************)
(* Proofs about DecisionCycle, for every fleet and every demand: the types *)
(* and that a cycle never reclaims below demand.                           *)
(*                                                                         *)
(* What a machine that nobody claims says about a row: the row's walk went *)
(* past the machine, so what the row took before it covers the row, and no *)
(* other row counts on that.  The sums over rows and machines are          *)
(* comparisons of sets of units, by injections.                            *)
(***************************************************************************)
EXTENDS DecisionCycle, FiniteSetTheorems, WellFoundedInduction, TLAPS

-----------------------------------------------------------------------------
(* Numbers and finite sets.                                                *)

LEMMA LeastNumber ==
  ASSUME NEW T \in SUBSET Nat, T # {}
  PROVE  \E x \in T : \A y \in T : x <= y
<1> DEFINE R == OpToRel(<, Nat)
<1>1. PICK x \in T : \A y \in T : ~ (<<y, x>> \in R)  BY WFMin, NatLessThanWellFounded
<1>2. \A y \in T : <<y, x>> \in R <=> y < x  BY DEF OpToRel
<1> HIDE DEF R
<1>3. \A y \in T : ~(y < x)  BY <1>1, <1>2
<1> QED  BY <1>3

\* Induction up to a bound, with the induction hypothesis as a set of numbers.
LEMMA StepInduction ==
  ASSUME NEW n \in Nat, NEW T, 0 \in T, \A i \in 1 .. n : i - 1 \in T => i \in T
  PROVE  \A i \in 0 .. n : i \in T
<1> DEFINE C == {i \in 0 .. n : i \notin T}
<1> SUFFICES ASSUME C # {} PROVE FALSE  OBVIOUS
<1>1. PICK x \in C : \A y \in C : x <= y  BY LeastNumber, C \in SUBSET Nat
<1>2. x \in 1 .. n /\ x - 1 \in 0 .. n /\ ~ (x <= x - 1)  OBVIOUS
<1>3. x - 1 \in T  BY <1>1, <1>2
<1> QED  BY <1>2, <1>3

LEMMA FirstNumbers ==
  ASSUME NEW k \in Nat  PROVE IsFiniteSet(1 .. k) /\ Cardinality(1 .. k) = k
BY FS_Interval

\* A set that is not larger than another one fits into it.
LEMMA FitsInto ==
  ASSUME NEW A, NEW B, IsFiniteSet(A), IsFiniteSet(B), Cardinality(A) <= Cardinality(B)
  PROVE  \E h \in [A -> B] : \A x, y \in A : h[x] = h[y] => x = y
<1> DEFINE a == Cardinality(A)
           b == Cardinality(B)
<1>1. a \in Nat /\ b \in Nat /\ a <= b  BY FS_CardinalityType
<1>2. IsFiniteSet(1 .. a) /\ Cardinality(1 .. a) = a  BY <1>1, FirstNumbers
<1>3. ExistsBijection(A, 1 .. a)  BY <1>2, FS_SameCardinalityBij
<1>4. ExistsBijection(1 .. b, B)  BY FS_CardinalityType
<1>5. PICK f : f \in [A -> 1 .. a] /\ \A x, y \in A : f[x] = f[y] => x = y
  BY <1>3 DEF ExistsBijection, Bijection, Injection, Surjection, IsInjective
<1>6. PICK g : g \in [1 .. b -> B] /\ \A x, y \in 1 .. b : g[x] = g[y] => x = y
  BY <1>4 DEF ExistsBijection, Bijection, Injection, Surjection, IsInjective
<1> HIDE DEF a, b
<1>7. \A x \in A : f[x] \in 1 .. b
  <2> TAKE x \in A
  <2>1. f[x] \in 1 .. a  BY <1>5
  <2> QED  BY <1>1, <2>1
<1> DEFINE h == [x \in A |-> g[f[x]]]
<1>8. h \in [A -> B]  BY <1>6, <1>7
<1>9. \A x, y \in A : h[x] = h[y] => x = y
  <2> SUFFICES ASSUME NEW x \in A, NEW y \in A, h[x] = h[y]  PROVE x = y  OBVIOUS
  <2>1. g[f[x]] = g[f[y]]  OBVIOUS
  <2>2. f[x] = f[y]  BY <1>6, <1>7, <2>1
  <2> QED  BY <1>5, <2>2
<1> QED  BY <1>8, <1>9

LEMMA NotLarger ==
  ASSUME NEW A, NEW B, IsFiniteSet(B), NEW h \in [A -> B],
         \A x, y \in A : h[x] = h[y] => x = y
  PROVE  IsFiniteSet(A) /\ Cardinality(A) <= Cardinality(B)
<1>1. h \in Injection(A, B)  BY DEF Injection, IsInjective
<1> QED  BY <1>1, FS_Injection

-----------------------------------------------------------------------------
(* Units.                                                                  *)

\* What an input says about a fleet, as far as the proofs need it.
IsFleet(f) ==
    /\ f.cluster \in [Needs -> Clusters] /\ f.class \in [Needs -> Classes]
    /\ f.same \in SUBSET Needs
    /\ f.prio \in [Classes -> Nat]
    /\ f.alloc \in [Machines -> 1 .. MaxAlloc]
    /\ f.wants \in [Needs -> SUBSET Nat]

UnitsOf(ms) == {u \in ms \X (1 .. MaxAlloc) : u[2] <= in.alloc[u[1]]}

LEMMA UnitsFinite ==
  ASSUME NEW ms \in SUBSET Machines
  PROVE  IsFiniteSet(UnitsOf(ms)) /\ Alloc(ms) = Cardinality(UnitsOf(ms)) /\ Alloc(ms) \in Nat
<1>1. IsFiniteSet(ms)  BY FS_Subset, BoundsAssumption
<1>2. IsFiniteSet(1 .. MaxAlloc)  BY FS_Interval, BoundsAssumption
<1> DEFINE some == 1 .. MaxAlloc
<1>3. IsFiniteSet(ms \X some)
  <2> HIDE DEF some
  <2> QED  BY <1>1, <1>2, FS_Product DEF some
<1>4. UnitsOf(ms) \in SUBSET (ms \X some)  BY DEF UnitsOf
<1> HIDE DEF some
<1>5. IsFiniteSet(UnitsOf(ms))  BY <1>3, <1>4, FS_Subset
<1> QED  BY <1>5, FS_CardinalityType DEF Alloc, UnitsOf

LEMMA MoreMachinesMoreUnits ==
  ASSUME NEW ms \in SUBSET Machines, NEW less \in SUBSET ms
  PROVE  Alloc(less) <= Alloc(ms)
<1>1. less \in SUBSET Machines  OBVIOUS
<1>2. UnitsOf(less) \in SUBSET UnitsOf(ms)  BY DEF UnitsOf
<1> QED  BY <1>1, <1>2, UnitsFinite, FS_Subset

\* What a set of Needs wants, as units.
WantedUnits(ns) ==
    {u \in ns \X (1 .. Cardinality(Machines) * MaxAlloc) : u[2] <= demand[u[1]]}

\* Needs that are covered one by one by disjoint machines are covered together.
LEMMA CoveredTogether ==
  ASSUME IsFleet(in), demand \in [Needs -> Nat], NEW ns \in SUBSET Needs,
         NEW T \in [ns -> SUBSET Machines],
         \A n, q \in ns : n # q => T[n] \cap T[q] = {},
         \A n \in ns : Alloc(T[n]) >= demand[n],
         NEW ms \in SUBSET Machines, \A n \in ns : T[n] \in SUBSET ms
  PROVE  Alloc(ms) >= Wanted(ns)
<1> DEFINE W(n) == {u \in WantedUnits(ns) : u[1] = n}
           Injective(h, n) == \A x, y \in W(n) : h[x] = h[y] => x = y
           Fitting(n) == {h \in [W(n) -> UnitsOf(T[n])] : Injective(h, n)}
           H == [n \in ns |-> CHOOSE h \in Fitting(n) : TRUE]
           g == [u \in WantedUnits(ns) |-> H[u[1]][u]]
<1>1. ASSUME NEW n \in ns  PROVE Fitting(n) # {}
  <2> DEFINE seq == 1 .. demand[n]
             h0 == [u \in W(n) |-> u[2]]
  <2>1. demand[n] \in Nat  OBVIOUS
  <2>2. IsFiniteSet(seq) /\ Cardinality(seq) = demand[n]  BY <2>1, FirstNumbers
  <2>3. \A u \in W(n) : u = <<n, u[2]>> /\ u[2] \in seq
    BY <2>1, BoundsAssumption, FS_CardinalityType DEF WantedUnits
  <2>4. h0 \in [W(n) -> seq]  BY <2>3
  <2>5. \A x, y \in W(n) : h0[x] = h0[y] => x = y  BY <2>3
  <2> HIDE DEF W, seq, h0
  <2>6. IsFiniteSet(W(n)) /\ Cardinality(W(n)) <= Cardinality(seq)
    BY <2>2, <2>4, <2>5, NotLarger
  <2>7. T[n] \in SUBSET Machines /\ Alloc(T[n]) >= demand[n]  OBVIOUS
  <2>8. IsFiniteSet(UnitsOf(T[n])) /\ Cardinality(UnitsOf(T[n])) >= demand[n]
    BY <2>7, UnitsFinite
  <2>9. Cardinality(W(n)) <= Cardinality(UnitsOf(T[n]))
    <3>1. Cardinality(W(n)) \in Nat /\ Cardinality(UnitsOf(T[n])) \in Nat
      BY <2>6, <2>8, FS_CardinalityType
    <3> QED  BY <2>1, <2>2, <2>6, <2>8, <3>1
  <2>10. \E h \in [W(n) -> UnitsOf(T[n])] : \A x, y \in W(n) : h[x] = h[y] => x = y
    BY <2>6, <2>8, <2>9, FitsInto
  <2> QED  BY <2>10
<1>2. \A n \in ns : H[n] \in Fitting(n)  BY <1>1
<1> HIDE DEF H
<1>3. \A u \in WantedUnits(ns) : u[1] \in ns /\ u \in W(u[1])  BY DEF WantedUnits
<1>4. ASSUME NEW u \in WantedUnits(ns)  PROVE g[u] \in UnitsOf(T[u[1]])
  <2>1. u[1] \in ns /\ u \in W(u[1])  BY <1>3
  <2>2. H[u[1]] \in [W(u[1]) -> UnitsOf(T[u[1]])]  BY <1>2, <2>1
  <2> HIDE DEF W
  <2>3. H[u[1]][u] \in UnitsOf(T[u[1]])  BY <2>1, <2>2
  <2> QED  BY <2>3
<1>5. \A n \in ns : UnitsOf(T[n]) \in SUBSET UnitsOf(ms)  BY DEF UnitsOf
<1>6. g \in [WantedUnits(ns) -> UnitsOf(ms)]  BY <1>3, <1>4, <1>5
<1>7. ASSUME NEW x \in WantedUnits(ns), NEW y \in WantedUnits(ns), g[x] = g[y]
      PROVE  x = y
  <2>1. g[x] \in UnitsOf(T[x[1]]) /\ g[x] \in UnitsOf(T[y[1]])  BY <1>4, <1>7
  <2>2. g[x][1] \in T[x[1]] \cap T[y[1]]  BY <2>1 DEF UnitsOf
  <2>3. x[1] = y[1]  BY <1>3, <2>2
  <2>4. H[x[1]][x] = H[x[1]][y]  BY <1>7, <2>3
  <2>5. x \in W(x[1]) /\ y \in W(x[1]) /\ H[x[1]] \in Fitting(x[1])  BY <1>2, <1>3, <2>3
  <2> QED  BY <2>4, <2>5
<1> HIDE DEF g
<1>8. Cardinality(WantedUnits(ns)) <= Cardinality(UnitsOf(ms))
  BY <1>6, <1>7, UnitsFinite, NotLarger
<1>9. Alloc(ms) = Cardinality(UnitsOf(ms)) /\ Alloc(ms) \in Nat  BY UnitsFinite
<1>10. Wanted(ns) = Cardinality(WantedUnits(ns))  BY DEF Wanted, WantedUnits
<1>11. Cardinality(WantedUnits(ns)) \in Nat
  BY <1>6, <1>7, UnitsFinite, NotLarger, FS_CardinalityType
<1> QED  BY <1>8, <1>9, <1>10, <1>11

-----------------------------------------------------------------------------
(* Walks.                                                                  *)

\* When a walk over what a row may be credited with leaves a Configured machine,
\* the Configured machines it took cover the row.
LEMMA WalkCovers ==
  ASSUME NumbersAssumption, NEW ms \in SUBSET Machines, NEW want \in Nat,
         NEW m \in ms, st[m] = "Configured", m \notin Walk(ms, KeepRank, want)
  PROVE  \E taken \in SUBSET Walk(ms, KeepRank, want) :
           Alloc(taken) >= want /\ \A x \in taken : st[x] = "Configured"
<1> DEFINE before(z) == {x \in ms : KeepRank[x] < KeepRank[z] \/ (KeepRank[x] = KeepRank[z] /\ x < z)}
           C == {z \in ms : st[z] = "Configured"}
           Left == {z \in C : z \notin Walk(ms, KeepRank, want)}
<1>1. Machines \in SUBSET Nat  BY DEF NumbersAssumption
<1>2. \A x \in Machines : KeepRank[x] \in 1 .. 3 /\ (KeepRank[x] = 1 <=> st[x] = "Configured")
  BY DEF KeepRank
<1>3. PICK z \in Left : \A y \in Left : z <= y
  <2>1. Left \in SUBSET Nat /\ Left # {}  BY <1>1
  <2> HIDE DEF Left
  <2> QED  BY <2>1, LeastNumber
<1>4. \A x \in before(z) : x \in C /\ x < z  BY <1>2, <1>3
<1>5. before(z) \in SUBSET Walk(ms, KeepRank, want)
  <2> SUFFICES ASSUME NEW x \in before(z), x \in Left  PROVE FALSE  BY <1>4
  <2>1. x < z /\ z <= x /\ x \in Nat /\ z \in Nat  BY <1>1, <1>3, <1>4
  <2> QED  BY <2>1
<1>6. ~(Alloc(before(z)) < want)  BY <1>3 DEF Walk
<1>7. before(z) \in SUBSET Machines  OBVIOUS
<1>8. Alloc(before(z)) \in Nat  BY <1>7, UnitsFinite
<1>9. Alloc(before(z)) >= want  BY <1>6, <1>8
<1> QED  BY <1>4, <1>5, <1>9

-----------------------------------------------------------------------------
(* The rows of a cycle and their order.                                    *)

Typed == IsFleet(in) /\ demand \in [Needs -> Nat]

IsRow(r) ==
    /\ r.pos \in Nat \ {0} /\ r.cluster \in Clusters /\ r.class \in Classes
    /\ r.same \in BOOLEAN /\ r.group \in Needs \cup {0}
    /\ r.want \in Nat /\ r.unit \in Nat

IsRows(rows) ==
    /\ IsFiniteSet(rows)
    /\ \A r \in rows : IsRow(r)
    /\ \A r, q \in rows : r.pos = q.pos => r = q

LEMMA KeysAreOrdered ==
  ASSUME NumbersAssumption, Typed
  PROVE  \A n, q \in Needs :
           /\ FoldKey(n) # FoldKey(q)
                => KeyLess(FoldKey(n), FoldKey(q)) \/ KeyLess(FoldKey(q), FoldKey(n))
           /\ ~KeyLess(FoldKey(n), FoldKey(n))
           /\ \A x \in Needs : KeyLess(FoldKey(x), FoldKey(n)) /\ KeyLess(FoldKey(n), FoldKey(q))
                => KeyLess(FoldKey(x), FoldKey(q))
<1>1. \A n \in Needs : in.cluster[n] \in Nat /\ in.class[n] \in Nat /\ demand[n] \in Nat
  BY DEF Typed, IsFleet, NumbersAssumption
<1>2. \A n \in Needs : FoldKey(n) = <<in.cluster[n], in.class[n], demand[n]>>  BY DEF FoldKey
<1> QED  BY <1>1, <1>2 DEF KeyLess

\* Folded rows with the same place are the same row.
LEMMA FoldedApart ==
  ASSUME NumbersAssumption, Typed, NEW n \in Folded, NEW q \in Folded,
         FoldedRow(FoldKey(n)).pos = FoldedRow(FoldKey(q)).pos
  PROVE  FoldKey(n) = FoldKey(q)
<1> DEFINE Below(k) == {x \in Folded : KeyLess(FoldKey(x), k)}
<1>1. Folded \in SUBSET Needs  BY DEF Folded, Live
<1>2. \A k : Below(k) \in SUBSET Needs /\ IsFiniteSet(Below(k)) /\ Cardinality(Below(k)) \in Nat
  BY <1>1, BoundsAssumption, FS_Subset, FS_CardinalityType
<1>3. Cardinality(Needs) \in Nat  BY BoundsAssumption, FS_CardinalityType
<1>4. Cardinality(Below(FoldKey(n))) = Cardinality(Below(FoldKey(q)))
  <2>1. \A k : FoldedRow(k).pos = Cardinality(Needs) + 1 + Cardinality(Below(k))
    BY DEF FoldedRow
  <2> HIDE DEF Below
  <2> QED  BY <1>2, <1>3, <2>1
<1>5. ASSUME NEW x \in Folded, NEW y \in Folded, KeyLess(FoldKey(x), FoldKey(y)),
             Cardinality(Below(FoldKey(x))) = Cardinality(Below(FoldKey(y)))
      PROVE  FALSE
  <2>1. Below(FoldKey(x)) \in SUBSET Below(FoldKey(y))  BY <1>1, <1>5, KeysAreOrdered
  <2>2. Below(FoldKey(x)) = Below(FoldKey(y))
    <3> HIDE DEF Below
    <3> QED  BY <1>2, <1>5, <2>1, FS_Subset
  <2>3. x \in Below(FoldKey(y)) /\ x \notin Below(FoldKey(x))  BY <1>1, <1>5, KeysAreOrdered
  <2> QED  BY <2>2, <2>3
<1> HIDE DEF Below
<1> QED  BY <1>1, <1>4, <1>5, KeysAreOrdered

LEMMA RowsAre ==
  ASSUME NumbersAssumption, Typed, NEW order \in Snapshots
  PROVE  IsRows(NormalizeDemand(order))
<1> DEFINE S == Live \ Folded
           P == {PassedRow(n, order[n]) : n \in S}
           F == {FoldedRow(FoldKey(n)) : n \in Folded}
           p == [n \in S |-> PassedRow(n, order[n])]
           f == [n \in Folded |-> FoldedRow(FoldKey(n))]
           N == Cardinality(Needs)
<1>1. Folded \in SUBSET Needs /\ S \in SUBSET Needs  BY DEF Folded, Live
<1>2. N \in Nat  BY BoundsAssumption, FS_CardinalityType
<1>3. NormalizeDemand(order) = P \cup F  BY DEF NormalizeDemand
<1>4. IsFiniteSet(Folded) /\ IsFiniteSet(S)  BY <1>1, BoundsAssumption, FS_Subset
<1>5. IsFiniteSet(P) /\ IsFiniteSet(F)
  <2>1. p \in Surjection(S, P)  BY DEF Surjection
  <2>2. f \in Surjection(Folded, F)  BY DEF Surjection
  <2> HIDE DEF S, P, F, p, f
  <2> QED  BY <1>4, <2>1, <2>2, FS_Surjection
<1>6. IsFiniteSet(P \cup F)
  <2> HIDE DEF P, F
  <2> QED  BY <1>5, FS_Union
<1>7. \A n \in Needs : order[n] \in 1 .. N  BY DEF Snapshots
<1>8. \A n \in Needs : in.cluster[n] \in Clusters /\ in.class[n] \in Classes /\ demand[n] \in Nat
  BY DEF Typed, IsFleet
<1>9. \A r \in P : IsRow(r) /\ r.pos <= N
  <2> SUFFICES ASSUME NEW n \in S
               PROVE  IsRow(PassedRow(n, order[n])) /\ PassedRow(n, order[n]).pos <= N
    OBVIOUS
  <2> QED  BY <1>1, <1>2, <1>7, <1>8 DEF PassedRow, IsRow
<1>10. \A r \in F : IsRow(r) /\ r.pos > N
  <2> SUFFICES ASSUME NEW n \in Folded
               PROVE  IsRow(FoldedRow(FoldKey(n))) /\ FoldedRow(FoldKey(n)).pos > N
    OBVIOUS
  <2> DEFINE Below == {x \in Folded : KeyLess(FoldKey(x), FoldKey(n))}
             Same == {x \in Folded : FoldKey(x) = FoldKey(n)}
  <2>1. Below \in SUBSET Folded /\ Same \in SUBSET Folded  OBVIOUS
  <2>2. Cardinality(Below) \in Nat /\ Cardinality(Same) \in Nat
    <3> HIDE DEF Below, Same
    <3> QED  BY <1>4, <2>1, FS_Subset, FS_CardinalityType
  <2>3. /\ FoldedRow(FoldKey(n)).pos = N + 1 + Cardinality(Below)
        /\ FoldedRow(FoldKey(n)).want = demand[n] * Cardinality(Same)
        /\ FoldedRow(FoldKey(n)).cluster = in.cluster[n]
        /\ FoldedRow(FoldKey(n)).class = in.class[n]
        /\ FoldedRow(FoldKey(n)).same = FALSE
        /\ FoldedRow(FoldKey(n)).group = 0
        /\ FoldedRow(FoldKey(n)).unit = demand[n]
    BY DEF FoldedRow, FoldKey
  <2> HIDE DEF Below, Same, N
  <2>4. demand[n] * Cardinality(Same) \in Nat  BY <1>1, <1>8, <2>2
  <2> DEFINE r == FoldedRow(FoldKey(n))
  <2>5. r.pos \in Nat \ {0} /\ r.pos > N  BY <1>2, <2>2, <2>3
  <2>6. r.cluster \in Clusters /\ r.class \in Classes /\ r.unit \in Nat /\ r.want \in Nat
    BY <1>1, <1>8, <2>3, <2>4
  <2>7. r.same \in BOOLEAN /\ r.group \in Needs \cup {0}  BY <2>3
  <2> HIDE DEF r
  <2>8. IsRow(r)  BY <2>5, <2>6, <2>7 DEF IsRow
  <2> QED  BY <2>5, <2>8 DEF r
<1>11. \A r, q \in P : r.pos = q.pos => r = q
  <2> SUFFICES ASSUME NEW n \in S, NEW q \in S,
                      PassedRow(n, order[n]).pos = PassedRow(q, order[q]).pos
               PROVE  PassedRow(n, order[n]) = PassedRow(q, order[q])
    OBVIOUS
  <2>1. order[n] = order[q]  BY DEF PassedRow
  <2>2. n = q  BY <1>1, <2>1 DEF Snapshots
  <2> QED  BY <2>2
<1>12. \A r, q \in F : r.pos = q.pos => r = q
  <2> SUFFICES ASSUME NEW n \in Folded, NEW q \in Folded,
                      FoldedRow(FoldKey(n)).pos = FoldedRow(FoldKey(q)).pos
               PROVE  FoldedRow(FoldKey(n)) = FoldedRow(FoldKey(q))
    OBVIOUS
  <2>1. FoldKey(n) = FoldKey(q)  BY FoldedApart
  <2> QED  BY <2>1
<1> HIDE DEF P, F, S, N
<1>13. \A r \in P, q \in F : r.pos # q.pos  BY <1>2, <1>9, <1>10 DEF IsRow
<1> QED  BY <1>3, <1>6, <1>9, <1>10, <1>11, <1>12, <1>13 DEF IsRows

\* Every row has its turn.
LEMMA EveryRowHasItsTurn ==
  ASSUME Typed, NEW rows, IsRows(rows), NEW r \in rows
  PROVE  \E k \in 1 .. Cardinality(rows) : Nth(rows, k) = r
<1> DEFINE Before(q) == {x \in rows : Precedes(x, q)}
           k == Cardinality(Before(r)) + 1
<1>1. \A q \in rows : Priority(q) \in Nat /\ q.pos \in Nat
  BY DEF Typed, IsFleet, IsRows, IsRow, Priority
<1>2. \A q, x \in rows : q # x => Precedes(q, x) \/ Precedes(x, q)
  BY <1>1 DEF Precedes, IsRows
<1>3. \A q \in rows : ~Precedes(q, q)  BY <1>1 DEF Precedes
<1>4. \A q, x, y \in rows : Precedes(q, x) /\ Precedes(x, y) => Precedes(q, y)
  BY <1>1 DEF Precedes
<1>5. \A q : IsFiniteSet(Before(q)) /\ Cardinality(Before(q)) \in Nat
  BY FS_Subset, FS_CardinalityType DEF IsRows
<1>6. ASSUME NEW q \in rows, NEW x \in rows, Precedes(q, x)
      PROVE  Cardinality(Before(q)) # Cardinality(Before(x))
  <2>1. Before(q) \in SUBSET Before(x)  BY <1>4, <1>6
  <2>2. q \in Before(x) /\ q \notin Before(q)  BY <1>3, <1>6
  <2> HIDE DEF Before
  <2> QED  BY <1>5, <2>1, <2>2, FS_Subset
<1>7. Nth(rows, k) = r
  <2>1. \A q \in rows : Cardinality(Before(q)) = k - 1 => q = r
    <3> TAKE q \in rows
    <3>1. k - 1 = Cardinality(Before(r))  BY <1>5
    <3> QED  BY <1>2, <1>6, <3>1
  <2>2. Cardinality(Before(r)) = k - 1  BY <1>5
  <2> HIDE DEF k
  <2>3. Nth(rows, k) = CHOOSE q \in rows : Cardinality(Before(q)) = k - 1  BY DEF Nth
  <2> HIDE DEF Before
  <2> QED  BY <2>1, <2>2, <2>3
<1>8. k \in 1 .. Cardinality(rows)
  <2>1. Before(r) \in SUBSET rows /\ r \notin Before(r)  BY <1>3
  <2>2. IsFiniteSet(rows) /\ Cardinality(rows) \in Nat  BY FS_CardinalityType DEF IsRows
  <2> HIDE DEF Before
  <2>3. Cardinality(Before(r)) < Cardinality(rows)
    <3>1. Cardinality(Before(r)) <= Cardinality(rows) /\ Cardinality(Before(r)) # Cardinality(rows)
      BY <2>1, <2>2, FS_Subset
    <3> QED  BY <1>5, <2>2, <3>1
  <2> QED  BY <1>5, <2>2, <2>3
<1> HIDE DEF k
<1> QED  BY <1>7, <1>8

-----------------------------------------------------------------------------
(* The pre-pass, row by row.                                               *)

NothingSeeded == [claims |-> {}, dom |-> {}, sat |-> {}, consumed |-> {}]

\* The equation of the function that goes over the rows, up to row n.
Seeding(f, rows, n) ==
    f = [k \in 0 .. n |->
          IF k = 0 THEN {[claims |-> {}, dom |-> {}, sat |-> {}, consumed |-> {}]}
          ELSE {SeedRow(s, Nth(rows, k)) : s \in f[k - 1]}]

LEMMA SeedingExists ==
  ASSUME NEW rows, NEW n \in Nat
  PROVE  \E f : Seeding(f, rows, n)
<1> DEFINE T == {k \in Nat : \E f : Seeding(f, rows, k)}
<1>1. 0 \in T
  <2> DEFINE f == [k \in 0 .. 0 |-> {NothingSeeded}]
  <2>1. \A k \in 0 .. 0 : k = 0  OBVIOUS
  <2>2. Seeding(f, rows, 0)  BY <2>1 DEF Seeding, NothingSeeded
  <2> QED  BY <2>2
<1>2. ASSUME NEW k \in 1 .. n, k - 1 \in T  PROVE k \in T
  <2>1. PICK f : Seeding(f, rows, k - 1)  BY <1>2
  <2> DEFINE g == [i \in 0 .. k |->
                     IF i = k THEN {SeedRow(s, Nth(rows, k)) : s \in f[k - 1]} ELSE f[i]]
  <2>2. \A i \in 0 .. k : i # k => i \in 0 .. k - 1  OBVIOUS
  <2>3. ASSUME NEW i \in 0 .. k
        PROVE  g[i] = IF i = 0 THEN {NothingSeeded} ELSE {SeedRow(s, Nth(rows, i)) : s \in g[i - 1]}
    <3>1. CASE i = k
      <4>1. i # 0 /\ i - 1 \in 0 .. k /\ i - 1 # k  BY <3>1
      <4>2. g[i - 1] = f[k - 1]  BY <3>1, <4>1
      <4>3. g[i] = {SeedRow(s, Nth(rows, k)) : s \in f[k - 1]}  BY <3>1
      <4> HIDE DEF g
      <4> QED  BY <3>1, <4>1, <4>2, <4>3
    <3>2. CASE i # k
      <4>1. i \in 0 .. k - 1  BY <2>2, <3>2
      <4>2. g[i] = f[i]  BY <3>2
      <4>3. f[i] = IF i = 0 THEN {NothingSeeded} ELSE {SeedRow(s, Nth(rows, i)) : s \in f[i - 1]}
        BY <2>1, <4>1 DEF Seeding, NothingSeeded
      <4>4. i # 0 => i - 1 \in 0 .. k /\ i - 1 # k  BY <4>1
      <4>5. i # 0 => g[i - 1] = f[i - 1]  BY <4>4
      <4> HIDE DEF g
      <4> QED  BY <4>2, <4>3, <4>5
    <3> QED  BY <3>1, <3>2
  <2>4. g = [i \in 0 .. k |-> g[i]]  OBVIOUS
  <2> HIDE DEF g
  <2>5. Seeding(g, rows, k)  BY <2>3, <2>4 DEF Seeding, NothingSeeded
  <2> QED  BY <2>5
<1> HIDE DEF T
<1>3. n \in T  BY <1>1, <1>2, StepInduction
<1> QED  BY <1>3 DEF T

LEMMA SeedIs ==
  ASSUME NEW rows, IsFiniteSet(rows)
  PROVE  \E f : Seeding(f, rows, Cardinality(rows))
                /\ SeedConfiguredSupply(rows) = f[Cardinality(rows)]
<1> DEFINE f == CHOOSE g : Seeding(g, rows, Cardinality(rows))
<1>1. Seeding(f, rows, Cardinality(rows))  BY SeedingExists, FS_CardinalityType
<1>2. SeedConfiguredSupply(rows) = f[Cardinality(rows)]  BY DEF SeedConfiguredSupply, Seeding
<1> HIDE DEF f
<1> QED  BY <1>1, <1>2

LEMMA SeedFields ==
  ASSUME NEW a, NEW b, NEW c, NEW d, NEW t,
         t = [claims |-> a, dom |-> b, sat |-> c, consumed |-> d]
  PROVE  "claims" \in DOMAIN t /\ t = [x \in DOMAIN t |-> t[x]] /\ t.claims = a
OBVIOUS

\* One row's step adds claims of that row on machines it may be credited with;
\* for a plain row, those of the walk.
LEMMA SeedRowIs ==
  ASSUME NEW s, "claims" \in DOMAIN s, s = [x \in DOMAIN s |-> s[x]], NEW r
  PROVE  /\ "claims" \in DOMAIN SeedRow(s, r)
         /\ SeedRow(s, r) = [x \in DOMAIN SeedRow(s, r) |-> SeedRow(s, r)[x]]
         /\ \E taken \in SUBSET Creditable(r, s) :
              /\ SeedRow(s, r).claims = s.claims \cup (taken \X {r})
              /\ ~r.same => taken = Walk(Creditable(r, s), KeepRank, r.want)
<1> DEFINE t == SeedRow(s, r)
           cred == Creditable(r, s)
<1>1. CASE ~r.same
  <2> DEFINE taken == Walk(cred, KeepRank, r.want)
             more == s.claims \cup (taken \X {r})
  <2>1. taken \in SUBSET cred  BY DEF Walk
  <2>2. t = [s EXCEPT !.claims = more]  BY <1>1 DEF SeedRow, SeedPlain
  <2> HIDE DEF t, cred, more
  <2>3. "claims" \in DOMAIN t /\ t = [x \in DOMAIN t |-> t[x]] /\ t.claims = more  BY <2>2
  <2> QED  BY <2>1, <2>3 DEF more, t, cred
<1>2. CASE r.same /\ SeedSame(s, r) = {}
  <2>1. t = s  BY <1>2 DEF SeedRow
  <2>2. s.claims = s.claims \cup ({} \X {r})  OBVIOUS
  <2> QED  BY <1>2, <2>1, <2>2
<1>3. CASE r.same /\ SeedSame(s, r) # {}
  <2>1. t \in SeedSame(s, r)  BY <1>3 DEF SeedRow
  <2> DEFINE B == ChooseSameBucket(r, Creditable(r, s), Acquirable(r, s))
             Taken(c, b) ==
               Walk(c \cap InDomain(b[1]),
                    [m \in Machines |-> IF owner[m] = Owner(r) THEN KeepRank[m] ELSE 3 + KeepRank[m]],
                    r.want)
             Seeded(taken, b) ==
               [claims   |-> s.claims \cup (taken \X {r}),
                dom      |-> s.dom \cup {<<b[1], r>>},
                sat      |-> IF b[2].sat THEN s.sat \cup {r} ELSE s.sat,
                consumed |-> ConsumeAcquirable(s, r, b[1], SubResources(r.want, Alloc(taken)))]
  <2>2. SeedSame(s, r) = {Seeded(Taken(c, b), b) : c \in {Creditable(r, s)}, b \in B}
    BY DEF SeedSame
  <2>3. \A b : Taken(cred, b) \in SUBSET cred  BY DEF Walk
  <2>4. ASSUME NEW taken, NEW b, NEW x, x = Seeded(taken, b)
        PROVE  /\ "claims" \in DOMAIN x /\ x = [y \in DOMAIN x |-> x[y]]
               /\ x.claims = s.claims \cup (taken \X {r})
    <3> HIDE DEF t, cred, B, Taken
    <3> QED  BY <2>4, SeedFields
  <2> HIDE DEF t, B, Taken, Seeded
  <2>5. PICK b \in B : t = Seeded(Taken(cred, b), b)  BY <2>1, <2>2
  <2> HIDE DEF cred
  <2>6. "claims" \in DOMAIN t /\ t = [x \in DOMAIN t |-> t[x]]  BY <2>4, <2>5
  <2>7. t.claims = s.claims \cup (Taken(cred, b) \X {r})  BY <2>4, <2>5
  <2> QED  BY <1>3, <2>3, <2>6, <2>7 DEF t, cred
<1> QED  BY <1>1, <1>2, <1>3

\* The claims of the pre-pass: a machine is claimed once, and never one that the
\* workers may take.
Exclusive(claims) ==
    /\ \A c \in claims : c = <<c[1], c[2]>> /\ c[1] \in Machines /\ c[1] \notin Available
    /\ \A m, r, q : <<m, r>> \in claims /\ <<m, q>> \in claims => r = q

GoodSeed(s) ==
    "claims" \in DOMAIN s /\ s = [x \in DOMAIN s |-> s[x]] /\ Exclusive(s.claims)

\* The machines in use that row r can be credited with.
Usable(r) == Of(r.cluster, "Configured") \cap Fits(r)

\* A usable machine that nobody claims means that others cover the row.
CoversRow(claims, r) ==
    \A m \in Usable(r) \ Claimed(claims) :
        \E taken \in SUBSET Usable(r) : taken \X {r} \subseteq claims /\ Alloc(taken) >= r.want

LEMMA StepKeeps ==
  ASSUME NEW s, GoodSeed(s), NEW r
  PROVE  GoodSeed(SeedRow(s, r)) /\ s.claims \subseteq SeedRow(s, r).claims
<1> DEFINE t == SeedRow(s, r)
<1>s. "claims" \in DOMAIN s /\ s = [x \in DOMAIN s |-> s[x]]  BY DEF GoodSeed
<1>r. /\ "claims" \in DOMAIN t /\ t = [x \in DOMAIN t |-> t[x]]
      /\ \E taken \in SUBSET Creditable(r, s) :
           /\ t.claims = s.claims \cup (taken \X {r})
           /\ ~r.same => taken = Walk(Creditable(r, s), KeepRank, r.want)
  BY <1>s, SeedRowIs
<1>1. PICK taken \in SUBSET Creditable(r, s) : t.claims = s.claims \cup (taken \X {r})
  BY <1>r
<1>2. "claims" \in DOMAIN t /\ t = [x \in DOMAIN t |-> t[x]]  BY <1>r
<1>3. \A m \in taken : m \in Machines /\ m \notin Available /\ m \notin Claimed(s.claims)
  BY DEF Creditable, Of, OwnCreating, InState, Available
<1>4. \A m, q : <<m, q>> \in s.claims => m \in Claimed(s.claims)
  <2> SUFFICES ASSUME NEW m, NEW q, <<m, q>> \in s.claims  PROVE m \in Claimed(s.claims)
    OBVIOUS
  <2>1. <<m, q>>[1] = m  OBVIOUS
  <2> QED  BY <2>1 DEF Claimed
<1> HIDE DEF t
<1>5. \A c \in t.claims : c = <<c[1], c[2]>> /\ c[1] \in Machines /\ c[1] \notin Available
  BY <1>1, <1>3 DEF GoodSeed, Exclusive
<1>6. ASSUME NEW m, NEW p, NEW q, <<m, p>> \in t.claims, <<m, q>> \in t.claims
      PROVE  p = q
  <2>1. <<m, p>> \in s.claims \/ (m \in taken /\ p = r)  BY <1>1, <1>6
  <2>2. <<m, q>> \in s.claims \/ (m \in taken /\ q = r)  BY <1>1, <1>6
  <2> QED  BY <1>3, <1>4, <2>1, <2>2 DEF GoodSeed, Exclusive
<1>7. Exclusive(t.claims)  BY <1>5, <1>6 DEF Exclusive
<1> QED  BY <1>1, <1>2, <1>7 DEF GoodSeed, t

\* What covers a row covers it when more is claimed.
LEMMA CoverStays ==
  ASSUME NEW less, NEW more, less \subseteq more, NEW r, CoversRow(less, r)
  PROVE  CoversRow(more, r)
<1>1. Claimed(less) \subseteq Claimed(more)  BY DEF Claimed
<1> SUFFICES ASSUME NEW m \in Usable(r) \ Claimed(more)
             PROVE  \E taken \in SUBSET Usable(r) :
                      taken \X {r} \subseteq more /\ Alloc(taken) >= r.want
  BY DEF CoversRow
<1>2. PICK taken \in SUBSET Usable(r) : taken \X {r} \subseteq less /\ Alloc(taken) >= r.want
  BY <1>1 DEF CoversRow
<1> QED  BY <1>2

\* A plain row's own step covers it.
LEMMA StepCovers ==
  ASSUME NumbersAssumption, NEW s, GoodSeed(s), NEW r, ~r.same, r.want \in Nat
  PROVE  CoversRow(SeedRow(s, r).claims, r)
<1> DEFINE t == SeedRow(s, r)
           cred == Creditable(r, s)
           taken == Walk(cred, KeepRank, r.want)
<1>s. "claims" \in DOMAIN s /\ s = [x \in DOMAIN s |-> s[x]]  BY DEF GoodSeed
<1>1. t.claims = s.claims \cup (taken \X {r})  BY <1>s, SeedRowIs
<1>2. cred \in SUBSET Machines /\ \A x \in cred : st[x] = "Configured" => x \in Usable(r)
  BY DEF Creditable, Of, OwnCreating, InState, Usable
<1>3. \A m \in Usable(r) \ Claimed(s.claims) : m \in cred /\ st[m] = "Configured"
  BY DEF Creditable, Usable, Of, InState
<1>4. taken \in SUBSET cred  BY DEF Walk
<1> HIDE DEF t, cred
<1> SUFFICES ASSUME NEW m \in Usable(r) \ Claimed(t.claims)
             PROVE  \E E \in SUBSET Usable(r) : E \X {r} \subseteq t.claims /\ Alloc(E) >= r.want
  BY DEF CoversRow, t
<1>5. m \notin Claimed(s.claims) /\ m \notin taken
  <2>1. Claimed(s.claims) \subseteq Claimed(t.claims)  BY <1>1 DEF Claimed
  <2>2. \A x \in taken : <<x, r>> \in t.claims /\ <<x, r>>[1] = x  BY <1>1
  <2>3. \A x \in taken : x \in Claimed(t.claims)  BY <2>2 DEF Claimed
  <2> QED  BY <2>1, <2>3
<1>6. PICK E \in SUBSET taken : Alloc(E) >= r.want /\ \A x \in E : st[x] = "Configured"
  <2>1. m \in cred /\ st[m] = "Configured"  BY <1>3, <1>5
  <2> QED  BY <1>2, <1>5, <2>1, WalkCovers
<1>7. E \in SUBSET Usable(r)  BY <1>2, <1>4, <1>6
<1>8. E \X {r} \subseteq t.claims  BY <1>1
<1> QED  BY <1>6, <1>7, <1>8

\* The pre-pass as a whole.
LEMMA Seeded ==
  ASSUME NumbersAssumption, Typed, NEW rows, IsRows(rows),
         NEW seed \in SeedConfiguredSupply(rows)
  PROVE  /\ GoodSeed(seed)
         /\ \A r \in rows : ~r.same => CoversRow(seed.claims, r)
<1> DEFINE n == Cardinality(rows)
<1>1. n \in Nat  BY FS_CardinalityType DEF IsRows
<1>2. PICK f : Seeding(f, rows, n) /\ SeedConfiguredSupply(rows) = f[n]  BY SeedIs DEF IsRows
<1> HIDE DEF n
<1>3. f[0] = {NothingSeeded}  BY <1>1, <1>2 DEF Seeding, NothingSeeded
<1>4. \A k \in 1 .. n : f[k] = {SeedRow(s, Nth(rows, k)) : s \in f[k - 1]}
  <2> TAKE k \in 1 .. n
  <2>1. k \in 0 .. n /\ k # 0  BY <1>1
  <2> QED  BY <1>2, <2>1 DEF Seeding
<1> DEFINE Passed(s, k) ==
             \A j \in 1 .. k : Nth(rows, j) \in rows /\ ~Nth(rows, j).same
                                 => CoversRow(s.claims, Nth(rows, j))
           T == {k \in 0 .. n : \A s \in f[k] : GoodSeed(s) /\ Passed(s, k)}
<1>5. 0 \in T
  <2>1. GoodSeed(NothingSeeded)  BY DEF GoodSeed, NothingSeeded, Exclusive
  <2>2. \A s : Passed(s, 0)  OBVIOUS
  <2> QED  BY <1>1, <1>3, <2>1, <2>2
<1>6. ASSUME NEW k \in 1 .. n, k - 1 \in T  PROVE k \in T
  <2> SUFFICES ASSUME NEW t \in f[k]  PROVE GoodSeed(t) /\ Passed(t, k)
    BY <1>1
  <2> DEFINE r == Nth(rows, k)
  <2>1. PICK s \in f[k - 1] : t = SeedRow(s, r)  BY <1>4
  <2>2. GoodSeed(s) /\ Passed(s, k - 1)  BY <1>6
  <2>3. GoodSeed(t) /\ s.claims \subseteq t.claims
    <3> HIDE DEF r, Passed
    <3> QED  BY <2>1, <2>2, StepKeeps
  <2>4. ASSUME NEW j \in 1 .. k, Nth(rows, j) \in rows, ~Nth(rows, j).same
        PROVE  CoversRow(t.claims, Nth(rows, j))
    <3>1. CASE j = k
      <4>1. r.want \in Nat /\ ~r.same  BY <2>4, <3>1 DEF IsRows, IsRow
      <4> HIDE DEF r, Passed
      <4>2. CoversRow(t.claims, r)  BY <2>1, <2>2, <4>1, StepCovers
      <4> QED  BY <3>1, <4>2 DEF r
    <3>2. CASE j # k
      <4>1. j \in 1 .. k - 1  BY <3>2
      <4>2. CoversRow(s.claims, Nth(rows, j))  BY <2>2, <2>4, <4>1
      <4> HIDE DEF Passed
      <4> QED  BY <2>3, <4>2, CoverStays
    <3> QED  BY <3>1, <3>2
  <2> QED  BY <2>3, <2>4
<1> HIDE DEF T
<1>7. n \in T
  <2>1. \A k \in 1 .. n : k - 1 \in T => k \in T  BY <1>6
  <2>2. \A k \in 0 .. n : k \in T  BY <1>1, <1>5, <2>1, StepInduction
  <2> QED  BY <1>1, <2>2
<1>8. GoodSeed(seed) /\ Passed(seed, n)  BY <1>2, <1>7 DEF T
<1>9. ASSUME NEW r \in rows, ~r.same  PROVE CoversRow(seed.claims, r)
  <2>1. PICK k \in 1 .. n : Nth(rows, k) = r  BY EveryRowHasItsTurn DEF n
  <2> QED  BY <1>8, <1>9, <2>1
<1> QED  BY <1>8, <1>9

-----------------------------------------------------------------------------
(* What a reclaim leaves.                                                  *)

\* When the machines of gone go, the rest that is bound to m's cluster still
\* covers the Needs that m could serve.
StillCovered(m, gone) ==
    LET ns == ServedBy(bind[m], m)
    IN Alloc({x \in Bound(bind[m]) \ gone : \E n \in ns : x \in in.match[in.class[n]]})
         >= Wanted(ns)

LEMMA DemandStaysCovered ==
  ASSUME NumbersAssumption, Typed, NEW order \in Snapshots,
         NEW seed \in SeedConfiguredSupply(NormalizeDemand(order)),
         NEW claims, seed.claims \subseteq claims,
         NEW m \in Machines, st[m] = "Configured", m \notin Claimed(claims),
         NEW gone \in SUBSET Machines, gone \cap Claimed(claims) = {}
  PROVE  StillCovered(m, gone)
<1> DEFINE ns == ServedBy(bind[m], m)
           ms == {x \in Bound(bind[m]) \ gone : \E n \in ns : x \in in.match[in.class[n]]}
           rows == NormalizeDemand(order)
           row(n) == PassedRow(n, order[n])
           Takes(n) == {E \in SUBSET Usable(row(n)) :
                          E \X {row(n)} \subseteq seed.claims /\ Alloc(E) >= demand[n]}
           T == [n \in ns |-> IF demand[n] > 0 THEN CHOOSE E \in Takes(n) : TRUE ELSE {}]
<1>1. GoodSeed(seed) /\ \A r \in rows : ~r.same => CoversRow(seed.claims, r)
  <2>1. IsRows(rows) /\ seed \in SeedConfiguredSupply(rows)  BY RowsAre
  <2> HIDE DEF rows
  <2> QED  BY <2>1, Seeded
<1>2. ns \in SUBSET Needs /\ \A n \in ns : n \notin in.same /\ in.cluster[n] = bind[m]
  BY DEF ServedBy
<1>3. \A n \in ns : /\ ~row(n).same /\ row(n).cluster = bind[m]
                    /\ row(n).class = in.class[n] /\ row(n).unit = 1
                    /\ row(n).want = demand[n] /\ row(n).pos = order[n]
  <2> TAKE n \in ns
  <2>1. n \notin in.same /\ in.cluster[n] = bind[m]  BY <1>2
  <2> HIDE DEF ns
  <2> QED  BY <2>1 DEF PassedRow
<1>4. ASSUME NEW n \in ns, demand[n] > 0  PROVE Takes(n) # {}
  <2>1. row(n) \in rows  BY <1>2, <1>4 DEF NormalizeDemand, Live, Folded
  <2>2. m \in Usable(row(n))
    <3>1. in.alloc[m] >= 1  BY DEF Typed, IsFleet
    <3>2. m \in in.match[in.class[n]]  BY DEF ServedBy
    <3> HIDE DEF ns, row
    <3> QED  BY <1>3, <3>1, <3>2 DEF Usable, Of, InState, Fits
  <2>3. m \notin Claimed(seed.claims)  BY DEF Claimed
  <2> HIDE DEF row, rows, ns
  <2>4. \E E \in SUBSET Usable(row(n)) :
          E \X {row(n)} \subseteq seed.claims /\ Alloc(E) >= row(n).want
    BY <1>1, <1>3, <2>1, <2>2, <2>3 DEF CoversRow
  <2> QED  BY <1>3, <2>4
<1>5. ASSUME NEW n \in ns  PROVE T[n] = {} \/ T[n] \in Takes(n)
  <2> HIDE DEF Takes
  <2> QED  BY <1>4
<1>6. \A n \in ns : T[n] = {} \/ (T[n] \in SUBSET Usable(row(n)) /\ T[n] \X {row(n)} \subseteq seed.claims)
  <2> HIDE DEF T, row
  <2> QED  BY <1>5
<1>7. \A n \in ns : Alloc(T[n]) >= demand[n]
  <2> TAKE n \in ns
  <2>1. CASE demand[n] > 0
    <3>1. T[n] \in Takes(n)
      <4> HIDE DEF Takes
      <4> QED  BY <1>4, <2>1
    <3> HIDE DEF T
    <3> QED  BY <3>1
  <2>2. CASE ~(demand[n] > 0)
    <3>1. demand[n] \in Nat  BY <1>2 DEF Typed
    <3>2. T[n] = {}  BY <2>2
    <3>3. Alloc({}) \in Nat  BY UnitsFinite
    <3> HIDE DEF T
    <3> QED  BY <2>2, <3>1, <3>2, <3>3
  <2> QED  BY <2>1, <2>2
<1> HIDE DEF T, Takes
<1>8. T = [n \in ns |-> T[n]]  BY DEF T
<1>9. \A n \in ns : T[n] \in SUBSET ms
  <2> SUFFICES ASSUME NEW n \in ns, NEW x \in T[n]  PROVE x \in ms
    OBVIOUS
  <2>1. x \in Usable(row(n)) /\ <<x, row(n)>> \in seed.claims
    <3> HIDE DEF row, ns
    <3> QED  BY <1>6
  <2>2. x \in Claimed(claims)
    <3>1. <<x, row(n)>> \in claims /\ <<x, row(n)>>[1] = x  BY <2>1
    <3> QED  BY <3>1 DEF Claimed
  <2>3. x \in Of(bind[m], "Configured") /\ x \in in.match[in.class[n]]
    <3> HIDE DEF row, ns
    <3> QED  BY <1>3, <2>1 DEF Usable, Fits
  <2> QED  BY <2>2, <2>3 DEF Bound
<1>10. ms \in SUBSET Machines  BY DEF Bound, Of, InState
<1>11. ASSUME NEW n \in ns, NEW q \in ns, n # q, NEW x \in T[n] \cap T[q]  PROVE FALSE
  <2>1. <<x, row(n)>> \in seed.claims /\ <<x, row(q)>> \in seed.claims
    <3> HIDE DEF row, ns
    <3> QED  BY <1>6, <1>11
  <2>2. row(n) = row(q)
    <3> HIDE DEF row
    <3> QED  BY <1>1, <2>1 DEF GoodSeed, Exclusive
  <2>3. order[n] = order[q]
    <3> HIDE DEF row, ns
    <3> QED  BY <1>3, <2>2
  <2> QED  BY <1>2, <1>11, <2>3 DEF Snapshots
<1> HIDE DEF ns, ms, row, rows
<1>12. T \in [ns -> SUBSET Machines]  BY <1>8, <1>9, <1>10
<1>13. \A n, q \in ns : n # q => T[n] \cap T[q] = {}  BY <1>11
<1>14. IsFleet(in) /\ demand \in [Needs -> Nat]  BY DEF Typed
<1>15. Alloc(ms) >= Wanted(ns)
  BY <1>2, <1>7, <1>9, <1>10, <1>12, <1>13, <1>14, CoveredTogether
<1> QED  BY <1>15 DEF ns, ms, StillCovered

-----------------------------------------------------------------------------
(* The types, and what a machine on its way is there for.                  *)

\* TypeOK is not inductive: an age stays below the probe that wraps it, and a
\* machine that is being created or configured has the action that says for
\* whom.
IInv ==
    /\ IsFleet(in)
    /\ TypeOK
    /\ age \in [Needs -> 0 .. ParkAfter + Reprobe - 1]
    /\ \A m \in Machines : st[m] \in {"Creating", "Configuring"}
                             => act[m].kind \in {"Bootstrap", "Provision"}

LEMMA TypedInside == ASSUME IInv PROVE Typed
BY DEF IInv, TypeOK, Typed

LEMMA InitTyped == ASSUME NumbersAssumption, Init PROVE IInv
<1>1. PICK i \in Inputs : in = Indexed(i)  BY DEF Init
<1>2. i \in InputType /\ \A m \in Machines : i.bind[m] # NoCluster <=> i.st[m] = "Configured"
  BY InputsAssumption
<1>3. /\ i.cluster \in [Needs -> Clusters] /\ i.class \in [Needs -> Classes]
      /\ i.same \in SUBSET Needs /\ i.prio \in [Classes -> Nat]
      /\ i.alloc \in [Machines -> 1 .. MaxAlloc] /\ i.wants \in [Needs -> SUBSET Nat]
      /\ i.st \in [Machines -> {"Speculative", "Idle", "Configured"}]
      /\ i.bind \in [Machines -> Clusters \cup {NoCluster}] /\ i.aprio \in [Machines -> Nat]
  BY <1>2 DEF InputType
<1>4. {"cluster", "class", "same", "prio", "alloc", "wants", "st", "bind", "aprio"} \subseteq DOMAIN i
  BY <1>2 DEF InputType
<1>5. \A f \in DOMAIN i : f # "match" /\ f # "pinned" => in[f] = i[f]
  BY <1>1 DEF Indexed
<1>6. /\ in.cluster = i.cluster /\ in.class = i.class /\ in.same = i.same /\ in.prio = i.prio
      /\ in.alloc = i.alloc /\ in.wants = i.wants /\ in.st = i.st /\ in.bind = i.bind
      /\ in.aprio = i.aprio
  BY <1>4, <1>5
<1>7. IsFleet(in)  BY <1>3, <1>6 DEF IsFleet
<1>8. st = i.st /\ bind = i.bind /\ aprio = i.aprio  BY <1>6 DEF Init
<1>9. ParkAfter \in Nat \ {0} /\ Reprobe \in Nat \ {0}  BY ParkAssumption
<1>10. age \in [Needs -> 0 .. ParkAfter + Reprobe - 1]  BY <1>9 DEF Init
<1>11. age \in [Needs -> 0 .. ParkAfter + Reprobe]  BY <1>9 DEF Init
<1>12. st \in [Machines -> {"Speculative", "Idle", "Configured"}]  BY <1>3, <1>8
<1>13. \A m \in Machines : st[m] \notin {"Creating", "Configuring", "Draining", "Deleting"}
  BY <1>12
<1>14. TypeOK
  <2>1. st \in [Machines -> States]  BY <1>12 DEF States
  <2>2. bind \in [Machines -> Clusters \cup {NoCluster}]  BY <1>3, <1>8
  <2>3. \A m \in Machines : bind[m] # NoCluster <=> st[m] \in {"Configuring", "Configured", "Draining"}
    BY <1>2, <1>8, <1>13
  <2>4. owner \in [Machines -> Owners \cup {NoOwner}]  BY DEF Init
  <2>5. act \in [Machines -> Actions]  BY DEF Init, NoAction, Actions
  <2>6. left \in 0 .. Budget  BY BoundsAssumption DEF Init
  <2>7. demand \in [Needs -> Nat] /\ expired \subseteq InState("Idle") /\ ready \subseteq Clusters
    BY DEF Init
  <2>8. aprio \in [Machines -> Nat]  BY <1>3, <1>8
  <2> QED  BY <1>11, <1>13, <2>1, <2>2, <2>3, <2>4, <2>5, <2>6, <2>7, <2>8 DEF TypeOK
<1> QED  BY <1>7, <1>10, <1>13, <1>14 DEF IInv

\* What a cycle makes of the claims are actions.
LEMMA EmittedAre ==
  ASSUME NumbersAssumption, IInv, NEW order \in Snapshots,
         NEW seed \in SeedConfiguredSupply(NormalizeDemand(order)),
         NEW got \in Outcomes(NormalizeDemand(order), seed)
  PROVE  Emitted(NormalizeDemand(order), seed, Claims(seed, got)) \in [Machines -> Actions]
<1> DEFINE rows == NormalizeDemand(order)
           claims == Claims(seed, got)
           e == Emitted(rows, seed, claims)
           holder(m) == (CHOOSE c \in claims : c[1] = m)[2]
           short == {r \in rows : Deficit(seed.claims, r) > 0}
<1>1. Typed  BY TypedInside
<1>2. IsRows(rows) /\ seed \in SeedConfiguredSupply(rows)  BY <1>1, RowsAre
<1>3. GoodSeed(seed)
  <2> HIDE DEF rows
  <2> QED  BY <1>1, <1>2, Seeded
<1>4. got \in [Available -> short \cup {NoRow}]  BY DEF Outcomes
<1>5. ASSUME NEW m \in Available \cap Claimed(claims)  PROVE IsRow(holder(m))
  <2> DEFINE c == CHOOSE x \in claims : x[1] = m
  <2>1. \E x \in claims : x[1] = m  BY DEF Claimed
  <2>2. c \in claims /\ c[1] = m
    <3> HIDE DEF claims
    <3> QED  BY <2>1
  <2> HIDE DEF c
  <2>3. c \notin seed.claims  BY <1>3, <2>2 DEF GoodSeed, Exclusive
  <2>4. PICK x \in Available : got[x] # NoRow /\ c = <<x, got[x]>>  BY <2>2, <2>3 DEF Claims
  <2>5. got[x] \in rows  BY <1>4, <2>4
  <2>6. IsRow(c[2])
    <3> HIDE DEF rows
    <3> QED  BY <1>2, <2>4, <2>5 DEF IsRows
  <2> QED  BY <2>6 DEF c
<1>6. ASSUME NEW m, NEW r, IsRow(r)  PROVE Acquire(m, r) \in Actions
  <2>1. Priority(r) \in Nat  BY <1>1, <1>6 DEF Typed, IsFleet, IsRow, Priority
  <2>2. Owner(r) \in Owners  BY <1>6 DEF IsRow, Owner, Owners
  <2>3. r.cluster \in Clusters  BY <1>6 DEF IsRow
  <2> QED  BY <2>1, <2>2, <2>3 DEF Acquire, Actions
<1>7. ASSUME NEW m \in Machines  PROVE e[m] \in Actions
  <2>1. \/ e[m] = act[m]
        \/ m \in Available \cap Claimed(claims) /\ e[m] = Acquire(m, holder(m))
        \/ e[m] \in {[kind |-> k] : k \in {"Preempt", "Reclaim", "Delete", "none"}}
    <3> HIDE DEF rows, claims
    <3> QED  BY DEF Emitted, NoAction
  <2>2. act[m] \in Actions  BY DEF IInv, TypeOK
  <2>3. \A k \in {"Preempt", "Reclaim", "Delete", "none"} : [kind |-> k] \in Actions
    BY DEF Actions
  <2> HIDE DEF e, holder, claims
  <2> QED  BY <1>5, <1>6, <2>1, <2>2, <2>3
<1>8. e = [m \in Machines |-> e[m]]
  <2> HIDE DEF rows, claims
  <2> QED  BY DEF Emitted
<1> HIDE DEF e
<1>9. e \in [Machines -> Actions]  BY <1>7, <1>8
<1> QED  BY <1>9 DEF e

LEMMA CycleTyped == ASSUME NumbersAssumption, IInv, runCycle PROVE IInv'
<1>1. PICK order \in Snapshots :
        \E seed \in SeedConfiguredSupply(NormalizeDemand(order)) :
        \E got \in Outcomes(NormalizeDemand(order), seed) :
          /\ age' = recordUnsatSameAges(NormalizeDemand(order), seed, Claims(seed, got))
          /\ act' = Emitted(NormalizeDemand(order), seed, Claims(seed, got))
  BY DEF runCycle
<1>2. PICK seed \in SeedConfiguredSupply(NormalizeDemand(order)) :
        \E got \in Outcomes(NormalizeDemand(order), seed) :
          /\ age' = recordUnsatSameAges(NormalizeDemand(order), seed, Claims(seed, got))
          /\ act' = Emitted(NormalizeDemand(order), seed, Claims(seed, got))
  BY <1>1
<1>3. PICK got \in Outcomes(NormalizeDemand(order), seed) :
          /\ age' = recordUnsatSameAges(NormalizeDemand(order), seed, Claims(seed, got))
          /\ act' = Emitted(NormalizeDemand(order), seed, Claims(seed, got))
  BY <1>2
<1>4. act' \in [Machines -> Actions]  BY <1>3, EmittedAre
<1>5. \A m \in Machines : act[m] # NoAction => act'[m] = act[m]  BY <1>3 DEF Emitted
<1>6. ParkAfter \in Nat \ {0} /\ Reprobe \in Nat \ {0}  BY ParkAssumption
<1>7. \A a \in 0 .. ParkAfter + Reprobe - 1 : Aged(a) \in 0 .. ParkAfter + Reprobe - 1
  BY <1>6 DEF Aged
<1>8. age' \in [Needs -> 0 .. ParkAfter + Reprobe - 1]
  <2> DEFINE stuck(n) == \E r \in Unsatisfied(NormalizeDemand(order), Claims(seed, got)) :
             /\ r.same /\ r.group = n
             /\ r \notin seed.sat
             /\ ClaimedFor(Claims(seed, got), r) \cap Available = {}
  <2>1. age' = [n \in Needs |-> IF stuck(n) THEN Aged(age[n]) ELSE 0]
    BY <1>3 DEF recordUnsatSameAges
  <2> HIDE DEF stuck
  <2>2. \A n \in Needs : Aged(age[n]) \in 0 .. ParkAfter + Reprobe - 1  BY <1>7 DEF IInv
  <2>3. 0 \in 0 .. ParkAfter + Reprobe - 1  BY <1>6
  <2> QED  BY <2>1, <2>2, <2>3
<1>9. age' \in [Needs -> 0 .. ParkAfter + Reprobe]
  <2>1. 0 .. ParkAfter + Reprobe - 1 \in SUBSET (0 .. ParkAfter + Reprobe)  BY <1>6
  <2> QED  BY <1>8, <2>1
<1>10. UNCHANGED <<in, st, bind, aprio, owner, expired, demand, ready, left>>
  BY DEF runCycle, machines
<1>11. \A m \in Machines : st'[m] \in {"Creating", "Configuring", "Draining", "Deleting"}
                             => act[m] # NoAction
  BY <1>10 DEF IInv, TypeOK
<1>12. TypeOK'
  BY <1>4, <1>5, <1>9, <1>10, <1>11 DEF IInv, TypeOK, InState
<1>13. \A m \in Machines : st'[m] \in {"Creating", "Configuring"}
                             => act'[m].kind \in {"Bootstrap", "Provision"}
  <2> SUFFICES ASSUME NEW m \in Machines, st'[m] \in {"Creating", "Configuring"}
               PROVE  act'[m].kind \in {"Bootstrap", "Provision"}
    OBVIOUS
  <2>1. act'[m] = act[m]  BY <1>5, <1>11
  <2>2. act[m].kind \in {"Bootstrap", "Provision"}  BY <1>10 DEF IInv
  <2> QED  BY <2>1, <2>2
<1>14. IsFleet(in')  BY <1>10 DEF IInv
<1> QED  BY <1>8, <1>12, <1>13, <1>14 DEF IInv

\* What says where a machine stands, part of TypeOK.
Placed ==
    /\ st \in [Machines -> States]
    /\ bind \in [Machines -> Clusters \cup {NoCluster}]
    /\ \A m \in Machines : bind[m] # NoCluster <=> st[m] \in {"Configuring", "Configured", "Draining"}
    /\ owner \in [Machines -> Owners \cup {NoOwner}]
    /\ aprio \in [Machines -> Nat]
    /\ expired \subseteq InState("Idle")

\* What says why it moves.
Driven ==
    /\ act \in [Machines -> Actions]
    /\ \A m \in Machines : st[m] \in {"Creating", "Configuring", "Draining", "Deleting"}
                             => act[m] # NoAction
    /\ \A m \in Machines : st[m] \in {"Creating", "Configuring"}
                             => act[m].kind \in {"Bootstrap", "Provision"}

LEMMA ByParts ==
  ASSUME IInv, Placed', Driven', UNCHANGED <<in, demand, ready, age>>, left' \in 0 .. Budget
  PROVE  IInv'
BY DEF IInv, TypeOK, Placed, Driven

LEMMA HasParts == ASSUME IInv PROVE Placed /\ Driven
BY DEF IInv, TypeOK, Placed, Driven

LEMMA MovePlaces ==
  ASSUME Placed, NEW m \in Machines,
         \/ Move(m, "Draining") /\ st[m] = "Configured"
         \/ \E s \in {"Idle", "Speculative"} : Move(m, s)
         \/ Move(m, "Deleting") /\ st[m] = "Idle"
  PROVE  Placed'
<1>1. CASE Move(m, "Draining") /\ st[m] = "Configured"
  BY <1>1 DEF Placed, Move, States, InState
<1>2. ASSUME NEW s \in {"Idle", "Speculative"}, Move(m, s)  PROVE Placed'
  <2>1. st' = [st EXCEPT ![m] = s] /\ st' \in [Machines -> States]
    BY <1>2 DEF Move, Placed, States
  <2>2. bind' = [bind EXCEPT ![m] = NoCluster] /\ bind' \in [Machines -> Clusters \cup {NoCluster}]
    BY <1>2 DEF Move, Placed
  <2>3. owner' = [owner EXCEPT ![m] = NoOwner] /\ owner' \in [Machines -> Owners \cup {NoOwner}]
    BY <1>2 DEF Move, Placed
  <2>4. aprio' = [aprio EXCEPT ![m] = 0] /\ aprio' \in [Machines -> Nat]
    BY <1>2 DEF Move, Placed
  <2>5. expired' \subseteq {x \in Machines : st'[x] = "Idle"}
    BY <1>2, <2>1 DEF Move, Placed, InState
  <2>6. \A x \in Machines : bind'[x] # NoCluster <=> st'[x] \in {"Configuring", "Configured", "Draining"}
    BY <2>1, <2>2 DEF Placed
  <2> QED  BY <2>1, <2>2, <2>3, <2>4, <2>5, <2>6 DEF Placed, InState
<1>3. CASE Move(m, "Deleting") /\ st[m] = "Idle"
  BY <1>3 DEF Placed, Move, States, InState
<1> QED  BY <1>1, <1>2, <1>3

LEMMA OpenBootstrapPlaces ==
  ASSUME NumbersAssumption, Placed, Driven, NEW m \in Machines,
         act[m].kind \in {"Bootstrap", "Provision"}, OpenBootstrap(m)
  PROVE  Placed'
<1>1. act[m] \in Actions  BY DEF Driven
<1>2. act[m].cluster \in Clusters /\ act[m].owner \in Owners  BY <1>1 DEF Actions
<1>3. NoCluster \notin Clusters  BY DEF NumbersAssumption, NoCluster
<1> QED  BY <1>2, <1>3 DEF Placed, OpenBootstrap, States, InState

LEMMA ExecuteTyped ==
  ASSUME NumbersAssumption, IInv, NEW m \in Machines, execute(m)  PROVE IInv'
<1>1. Placed /\ Driven  BY HasParts
<1>2. UNCHANGED <<in, act, demand, ready, age, left>> /\ left \in 0 .. Budget
  BY DEF execute, IInv, TypeOK
<1>3. CASE act[m].kind = "Bootstrap" /\ st[m] = "Idle" /\ OpenBootstrap(m)
  <2>1. Placed'  BY <1>1, <1>3, OpenBootstrapPlaces
  <2>2. act[m] # NoAction  BY <1>3 DEF NoAction
  <2>3. Driven'  BY <1>1, <1>2, <1>3, <2>2 DEF Driven, OpenBootstrap, Placed
  <2> QED  BY <1>2, <2>1, <2>3, ByParts
<1>4. CASE act[m].kind = "Provision" /\ st[m] = "Speculative" /\ OpenProvision(m)
  <2>1. act[m] \in Actions  BY <1>1 DEF Driven
  <2>2. act[m].owner \in Owners /\ act[m] # NoAction  BY <1>4, <2>1 DEF Actions, NoAction
  <2>3. Placed'  BY <1>1, <1>4, <2>2 DEF Placed, OpenProvision, States, InState
  <2>4. Driven'  BY <1>1, <1>2, <1>4, <2>2 DEF Driven, OpenProvision, Placed
  <2> QED  BY <1>2, <2>3, <2>4, ByParts
<1>5. CASE act[m].kind \in {"Preempt", "Reclaim"} /\ st[m] = "Configured" /\ Move(m, "Draining")
  <2>1. Placed'  BY <1>1, <1>5, MovePlaces
  <2>2. act[m] # NoAction  BY <1>5 DEF NoAction
  <2>3. Driven'  BY <1>1, <1>2, <1>5, <2>2 DEF Driven, Move, Placed
  <2> QED  BY <1>2, <2>1, <2>3, ByParts
<1>6. CASE act[m].kind = "Delete" /\ st[m] = "Idle" /\ Move(m, "Deleting")
  <2>1. Placed'  BY <1>1, <1>6, MovePlaces
  <2>2. act[m] # NoAction  BY <1>6 DEF NoAction
  <2>3. Driven'  BY <1>1, <1>2, <1>6, <2>2 DEF Driven, Move, Placed
  <2> QED  BY <1>2, <2>1, <2>3, ByParts
<1> QED  BY <1>3, <1>4, <1>5, <1>6 DEF execute

\* A machine that has arrived where it rests has no action left.
LEMMA DoneDrives ==
  ASSUME Placed, Driven, NEW m \in Machines, Done(m),
         NEW s \in {"Idle", "Speculative", "Configured"}, st' = [st EXCEPT ![m] = s]
  PROVE  Driven'
<1>1. NoAction \in Actions  BY DEF NoAction, Actions
<1>2. act' \in [Machines -> Actions]  BY <1>1 DEF Driven, Done
<1>3. st'[m] = s /\ \A x \in Machines : x # m => st'[x] = st[x] /\ act'[x] = act[x]
  BY DEF Placed, Driven, Done
<1>4. ASSUME NEW x \in Machines, st'[x] \in {"Creating", "Configuring", "Draining", "Deleting"}
      PROVE  /\ act'[x] # NoAction
             /\ st'[x] \in {"Creating", "Configuring"} => act'[x].kind \in {"Bootstrap", "Provision"}
  <2>1. x # m  BY <1>3, <1>4
  <2>2. st'[x] = st[x] /\ act'[x] = act[x]  BY <1>3, <2>1
  <2> QED  BY <1>4, <2>2 DEF Driven
<1> QED  BY <1>2, <1>4 DEF Driven

LEMMA CompleteTyped ==
  ASSUME NumbersAssumption, IInv, NEW m \in Machines, complete(m)  PROVE IInv'
<1>1. Placed /\ Driven /\ left \in 0 .. Budget  BY HasParts DEF IInv, TypeOK
<1>2. CASE CreatedAndBootstraps(m)
  <2>1. act[m].kind \in {"Bootstrap", "Provision"}  BY <1>1, <1>2 DEF Driven, CreatedAndBootstraps
  <2>2. Placed'  BY <1>1, <1>2, <2>1, OpenBootstrapPlaces DEF CreatedAndBootstraps
  <2>3. act[m] # NoAction  BY <2>1 DEF NoAction
  <2>4. Driven'  BY <1>1, <1>2, <2>1, <2>3 DEF Driven, CreatedAndBootstraps, OpenBootstrap, Placed
  <2> QED  BY <1>1, <1>2, <2>2, <2>4, ByParts DEF CreatedAndBootstraps
<1>3. CASE CreatedLater(m)
  <2>1. Placed'  BY <1>1, <1>3, MovePlaces DEF CreatedLater
  <2>2. Driven'  BY <1>1, <1>3, DoneDrives DEF CreatedLater, Move
  <2> QED  BY <1>1, <1>3, <2>1, <2>2, ByParts DEF CreatedLater
<1>4. CASE Configured(m)
  <2>1. act[m] \in Actions /\ act[m].kind \in {"Bootstrap", "Provision"}
    BY <1>1, <1>4 DEF Driven, Configured
  <2>2. act[m].prio \in Nat  BY <2>1 DEF Actions
  <2>3. Placed'  BY <1>1, <1>4, <2>2 DEF Placed, Configured, States, InState
  <2>4. Driven'  BY <1>1, <1>4, DoneDrives DEF Configured
  <2> QED  BY <1>1, <1>4, <2>3, <2>4, ByParts DEF Configured
<1>5. CASE DrainedOrDeleted(m)
  <2>1. PICK s \in {"Idle", "Speculative"} : Move(m, s)  BY <1>5 DEF DrainedOrDeleted
  <2>2. Placed'  BY <1>1, <2>1, MovePlaces
  <2>3. Driven'  BY <1>1, <1>5, <2>1, DoneDrives DEF DrainedOrDeleted, Move
  <2> QED  BY <1>1, <1>5, <2>2, <2>3, ByParts DEF DrainedOrDeleted
<1> QED  BY <1>2, <1>3, <1>4, <1>5 DEF complete

LEMMA RollsBackTyped ==
  ASSUME IInv, NEW m \in Machines, BootstrapRollsBack(m)  PROVE IInv'
<1>1. Placed /\ Driven /\ left \in 0 .. Budget  BY HasParts DEF IInv, TypeOK
<1>2. Placed'  BY <1>1, MovePlaces DEF BootstrapRollsBack
<1>3. Driven'  BY <1>1, DoneDrives DEF BootstrapRollsBack, Move
<1>4. left' \in 0 .. Budget  BY <1>1, BoundsAssumption DEF BootstrapRollsBack
<1> QED  BY <1>2, <1>3, <1>4, ByParts DEF BootstrapRollsBack

LEMMA HoldExpiresTyped ==
  ASSUME IInv, NEW m \in Machines, HoldExpires(m)  PROVE IInv'
<1>1. Placed /\ Driven /\ left \in 0 .. Budget  BY HasParts DEF IInv, TypeOK
<1>2. Placed'  BY <1>1 DEF HoldExpires, Placed, InState
<1>3. Driven'  BY <1>1 DEF HoldExpires, Driven
<1> QED  BY <1>1, <1>2, <1>3, ByParts DEF HoldExpires

LEMMA RollupTyped ==
  ASSUME IInv, NEW c \in Clusters, Rollup(c)  PROVE IInv'
<1>1. PICK d : /\ \A n \in DOMAIN d : n \in Needs => d[n] \in in.wants[n]
               /\ demand' = [n \in Needs |-> IF n \in DOMAIN d THEN d[n] ELSE demand[n]]
  BY DEF Rollup
<1>2. demand' \in [Needs -> Nat]
  <2>1. \A n \in Needs : in.wants[n] \in SUBSET Nat /\ demand[n] \in Nat
    BY DEF IInv, TypeOK, IsFleet
  <2> QED  BY <1>1, <2>1
<1>3. left' \in 0 .. Budget /\ ready' \subseteq Clusters
  BY BoundsAssumption DEF Rollup, IInv, TypeOK
<1>4. UNCHANGED <<in, st, bind, aprio, owner, expired, act, age>>  BY DEF Rollup, machines
<1> QED  BY <1>2, <1>3, <1>4 DEF IInv, TypeOK, InState

LEMMA StepTyped == ASSUME NumbersAssumption, IInv, [Next]_vars PROVE IInv'
<1>1. CASE UNCHANGED vars
  BY <1>1 DEF vars, machines, IInv, TypeOK, InState
<1> QED
  BY <1>1, CycleTyped, ExecuteTyped, CompleteTyped, RollsBackTyped, HoldExpiresTyped, RollupTyped
  DEF Next

LEMMA AlwaysTyped == Spec => []IInv
BY InitTyped, StepTyped, NumbersAssumption, PTL DEF Spec

-----------------------------------------------------------------------------
(* The theorems.                                                           *)

\* The types; a machine has a cluster exactly while it is bound, and one that
\* moves is being moved by an action of the loop.
THEOREM DecisionTypeCorrect == Spec => []TypeOK
<1>1. IInv => TypeOK  BY DEF IInv
<1> QED  BY <1>1, AlwaysTyped, PTL

\* Only a cycle reclaims, and its reclaims leave what is bound to the cluster
\* covering the demand.
LEMMA StepKeepsDemand ==
  ASSUME NumbersAssumption, IInv, [Next]_vars,
         NEW gone, gone = {m \in Machines : act[m] = NoAction /\ act'[m].kind = "Reclaim"},
         NEW m \in gone
  PROVE  StillCovered(m, gone)
<1>1. ASSUME NEW x \in Machines, act'[x] = act[x] \/ act'[x] = NoAction
      PROVE  x \notin gone
  BY <1>1 DEF NoAction
<1>2. act \in [Machines -> Actions]  BY DEF IInv, TypeOK
<1>3. runCycle
  <2>1. \A x \in Machines : Done(x) => \A y \in Machines : act'[y] = act[y] \/ act'[y] = NoAction
    BY <1>2 DEF Done
  <2>2. SUFFICES ASSUME ~runCycle  PROVE \A y \in Machines : act'[y] = act[y] \/ act'[y] = NoAction
    BY <1>1
  <2>3. CASE act' = act  BY <2>3
  <2>4. ASSUME NEW x \in Machines, Done(x)
        PROVE  \A y \in Machines : act'[y] = act[y] \/ act'[y] = NoAction
    BY <2>1, <2>4
  <2> QED
    BY <2>2, <2>3, <2>4
    DEF Next, vars, execute, complete, CreatedAndBootstraps, CreatedLater, Configured,
        DrainedOrDeleted, BootstrapRollsBack, HoldExpires, Rollup
<1>4. PICK order \in Snapshots :
        \E seed \in SeedConfiguredSupply(NormalizeDemand(order)) :
        \E got \in Outcomes(NormalizeDemand(order), seed) :
          act' = Emitted(NormalizeDemand(order), seed, Claims(seed, got))
  BY <1>3 DEF runCycle
<1>5. PICK seed \in SeedConfiguredSupply(NormalizeDemand(order)) :
        \E got \in Outcomes(NormalizeDemand(order), seed) :
          act' = Emitted(NormalizeDemand(order), seed, Claims(seed, got))
  BY <1>4
<1>6. PICK got \in Outcomes(NormalizeDemand(order), seed) :
        act' = Emitted(NormalizeDemand(order), seed, Claims(seed, got))
  BY <1>5
<1> DEFINE claims == Claims(seed, got)
<1>7. \A x \in gone : x \in Phase3Reclaims(claims)
  <2> SUFFICES ASSUME NEW x \in gone  PROVE x \in Phase3Reclaims(claims)
    OBVIOUS
  <2>1. act'[x].kind = "Reclaim" /\ act[x] = NoAction /\ x \in Machines  OBVIOUS
  <2>2. \A r : Acquire(x, r).kind # "Reclaim"  BY DEF Acquire
  <2> HIDE DEF claims
  <2>3. \/ x \in Phase3Reclaims(claims)
        \/ \E r : act'[x] = Acquire(x, r)
        \/ act'[x] \in {[kind |-> k] : k \in {"Preempt", "Delete", "none"}}
    BY <1>6, <2>1 DEF Emitted, NoAction, claims
  <2> QED  BY <2>1, <2>2, <2>3
<1>8. \A x \in gone : x \in Machines /\ st[x] = "Configured" /\ x \notin Claimed(claims)
  <2> SUFFICES ASSUME NEW x \in gone
               PROVE  x \in Machines /\ st[x] = "Configured" /\ x \notin Claimed(claims)
    OBVIOUS
  <2> HIDE DEF claims
  <2>1. PICK c \in Clusters : x \in Excess(c, claims)  BY <1>7 DEF Phase3Reclaims
  <2>2. x \in Of(c, "Configured") \ Claimed(claims)  BY <2>1 DEF Excess
  <2> QED  BY <2>2 DEF Of, InState
<1>9. seed.claims \subseteq claims  BY DEF Claims
<1>10. Typed  BY TypedInside
<1>11. gone \in SUBSET Machines /\ gone \cap Claimed(claims) = {}  BY <1>8
<1> HIDE DEF claims
<1>12. m \in Machines /\ st[m] = "Configured" /\ m \notin Claimed(claims)  BY <1>8
<1> QED  BY <1>9, <1>10, <1>11, <1>12, DemandStaysCovered

\* No cycle reclaims below demand: whatever machine it reclaims, all that it
\* leaves bound to the cluster covers the Needs that the machine could serve
\* (excess in phase3_reclaim.go is what the pre-pass of Phase 1 did not claim).
THEOREM ReclaimsLeaveDemandCovered == Spec => ReclaimsOnlyExcess
<1>1. ASSUME IInv, [Next]_vars
      PROVE  [LET gone == {m \in Machines : act[m] = NoAction /\ act'[m].kind = "Reclaim"} IN
              \A m \in gone :
                LET ns == ServedBy(bind[m], m)
                IN Alloc({x \in Bound(bind[m]) \ gone : \E n \in ns : x \in in.match[in.class[n]]})
                     >= Wanted(ns)]_act
  <2> DEFINE gone == {m \in Machines : act[m] = NoAction /\ act'[m].kind = "Reclaim"}
  <2>1. gone = {m \in Machines : act[m] = NoAction /\ act'[m].kind = "Reclaim"}  OBVIOUS
  <2> HIDE DEF gone
  <2>2. \A m \in gone : StillCovered(m, gone)
    BY <1>1, <2>1, NumbersAssumption, StepKeepsDemand
  <2> QED  BY <2>1, <2>2 DEF StillCovered
<1> QED  BY <1>1, AlwaysTyped, PTL DEF Spec, ReclaimsOnlyExcess

=============================================================================
