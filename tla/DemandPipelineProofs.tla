------------------------ MODULE DemandPipelineProofs ------------------------
(***************************************************************************)
(* Proofs about DemandPipeline, for every set of Pods, whatever their      *)
(* specs: the types; that a request asks for its Pod's peak, which is what *)
(* initStages, BucketForDollars and the sums of resource vectors compute;  *)
(* that what is acknowledged is in the roll-up, which is what Aggregate,   *)
(* the wire form and its decoding keep.                                    *)
(*                                                                         *)
(* The recursive functions are reasoned about through the equations they   *)
(* satisfy: a solution is built step by step (Recursion), so that the      *)
(* chosen function is one, and an induction over a set of numbers says     *)
(* what it computes.                                                       *)
(***************************************************************************)
EXTENDS DemandPipeline, FiniteSetTheorems, WellFoundedInduction, TLAPS

-----------------------------------------------------------------------------
(* Induction, with the induction hypothesis as a set of numbers.           *)

LEMMA LeastNumber ==
  ASSUME NEW T \in SUBSET Nat, T # {}
  PROVE  \E x \in T : \A y \in T : x <= y
<1> DEFINE R == OpToRel(<, Nat)
<1>1. PICK x \in T : \A y \in T : ~ (<<y, x>> \in R)  BY WFMin, NatLessThanWellFounded
<1>2. \A y \in T : <<y, x>> \in R <=> y < x  BY DEF OpToRel
<1> HIDE DEF R
<1>3. \A y \in T : ~(y < x)  BY <1>1, <1>2
<1> QED  BY <1>3

LEMMA NumberInduction ==
  ASSUME NEW T, 0 \in T, \A i \in Nat : i \in T => i + 1 \in T
  PROVE  \A i \in Nat : i \in T
<1> DEFINE C == Nat \ T
<1> SUFFICES ASSUME C # {} PROVE FALSE  OBVIOUS
<1>1. PICK x \in C : \A y \in C : x <= y  BY LeastNumber, C \in SUBSET Nat
<1>2. x # 0 /\ x - 1 \in Nat /\ ~ (x <= x - 1)  OBVIOUS
<1>3. x - 1 \in T  BY <1>1, <1>2
<1>4. (x - 1) + 1 = x  OBVIOUS
<1> QED  BY <1>2, <1>3, <1>4

\* Up to a bound.
LEMMA StepInduction ==
  ASSUME NEW n \in Nat, NEW T, 0 \in T, \A i \in 1 .. n : i - 1 \in T => i \in T
  PROVE  \A i \in 0 .. n : i \in T
<1> DEFINE U == {i \in Nat : i \in T \/ i > n}
<1>1. \A i \in Nat : i \in U => i + 1 \in U
  <2> SUFFICES ASSUME NEW i \in Nat, i \in T, i < n  PROVE i + 1 \in T
    OBVIOUS
  <2>1. i + 1 \in 1 .. n /\ (i + 1) - 1 = i  OBVIOUS
  <2> QED  BY <2>1
<1>2. 0 \in U  OBVIOUS
<1> HIDE DEF U
<1>3. \A i \in Nat : i \in U  BY <1>1, <1>2, NumberInduction
<1> QED  BY <1>3 DEF U

\* A function given step by step exists.
Steps(f, X, b, n, F) ==
  f \in [0 .. n -> X] /\ f[0] = b /\ \A i \in 1 .. n : f[i] = F[i][f[i - 1]]

LEMMA Recursion ==
  ASSUME NEW X, NEW b \in X, NEW n \in Nat, NEW F \in [1 .. n -> [X -> X]]
  PROVE  \E f : Steps(f, X, b, n, F)
<1> DEFINE Sol(k) == {f \in [0 .. k -> X] :
                        f[0] = b /\ \A i \in 1 .. k : f[i] = F[i][f[i - 1]]}
           T == {k \in 0 .. n : Sol(k) # {}}
<1>1. 0 \in T
  <2>1. [i \in 0 .. 0 |-> b] \in Sol(0)  OBVIOUS
  <2> QED  BY <2>1
<1>2. ASSUME NEW k \in 1 .. n, k - 1 \in T  PROVE k \in T
  <2>1. PICK f \in Sol(k - 1) : TRUE  BY <1>2
  <2> DEFINE g == [i \in 0 .. k |-> IF i = k THEN F[k][f[k - 1]] ELSE f[i]]
  <2>2. \A i \in 0 .. k : i # k => i \in 0 .. k - 1  OBVIOUS
  <2>3. F[k] \in [X -> X] /\ f[k - 1] \in X  BY <2>1
  <2>4. F[k][f[k - 1]] \in X  BY <2>3
  <2>5. g \in [0 .. k -> X]  BY <2>1, <2>2, <2>4
  <2>6. g[0] = b  BY <2>1
  <2>7. ASSUME NEW i \in 1 .. k  PROVE g[i] = F[i][g[i - 1]]
    <3>1. i - 1 \in 0 .. k /\ i - 1 # k  OBVIOUS
    <3>2. g[i - 1] = f[i - 1]  BY <3>1
    <3>3. CASE i = k  BY <3>2, <3>3
    <3>4. CASE i # k
      <4>1. i \in 1 .. k - 1 /\ i \in 0 .. k  BY <3>4
      <4> QED  BY <2>1, <3>2, <3>4, <4>1
    <3> QED  BY <3>3, <3>4
  <2>8. g \in Sol(k)  BY <2>5, <2>6, <2>7
  <2> HIDE DEF Sol, g
  <2>9. Sol(k) # {}  BY <2>8
  <2> QED  BY <2>9
<1> HIDE DEF T
<1>3. n \in T
  <2>1. \A i \in 1 .. n : i - 1 \in T => i \in T  BY <1>2
  <2>2. \A i \in 0 .. n : i \in T  BY <1>1, <2>1, StepInduction
  <2> QED  BY <2>2
<1>4. PICK f \in Sol(n) : TRUE  BY <1>3 DEF T
<1> QED  BY <1>4 DEF Steps

-----------------------------------------------------------------------------
(* Sums: SumFunctionOnSet counts units.                                    *)

Units(f, s) == {u \in s \X Nat : 1 <= u[2] /\ u[2] <= f[u[1]]}

LEMMA UnitsAdd ==
  ASSUME NEW D, NEW f \in [D -> Nat], NEW s \in SUBSET D, NEW x \in D, x \notin s,
         IsFiniteSet(Units(f, s))
  PROVE  /\ IsFiniteSet(Units(f, s \cup {x}))
         /\ Cardinality(Units(f, s \cup {x})) = f[x] + Cardinality(Units(f, s))
<1> DEFINE A == Units(f, s)
           B == {x} \X (1 .. f[x])
<1>1. f[x] \in Nat  OBVIOUS
<1>2. Units(f, s \cup {x}) = A \cup B  BY <1>1 DEF Units
<1>3. A \cap B = {}  BY DEF Units
<1>4. IsFiniteSet({x}) /\ Cardinality({x}) = 1  BY FS_Singleton
<1>5. IsFiniteSet(1 .. f[x]) /\ Cardinality(1 .. f[x]) = f[x]  BY <1>1, FS_Interval
<1>6. IsFiniteSet(B) /\ Cardinality(B) = f[x]
  <2> DEFINE one == {x}
             some == 1 .. f[x]
  <2>1. IsFiniteSet(one) /\ IsFiniteSet(some)  BY <1>4, <1>5
  <2>2. B = one \X some  OBVIOUS
  <2> HIDE DEF one, some, B
  <2>3. IsFiniteSet(B) /\ Cardinality(B) = Cardinality(one) * Cardinality(some)
    BY <2>1, <2>2, FS_Product
  <2>4. Cardinality(one) = 1 /\ Cardinality(some) = f[x]  BY <1>4, <1>5 DEF one, some
  <2> QED  BY <1>1, <2>3, <2>4
<1> HIDE DEF A, B
<1>7. IsFiniteSet(A) /\ Cardinality(A) \in Nat  BY FS_CardinalityType DEF A
<1>8. /\ IsFiniteSet(A \cup B)
      /\ Cardinality(A \cup B) = Cardinality(A) + Cardinality(B) - Cardinality(A \cap B)
  BY <1>6, <1>7, FS_Union
<1>9. Cardinality(A \cap B) = 0  BY <1>3, FS_EmptySet
<1>10. Cardinality(B) = f[x]  BY <1>1, <1>6
<1>11. Cardinality(A \cup B) = f[x] + Cardinality(A)  BY <1>1, <1>7, <1>8, <1>9, <1>10
<1> QED  BY <1>2, <1>8, <1>11 DEF A

Picked(s) == CHOOSE x \in s : TRUE

\* A finite set is empty, or one element more than a smaller one.
LEMMA SplitSet ==
  ASSUME NEW s, IsFiniteSet(s), s # {}
  PROVE  /\ Picked(s) \in s /\ IsFiniteSet(s \ {Picked(s)})
         /\ Cardinality(s) \in Nat /\ Cardinality(s \ {Picked(s)}) = Cardinality(s) - 1
         /\ s = (s \ {Picked(s)}) \cup {Picked(s)}
<1>1. Picked(s) \in s  BY DEF Picked
<1> QED  BY <1>1, FS_RemoveElement, FS_CardinalityType

LEMMA UnitsFinite ==
  ASSUME NEW D, NEW f \in [D -> Nat], NEW S \in SUBSET D, IsFiniteSet(S)
  PROVE  IsFiniteSet(Units(f, S))
<1> DEFINE T == {n \in Nat : \A s \in SUBSET D : IsFiniteSet(s) /\ Cardinality(s) = n
                                => IsFiniteSet(Units(f, s))}
<1>1. 0 \in T
  <2>1. Units(f, {}) = {}  BY DEF Units
  <2> QED  BY <2>1, FS_EmptySet
<1>2. ASSUME NEW n \in Nat, n \in T  PROVE n + 1 \in T
  <2> SUFFICES ASSUME NEW s \in SUBSET D, IsFiniteSet(s), Cardinality(s) = n + 1
               PROVE  IsFiniteSet(Units(f, s))
    OBVIOUS
  <2> DEFINE x == Picked(s)
             t == s \ {x}
  <2>1. s # {}  BY FS_EmptySet
  <2>2. x \in s /\ IsFiniteSet(t) /\ Cardinality(t) = n /\ s = t \cup {x}  BY <2>1, SplitSet
  <2> HIDE DEF x
  <2>3. IsFiniteSet(Units(f, t))  BY <1>2, <2>2
  <2>4. x \in D /\ x \notin t /\ t \in SUBSET D  BY <2>2
  <2> HIDE DEF t
  <2> QED  BY <2>2, <2>3, <2>4, UnitsAdd
<1> HIDE DEF T
<1>3. \A n \in Nat : n \in T  BY <1>1, <1>2, NumberInduction
<1>4. Cardinality(S) \in T  BY <1>3, FS_CardinalityType
<1> QED  BY <1>4 DEF T

\* The equation of the function behind the sum.
Summing(f, S, g) ==
  g = [s \in SUBSET S |-> IF s = {} THEN 0 ELSE f[Picked(s)] + g[s \ {Picked(s)}]]

LEMMA SumIsCount ==
  ASSUME NEW D, NEW f \in [D -> Nat], NEW S \in SUBSET D, IsFiniteSet(S)
  PROVE  SumFunctionOnSet(f, S) = Cardinality(Units(f, S))
<1> DEFINE N(s) == Cardinality(Units(f, s))
           h == CHOOSE g : Summing(f, S, g)
<1>1. N({}) = 0
  <2>1. Units(f, {}) = {}  BY DEF Units
  <2> QED  BY <2>1, FS_EmptySet
<1>2. ASSUME NEW s \in SUBSET S, s # {}
      PROVE  N(s) = f[Picked(s)] + N(s \ {Picked(s)})
  <2>1. IsFiniteSet(s)  BY FS_Subset
  <2> DEFINE x == Picked(s)
             t == s \ {x}
  <2>2. x \in s /\ IsFiniteSet(t) /\ s = t \cup {x}  BY <1>2, <2>1, SplitSet
  <2> HIDE DEF x
  <2>3. x \in D /\ x \notin t /\ t \in SUBSET D  BY <2>2
  <2> HIDE DEF t
  <2>4. IsFiniteSet(Units(f, t))  BY <2>2, <2>3, UnitsFinite
  <2>5. N(s) = f[x] + N(t)  BY <2>2, <2>3, <2>4, UnitsAdd
  <2> QED  BY <2>5 DEF t, x
<1> HIDE DEF N
<1>3. Summing(f, S, h)
  <2> DEFINE g == [s \in SUBSET S |-> N(s)]
  <2>1. \A s \in SUBSET S : s \ {Picked(s)} \in SUBSET S  OBVIOUS
  <2>2. Summing(f, S, g)  BY <1>1, <1>2, <2>1 DEF Summing
  <2> QED  BY <2>2
<1> HIDE DEF h
<1> DEFINE T == {n \in Nat : \A s \in SUBSET S : Cardinality(s) = n => h[s] = N(s)}
<1>4. 0 \in T
  <2> SUFFICES ASSUME NEW s \in SUBSET S, Cardinality(s) = 0  PROVE h[s] = N(s)
    OBVIOUS
  <2>1. s = {}  BY FS_Subset, FS_EmptySet
  <2>2. h[{}] = 0  BY <1>3 DEF Summing
  <2> QED  BY <1>1, <2>1, <2>2
<1>5. ASSUME NEW n \in Nat, n \in T  PROVE n + 1 \in T
  <2> SUFFICES ASSUME NEW s \in SUBSET S, Cardinality(s) = n + 1  PROVE h[s] = N(s)
    OBVIOUS
  <2>1. IsFiniteSet(s) /\ s # {}  BY FS_Subset, FS_EmptySet
  <2>2. Cardinality(s \ {Picked(s)}) = Cardinality(s) - 1  BY <2>1, SplitSet
  <2>22. Cardinality(s \ {Picked(s)}) = n /\ s \ {Picked(s)} \in SUBSET S  BY <2>2
  <2>3. h[s \ {Picked(s)}] = N(s \ {Picked(s)})  BY <1>5, <2>22
  <2>4. h[s] = f[Picked(s)] + h[s \ {Picked(s)}]  BY <1>3, <2>1 DEF Summing
  <2> QED  BY <1>2, <2>1, <2>3, <2>4
<1> HIDE DEF T
<1>6. \A n \in Nat : n \in T  BY <1>4, <1>5, NumberInduction
<1>7. Cardinality(S) \in T  BY <1>6, FS_CardinalityType
<1>8. h[S] = N(S)  BY <1>7 DEF T
<1>9. SumFunctionOnSet(f, S) = h[S]
  BY DEF SumFunctionOnSet, FoldFunctionOnSet, MapThenFoldSet, Summing, h, Picked
<1> QED  BY <1>8, <1>9 DEF N

\* The sum over no elements, and over one element more.
LEMMA SumStep ==
  ASSUME NEW D, NEW f \in [D -> Nat], NEW S \in SUBSET D, IsFiniteSet(S)
  PROVE  /\ SumFunctionOnSet(f, S) \in Nat /\ SumFunctionOnSet(f, {}) = 0
         /\ \A x \in D \ S : SumFunctionOnSet(f, S \cup {x}) = f[x] + SumFunctionOnSet(f, S)
<1>1. IsFiniteSet(Units(f, S)) /\ SumFunctionOnSet(f, S) = Cardinality(Units(f, S))
  BY SumIsCount, UnitsFinite
<1>2. SumFunctionOnSet(f, S) \in Nat  BY <1>1, FS_CardinalityType
<1>3. SumFunctionOnSet(f, {}) = 0
  <2>1. {} \in SUBSET D /\ IsFiniteSet({}) /\ Cardinality({}) = 0  BY FS_EmptySet
  <2>2. Units(f, {}) = {}  BY DEF Units
  <2> QED  BY <2>1, <2>2, SumIsCount
<1>4. ASSUME NEW x \in D \ S
      PROVE  SumFunctionOnSet(f, S \cup {x}) = f[x] + SumFunctionOnSet(f, S)
  <2>1. IsFiniteSet(S \cup {x}) /\ S \cup {x} \in SUBSET D  BY FS_AddElement
  <2>2. SumFunctionOnSet(f, S \cup {x}) = Cardinality(Units(f, S \cup {x}))
    BY <2>1, SumIsCount
  <2>3. Cardinality(Units(f, S \cup {x})) = f[x] + Cardinality(Units(f, S))
    BY <1>1, UnitsAdd
  <2> QED  BY <1>1, <2>2, <2>3
<1> QED  BY <1>2, <1>3, <1>4

LEMMA SumAdd ==
  ASSUME NEW D, NEW f \in [D -> Nat], NEW S \in SUBSET D, IsFiniteSet(S), NEW x \in D, x \notin S
  PROVE  /\ SumFunctionOnSet(f, S) \in Nat
         /\ SumFunctionOnSet(f, S \cup {x}) = f[x] + SumFunctionOnSet(f, S)
<1>1. \A y \in D \ S : SumFunctionOnSet(f, S \cup {y}) = f[y] + SumFunctionOnSet(f, S)
  BY SumStep
<1>2. SumFunctionOnSet(f, S) \in Nat  BY SumStep
<1> QED  BY <1>1, <1>2

-----------------------------------------------------------------------------
(* Resource vectors.                                                       *)

Vectors == UNION {[D -> Nat] : D \in SUBSET Dims}

LEMMA VectorIs == ASSUME NEW v PROVE IsVector(v) <=> v \in Vectors
BY DEF IsVector, Vectors

LEMMA QtyIs ==
  ASSUME NEW v \in Vectors, NEW d
  PROVE  /\ Qty(v, d) \in Nat /\ DOMAIN v \in SUBSET Dims
         /\ d \in DOMAIN v => Qty(v, d) = v[d]
         /\ d \notin DOMAIN v => Qty(v, d) = 0
BY DEF Qty, Vectors

LEMMA EmptyIs == Empty \in Vectors /\ \A d : Qty(Empty, d) = 0
<1>1. Empty \in [{} -> Nat]  BY DEF Empty
<1>2. DOMAIN Empty = {}  BY DEF Empty
<1> QED  BY <1>1, <1>2 DEF Vectors, Qty

LEMMA AddIs ==
  ASSUME NEW a \in Vectors, NEW b \in Vectors
  PROVE  /\ AddResources(a, b) \in Vectors
         /\ \A d : Qty(AddResources(a, b), d) = Qty(a, d) + Qty(b, d)
<1> DEFINE D == DOMAIN a \cup DOMAIN b
<1>1. D \in SUBSET Dims  BY QtyIs
<1>2. AddResources(a, b) = [d \in D |-> Qty(a, d) + Qty(b, d)]  BY DEF AddResources
<1> HIDE DEF D
<1>3. \A d \in D : Qty(a, d) + Qty(b, d) \in Nat
  <2> TAKE d \in D
  <2>1. Qty(a, d) \in Nat /\ Qty(b, d) \in Nat  BY QtyIs
  <2> QED  BY <2>1
<1>4. AddResources(a, b) \in [D -> Nat]  BY <1>2, <1>3
<1>5. AddResources(a, b) \in Vectors  BY <1>1, <1>4 DEF Vectors
<1>6. ASSUME NEW d  PROVE Qty(AddResources(a, b), d) = Qty(a, d) + Qty(b, d)
  <2>1. CASE d \in D
    <3>1. Qty(AddResources(a, b), d) = AddResources(a, b)[d]  BY <1>4, <2>1 DEF Qty
    <3> QED  BY <1>2, <2>1, <3>1
  <2>2. CASE d \notin D
    <3>1. Qty(AddResources(a, b), d) = 0  BY <1>4, <2>2 DEF Qty
    <3>2. Qty(a, d) = 0 /\ Qty(b, d) = 0  BY <2>2 DEF Qty, D
    <3> QED  BY <3>1, <3>2
  <2> QED  BY <2>1, <2>2
<1> QED  BY <1>5, <1>6

\* The greater of two numbers.
Larger(x, y) == IF y > x THEN y ELSE x

LEMMA MaxIs ==
  ASSUME NEW a \in Vectors, NEW b \in Vectors
  PROVE  /\ MaxResources(a, b) \in Vectors
         /\ \A d : Qty(MaxResources(a, b), d) = Larger(Qty(a, d), Qty(b, d))
<1> DEFINE D == DOMAIN a \cup DOMAIN b
<1>1. D \in SUBSET Dims  BY QtyIs
<1>2. MaxResources(a, b) = [d \in D |-> Larger(Qty(a, d), Qty(b, d))]
  BY DEF MaxResources, Larger
<1> HIDE DEF D
<1>3. \A d \in D : Larger(Qty(a, d), Qty(b, d)) \in Nat
  <2> TAKE d \in D
  <2>1. Qty(a, d) \in Nat /\ Qty(b, d) \in Nat  BY QtyIs
  <2> QED  BY <2>1 DEF Larger
<1>4. MaxResources(a, b) \in [D -> Nat]  BY <1>2, <1>3
<1>5. MaxResources(a, b) \in Vectors  BY <1>1, <1>4 DEF Vectors
<1>6. ASSUME NEW d  PROVE Qty(MaxResources(a, b), d) = Larger(Qty(a, d), Qty(b, d))
  <2>1. CASE d \in D
    <3>1. Qty(MaxResources(a, b), d) = MaxResources(a, b)[d]  BY <1>4, <2>1 DEF Qty
    <3> QED  BY <1>2, <2>1, <3>1
  <2>2. CASE d \notin D
    <3>1. Qty(MaxResources(a, b), d) = 0  BY <1>4, <2>2 DEF Qty
    <3>2. Qty(a, d) = 0 /\ Qty(b, d) = 0  BY <2>2 DEF Qty, D
    <3> QED  BY <3>1, <3>2 DEF Larger
  <2> QED  BY <2>1, <2>2
<1> QED  BY <1>5, <1>6

\* AddAll adds up every dimension.
LEMMA AddAllIs ==
  ASSUME NEW vs, IsList(vs), \A j \in DOMAIN vs : vs[j] \in Vectors, NEW d
  PROVE  /\ AddAll(vs) \in Vectors
         /\ Qty(AddAll(vs), d) = SumFunction([j \in DOMAIN vs |-> Qty(vs[j], d)])
<1> DEFINE n == Len(vs)
           f == [j \in 1 .. n |-> Qty(vs[j], d)]
           F == [i \in 1 .. n |-> [v \in Vectors |-> AddResources(v, vs[i])]]
           Adding(g) == g = [i \in 0 .. n |-> IF i = 0 THEN Empty ELSE AddResources(g[i - 1], vs[i])]
           sum == CHOOSE g : Adding(g)
<1>1. n \in Nat /\ DOMAIN vs = 1 .. n  BY DEF IsList
<1>2. AddAll(vs) = sum[n]  BY DEF AddAll
<1>3. f \in [1 .. n -> Nat]  BY <1>1, QtyIs
<1>4. F \in [1 .. n -> [Vectors -> Vectors]]  BY <1>1, AddIs
<1> HIDE DEF n
<1>5. sum \in [0 .. n -> Vectors] /\ Adding(sum)
  <2>1. PICK g : Steps(g, Vectors, Empty, n, F)
    <3>1. Empty \in Vectors  BY EmptyIs
    <3> HIDE DEF F, Adding, sum, f
    <3> QED  BY <1>1, <1>4, <3>1, Recursion
  <2>21. g \in [0 .. n -> Vectors] /\ g[0] = Empty  BY <2>1 DEF Steps
  <2>2. ASSUME NEW i \in 0 .. n, i # 0  PROVE g[i] = AddResources(g[i - 1], vs[i])
    <3>1. i \in 1 .. n /\ i - 1 \in 0 .. n  BY <1>1, <2>2
    <3>2. g[i - 1] \in Vectors /\ g[i] = F[i][g[i - 1]]  BY <2>1, <2>21, <3>1 DEF Steps
    <3> QED  BY <3>1, <3>2
  <2>3. Adding(g)  BY <2>21, <2>2
  <2>4. Adding(sum)  BY <2>3
  <2> HIDE DEF sum
  <2> DEFINE T == {i \in 0 .. n : sum[i] = g[i]}
  <2>5. 0 \in T  BY <1>1, <2>3, <2>4
  <2>6. ASSUME NEW i \in 1 .. n, i - 1 \in T  PROVE i \in T
    <3>1. i \in 0 .. n /\ i # 0  BY <1>1
    <3>2. sum[i - 1] = g[i - 1]  BY <2>6
    <3>3. sum[i] = AddResources(sum[i - 1], vs[i]) /\ g[i] = AddResources(g[i - 1], vs[i])
      BY <2>3, <2>4, <3>1
    <3> QED  BY <3>1, <3>2, <3>3
  <2> HIDE DEF T
  <2>7. \A i \in 0 .. n : i \in T  BY <1>1, <2>5, <2>6, StepInduction
  <2>8. \A i \in 0 .. n : sum[i] \in Vectors  BY <2>7, <2>21 DEF T
  <2> QED  BY <2>4, <2>8
<1> HIDE DEF sum, f
<1> DEFINE U == {i \in 0 .. n : Qty(sum[i], d) = SumFunctionOnSet(f, 1 .. i)}
<1>6. 0 \in U
  <2>1. sum[0] = Empty  BY <1>1, <1>5
  <2>2. 1 .. 0 = {}  OBVIOUS
  <2>3. SumFunctionOnSet(f, {}) = 0  BY <1>3, SumStep, FS_EmptySet
  <2> QED  BY <1>1, <2>1, <2>2, <2>3, EmptyIs
<1>7. ASSUME NEW i \in 1 .. n, i - 1 \in U  PROVE i \in U
  <2>1. i \in 0 .. n /\ i # 0 /\ i - 1 \in 0 .. n  BY <1>1
  <2>2. sum[i] = AddResources(sum[i - 1], vs[i])  BY <1>5, <2>1
  <2>3. sum[i - 1] \in Vectors /\ vs[i] \in Vectors  BY <1>1, <1>5, <2>1
  <2>4. Qty(sum[i], d) = Qty(sum[i - 1], d) + Qty(vs[i], d)  BY <2>2, <2>3, AddIs
  <2>5. /\ 1 .. i = (1 .. i - 1) \cup {i} /\ i \in (1 .. n) \ (1 .. i - 1)
        /\ 1 .. i - 1 \in SUBSET (1 .. n)
    BY <1>1
  <2>6. IsFiniteSet(1 .. i - 1)  BY FS_Interval
  <2>7. /\ SumFunctionOnSet(f, 1 .. i) = f[i] + SumFunctionOnSet(f, 1 .. i - 1)
        /\ SumFunctionOnSet(f, 1 .. i - 1) \in Nat
    <3> DEFINE S == 1 .. i - 1
               D == 1 .. n
               x == i
    <3>1. f \in [D -> Nat] /\ S \in SUBSET D /\ IsFiniteSet(S) /\ x \in D /\ x \notin S
      BY <1>3, <2>5, <2>6
    <3> HIDE DEF S, D, x, U, F, Adding
    <3>2. /\ SumFunctionOnSet(f, S) \in Nat
          /\ SumFunctionOnSet(f, S \cup {x}) = f[x] + SumFunctionOnSet(f, S)
      BY <3>1, SumAdd
    <3> QED  BY <2>5, <3>2 DEF S, x
  <2>8. f[i] = Qty(vs[i], d) /\ Qty(vs[i], d) \in Nat  BY <2>3, QtyIs DEF f
  <2>9. Qty(sum[i - 1], d) = SumFunctionOnSet(f, 1 .. i - 1)  BY <1>7
  <2>10. Qty(sum[i], d) = SumFunctionOnSet(f, 1 .. i)  BY <2>4, <2>7, <2>8, <2>9
  <2> QED  BY <2>1, <2>10
<1> HIDE DEF U
<1>8. \A i \in 0 .. n : i \in U  BY <1>1, <1>6, <1>7, StepInduction
<1>9. n \in 0 .. n  BY <1>1
<1>10. Qty(sum[n], d) = SumFunctionOnSet(f, 1 .. n)  BY <1>8, <1>9 DEF U
<1>11. SumFunction([j \in DOMAIN vs |-> Qty(vs[j], d)]) = SumFunctionOnSet(f, 1 .. n)
  BY <1>1 DEF SumFunction, f
<1> QED  BY <1>2, <1>5, <1>9, <1>10, <1>11

-----------------------------------------------------------------------------
(* A Pod's request.                                                        *)

Stages == [sidecars : Vectors, peak : Vectors]

\* One more init container.
NextStage(x, c) ==
  [sidecars |-> IF c.restart THEN AddResources(x.sidecars, c.req) ELSE x.sidecars,
   peak     |-> MaxResources(x.peak, AddResources(x.sidecars, c.req))]

IsInit(init) ==
  IsList(init) /\ \A j \in DOMAIN init : init[j].req \in Vectors /\ init[j].restart \in BOOLEAN

\* What initStages computes on its way.
StagesOf(init, h) ==
  /\ h \in [0 .. Len(init) -> Stages] /\ h[0] = [sidecars |-> Empty, peak |-> Empty]
  /\ \A i \in 1 .. Len(init) : h[i] = NextStage(h[i - 1], init[i])

LEMMA NextStageIs ==
  ASSUME NEW x \in Stages, NEW c, c.req \in Vectors, c.restart \in BOOLEAN
  PROVE  NextStage(x, c) \in Stages
<1>1. x.sidecars \in Vectors /\ x.peak \in Vectors  BY DEF Stages
<1>2. AddResources(x.sidecars, c.req) \in Vectors  BY <1>1, AddIs
<1>3. MaxResources(x.peak, AddResources(x.sidecars, c.req)) \in Vectors  BY <1>1, <1>2, MaxIs
<1> QED  BY <1>1, <1>2, <1>3 DEF NextStage, Stages

LEMMA StagesAre ==
  ASSUME NEW init, IsInit(init)
  PROVE  \E h : StagesOf(init, h) /\ initStages(init) = h[Len(init)]
<1> DEFINE n == Len(init)
           b == [sidecars |-> Empty, peak |-> Empty]
           F == [i \in 1 .. n |-> [x \in Stages |-> NextStage(x, init[i])]]
           Staging(g) == g = [i \in 0 .. n |-> IF i = 0 THEN b ELSE NextStage(g[i - 1], init[i])]
           h == CHOOSE g : Staging(g)
<1>1. n \in Nat /\ DOMAIN init = 1 .. n  BY DEF IsInit, IsList
<1>2. initStages(init) = h[n]  BY DEF initStages, NextStage
<1>3. b \in Stages  BY EmptyIs DEF Stages
<1>4. \A i \in 1 .. n : \A x \in Stages : NextStage(x, init[i]) \in Stages
  BY <1>1, NextStageIs DEF IsInit
<1>5. F \in [1 .. n -> [Stages -> Stages]]  BY <1>4
<1> HIDE DEF n, b
<1>6. PICK g : Steps(g, Stages, b, n, F)
  <2> HIDE DEF F, Staging, h
  <2> QED  BY <1>1, <1>3, <1>5, Recursion
<1>7. g \in [0 .. n -> Stages] /\ g[0] = b  BY <1>6 DEF Steps
<1>8. ASSUME NEW i \in 0 .. n, i # 0  PROVE g[i] = NextStage(g[i - 1], init[i])
  <2>1. i \in 1 .. n /\ i - 1 \in 0 .. n  BY <1>1, <1>8
  <2>2. g[i - 1] \in Stages /\ g[i] = F[i][g[i - 1]]  BY <1>6, <1>7, <2>1 DEF Steps
  <2> QED  BY <2>1, <2>2
<1>9. Staging(g)  BY <1>7, <1>8
<1>10. Staging(h)  BY <1>9
<1> HIDE DEF h
<1> DEFINE T == {i \in 0 .. n : h[i] \in Stages}
<1>11. 0 \in T  BY <1>1, <1>3, <1>10
<1>12. \A i \in 1 .. n : i \in 0 .. n /\ i # 0 /\ i - 1 \in 0 .. n  BY <1>1
<1>13. \A i \in 1 .. n : h[i] = NextStage(h[i - 1], init[i])  BY <1>10, <1>12
<1>14. ASSUME NEW i \in 1 .. n, i - 1 \in T  PROVE i \in T  BY <1>4, <1>12, <1>13, <1>14
<1> HIDE DEF T
<1>15. \A i \in 0 .. n : i \in T  BY <1>1, <1>11, <1>14, StepInduction
<1>16. h \in [0 .. n -> Stages]  BY <1>10, <1>15 DEF T
<1>17. h[0] = b  BY <1>1, <1>10
<1>18. StagesOf(init, h)  BY <1>13, <1>16, <1>17 DEF StagesOf, n, b
<1> QED  BY <1>2, <1>18 DEF n

\* The footprint beside init container i, in one dimension.
Beside(init, d) == [j \in DOMAIN init |-> Qty(init[j].req, d)]
Sidecars(init, i) == {j \in DOMAIN init : init[j].restart /\ j <= i}
Stage(init, d, i) == SumFunctionOnSet(Beside(init, d), Sidecars(init, i - 1) \cup {i})

LEMMA SidecarsAre ==
  ASSUME NEW init, IsInit(init), NEW d, NEW i \in 0 .. Len(init)
  PROVE  /\ Beside(init, d) \in [1 .. Len(init) -> Nat]
         /\ Sidecars(init, i) \in SUBSET (1 .. Len(init)) /\ IsFiniteSet(Sidecars(init, i))
         /\ SumFunctionOnSet(Beside(init, d), Sidecars(init, i)) \in Nat
<1>1. Len(init) \in Nat /\ DOMAIN init = 1 .. Len(init)  BY DEF IsInit, IsList
<1>2. Beside(init, d) \in [1 .. Len(init) -> Nat]  BY <1>1, QtyIs DEF Beside, IsInit
<1>3. Sidecars(init, i) \in SUBSET (1 .. Len(init))  BY <1>1 DEF Sidecars
<1>4. IsFiniteSet(1 .. Len(init))  BY <1>1, FS_Interval
<1>5. IsFiniteSet(Sidecars(init, i))  BY <1>3, <1>4, FS_Subset
<1> DEFINE D == 1 .. Len(init)
           f == Beside(init, d)
           S == Sidecars(init, i)
<1>6. f \in [D -> Nat] /\ S \in SUBSET D /\ IsFiniteSet(S)  BY <1>2, <1>3, <1>5
<1> HIDE DEF D, f, S
<1>7. SumFunctionOnSet(f, S) \in Nat  BY <1>6, SumStep
<1> QED  BY <1>2, <1>3, <1>5, <1>7 DEF f, S

LEMMA StageIs ==
  ASSUME NEW init, IsInit(init), NEW d, NEW i \in 1 .. Len(init)
  PROVE  /\ Stage(init, d, i) \in Nat
         /\ Stage(init, d, i) = Qty(init[i].req, d)
              + SumFunctionOnSet(Beside(init, d), Sidecars(init, i - 1))
         /\ init[i].restart => Sidecars(init, i) = Sidecars(init, i - 1) \cup {i}
         /\ ~init[i].restart => Sidecars(init, i) = Sidecars(init, i - 1)
<1>1. Len(init) \in Nat /\ DOMAIN init = 1 .. Len(init)  BY DEF IsInit, IsList
<1>2. i - 1 \in 0 .. Len(init) /\ i \in DOMAIN init /\ ~ (i <= i - 1)  BY <1>1
<1>3. \A j \in 1 .. Len(init) : j <= i <=> (j <= i - 1 \/ j = i)  BY <1>1
<1>4. /\ init[i].restart => Sidecars(init, i) = Sidecars(init, i - 1) \cup {i}
      /\ ~init[i].restart => Sidecars(init, i) = Sidecars(init, i - 1)
  BY <1>1, <1>2, <1>3 DEF Sidecars
<1>5. i \notin Sidecars(init, i - 1)  BY <1>2 DEF Sidecars
<1> DEFINE D == 1 .. Len(init)
           f == Beside(init, d)
           S == Sidecars(init, i - 1)
           x == i
<1>6. f \in [D -> Nat] /\ S \in SUBSET D /\ IsFiniteSet(S) /\ x \in D /\ x \notin S
  BY <1>2, <1>5, SidecarsAre
<1>7. f[x] = Qty(init[i].req, d) /\ f[x] \in Nat  BY <1>2, <1>6 DEF Beside
<1> HIDE DEF D, f, S, x
<1>8. /\ SumFunctionOnSet(f, S) \in Nat
      /\ SumFunctionOnSet(f, S \cup {x}) = f[x] + SumFunctionOnSet(f, S)
  BY <1>6, SumAdd
<1>9. Stage(init, d, i) = SumFunctionOnSet(f, S \cup {x})  BY DEF Stage, f, S, x
<1>10. Stage(init, d, i) = f[x] + SumFunctionOnSet(f, S) /\ Stage(init, d, i) \in Nat
  BY <1>7, <1>8, <1>9
<1> QED  BY <1>4, <1>7, <1>10 DEF f, S

\* What initStages returns, in one dimension: the sidecars' sum, and the greatest
\* of the stages.
LEMMA InitStagesAre ==
  ASSUME NEW init, IsInit(init), NEW d
  PROVE  LET out == initStages(init)
             n   == Len(init)
         IN /\ out \in Stages
            /\ Qty(out.sidecars, d) = SumFunctionOnSet(Beside(init, d), Sidecars(init, n))
            /\ Qty(out.peak, d) \in {0} \cup {Stage(init, d, j) : j \in 1 .. n}
            /\ \A j \in 1 .. n : Stage(init, d, j) <= Qty(out.peak, d)
<1> DEFINE n == Len(init)
           Sum(i) == SumFunctionOnSet(Beside(init, d), Sidecars(init, i))
<1>1. n \in Nat /\ DOMAIN init = 1 .. n  BY DEF IsInit, IsList
<1>2. PICK h : StagesOf(init, h) /\ initStages(init) = h[n]  BY StagesAre
<1>3. /\ h \in [0 .. n -> Stages] /\ h[0] = [sidecars |-> Empty, peak |-> Empty]
      /\ \A i \in 1 .. n : h[i] = NextStage(h[i - 1], init[i])
  BY <1>2 DEF StagesOf
<1>4. \A i \in 0 .. n : h[i].sidecars \in Vectors /\ h[i].peak \in Vectors  BY <1>3 DEF Stages
<1>5. \A j \in 1 .. n : Stage(init, d, j) \in Nat  BY StageIs
<1> DEFINE T == {i \in 0 .. n : /\ Qty(h[i].sidecars, d) = Sum(i)
                                /\ Qty(h[i].peak, d) \in {0} \cup {Stage(init, d, j) : j \in 1 .. i}
                                /\ \A j \in 1 .. i : Stage(init, d, j) <= Qty(h[i].peak, d)}
<1>6. 0 \in T
  <2>1. Sidecars(init, 0) = {}  BY <1>1 DEF Sidecars
  <2> DEFINE f == Beside(init, d)
             D == 1 .. n
  <2>2. f \in [D -> Nat]  BY <1>1, SidecarsAre
  <2> HIDE DEF f, D
  <2>3. SumFunctionOnSet(f, {}) = 0  BY <2>2, SumStep, FS_EmptySet
  <2>4. Sum(0) = 0  BY <2>1, <2>3 DEF f
  <2>5. h[0].sidecars = Empty /\ h[0].peak = Empty  BY <1>3
  <2>6. Qty(h[0].sidecars, d) = 0 /\ Qty(h[0].peak, d) = 0  BY <2>5, EmptyIs
  <2> QED  BY <1>1, <2>4, <2>6
<1>7. ASSUME NEW i \in 1 .. n, i - 1 \in T  PROVE i \in T
  <2> DEFINE stage == AddResources(h[i - 1].sidecars, init[i].req)
             was   == Qty(h[i - 1].peak, d)
  <2>1. i - 1 \in 0 .. n /\ i \in 0 .. n  BY <1>1
  <2>2. h[i - 1].sidecars \in Vectors /\ h[i - 1].peak \in Vectors /\ init[i].req \in Vectors
    BY <1>1, <1>4, <2>1 DEF IsInit
  <2>3. /\ h[i].sidecars = IF init[i].restart THEN stage ELSE h[i - 1].sidecars
        /\ h[i].peak = MaxResources(h[i - 1].peak, stage)
    <3>1. h[i] = NextStage(h[i - 1], init[i])  BY <1>3
    <3>2. NextStage(h[i - 1], init[i]) =
            [sidecars |-> IF init[i].restart THEN stage ELSE h[i - 1].sidecars,
             peak     |-> MaxResources(h[i - 1].peak, stage)]
      BY DEF NextStage
    <3> QED  BY <3>1, <3>2
  <2>5. stage \in Vectors /\ Qty(stage, d) = Sum(i - 1) + Qty(init[i].req, d)
    BY <1>7, <2>2, AddIs
  <2>6. Sum(i - 1) \in Nat /\ Qty(init[i].req, d) \in Nat  BY <2>1, <2>2, SidecarsAre, QtyIs
  <2>7. Qty(stage, d) = Stage(init, d, i)
    <3>1. Stage(init, d, i) = Qty(init[i].req, d) + Sum(i - 1)  BY StageIs
    <3> QED  BY <2>5, <2>6, <3>1
  <2>8. Qty(h[i].sidecars, d) = Sum(i)
    <3>1. CASE init[i].restart
      <4>1. Sum(i) = Stage(init, d, i)  BY <3>1, StageIs DEF Stage
      <4> QED  BY <2>3, <2>7, <3>1, <4>1
    <3>2. CASE ~init[i].restart
      <4>1. Sum(i) = Sum(i - 1)  BY <3>2, StageIs
      <4> QED  BY <1>7, <2>3, <3>2, <4>1
    <3> QED  BY <3>1, <3>2
  <2>9. Qty(h[i].peak, d) = Larger(was, Stage(init, d, i))
    BY <2>2, <2>3, <2>5, <2>7, MaxIs
  <2>10. was \in Nat  BY <2>2, QtyIs
  <2>11. was \in {0} \cup {Stage(init, d, j) : j \in 1 .. i - 1}  BY <1>7
  <2>12. \A j \in 1 .. i - 1 : Stage(init, d, j) <= was  BY <1>7
  <2>13. \A j \in 1 .. i : j \in 1 .. n /\ (j = i \/ j \in 1 .. i - 1)  BY <1>1
  <2>14. \A j \in 1 .. i - 1 : j \in 1 .. i  BY <1>1
  <2> HIDE DEF stage, was, T, Sum
  <2>15. Qty(h[i].peak, d) \in {0} \cup {Stage(init, d, j) : j \in 1 .. i}
    BY <2>9, <2>11, <2>14 DEF Larger
  <2>16. ASSUME NEW j \in 1 .. i  PROVE Stage(init, d, j) <= Qty(h[i].peak, d)
    <3>1. Stage(init, d, j) \in Nat /\ Stage(init, d, i) \in Nat  BY <1>5, <2>13
    <3>2. CASE j = i  BY <2>9, <2>10, <3>1, <3>2 DEF Larger
    <3>3. CASE j \in 1 .. i - 1
      <4>1. Stage(init, d, j) <= was  BY <2>12, <3>3
      <4> QED  BY <2>9, <2>10, <3>1, <4>1 DEF Larger
    <3> QED  BY <2>13, <3>2, <3>3
  <2> QED  BY <2>1, <2>8, <2>15, <2>16 DEF T
<1> HIDE DEF T
<1>8. \A i \in 0 .. n : i \in T  BY <1>1, <1>6, <1>7, StepInduction
<1>9. n \in T /\ h[n] \in Stages  BY <1>1, <1>3, <1>8
<1> QED  BY <1>2, <1>9 DEF T

LEMMA InitOfPod ==
  ASSUME NEW pod, IsPod(pod)
  PROVE  /\ IsInit(pod.init)
         /\ IsList(pod.containers) /\ \A j \in DOMAIN pod.containers : pod.containers[j] \in Vectors
         /\ pod.overhead \in Vectors
BY VectorIs DEF IsPod, IsInit

\* A CapacityRequest asks for the Pod's peak, in every dimension.
LEMMA PeakIs ==
  ASSUME NEW pod, IsPod(pod)
  PROVE  /\ resourcesFromPod(pod) \in Vectors
         /\ \A d : Qty(resourcesFromPod(pod), d) = PeakOf(pod, d)
<1> DEFINE init == pod.init
           n    == Len(init)
           out  == initStages(init)
           all  == AddAll(pod.containers)
           main == AddResources(all, out.sidecars)
           high == MaxResources(main, out.peak)
<1>1. IsInit(init) /\ pod.overhead \in Vectors  BY InitOfPod
<1>2. n \in Nat /\ DOMAIN init = 1 .. n  BY <1>1 DEF IsInit, IsList
<1>3. out \in Stages  BY <1>1, InitStagesAre
<1>4. all \in Vectors  BY InitOfPod, AddAllIs
<1>5. out.sidecars \in Vectors /\ out.peak \in Vectors  BY <1>3 DEF Stages
<1> HIDE DEF out, all
<1>6. main \in Vectors /\ \A d : Qty(main, d) = Qty(all, d) + Qty(out.sidecars, d)
  BY <1>4, <1>5, AddIs
<1> HIDE DEF main
<1>7. high \in Vectors /\ \A d : Qty(high, d) = Larger(Qty(main, d), Qty(out.peak, d))
  BY <1>5, <1>6, MaxIs
<1> HIDE DEF high
<1>8. resourcesFromPod(pod) = AddResources(high, pod.overhead)
  BY DEF resourcesFromPod, high, main, all, out
<1>9. /\ resourcesFromPod(pod) \in Vectors
      /\ \A d : Qty(resourcesFromPod(pod), d) = Qty(high, d) + Qty(pod.overhead, d)
  BY <1>1, <1>7, <1>8, AddIs
<1>10. ASSUME NEW d  PROVE Qty(resourcesFromPod(pod), d) = PeakOf(pod, d)
  <2> DEFINE side == Sidecars(init, n)
             mine == SumFunctionOnSet(Beside(init, d), side)
                     + SumFunction([j \in DOMAIN pod.containers |-> Qty(pod.containers[j], d)])
             stages == {Stage(init, d, j) : j \in 1 .. n}
             top    == Qty(high, d)
  <2>1. Qty(out.sidecars, d) = SumFunctionOnSet(Beside(init, d), side)
    BY <1>1, InitStagesAre DEF out
  <2>2. Qty(all, d) = SumFunction([j \in DOMAIN pod.containers |-> Qty(pod.containers[j], d)])
    BY InitOfPod, AddAllIs DEF all
  <2>3. Qty(main, d) \in Nat /\ Qty(all, d) \in Nat /\ Qty(out.sidecars, d) \in Nat
    BY <1>4, <1>5, <1>6, QtyIs
  <2>4. mine = Qty(main, d)
    <3> HIDE DEF mine
    <3>1. mine = Qty(out.sidecars, d) + Qty(all, d)  BY <2>1, <2>2 DEF mine
    <3>2. Qty(main, d) = Qty(all, d) + Qty(out.sidecars, d)  BY <1>6
    <3> QED  BY <2>3, <3>1, <3>2
  <2>5. /\ Qty(out.peak, d) \in {0} \cup stages
        /\ \A j \in 1 .. n : Stage(init, d, j) <= Qty(out.peak, d)
    BY <1>1, InitStagesAre DEF out
  <2>6. \A j \in 1 .. n : Stage(init, d, j) \in Nat  BY <1>1, StageIs
  <2> HIDE DEF mine, stages, top
  <2>7. top = Larger(mine, Qty(out.peak, d)) /\ Qty(out.peak, d) \in Nat /\ mine \in Nat
    BY <1>5, <1>7, <2>3, <2>4, QtyIs DEF top
  <2>8. top \in stages \cup {mine}  BY <2>5, <2>7 DEF Larger
  <2>9. \A y \in stages \cup {mine} : y \in Nat /\ top >= y
    <3> SUFFICES ASSUME NEW y \in stages \cup {mine}  PROVE y \in Nat /\ top >= y
      OBVIOUS
    <3>1. CASE y = mine  BY <2>7, <3>1 DEF Larger
    <3>2. CASE y \in stages
      <4>1. PICK j \in 1 .. n : y = Stage(init, d, j)  BY <3>2 DEF stages
      <4>2. y \in Nat /\ y <= Qty(out.peak, d)  BY <2>5, <2>6, <4>1
      <4> QED  BY <2>7, <4>2 DEF Larger
    <3> QED  BY <3>1, <3>2
  <2>10. Max(stages \cup {mine}) = top
    <3> DEFINE m == CHOOSE x \in stages \cup {mine} : \A y \in stages \cup {mine} : x >= y
    <3>1. m \in stages \cup {mine} /\ \A y \in stages \cup {mine} : m >= y  BY <2>8, <2>9
    <3> HIDE DEF m
    <3>2. m \in Nat /\ top \in Nat /\ m >= top /\ top >= m  BY <2>8, <2>9, <3>1
    <3>3. m = top  BY <3>2
    <3> QED  BY <3>3 DEF Max, m
  <2>11. PeakOf(pod, d) = Max(stages \cup {mine}) + Qty(pod.overhead, d)
    <3>1. side = {j \in DOMAIN init : init[j].restart}
      <4>1. \A j \in DOMAIN init : j <= n  BY <1>2
      <4> QED  BY <4>1 DEF Sidecars
    <3>2. ASSUME NEW i \in DOMAIN init
          PROVE  {i} \cup {j \in side : j < i} = Sidecars(init, i - 1) \cup {i}
      <4>1. \A j \in DOMAIN init : j < i <=> j <= i - 1  BY <1>2
      <4> QED  BY <3>1, <4>1 DEF Sidecars
    <3> HIDE DEF side
    <3>3. {SumFunctionOnSet(Beside(init, d), {i} \cup {j \in side : j < i}) : i \in DOMAIN init}
            = stages
      BY <1>2, <3>2 DEF stages, Stage
    <3> QED  BY <3>1, <3>3 DEF PeakOf, Beside, mine
  <2> QED  BY <1>9, <2>10, <2>11 DEF top
<1> QED  BY <1>9, <1>10

-----------------------------------------------------------------------------
(* The bucket of a penalty.                                                *)

Buckets == 0 .. Pinned

\* The buckets from b up that hold the penalty.
Holding(h, b) == {x \in b .. Pinned : x = Pinned \/ h <= UpperBound(x)}
Walks(h, g) == g = [b \in 3 .. Pinned |-> IF b = Pinned \/ h <= UpperBound(b) THEN b ELSE g[b + 1]]

LEMMA HoldingHasLeast ==
  ASSUME NEW h, NEW b \in 3 .. Pinned
  PROVE  \E x \in Holding(h, b) : \A y \in Holding(h, b) : x <= y
<1>1. Pinned \in Nat  BY BucketAssumption DEF Pinned
<1>2. Holding(h, b) \in SUBSET Nat /\ Pinned \in Holding(h, b)  BY <1>1 DEF Holding
<1> QED  BY <1>2, LeastNumber

LEMMA WalkIs ==
  ASSUME NEW h, NEW g, Walks(h, g), NEW b \in 3 .. Pinned
  PROVE  g[b] \in Holding(h, b) /\ \A y \in Holding(h, b) : g[b] <= y
<1> DEFINE m == Pinned - 3
           Is(c) == g[c] \in Holding(h, c) /\ \A y \in Holding(h, c) : g[c] <= y
           T == {i \in 0 .. m : Is(Pinned - i)}
<1>1. Pinned \in Nat /\ Pinned >= 3 /\ m \in Nat  BY BucketAssumption DEF Pinned
<1>2. ASSUME NEW c \in 3 .. Pinned, c = Pinned \/ h <= UpperBound(c)  PROVE Is(c)
  <2>1. g[c] = c  BY <1>2 DEF Walks
  <2> QED  BY <1>1, <1>2, <2>1 DEF Holding
<1>3. 0 \in T
  <2>1. Pinned - 0 = Pinned /\ Pinned \in 3 .. Pinned  BY <1>1
  <2>2. Is(Pinned)  BY <1>2, <2>1
  <2> QED  BY <1>1, <2>1, <2>2
<1>4. ASSUME NEW i \in 1 .. m, i - 1 \in T  PROVE i \in T
  <2> DEFINE c == Pinned - i
  <2>1. c \in 3 .. Pinned - 1 /\ c \in 3 .. Pinned /\ c # Pinned /\ c + 1 = Pinned - (i - 1)
    BY <1>1
  <2>2. Is(c + 1)  BY <1>4, <2>1
  <2>3. CASE h <= UpperBound(c)  BY <1>2, <2>1, <2>3
  <2>4. CASE ~(h <= UpperBound(c))
    <3>1. g[c] = g[c + 1]  BY <2>1, <2>4 DEF Walks
    <3>2. \A x : x \in c .. Pinned <=> x = c \/ x \in c + 1 .. Pinned  BY <1>1, <2>1
    <3> HIDE DEF c
    <3>3. Holding(h, c) = Holding(h, c + 1)  BY <2>1, <2>4, <3>2 DEF Holding
    <3>4. Is(c)  BY <2>2, <3>1, <3>3
    <3> QED  BY <3>4 DEF c
  <2> QED  BY <2>3, <2>4
<1> HIDE DEF T
<1>5. \A i \in 0 .. m : i \in T  BY <1>1, <1>3, <1>4, StepInduction
<1>6. Pinned - b \in 0 .. m /\ Pinned - (Pinned - b) = b  BY <1>1
<1>7. Pinned - b \in T  BY <1>5, <1>6
<1> QED  BY <1>6, <1>7 DEF T

LEMMA WalkExists ==
  ASSUME NEW h
  PROVE  \E g : Walks(h, g)
<1> DEFINE Least(b) == CHOOSE x \in Holding(h, b) : \A y \in Holding(h, b) : x <= y
           g == [b \in 3 .. Pinned |-> Least(b)]
<1>1. Pinned \in Nat  BY BucketAssumption DEF Pinned
<1>2. ASSUME NEW b \in 3 .. Pinned
      PROVE  Least(b) \in Holding(h, b) /\ \A y \in Holding(h, b) : Least(b) <= y
  BY HoldingHasLeast
<1> HIDE DEF Least
<1>3. ASSUME NEW b \in 3 .. Pinned, b = Pinned \/ h <= UpperBound(b)  PROVE Least(b) = b
  <2>1. b \in Holding(h, b) /\ \A y \in Holding(h, b) : y \in Nat /\ y >= b
    BY <1>1, <1>3 DEF Holding
  <2>2. Least(b) <= b /\ Least(b) \in Nat /\ Least(b) >= b  BY <1>2, <2>1
  <2> QED  BY <2>2
<1>4. ASSUME NEW b \in 3 .. Pinned, ~(b = Pinned \/ h <= UpperBound(b))
      PROVE  Least(b) = Least(b + 1) /\ b + 1 \in 3 .. Pinned
  <2>1. b + 1 \in 3 .. Pinned  BY <1>1, <1>4
  <2>2. \A x : x \in b .. Pinned <=> x = b \/ x \in b + 1 .. Pinned  BY <1>1
  <2>3. Holding(h, b) = Holding(h, b + 1)  BY <1>4, <2>2 DEF Holding
  <2>4. Least(b) = Least(b + 1)  BY <2>3 DEF Least
  <2> QED  BY <2>1, <2>4
<1>5. Walks(h, g)  BY <1>3, <1>4 DEF Walks
<1> QED  BY <1>5

LEMMA LowestIs ==
  ASSUME NEW S \in SUBSET Nat, NEW x \in S, \A y \in S : x <= y
  PROVE  Min(S) = x
<1> DEFINE m == CHOOSE z \in S : \A y \in S : z <= y
<1>1. m \in S /\ \A y \in S : m <= y  OBVIOUS
<1> HIDE DEF m
<1>2. m = x  BY <1>1
<1> QED  BY <1>2 DEF Min, m

\* BucketForDollars finds the tightest bucket.
LEMMA BucketIs ==
  ASSUME NEW h \in Int, h # Nil
  PROVE  BucketForDollars(h) = BucketOf(h) /\ BucketForDollars(h) \in Buckets
<1> DEFINE from == CHOOSE g : Walks(h, g)
           out  == BucketForDollars(h)
           Low  == {b \in 1 .. LastBucket : UpperBound(b) >= h} \cup {Pinned}
<1>1. Pinned = LastBucket + 1 /\ LastBucket \in Nat /\ LastBucket >= 3
  BY BucketAssumption DEF Pinned
<1>2. Walks(h, from)  BY WalkExists
<1>3. out = IF h <= 0 THEN 1 ELSE IF h <= 1 THEN 2 ELSE from[3]
  BY DEF BucketForDollars, Walks
<1> HIDE DEF from, out
<1>4. UpperBound(1) = 0 /\ UpperBound(2) = 1
  <2>1. UpperBound(1) = 0  BY DEF UpperBound
  <2>2. UpperBound(2) = 2 ^ 0  BY DEF UpperBound
  <2> QED  BY <2>1, <2>2
<1>5. 3 \in 3 .. Pinned /\ 1 \in 1 .. LastBucket /\ 2 \in 1 .. LastBucket  BY <1>1
<1>6. from[3] \in Holding(h, 3) /\ \A y \in Holding(h, 3) : from[3] <= y  BY <1>2, <1>5, WalkIs
<1>7. Low \in SUBSET Nat  BY <1>1
<1>8. out \in Low /\ \A y \in Low : out <= y
  <2>1. CASE h <= 0
    <3>1. out = 1  BY <1>3, <2>1
    <3> QED  BY <1>1, <1>4, <1>5, <2>1, <3>1
  <2>2. CASE ~(h <= 0) /\ h <= 1
    <3>1. out = 2  BY <1>3, <2>2
    <3>2. 1 \notin Low  BY <1>1, <1>4, <2>2
    <3>3. \A y \in Low : y \in Nat /\ y >= 1  BY <1>1
    <3>4. \A y \in Low : y >= 2  BY <3>2, <3>3
    <3>5. 2 \in Low  BY <1>4, <1>5, <2>2
    <3> QED  BY <3>1, <3>3, <3>4, <3>5
  <2>3. CASE ~(h <= 1)
    <3>1. out = from[3]  BY <1>3, <2>3
    <3>2. 1 \notin Low /\ 2 \notin Low  BY <1>1, <1>4, <2>3
    <3>3. Low = Holding(h, 3)
      <4>1. \A y : y \in Low => y \in Holding(h, 3)  BY <1>1, <3>2 DEF Holding
      <4>2. \A y : y \in Holding(h, 3) => y \in Low  BY <1>1 DEF Holding
      <4> QED  BY <4>1, <4>2
    <3> QED  BY <1>6, <3>1, <3>3
  <2> QED  BY <2>1, <2>2, <2>3
<1>9. out = Min(Low)
  <2> HIDE DEF Low
  <2> QED  BY <1>7, <1>8, LowestIs
<1>10. out = BucketOf(h)  BY <1>9 DEF BucketOf
<1>11. out \in Buckets  BY <1>1, <1>8 DEF Buckets
<1> QED  BY <1>10, <1>11 DEF out

-----------------------------------------------------------------------------
(* Aggregate.                                                              *)

Row(P, G) == [profile : P, group : G, agg : Vectors, minUnit : Vectors]

\* A row for the Need, that covers it.
Has(rows, m) == \E k \in DOMAIN rows : SameRow(rows[k], m) /\ Covers(rows[k].agg, m.agg)

LEMMA CoversSelf == ASSUME NEW v \in Vectors PROVE Covers(v, v)
<1>1. \A d \in DOMAIN v : Qty(v, d) = v[d] /\ Qty(v, d) \in Nat  BY QtyIs
<1> QED  BY <1>1 DEF Covers

LEMMA CoversMore ==
  ASSUME NEW a \in Vectors, NEW b \in Vectors
  PROVE  /\ Covers(AddResources(a, b), b)
         /\ \A c \in Vectors : Covers(a, c) => Covers(AddResources(a, b), c)
<1> DEFINE s == AddResources(a, b)
<1>1. s \in Vectors /\ \A d : Qty(s, d) = Qty(a, d) + Qty(b, d)  BY AddIs
<1> HIDE DEF s
<1>2. \A d : Qty(a, d) \in Nat /\ Qty(b, d) \in Nat  BY QtyIs
<1>3. Covers(s, b)
  <2>1. ASSUME NEW d \in DOMAIN b  PROVE Qty(s, d) >= b[d]
    <3>1. Qty(b, d) = b[d]  BY QtyIs
    <3> QED  BY <1>1, <1>2, <3>1
  <2> QED  BY <2>1 DEF Covers
<1>4. ASSUME NEW c \in Vectors, Covers(a, c)  PROVE Covers(s, c)
  <2>1. ASSUME NEW d \in DOMAIN c  PROVE Qty(s, d) >= c[d]
    <3>1. Qty(a, d) >= c[d]  BY <1>4 DEF Covers
    <3>2. Qty(c, d) = c[d] /\ Qty(c, d) \in Nat  BY QtyIs
    <3> QED  BY <1>1, <1>2, <3>1, <3>2
  <2> QED  BY <2>1 DEF Covers
<1> QED  BY <1>3, <1>4 DEF s

LEMMA AddNeedIs ==
  ASSUME NEW P, NEW G, NEW rows \in Seq(Row(P, G)), NEW n \in Row(P, G)
  PROVE  /\ AddNeed(rows, n) \in Seq(Row(P, G))
         /\ Has(AddNeed(rows, n), n)
         /\ \A m \in Row(P, G) : Has(rows, m) => Has(AddNeed(rows, n), m)
<1> DEFINE at == {k \in DOMAIN rows : SameRow(rows[k], n)}
           out == AddNeed(rows, n)
           len == Len(rows)
           More(k) == [rows[k] EXCEPT !.agg = AddResources(@, n.agg),
                                      !.minUnit = MaxResources(@, n.minUnit)]
<1>1. len \in Nat /\ DOMAIN rows = 1 .. len /\ \A k \in 1 .. len : rows[k] \in Row(P, G)
  OBVIOUS
<1>2. n.agg \in Vectors /\ n.minUnit \in Vectors  BY DEF Row
<1>3. \A m \in Row(P, G) : m.agg \in Vectors /\ m.minUnit \in Vectors  BY DEF Row
<1>4. CASE at = {}
  <2>1. out = Append(rows, n)  BY <1>4 DEF AddNeed
  <2>2. /\ out \in Seq(Row(P, G)) /\ DOMAIN out = 1 .. len + 1 /\ out[len + 1] = n
        /\ \A k \in 1 .. len : out[k] = rows[k]
    BY <1>1, <2>1
  <2>3. len + 1 \in DOMAIN out /\ \A k \in 1 .. len : k \in DOMAIN out  BY <1>1, <2>2
  <2>4. Has(out, n)
    <3>1. SameRow(n, n) /\ Covers(n.agg, n.agg)  BY <1>2, CoversSelf DEF SameRow
    <3> HIDE DEF out
    <3> QED  BY <2>2, <2>3, <3>1 DEF Has
  <2>5. ASSUME NEW m, Has(rows, m)  PROVE Has(out, m)
    <3> HIDE DEF out
    <3> QED  BY <1>1, <2>2, <2>3, <2>5 DEF Has
  <2> QED  BY <2>2, <2>4, <2>5
<1>5. CASE at # {}
  <2>1. out = [k \in 1 .. len |-> IF k \notin at THEN rows[k] ELSE More(k)]
    BY <1>1, <1>5 DEF AddNeed
  <2>2. ASSUME NEW k \in 1 .. len
        PROVE  /\ More(k) \in Row(P, G) /\ More(k).agg = AddResources(rows[k].agg, n.agg)
               /\ More(k).profile = rows[k].profile /\ More(k).group = rows[k].group
    <3>1. rows[k] \in Row(P, G)  BY <1>1
    <3>2. /\ AddResources(rows[k].agg, n.agg) \in Vectors
          /\ MaxResources(rows[k].minUnit, n.minUnit) \in Vectors
      BY <1>2, <1>3, <3>1, AddIs, MaxIs
    <3> QED  BY <3>1, <3>2 DEF Row
  <2>3. \A k \in 1 .. len : SameRow(rows[k], n) <=> k \in at  BY <1>1
  <2> HIDE DEF at, More, out
  <2>4. out \in [1 .. len -> Row(P, G)]  BY <1>1, <2>1, <2>2
  <2>5. out \in Seq(Row(P, G)) /\ DOMAIN out = 1 .. len  BY <1>1, <2>4
  <2>6. ASSUME NEW k \in 1 .. len, NEW m \in Row(P, G), SameRow(rows[k], m),
               Covers(rows[k].agg, m.agg) \/ (k \in at /\ m.agg = n.agg)
        PROVE  SameRow(out[k], m) /\ Covers(out[k].agg, m.agg)
    <3>1. CASE k \notin at  BY <2>1, <2>6, <3>1
    <3>2. CASE k \in at
      <4>1. out[k] = More(k)  BY <2>1, <3>2
      <4>2. SameRow(out[k], m)  BY <2>2, <2>6, <4>1 DEF SameRow
      <4>3. rows[k].agg \in Vectors /\ m.agg \in Vectors  BY <1>1, <1>3
      <4>4. Covers(AddResources(rows[k].agg, n.agg), m.agg)
        BY <1>2, <2>6, <4>3, CoversMore
      <4> QED  BY <2>2, <4>1, <4>2, <4>4
    <3> QED  BY <3>1, <3>2
  <2>7. Has(out, n)
    <3>1. PICK k \in 1 .. len : k \in at /\ SameRow(rows[k], n)
      <4>1. \A k \in at : k \in 1 .. len /\ SameRow(rows[k], n)  BY <1>1 DEF at
      <4> QED  BY <1>5, <4>1
    <3>2. SameRow(out[k], n) /\ Covers(out[k].agg, n.agg)  BY <2>6, <3>1
    <3> QED  BY <2>5, <3>2 DEF Has
  <2>8. ASSUME NEW m \in Row(P, G), Has(rows, m)  PROVE Has(out, m)
    <3>1. PICK k \in 1 .. len : SameRow(rows[k], m) /\ Covers(rows[k].agg, m.agg)
      BY <1>1, <2>8 DEF Has
    <3>2. SameRow(out[k], m) /\ Covers(out[k].agg, m.agg)  BY <2>6, <3>1
    <3> QED  BY <2>5, <3>2 DEF Has
  <2> QED  BY <2>5, <2>7, <2>8 DEF out
<1> QED  BY <1>4, <1>5

\* Every Need finds its row in the roll-up, and the row covers it.
LEMMA AggregateIs ==
  ASSUME NEW P, NEW G, NEW ns, IsList(ns), \A j \in DOMAIN ns : ns[j] \in Row(P, G)
  PROVE  /\ Aggregate(ns) \in Seq(Row(P, G))
         /\ \A j \in DOMAIN ns : Has(Aggregate(ns), ns[j])
<1> DEFINE n == Len(ns)
           Lists == SUBSET Seq(Row(P, G))
           More(x, i) == {AddNeed(rows, ns[i]) : rows \in x}
           F == [i \in 1 .. n |-> [x \in Lists |-> More(x, i)]]
           Adding(g) == g = [i \in 0 .. n |-> IF i = 0 THEN {<<>>} ELSE More(g[i - 1], i)]
           h == CHOOSE g : Adding(g)
<1>1. n \in Nat /\ DOMAIN ns = 1 .. n  BY DEF IsList
<1>2. Aggregate(ns) = CHOOSE rows \in h[n] : TRUE  BY DEF Aggregate
<1>3. {<<>>} \in Lists  OBVIOUS
<1>4. \A i \in 1 .. n : \A x \in Lists : More(x, i) \in Lists  BY <1>1, AddNeedIs
<1>5. F \in [1 .. n -> [Lists -> Lists]]  BY <1>4
<1> HIDE DEF n, Lists
<1>6. PICK g : Steps(g, Lists, {<<>>}, n, F)
  <2> DEFINE b == {<<>>}
  <2>1. b \in Lists  BY <1>3
  <2> HIDE DEF F, Adding, h, More, b
  <2>2. \E g : Steps(g, Lists, b, n, F)  BY <1>1, <1>5, <2>1, Recursion
  <2> QED  BY <2>2 DEF b
<1>7. g \in [0 .. n -> Lists] /\ g[0] = {<<>>}  BY <1>6 DEF Steps
<1>8. ASSUME NEW i \in 0 .. n, i # 0  PROVE g[i] = More(g[i - 1], i)
  <2>1. i \in 1 .. n /\ i - 1 \in 0 .. n  BY <1>1, <1>8
  <2>2. g[i - 1] \in Lists /\ g[i] = F[i][g[i - 1]]  BY <1>6, <1>7, <2>1 DEF Steps
  <2> HIDE DEF More
  <2> QED  BY <2>1, <2>2
<1>9. Adding(g)
  <2> HIDE DEF More
  <2> QED  BY <1>7, <1>8
<1>10. Adding(h)  BY <1>9
<1> HIDE DEF h
<1> DEFINE Good0(i) == /\ h[i] \in Lists /\ h[i] # {}
                       /\ \A rows \in h[i] : \A j \in 1 .. i : Has(rows, ns[j])
           T == {i \in 0 .. n : Good0(i)}
<1>11. 0 \in T
  <2>1. h[0] = {<<>>}  BY <1>1, <1>10
  <2>2. 1 .. 0 = {} /\ 0 \in 0 .. n  BY <1>1
  <2> QED  BY <1>3, <2>1, <2>2
<1>12. ASSUME NEW i \in 1 .. n, i - 1 \in T  PROVE i \in T
  <2>1. i \in 0 .. n /\ i # 0 /\ \A j \in 1 .. i : j \in 1 .. n /\ (j = i \/ j \in 1 .. i - 1)
    BY <1>1
  <2>2. h[i] = More(h[i - 1], i)  BY <1>10, <2>1
  <2>3. h[i - 1] \in Lists /\ h[i - 1] # {}  BY <1>12
  <2>4. h[i] \in Lists /\ h[i] # {}  BY <1>4, <2>2, <2>3
  <2>5. ASSUME NEW rows \in h[i], NEW j \in 1 .. i  PROVE Has(rows, ns[j])
    <3>1. PICK old \in h[i - 1] : rows = AddNeed(old, ns[i])  BY <2>2
    <3>2. old \in Seq(Row(P, G)) /\ ns[i] \in Row(P, G) /\ ns[j] \in Row(P, G)
      BY <1>1, <2>1, <2>3, <3>1 DEF Lists
    <3>3. CASE j = i  BY <3>1, <3>2, <3>3, AddNeedIs
    <3>4. CASE j \in 1 .. i - 1
      <4>1. Has(old, ns[j])  BY <1>12, <3>4
      <4> QED  BY <3>1, <3>2, <4>1, AddNeedIs
    <3> QED  BY <2>1, <3>3, <3>4
  <2> QED  BY <2>1, <2>4, <2>5
<1> HIDE DEF T
<1>13. \A i \in 0 .. n : i \in T  BY <1>1, <1>11, <1>12, StepInduction
<1>14. Good0(n)  BY <1>1, <1>13 DEF T
<1>15. Aggregate(ns) \in h[n]  BY <1>2, <1>14
<1> QED  BY <1>1, <1>14, <1>15 DEF Lists

-----------------------------------------------------------------------------
(* The list of the CapacityRequests.                                       *)

\* Their ids tell them apart, and there are as many as ids at most.
Distinct(cs) == cs \subseteq CRs /\ \A c, e \in cs : c.id = e.id => c = e
Earlier(cs, c) == {x \in cs : x.id < c.id}

LEMMA DistinctFinite ==
  ASSUME NEW cs, Distinct(cs)
  PROVE  IsFiniteSet(cs)
<1> DEFINE f == [i \in {c.id : c \in cs} |-> CHOOSE c \in cs : c.id = i]
<1>1. {c.id : c \in cs} \subseteq 1 .. MaxCRs  BY DEF Distinct, CRs
<1>2. IsFiniteSet(1 .. MaxCRs)  BY BoundAssumption, FS_Interval
<1>3. IsFiniteSet({c.id : c \in cs})  BY <1>1, <1>2, FS_Subset
<1>4. f \in Surjection({c.id : c \in cs}, cs)
  <2>1. \A i \in {c.id : c \in cs} : f[i] \in cs  OBVIOUS
  <2>2. \A c \in cs : c.id \in {e.id : e \in cs} /\ f[c.id] = c  BY DEF Distinct
  <2>3. f \in [{c.id : c \in cs} -> cs]  BY <2>1
  <2> HIDE DEF f
  <2> QED  BY <2>2, <2>3 DEF Surjection
<1> QED  BY <1>3, <1>4, FS_Surjection

\* Each of them is on the list, at the place its id gives it.
LEMMA ListedAre ==
  ASSUME NEW cs, Distinct(cs)
  PROVE  /\ IsList(Listed(cs))
         /\ \A j \in DOMAIN Listed(cs) : \E c \in cs : Listed(cs)[j] = Need(c)
         /\ \A c \in cs : \E j \in DOMAIN Listed(cs) : Listed(cs)[j] = Need(c)
<1> DEFINE N == Cardinality(cs)
           rank == [c \in cs |-> Cardinality(Earlier(cs, c)) + 1]
           nth(k) == CHOOSE c \in cs : Cardinality({x \in cs : x.id < c.id}) = k - 1
<1>1. IsFiniteSet(cs) /\ N \in Nat  BY DistinctFinite, FS_CardinalityType
<1>2. ASSUME NEW c \in cs
      PROVE  /\ IsFiniteSet(Earlier(cs, c)) /\ Cardinality(Earlier(cs, c)) \in 0 .. N - 1
             /\ rank[c] \in 1 .. N
  <2>1. c.id \in Nat  BY DEF Distinct, CRs
  <2>2. Earlier(cs, c) \subseteq cs \ {c}  BY <2>1 DEF Earlier
  <2>3. IsFiniteSet(cs \ {c}) /\ Cardinality(cs \ {c}) = N - 1  BY <1>1, FS_RemoveElement
  <2>4. /\ IsFiniteSet(Earlier(cs, c))
        /\ Cardinality(Earlier(cs, c)) \in Nat /\ Cardinality(Earlier(cs, c)) <= N - 1
    BY <2>2, <2>3, FS_Subset, FS_CardinalityType
  <2> QED  BY <1>1, <2>4
<1>3. ASSUME NEW c \in cs, NEW e \in cs, c.id < e.id
      PROVE  Cardinality(Earlier(cs, c)) < Cardinality(Earlier(cs, e))
  <2>1. \A x \in cs : x.id \in Nat  BY DEF Distinct, CRs
  <2>2. Earlier(cs, c) \subseteq Earlier(cs, e) \ {c}  BY <1>3, <2>1 DEF Earlier
  <2>3. c \in Earlier(cs, e)  BY <1>3 DEF Earlier
  <2>4. /\ IsFiniteSet(Earlier(cs, e) \ {c})
        /\ Cardinality(Earlier(cs, e) \ {c}) = Cardinality(Earlier(cs, e)) - 1
    BY <1>2, <2>3, FS_RemoveElement
  <2>5. Cardinality(Earlier(cs, c)) <= Cardinality(Earlier(cs, e)) - 1
    BY <2>2, <2>4, FS_Subset
  <2> QED  BY <1>2, <2>5
<1>4. rank \in Injection(cs, 1 .. N)
  <2>1. ASSUME NEW c \in cs, NEW e \in cs, c # e  PROVE rank[c] # rank[e]
    <3>1. c.id # e.id /\ c.id \in Nat /\ e.id \in Nat  BY <2>1 DEF Distinct, CRs
    <3>2. c.id < e.id \/ e.id < c.id  BY <3>1
    <3>3. Cardinality(Earlier(cs, c)) # Cardinality(Earlier(cs, e))  BY <1>2, <1>3, <3>2
    <3> QED  BY <1>2, <3>3
  <2> QED  BY <1>2, <2>1 DEF Injection, IsInjective
<1>5. rank \in Surjection(cs, 1 .. N)
  <2>1. IsFiniteSet(1 .. N) /\ Cardinality(1 .. N) = N  BY <1>1, FS_Interval
  <2> HIDE DEF rank
  <2> QED  BY <1>1, <1>4, <2>1, FS_Injection
<1>6. ASSUME NEW k \in 1 .. N  PROVE nth(k) \in cs /\ rank[nth(k)] = k
  <2>1. PICK c \in cs : rank[c] = k  BY <1>5 DEF Surjection
  <2>2. Cardinality({x \in cs : x.id < c.id}) = k - 1
    <3>1. Cardinality(Earlier(cs, c)) + 1 = k /\ Cardinality(Earlier(cs, c)) \in 0 .. N - 1
      BY <1>2, <2>1
    <3>2. Cardinality(Earlier(cs, c)) = k - 1  BY <1>1, <3>1
    <3> QED  BY <3>2 DEF Earlier
  <2>3. nth(k) \in cs /\ Cardinality({x \in cs : x.id < nth(k).id}) = k - 1  BY <2>2
  <2> QED  BY <1>2, <2>3 DEF Earlier
<1>7. Listed(cs) = [k \in 1 .. N |-> Need(nth(k))]  BY DEF Listed
<1> HIDE DEF nth, rank
<1>8. Len(Listed(cs)) = N /\ DOMAIN Listed(cs) = 1 .. N  BY <1>1, <1>7
<1>9. ASSUME NEW c \in cs  PROVE Listed(cs)[rank[c]] = Need(c) /\ rank[c] \in 1 .. N
  <2>1. rank[c] \in 1 .. N  BY <1>2
  <2>2. nth(rank[c]) \in cs /\ rank[nth(rank[c])] = rank[c]  BY <1>6, <2>1
  <2>3. nth(rank[c]) = c  BY <1>4, <2>2 DEF Injection, IsInjective
  <2> QED  BY <1>7, <2>1, <2>3
<1> QED  BY <1>1, <1>6, <1>7, <1>8, <1>9 DEF IsList

-----------------------------------------------------------------------------
(* The wire form.                                                          *)

OperatorNames == {"In", "NotIn", "Exists", "DoesNotExist", "Same"}

\* What a Profile made of a CapacityRequest of a Pod looks like.
WireProfile(p) ==
  /\ p = NewProfile(p.requirements, p.spread, p.priority, p.interruption, p.reclamation)
  /\ \A r \in p.requirements : r = <<r[1], r[2]>> /\ r[2] \in OperatorNames
  /\ \A s \in p.spread : s = <<s[1], s[2]>> /\ s[2] = "DoNotSchedule"
  /\ p.interruption \in Buckets /\ p.reclamation \in Buckets

LEMMA OperatorRoundTrip ==
  ASSUME NEW op \in OperatorNames
  PROVE  /\ operatorFromProto(operatorToProto(op)) = op
         /\ operatorToProto(op) \in 0 .. Len(Operators)
<1>1. operatorFromProto(operatorToProto(op)) = op
  BY DEF OperatorNames, operatorFromProto, operatorToProto, EnumName, EnumNumber, Operators, Range
<1>2. operatorToProto(op) \in 0 .. Len(Operators)
  BY DEF OperatorNames, operatorToProto, EnumNumber, Operators, Range
<1> QED  BY <1>1, <1>2

LEMMA SpreadRoundTrip ==
  whenUnsatisfiableFromProto(whenUnsatisfiableToProto("DoNotSchedule")) = "DoNotSchedule"
BY DEF whenUnsatisfiableFromProto, whenUnsatisfiableToProto, EnumName, EnumNumber,
       UnsatisfiableActions, Range

LEMMA VectorRoundTrip ==
  ASSUME NEW v \in Vectors
  PROVE  resourceQtysFromProto(resourceQtyMap(v)) = v
<1>1. v # Nil  BY NilAssumption, VectorIs
<1>2. CASE DOMAIN v = {}
  <2>1. v = Empty  BY <1>2 DEF Empty, Vectors
  <2> QED  BY <1>2, <2>1 DEF resourceQtysFromProto, resourceQtyMap
<1>3. CASE DOMAIN v # {}  BY <1>1, <1>3 DEF resourceQtysFromProto, resourceQtyMap
<1> QED  BY <1>2, <1>3

\* What the shard decodes is what the operator rolled up, and it refuses none.
LEMMA RoundTrip ==
  ASSUME NEW P, NEW G, NEW n \in Row(P, G), WireProfile(n.profile)
  PROVE  LET w == needToCapacityNeed(n)
         IN NeedsFromRollup(w) = n /\ BucketsInRange(w) /\ OperatorsKnown(w)
<1> DEFINE p == n.profile
           w == needToCapacityNeed(n)
           rs == RequirementsToProto(p.requirements)
           ss == {<<s[1], whenUnsatisfiableToProto(s[2])>> : s \in p.spread}
<1>1. /\ w.requirements = rs /\ w.spread = ss /\ w.priority = p.priority /\ w.group = n.group
      /\ w.buckets = <<p.interruption, p.reclamation>>
      /\ w.agg = resourceQtyMap(n.agg) /\ w.minUnit = resourceQtyMap(n.minUnit)
  BY DEF needToCapacityNeed
<1>2. ASSUME NEW r \in p.requirements
      PROVE  LET q == <<r[1], operatorToProto(r[2])>>
             IN <<q[1], operatorFromProto(q[2])>> = r /\ q[2] \in 0 .. Len(Operators)
  <2>1. r = <<r[1], r[2]>> /\ r[2] \in OperatorNames  BY DEF WireProfile
  <2>2. operatorFromProto(operatorToProto(r[2])) = r[2]  BY <2>1, OperatorRoundTrip
  <2>3. operatorToProto(r[2]) \in 0 .. Len(Operators)  BY <2>1, OperatorRoundTrip
  <2> QED  BY <2>1, <2>2, <2>3
<1>3. {<<q[1], operatorFromProto(q[2])>> : q \in rs} = p.requirements
  BY <1>2 DEF RequirementsToProto
<1>4. ASSUME NEW s \in p.spread
      PROVE  LET q == <<s[1], whenUnsatisfiableToProto(s[2])>>
             IN <<q[1], whenUnsatisfiableFromProto(q[2])>> = s
  <2>1. s = <<s[1], s[2]>> /\ s[2] = "DoNotSchedule"  BY DEF WireProfile
  <2> QED  BY <2>1, SpreadRoundTrip
<1>5. {<<q[1], whenUnsatisfiableFromProto(q[2])>> : q \in ss} = p.spread
  <2> DEFINE Out(s) == <<s[1], whenUnsatisfiableToProto(s[2])>>
             Back(q) == <<q[1], whenUnsatisfiableFromProto(q[2])>>
             S == p.spread
  <2>1. \A s \in S : Back(Out(s)) = s  BY <1>4
  <2>2. ss = {Out(s) : s \in S}  OBVIOUS
  <2> HIDE DEF Out, Back, ss, S
  <2>3. {Back(q) : q \in ss} = S  BY <2>1, <2>2
  <2> QED  BY <2>3 DEF Back, S
<1>6. OperatorsKnown(w)  BY <1>1, <1>2 DEF OperatorsKnown, RequirementsToProto
<1>7. p.interruption \in 0 .. Pinned /\ p.reclamation \in 0 .. Pinned
  BY DEF WireProfile, Buckets
<1> HIDE DEF w, rs, ss
<1>8. w.buckets[1] = p.interruption /\ w.buckets[2] = p.reclamation  BY <1>1
<1>9. BucketsInRange(w)
  <2>1. \A i \in 1 .. 2 : i = 1 \/ i = 2  OBVIOUS
  <2> QED  BY <1>7, <1>8, <2>1 DEF BucketsInRange
<1>10. NeedsFromRollup(w) = n
  <2>1. n.agg \in Vectors /\ n.minUnit \in Vectors  BY DEF Row
  <2>2. n = [profile |-> n.profile, group |-> n.group, agg |-> n.agg, minUnit |-> n.minUnit]
    BY DEF Row
  <2>3. p = NewProfile(p.requirements, p.spread, p.priority, p.interruption, p.reclamation)
    BY DEF WireProfile
  <2>4. resourceQtysFromProto(w.agg) = n.agg /\ resourceQtysFromProto(w.minUnit) = n.minUnit
    BY <1>1, <2>1, VectorRoundTrip
  <2>5. NewProfile({<<r[1], operatorFromProto(r[2])>> : r \in w.requirements},
                   {<<s[1], whenUnsatisfiableFromProto(s[2])>> : s \in w.spread},
                   w.priority, w.buckets[1], w.buckets[2]) = p
    <3>1. {<<r[1], operatorFromProto(r[2])>> : r \in w.requirements} = p.requirements
      BY <1>1, <1>3
    <3>2. {<<s[1], whenUnsatisfiableFromProto(s[2])>> : s \in w.spread} = p.spread
      BY <1>1, <1>5
    <3> HIDE DEF p
    <3> QED  BY <1>1, <1>8, <2>3, <3>1, <3>2
  <2> HIDE DEF p
  <2>6. NeedsFromRollup(w) = [profile |-> p, group |-> w.group,
                              agg |-> resourceQtysFromProto(w.agg),
                              minUnit |-> resourceQtysFromProto(w.minUnit)]
    BY <2>5 DEF NeedsFromRollup
  <2> QED  BY <1>1, <2>2, <2>4, <2>6 DEF p
<1> QED  BY <1>6, <1>9, <1>10 DEF w

-----------------------------------------------------------------------------
(* The Need of a Pod.                                                      *)

LEMMA PenaltyIs ==
  ASSUME NEW annotation, IsPenalty(annotation), NEW class, NEW kind \in {"interruption", "reclamation"}
  PROVE  resolvePenalty(annotation, class, kind) \in {Nil} \cup Int
BY DefaultsAssumption DEF IsPenalty, resolvePenalty

LEMMA BucketOfPenalty ==
  ASSUME NEW p \in {Nil} \cup Int
  PROVE  Bucket(p) = BucketOf(p) /\ Bucket(p) \in Buckets
<1>1. CASE p = Nil
  <2>1. Bucket(p) = 0 /\ BucketOf(p) = 0  BY <1>1 DEF Bucket, BucketOf
  <2>2. 0 \in Buckets  BY BucketAssumption DEF Buckets, Pinned
  <2> QED  BY <2>1, <2>2
<1>2. CASE p # Nil
  <2>1. p \in Int  BY <1>2
  <2>2. Bucket(p) = BucketForDollars(p)  BY <1>2 DEF Bucket
  <2> QED  BY <1>2, <2>1, <2>2, BucketIs
<1> QED  BY <1>1, <1>2

LEMMA RequirementsAre ==
  ASSUME NEW pod, IsPod(pod), NEW cr, cr.requirements = requirementsFromPod(pod), Supported(cr)
  PROVE  \A r \in withSameRequirement(cr) : r = <<r[1], r[2]>> /\ r[2] \in OperatorNames
<1>1. ASSUME NEW r \in requirementsFromPod(pod)  PROVE r = <<r[1], r[2]>> /\ r[2] \in OperatorNames
  <2>1. r[2] \in SupportedOperators  BY <1>1 DEF Supported
  <2>2. \/ r \in {<<k, "In">> : k \in pod.selector} \/ r = AnyInstanceType
        \/ pod.affinity # Nil /\ r \in pod.affinity
    BY <1>1 DEF requirementsFromPod
  <2>3. r = <<r[1], r[2]>>  BY <2>2 DEF AnyInstanceType, IsPod
  <2> QED  BY <2>1, <2>3 DEF SupportedOperators, OperatorNames
<1>2. ASSUME NEW r \in withSameRequirement(cr)  PROVE r = <<r[1], r[2]>> /\ r[2] \in OperatorNames
  <2>1. r \in requirementsFromPod(pod) \/ r = <<cr.coLocation.topologyKey, "Same">>
    BY <1>2 DEF withSameRequirement
  <2> QED  BY <1>1, <2>1 DEF OperatorNames
<1> QED  BY <1>2

LEMMA NeedIs ==
  ASSUME NEW pod, IsPod(pod), NEW cr, cr = buildCRForPod(pod), Supported(cr)
  PROVE  LET n == NeedOf(cr)
         IN /\ n \in Row({n.profile}, {n.group}) /\ WireProfile(n.profile)
            /\ n.profile.interruption = BucketOf(cr.interruption)
            /\ n.profile.reclamation = BucketOf(cr.reclamation)
<1> DEFINE n == NeedOf(cr)
           p == n.profile
<1>1. /\ cr.requirements = requirementsFromPod(pod) /\ cr.resources = resourcesFromPod(pod)
      /\ cr.spread = topologySpreadFromPod(pod)
      /\ cr.interruption = resolvePenalty(pod.interruption, pod.class, "interruption")
      /\ cr.reclamation = resolvePenalty(pod.reclamation, pod.class, "reclamation")
  BY DEF buildCRForPod
<1>2. cr.interruption \in {Nil} \cup Int /\ cr.reclamation \in {Nil} \cup Int
  BY <1>1, PenaltyIs DEF IsPod
<1>3. p = NewProfile(withSameRequirement(cr), {s \in cr.spread : s[2] # "ScheduleAnyway"},
                     cr.priority, Bucket(cr.interruption), Bucket(cr.reclamation))
  BY DEF NeedOf
<1>4. n = [profile |-> p, group |-> n.group, agg |-> cr.resources, minUnit |-> cr.resources]
  BY DEF NeedOf
<1> HIDE DEF n, p
<1>5. /\ p.requirements = withSameRequirement(cr)
      /\ p.spread = {s \in cr.spread : s[2] # "ScheduleAnyway"} /\ p.priority = cr.priority
      /\ p.interruption = Bucket(cr.interruption) /\ p.reclamation = Bucket(cr.reclamation)
  BY <1>3 DEF NewProfile
<1>6. /\ p.interruption = BucketOf(cr.interruption) /\ p.interruption \in Buckets
      /\ p.reclamation = BucketOf(cr.reclamation) /\ p.reclamation \in Buckets
  BY <1>2, <1>5, BucketOfPenalty
<1>7. \A s \in p.spread : s = <<s[1], s[2]>> /\ s[2] = "DoNotSchedule"
  BY <1>1, <1>5 DEF topologySpreadFromPod, IsPod
<1>8. \A r \in p.requirements : r = <<r[1], r[2]>> /\ r[2] \in OperatorNames
  BY <1>1, <1>5, RequirementsAre
<1>9. p = NewProfile(p.requirements, p.spread, p.priority, p.interruption, p.reclamation)
  BY <1>3, <1>5
<1>10. WireProfile(p)  BY <1>6, <1>7, <1>8, <1>9 DEF WireProfile
<1>11. cr.resources \in Vectors  BY <1>1, PeakIs
<1>12. n \in Row({p}, {n.group})  BY <1>4, <1>11 DEF Row
<1> QED  BY <1>6, <1>10, <1>12 DEF n, p

-----------------------------------------------------------------------------
(* The inductive invariant.                                                *)

SpecOf(p) == Inputs[in].specs[p]
NeedAt(p) == RawNeeds[in][p]

\* Roll-ups the shard accepts.
SlotOK ==
  slot # NoRollup =>
    \A k \in DOMAIN slot.rows : BucketsInRange(slot.rows[k]) /\ OperatorsKnown(slot.rows[k])

Typed ==
  /\ in \in DOMAIN Inputs /\ TypeOK /\ SlotOK
  /\ \A id \in pending : id < nextId

\* A Pod that never comes has no CapacityRequest, and none on its way.
OnlyPods ==
  \A p \in Pods : SpecOf(p) = Nil =>
    /\ pods[p] = "gone" /\ podSeen[p] \in {"none", "gone"} /\ work[p].pc # "create"
    /\ \A c \in crs : c.pod # p

\* The demand on its way to the shard, or there.
OnItsWay ==
  IF slot = NoRollup THEN shard ELSE {NeedsFromRollup(slot.rows[k]) : k \in DOMAIN slot.rows}

Reported(p) ==
  \E r \in OnItsWay :
    NeedAt(p).profile = r.profile /\ NeedAt(p).group = r.group /\ Covers(r.agg, NeedAt(p).agg)

\* What waits for its acknowledgement was reported.
PendingReported ==
  \A c \in crs : c.id \in pending => NeedAt(c.pod) # Nil /\ Reported(c.pod)

IInv == Typed /\ OnlyPods /\ PendingReported

LEMMA NeedAtIs ==
  ASSUME in \in DOMAIN Inputs, NEW p \in Pods, NeedAt(p) # Nil
  PROVE  LET n  == NeedAt(p)
             cr == Requests[in][p]
         IN /\ SpecOf(p) # Nil /\ IsPod(SpecOf(p))
            /\ n \in Row({n.profile}, {n.group}) /\ WireProfile(n.profile)
            /\ n.profile.interruption = BucketOf(cr.interruption)
            /\ n.profile.reclamation = BucketOf(cr.reclamation)
<1> DEFINE cr == Requests[in][p]
<1>1. cr = IF SpecOf(p) = Nil THEN Nil ELSE buildCRForPod(SpecOf(p))
  BY DEF Requests, SpecOf
<1>2. cr # Nil /\ Supported(cr) /\ NeedAt(p) = NeedOf(cr)  BY DEF RawNeeds, NeedAt
<1>3. SpecOf(p) # Nil /\ IsPod(SpecOf(p))  BY <1>1, <1>2, InputsAssumption DEF SpecOf
<1>4. cr = buildCRForPod(SpecOf(p))  BY <1>1, <1>3
<1> HIDE DEF cr
<1> QED  BY <1>2, <1>3, <1>4, NeedIs DEF cr

\* A CapacityRequest asks for the peak.
LEMMA RequestAt ==
  ASSUME in \in DOMAIN Inputs, NEW p \in Pods, SpecOf(p) # Nil
  PROVE  \A d : Qty(Requests[in][p].resources, d) = PeakOf(SpecOf(p), d)
<1>1. Requests[in][p] = buildCRForPod(SpecOf(p)) /\ IsPod(SpecOf(p))
  BY InputsAssumption DEF Requests, SpecOf
<1>2. Requests[in][p].resources = resourcesFromPod(SpecOf(p))  BY <1>1 DEF buildCRForPod
<1> QED  BY <1>1, <1>2, PeakIs

-----------------------------------------------------------------------------
(* The roll-up.                                                            *)

LEMMA RollupIs ==
  ASSUME in \in DOMAIN Inputs, Distinct(crs)
  PROVE  LET wire == buildRollup(crs)
         IN /\ \A k \in DOMAIN wire : BucketsInRange(wire[k]) /\ OperatorsKnown(wire[k])
            /\ \A c \in Good(crs) : \E k \in DOMAIN wire :
                 LET r == NeedsFromRollup(wire[k])
                 IN /\ NeedAt(c.pod).profile = r.profile /\ NeedAt(c.pod).group = r.group
                    /\ Covers(r.agg, NeedAt(c.pod).agg)
<1> DEFINE cs   == Good(crs)
           ns   == Listed(cs)
           P    == {Need(c).profile : c \in cs}
           G    == {Need(c).group : c \in cs}
           rows == Aggregate(ns)
           wire == buildRollup(crs)
<1>1. Distinct(cs)  BY DEF Distinct, Good
<1>2. ASSUME NEW c \in cs
      PROVE  /\ Need(c) = NeedAt(c.pod) /\ Need(c) \in Row(P, G)
             /\ WireProfile(Need(c).profile)
  <2>1. c.pod \in Pods /\ Need(c) = NeedAt(c.pod) /\ NeedAt(c.pod) # Nil
    BY <1>1 DEF Distinct, CRs, Good, Need, NeedAt
  <2> DEFINE n == NeedAt(c.pod)
  <2>2. n \in Row({n.profile}, {n.group}) /\ WireProfile(n.profile)  BY <2>1, NeedAtIs
  <2>3. n.profile \in P /\ n.group \in G  BY <2>1
  <2> HIDE DEF n, P, G
  <2>4. n \in Row(P, G)  BY <2>2, <2>3 DEF Row
  <2> QED  BY <2>1, <2>2, <2>4 DEF n
<1>3. /\ IsList(ns) /\ \A j \in DOMAIN ns : \E c \in cs : ns[j] = Need(c)
      /\ \A c \in cs : \E j \in DOMAIN ns : ns[j] = Need(c)
  BY <1>1, ListedAre
<1>4. \A j \in DOMAIN ns : ns[j] \in Row(P, G)  BY <1>2, <1>3
<1>5. \A q \in P : WireProfile(q)  BY <1>2
<1> HIDE DEF cs, ns, P, G
<1>6. rows \in Seq(Row(P, G)) /\ \A j \in DOMAIN ns : Has(rows, ns[j])
  BY <1>3, <1>4, AggregateIs
<1>7. wire = [k \in DOMAIN rows |-> needToCapacityNeed(rows[k])]
  BY DEF buildRollup, rows, ns, cs
<1> HIDE DEF rows, wire
<1>8. ASSUME NEW k \in DOMAIN rows
      PROVE  NeedsFromRollup(wire[k]) = rows[k] /\ BucketsInRange(wire[k]) /\ OperatorsKnown(wire[k])
  <2>1. rows[k] \in Row(P, G)  BY <1>6
  <2>2. rows[k].profile \in P  BY <2>1 DEF Row
  <2>3. wire[k] = needToCapacityNeed(rows[k])  BY <1>7
  <2> QED  BY <1>5, <2>1, <2>2, <2>3, RoundTrip
<1>9. DOMAIN wire = DOMAIN rows  BY <1>7
<1>10. ASSUME NEW c \in cs
       PROVE  \E k \in DOMAIN wire :
                LET r == NeedsFromRollup(wire[k])
                IN /\ NeedAt(c.pod).profile = r.profile /\ NeedAt(c.pod).group = r.group
                   /\ Covers(r.agg, NeedAt(c.pod).agg)
  <2>1. PICK j \in DOMAIN ns : ns[j] = Need(c)  BY <1>3
  <2>2. PICK k \in DOMAIN rows : SameRow(rows[k], Need(c)) /\ Covers(rows[k].agg, Need(c).agg)
    BY <1>6, <2>1 DEF Has
  <2>3. Need(c) = NeedAt(c.pod)  BY <1>2 DEF cs
  <2> QED  BY <1>8, <1>9, <2>2, <2>3 DEF SameRow
<1> QED  BY <1>8, <1>9, <1>10 DEF wire, cs

-----------------------------------------------------------------------------
(* The steps.                                                              *)

LEMMA InitIs == Init => IInv
<1> SUFFICES ASSUME Init  PROVE IInv
  OBVIOUS
<1> USE DEF Init
<1>1. in \in DOMAIN Inputs /\ Inputs[in].budget \in Nat  BY InputsAssumption
<1>2. \A p \in Pods : pods[p] \in {"gone", "running"} /\ podSeen[p] = "none" /\ work[p] = Idle
  OBVIOUS
<1>3. Idle \in Calls /\ 1 \in 1 .. MaxCRs + 1  BY BoundAssumption DEF Idle, Calls
<1>4. TypeOK
  <2>1. pods \in [Pods -> PodPhases] /\ podSeen \in [Pods -> PodPhases]  BY DEF PodPhases
  <2>2. work \in [Pods -> Calls]  BY <1>3
  <2>3. left \in 0 .. Inputs[in].budget  BY <1>1
  <2> QED  BY <1>3, <2>1, <2>2, <2>3 DEF TypeOK, Ids
<1>5. Typed  BY <1>1, <1>4 DEF Typed, SlotOK
<1>6. OnlyPods  BY <1>2 DEF OnlyPods, SpecOf, Idle
<1>7. PendingReported  BY DEF PendingReported
<1> QED  BY <1>5, <1>6, <1>7 DEF IInv

\* A step after which every CapacityRequest was there before, but for its phase.
Kept ==
  /\ Distinct(crs')
  /\ \A c \in crs' : \E e \in crs : c.id = e.id /\ c.pod = e.pod

LEMMA FewerKept == TypeOK /\ crs' \subseteq crs => Kept
BY DEF TypeOK, Kept, Distinct

LEMMA PatchKept ==
  ASSUME TypeOK, NEW id, NEW phase \in Phases, StatusPatch(id, phase)
  PROVE  Kept
<1> DEFINE f(c) == IF c.id = id THEN [c EXCEPT !.phase = phase] ELSE c
<1>1. crs' = {f(c) : c \in crs}  BY DEF StatusPatch
<1>2. ASSUME NEW c \in crs
      PROVE  f(c) \in CRs /\ f(c).id = c.id /\ f(c).pod = c.pod
  <2>1. c \in CRs  BY DEF TypeOK
  <2> QED  BY <2>1 DEF CRs
<1>3. \A c, e \in crs : c.id = e.id => c = e  BY DEF TypeOK
<1> HIDE DEF f
<1>4. ASSUME NEW c \in crs', NEW e \in crs', c.id = e.id  PROVE c = e
  <2>1. PICK a \in crs : c = f(a)  BY <1>1
  <2>2. PICK b \in crs : e = f(b)  BY <1>1
  <2>3. a = b  BY <1>2, <1>3, <1>4, <2>1, <2>2
  <2> QED  BY <2>1, <2>2, <2>3
<1>5. crs' \subseteq CRs  BY <1>1, <1>2
<1>6. \A c \in crs' : \E e \in crs : c.id = e.id /\ c.pod = e.pod  BY <1>1, <1>2
<1> QED  BY <1>4, <1>5, <1>6 DEF Kept, Distinct

\* What does not touch the operator keeps what was reported.
LEMMA ReportedStays ==
  ASSUME UNCHANGED <<in, slot, shard>>, NEW p
  PROVE  NeedAt(p)' = NeedAt(p) /\ Reported(p)' = Reported(p) /\ SpecOf(p)' = SpecOf(p)
         /\ SlotOK' = SlotOK
BY DEF NeedAt, Reported, OnItsWay, SpecOf, SlotOK, RawNeeds, Requests

\* The requests' part of the invariant.
CrsOK ==
  /\ Distinct(crs) /\ \A c \in crs : c.id < nextId
  /\ \A p \in Pods : SpecOf(p) = Nil => \A c \in crs : c.pod # p

LEMMA CrsOKIs == IInv => CrsOK
BY DEF IInv, Typed, TypeOK, Distinct, CrsOK, OnlyPods

LEMMA KeptCrs ==
  ASSUME IInv, Kept, UNCHANGED <<in, nextId, slot, shard>>, pending' \subseteq pending
  PROVE  CrsOK' /\ PendingReported'
<1>1. CrsOK  BY CrsOKIs
<1>2. Distinct(crs')  BY DEF Kept
<1>3. \A c \in crs' : c.id < nextId  BY <1>1 DEF CrsOK, Kept
<1>4. \A p \in Pods : SpecOf(p) = Nil => \A c \in crs' : c.pod # p  BY <1>1 DEF CrsOK, Kept
<1>5. CrsOK'  BY <1>2, <1>3, <1>4, ReportedStays DEF CrsOK, Distinct
<1>6. \A c \in crs' : c.id \in pending' => NeedAt(c.pod) # Nil /\ Reported(c.pod)
  BY DEF Kept, IInv, PendingReported
<1>7. PendingReported'
  <2>1. ASSUME NEW c \in crs', c.id \in pending'  PROVE NeedAt(c.pod)' # Nil /\ Reported(c.pod)'
    <3>1. NeedAt(c.pod)' = NeedAt(c.pod) /\ Reported(c.pod)' = Reported(c.pod)  BY ReportedStays
    <3> QED  BY <1>6, <2>1, <3>1
  <2> QED  BY <2>1 DEF PendingReported
<1> QED  BY <1>5, <1>7

CtlOK ==
  /\ in \in DOMAIN Inputs
  /\ pods \in [Pods -> PodPhases] /\ podSeen \in [Pods -> PodPhases]
  /\ nextId \in 1 .. MaxCRs + 1
  /\ crSeen \subseteq Ids(CRs) /\ queue \subseteq Pods /\ work \in [Pods -> Calls]
  /\ left \in 0 .. Inputs[in].budget

Absent ==
  \A p \in Pods : SpecOf(p) = Nil =>
    pods[p] = "gone" /\ podSeen[p] \in {"none", "gone"} /\ work[p].pc # "create"

OpOK == SlotOK /\ pending \subseteq 1 .. MaxCRs /\ \A id \in pending : id < nextId

LEMMA PartsOfInv == IInv <=> CtlOK /\ Absent /\ OpOK /\ CrsOK /\ PendingReported
BY DEF IInv, Typed, TypeOK, OnlyPods, CtlOK, Absent, OpOK, CrsOK, Distinct

\* What the controller does without a write.
LEMMA CtlOnly ==
  ASSUME IInv, UNCHANGED <<in, crs, nextId, opVars>>
  PROVE  OpOK' /\ CrsOK' /\ PendingReported'
<1> USE DEF opVars
<1>1. Kept  BY FewerKept DEF IInv, Typed
<1>2. CrsOK' /\ PendingReported'  BY <1>1, KeptCrs
<1>3. OpOK  BY PartsOfInv
<1>4. SlotOK' = SlotOK  BY ReportedStays
<1> QED  BY <1>2, <1>3, <1>4 DEF OpOK

\* The controller's reads and writes of its own state.
LEMMA CtlStep ==
  ASSUME IInv, UNCHANGED <<in, pods, nextId, crSeen>>,
         \A p \in Pods : work'[p].pc = "create" => SpecOf(p) # Nil,
         podSeen' = podSeen, queue' \subseteq Pods, work' \in [Pods -> Calls],
         left' \in 0 .. Inputs[in].budget
  PROVE  CtlOK' /\ Absent'
<1>1. CtlOK /\ Absent  BY PartsOfInv
<1>2. \A p \in Pods : SpecOf(p)' = SpecOf(p)  BY DEF SpecOf
<1>3. Absent'  BY <1>1, <1>2 DEF Absent
<1>4. CtlOK'  BY <1>1 DEF CtlOK, Ids
<1> QED  BY <1>3, <1>4

LEMMA FaultLeft ==
  ASSUME IInv
  PROVE  /\ Fault => left' \in 0 .. Inputs[in].budget
         /\ UNCHANGED left => left' \in 0 .. Inputs[in].budget
<1>1. left \in 0 .. Inputs[in].budget /\ in \in DOMAIN Inputs  BY PartsOfInv DEF CtlOK
<1>2. Inputs[in].budget \in Nat  BY <1>1, InputsAssumption
<1> QED  BY <1>1, <1>2 DEF Fault

LEMMA CallsAre ==
  /\ Idle \in Calls /\ Idle.pc = "idle"
  /\ [pc |-> "delete", id |-> 0] \in Calls /\ [pc |-> "create", id |-> 0] \in Calls
  /\ nextId \in 1 .. MaxCRs => [pc |-> "patch", id |-> nextId] \in Calls
BY BoundAssumption DEF Idle, Calls

LEMMA GoesIs ==
  ASSUME IInv, NEW p \in Pods, NEW call \in Calls, Goes(p, call),
         call.pc = "create" => SpecOf(p) # Nil
  PROVE  work' \in [Pods -> Calls] /\ \A q \in Pods : work'[q].pc = "create" => SpecOf(q) # Nil
<1>1. work \in [Pods -> Calls] /\ \A q \in Pods : work[q].pc = "create" => SpecOf(q) # Nil
  BY PartsOfInv DEF CtlOK, Absent
<1>2. work' = [work EXCEPT ![p] = call]  BY DEF Goes
<1>3. \A q \in Pods : work'[q] = IF q = p THEN call ELSE work[q]  BY <1>1, <1>2
<1> QED  BY <1>1, <1>2, <1>3

LEMMA WorkStays ==
  ASSUME IInv, UNCHANGED work
  PROVE  work' \in [Pods -> Calls] /\ \A q \in Pods : work'[q].pc = "create" => SpecOf(q) # Nil
BY PartsOfInv DEF CtlOK, Absent

LEMMA PodStepInv ==
  ASSUME IInv, NEW p \in Pods, NEW phase \in {"terminal", "gone"}, PodStep(p, phase)
  PROVE  IInv'
<1> USE DEF PodStep, ctlVars
<1>1. OpOK' /\ CrsOK' /\ PendingReported'  BY CtlOnly
<1>2. CtlOK /\ Absent  BY PartsOfInv
<1>3. \A q \in Pods : SpecOf(q)' = SpecOf(q)  BY DEF SpecOf
<1>4. pods[p] # "gone" /\ pods' = [pods EXCEPT ![p] = phase]  OBVIOUS
<1>5. SpecOf(p) # Nil  BY <1>2, <1>4 DEF Absent
<1>6. pods' \in [Pods -> PodPhases]  BY <1>2, <1>4 DEF CtlOK, PodPhases
<1>7. Absent'  BY <1>2, <1>3, <1>4, <1>5 DEF Absent, CtlOK
<1>8. CtlOK'  BY <1>2, <1>6 DEF CtlOK, Ids
<1>9. CtlOK' /\ Absent' /\ OpOK' /\ CrsOK' /\ PendingReported'  BY <1>1, <1>7, <1>8
<1> QED  BY <1>9, PartsOfInv, PTL

LEMMA PodEventInv ==
  ASSUME IInv, NEW p \in Pods, PodEvent(p)
  PROVE  IInv'
<1> USE DEF PodEvent, apiVars
<1>1. OpOK' /\ CrsOK' /\ PendingReported'  BY CtlOnly
<1>2. CtlOK /\ Absent  BY PartsOfInv
<1>3. \A q \in Pods : SpecOf(q)' = SpecOf(q)  BY DEF SpecOf
<1>4. podSeen' = [podSeen EXCEPT ![p] = pods[p]]  OBVIOUS
<1>5. podSeen' \in [Pods -> PodPhases]  BY <1>2, <1>4 DEF CtlOK
<1>6. Absent'  BY <1>2, <1>3, <1>4 DEF Absent, CtlOK
<1>7. CtlOK'  BY <1>2, <1>5 DEF CtlOK, Ids
<1>8. CtlOK' /\ Absent' /\ OpOK' /\ CrsOK' /\ PendingReported'  BY <1>1, <1>6, <1>7
<1> QED  BY <1>8, PartsOfInv, PTL

LEMMA PodTouchedInv ==
  ASSUME IInv, NEW p \in Pods, PodTouched(p)
  PROVE  IInv'
<1> USE DEF PodTouched, apiVars
<1>1. OpOK' /\ CrsOK' /\ PendingReported'  BY CtlOnly
<1>2. queue' \subseteq Pods  BY PartsOfInv DEF CtlOK
<1>3. left' \in 0 .. Inputs[in].budget  BY FaultLeft
<1>4. CtlOK' /\ Absent'  BY <1>2, <1>3, WorkStays, CtlStep
<1>5. CtlOK' /\ Absent' /\ OpOK' /\ CrsOK' /\ PendingReported'  BY <1>1, <1>4
<1> QED  BY <1>5, PartsOfInv, PTL

LEMMA CRInformerInv == ASSUME IInv, CRInformer PROVE IInv'
<1> USE DEF CRInformer, apiVars
<1>1. OpOK' /\ CrsOK' /\ PendingReported'  BY CtlOnly
<1>2. CtlOK /\ Absent /\ crs \subseteq CRs  BY PartsOfInv DEF CrsOK, Distinct
<1>3. crSeen' \subseteq Ids(CRs)  BY <1>2 DEF Ids
<1>4. Absent'  BY <1>2 DEF Absent, SpecOf
<1>5. CtlOK'  BY <1>2, <1>3 DEF CtlOK, Ids
<1>6. CtlOK' /\ Absent' /\ OpOK' /\ CrsOK' /\ PendingReported'  BY <1>1, <1>4, <1>5
<1> QED  BY <1>6, PartsOfInv, PTL

LEMMA ReconcileInv ==
  ASSUME IInv, NEW p \in Pods, Reconcile(p)
  PROVE  IInv'
<1> USE DEF Reconcile, apiVars
<1>1. OpOK' /\ CrsOK' /\ PendingReported'  BY CtlOnly
<1>2. queue' \subseteq Pods  BY PartsOfInv DEF CtlOK
<1>3. left' \in 0 .. Inputs[in].budget  BY FaultLeft
<1>4. work' \in [Pods -> Calls] /\ \A q \in Pods : work'[q].pc = "create" => SpecOf(q) # Nil
  <2>1. CASE podSeen[p] = "terminal" /\ Goes(p, [pc |-> "delete", id |-> 0])
    BY <2>1, CallsAre, GoesIs
  <2>2. CASE podSeen[p] = "running" /\ Goes(p, [pc |-> "create", id |-> 0])
    <3>1. SpecOf(p) # Nil  BY <2>2, PartsOfInv DEF Absent
    <3> QED  BY <2>2, <3>1, CallsAre, GoesIs
  <2>3. CASE UNCHANGED work  BY <2>3, WorkStays
  <2> QED  BY <2>1, <2>2, <2>3
<1>5. CtlOK' /\ Absent'  BY <1>2, <1>3, <1>4, CtlStep
<1>6. CtlOK' /\ Absent' /\ OpOK' /\ CrsOK' /\ PendingReported'  BY <1>1, <1>5
<1> QED  BY <1>6, PartsOfInv, PTL

LEMMA RestartInv == ASSUME IInv, Restart PROVE IInv'
<1> USE DEF Restart, apiVars
<1>1. OpOK' /\ CrsOK' /\ PendingReported'  BY CtlOnly
<1>2. CtlOK /\ Absent /\ crs \subseteq CRs  BY PartsOfInv DEF CrsOK, Distinct
<1>3. left' \in 0 .. Inputs[in].budget  BY FaultLeft
<1>4. crSeen' \subseteq Ids(CRs)  BY <1>2 DEF Ids
<1>5. work' \in [Pods -> Calls] /\ \A p \in Pods : work'[p].pc = "idle"  BY CallsAre
<1>6. Absent'  BY <1>2, <1>5 DEF Absent, SpecOf
<1>7. CtlOK'  BY <1>2, <1>3, <1>4, <1>5 DEF CtlOK, Ids
<1>8. CtlOK' /\ Absent' /\ OpOK' /\ CrsOK' /\ PendingReported'  BY <1>1, <1>6, <1>7
<1> QED  BY <1>8, PartsOfInv, PTL

\* A write that keeps the requests, but for their phase.
LEMMA WriteInv ==
  ASSUME IInv, Kept, UNCHANGED <<in, pods, nextId, podSeen, crSeen, slot, shard>>,
         pending' \subseteq pending, queue' \subseteq Pods, work' \in [Pods -> Calls],
         \A p \in Pods : work'[p].pc = "create" => SpecOf(p) # Nil,
         left' \in 0 .. Inputs[in].budget
  PROVE  IInv'
<1>1. CrsOK' /\ PendingReported'  BY KeptCrs
<1>2. CtlOK' /\ Absent'  BY CtlStep
<1>3. OpOK'
  <2>1. OpOK  BY PartsOfInv
  <2> QED  BY <2>1, ReportedStays DEF OpOK
<1>4. CtlOK' /\ Absent' /\ OpOK' /\ CrsOK' /\ PendingReported'  BY <1>1, <1>2, <1>3
<1> QED  BY <1>4, PartsOfInv, PTL

LEMMA FailsIs ==
  ASSUME IInv, NEW p \in Pods, Fails(p)
  PROVE  /\ queue' \subseteq Pods /\ work' \in [Pods -> Calls]
         /\ \A q \in Pods : work'[q].pc = "create" => SpecOf(q) # Nil
<1>1. queue' \subseteq Pods  BY PartsOfInv DEF CtlOK, Fails
<1>2. Goes(p, Idle) /\ Idle \in Calls /\ Idle.pc # "create"  BY CallsAre DEF Fails
<1> QED  BY <1>1, <1>2, GoesIs

LEMMA CollectGarbageInv ==
  ASSUME IInv, NEW p \in Pods, CollectGarbage(p)
  PROVE  IInv'
<1> USE DEF CollectGarbage, ctlVars, opVars
<1>1. Kept  BY FewerKept DEF IInv, Typed
<1>2. queue' \subseteq Pods  BY PartsOfInv DEF CtlOK
<1>3. left' \in 0 .. Inputs[in].budget  BY FaultLeft
<1> QED  BY <1>1, <1>2, <1>3, WorkStays, WriteInv

LEMMA DeleteAllOfInv ==
  ASSUME IInv, NEW p \in Pods, DeleteAllOf(p)
  PROVE  IInv'
<1> USE DEF DeleteAllOf, opVars
<1>1. Kept  BY FewerKept DEF IInv, Typed
<1>2. left' \in 0 .. Inputs[in].budget  BY FaultLeft
<1>3. CASE Goes(p, Idle) /\ UNCHANGED queue
  <2>1. queue' \subseteq Pods  BY <1>3, PartsOfInv DEF CtlOK
  <2>2. work' \in [Pods -> Calls] /\ \A q \in Pods : work'[q].pc = "create" => SpecOf(q) # Nil
    BY <1>3, CallsAre, GoesIs
  <2> QED  BY <1>1, <1>2, <2>1, <2>2, WriteInv
<1>4. CASE Fails(p)  BY <1>1, <1>2, <1>4, FailsIs, WriteInv
<1> QED  BY <1>3, <1>4

LEMMA PatchInv ==
  ASSUME IInv, NEW p \in Pods, patchInitialPending(p)
  PROVE  IInv'
<1> USE DEF patchInitialPending, opVars
<1>1. Kept
  <2>1. TypeOK  BY DEF IInv, Typed
  <2>2. CASE StatusPatch(work[p].id, "Pending")  BY <2>1, <2>2, PatchKept DEF Phases
  <2>3. CASE UNCHANGED crs  BY <2>1, <2>3, FewerKept
  <2> QED  BY <2>2, <2>3
<1>2. left' \in 0 .. Inputs[in].budget  BY FaultLeft
<1>3. queue' \subseteq Pods  BY PartsOfInv DEF CtlOK
<1>4. work' \in [Pods -> Calls] /\ \A q \in Pods : work'[q].pc = "create" => SpecOf(q) # Nil
  BY CallsAre, GoesIs
<1> QED  BY <1>1, <1>2, <1>3, <1>4, WriteInv

\* A new request has an id that nobody has, and nobody waits for.
LEMMA NextIdIs ==
  ASSUME IInv, nextId <= MaxCRs, nextId' = nextId + 1
  PROVE  /\ nextId \in 1 .. MaxCRs /\ nextId' \in 1 .. MaxCRs + 1 /\ nextId < nextId'
         /\ nextId \notin pending /\ \A id \in pending : id < nextId'
         /\ \A c \in crs : c.id # nextId /\ c.id < nextId'
<1>1. CtlOK /\ OpOK /\ CrsOK  BY PartsOfInv
<1>2. nextId \in 1 .. MaxCRs /\ nextId' \in 1 .. MaxCRs + 1 /\ nextId < nextId'
  BY <1>1, BoundAssumption DEF CtlOK
<1>3. \A id \in pending : id < nextId' /\ id # nextId
  <2>1. ASSUME NEW id \in pending  PROVE id < nextId' /\ id # nextId
    <3>1. id \in 1 .. MaxCRs /\ id < nextId  BY <1>1 DEF OpOK
    <3> QED  BY <1>2, <3>1
  <2> QED  BY <2>1
<1>4. ASSUME NEW c \in crs  PROVE c.id # nextId /\ c.id < nextId'
  <2>1. c.id < nextId /\ c.id \in 1 .. MaxCRs  BY <1>1 DEF CrsOK, Distinct, CRs
  <2> QED  BY <1>2, <2>1
<1> QED  BY <1>2, <1>3, <1>4

LEMMA CreateInv ==
  ASSUME IInv, NEW p \in Pods, Create(p)
  PROVE  IInv'
<1>0. UNCHANGED <<in, pods, podSeen, crSeen, pending, slot, shard>>  BY DEF Create, opVars
<1>1. CtlOK /\ Absent /\ OpOK /\ CrsOK /\ PendingReported  BY PartsOfInv
<1>2. SpecOf(p) # Nil  BY <1>1 DEF Absent, Create
<1>3. left' \in 0 .. Inputs[in].budget  BY FaultLeft DEF Create
<1>4. CASE UNCHANGED <<crs, nextId>> /\ Fault /\ Fails(p)
  <2>1. Kept  BY <1>4, FewerKept DEF IInv, Typed
  <2> QED  BY <1>0, <1>3, <1>4, <2>1, FailsIs, WriteInv
<1>5. CASE /\ nextId <= MaxCRs
           /\ crs' = crs \cup {[id |-> nextId, pod |-> p, phase |-> ""]}
           /\ nextId' = nextId + 1
           /\ \/ Goes(p, [pc |-> "patch", id |-> nextId]) /\ UNCHANGED <<queue, left>>
              \/ Fault /\ Fails(p)
  <2> DEFINE new == [id |-> nextId, pod |-> p, phase |-> ""]
  <2>1. /\ nextId \in 1 .. MaxCRs /\ nextId' \in 1 .. MaxCRs + 1 /\ nextId < nextId'
        /\ nextId \notin pending /\ \A id \in pending : id < nextId'
        /\ \A c \in crs : c.id # nextId /\ c.id < nextId'
    BY <1>5, NextIdIs
  <2>2. new \in CRs /\ new.id = nextId /\ new.pod = p  BY <2>1 DEF CRs, Phases
  <2>3. crs' = crs \cup {new}  BY <1>5
  <2> HIDE DEF new
  <2>4. Distinct(crs')  BY <1>1, <2>1, <2>2, <2>3 DEF CrsOK, Distinct
  <2>5. \A c \in crs' : c.id < nextId'  BY <2>1, <2>2, <2>3
  <2>6. \A q \in Pods : SpecOf(q)' = SpecOf(q)  BY <1>0 DEF SpecOf
  <2>7. \A q \in Pods : SpecOf(q) = Nil => \A c \in crs' : c.pod # q
    BY <1>1, <1>2, <2>2, <2>3 DEF CrsOK
  <2>8. CrsOK'  BY <2>4, <2>5, <2>6, <2>7 DEF CrsOK, Distinct
  <2>9. PendingReported'
    <3>1. ASSUME NEW c \in crs', c.id \in pending'
          PROVE  NeedAt(c.pod)' # Nil /\ Reported(c.pod)'
      <4>1. c \in crs /\ c.id \in pending  BY <1>0, <2>1, <2>2, <2>3, <3>1
      <4>2. NeedAt(c.pod)' = NeedAt(c.pod) /\ Reported(c.pod)' = Reported(c.pod)
        BY <1>0, ReportedStays
      <4> QED  BY <1>1, <4>1, <4>2 DEF PendingReported
    <3> QED  BY <3>1 DEF PendingReported
  <2>10. OpOK'
    <3>1. SlotOK' = SlotOK  BY <1>0, ReportedStays
    <3> QED  BY <1>0, <1>1, <2>1, <3>1 DEF OpOK
  <2>11. /\ queue' \subseteq Pods /\ work' \in [Pods -> Calls]
         /\ \A q \in Pods : work'[q].pc = "create" => SpecOf(q) # Nil
    <3>1. CASE Goes(p, [pc |-> "patch", id |-> nextId]) /\ UNCHANGED queue
      <4>1. [pc |-> "patch", id |-> nextId] \in Calls  BY <2>1, CallsAre
      <4>2. queue' \subseteq Pods  BY <1>1, <3>1 DEF CtlOK
      <4> QED  BY <3>1, <4>1, <4>2, GoesIs
    <3>2. CASE Fails(p)  BY <3>2, FailsIs
    <3> QED  BY <1>5, <3>1, <3>2
  <2>12. Absent'  BY <1>0, <1>1, <2>6, <2>11 DEF Absent
  <2>13. CtlOK'  BY <1>0, <1>1, <1>3, <2>1, <2>11 DEF CtlOK, Ids
  <2>14. CtlOK' /\ Absent' /\ OpOK' /\ CrsOK' /\ PendingReported'
    BY <2>8, <2>9, <2>10, <2>12, <2>13
  <2> QED  BY <2>14, PartsOfInv, PTL
<1> QED  BY <1>4, <1>5 DEF Create

\* What leaves the controller and the requests alone.
LEMMA OperatorOnly ==
  ASSUME IInv, UNCHANGED <<apiVars, ctlVars>>, left' \in 0 .. Inputs[in].budget
  PROVE  CtlOK' /\ Absent' /\ CrsOK'
<1> USE DEF apiVars, ctlVars
<1>1. CtlOK /\ Absent /\ CrsOK  BY PartsOfInv
<1>2. \A p : SpecOf(p)' = SpecOf(p)  BY DEF SpecOf
<1>3. CrsOK'  BY <1>1, <1>2 DEF CrsOK, Distinct
<1>4. Absent'  BY <1>1, <1>2 DEF Absent
<1>5. CtlOK'  BY <1>1 DEF CtlOK, Ids
<1> QED  BY <1>3, <1>4, <1>5

\* Everything that a roll-up acknowledges has its row in it.
LEMMA RunRollupInv == ASSUME IInv, runRollup PROVE IInv'
<1> USE DEF runRollup
<1>1. CtlOK' /\ Absent' /\ CrsOK'  BY FaultLeft, OperatorOnly
<1>2. CtlOK /\ CrsOK  BY PartsOfInv
<1>3. in \in DOMAIN Inputs /\ Distinct(crs)  BY <1>2 DEF CtlOK, CrsOK
<1> DEFINE wire == buildRollup(crs)
<1>4. /\ \A k \in DOMAIN wire : BucketsInRange(wire[k]) /\ OperatorsKnown(wire[k])
      /\ \A c \in Good(crs) : \E k \in DOMAIN wire :
           LET r == NeedsFromRollup(wire[k])
           IN /\ NeedAt(c.pod).profile = r.profile /\ NeedAt(c.pod).group = r.group
              /\ Covers(r.agg, NeedAt(c.pod).agg)
  BY <1>3, RollupIs
<1>5. slot' = [rows |-> wire]  OBVIOUS
<1> HIDE DEF wire
<1>6. slot'.rows = wire /\ slot' # NoRollup
  <2>1. slot'.rows = wire  BY <1>5
  <2>2. DOMAIN slot' = {"rows"} /\ DOMAIN NoRollup = {"none"}  BY <1>5 DEF NoRollup
  <2>3. "rows" # "none"  OBVIOUS
  <2> QED  BY <2>1, <2>2, <2>3
<1>7. ASSUME NEW id \in pending'
      PROVE  \E c \in Good(crs) : c.id = id
  BY DEF PendingOf
<1>8. ASSUME NEW c \in Good(crs)  PROVE c \in crs /\ NeedAt(c.pod) # Nil
  BY DEF Good, Need, NeedAt
<1>9. OpOK'
  <2>1. SlotOK'  BY <1>4, <1>6 DEF SlotOK, NoRollup
  <2>2. \A id \in pending' : id \in 1 .. MaxCRs /\ id < nextId
    BY <1>2, <1>7, <1>8 DEF CrsOK, Distinct, CRs
  <2> QED  BY <2>1, <2>2 DEF OpOK, apiVars
<1>10. PendingReported'
  <2>1. ASSUME NEW c \in crs, c.id \in pending'
        PROVE  NeedAt(c.pod)' # Nil /\ Reported(c.pod)'
    <3>1. PICK e \in Good(crs) : e.id = c.id  BY <1>7, <2>1
    <3>2. c = e  BY <1>2, <1>8, <3>1 DEF CrsOK, Distinct
    <3>3. NeedAt(c.pod)' = NeedAt(c.pod)  BY DEF NeedAt, RawNeeds, Requests, apiVars
    <3>4. NeedAt(c.pod)' # Nil  BY <1>8, <3>2, <3>3
    <3>5. PICK k \in DOMAIN wire :
            LET r == NeedsFromRollup(wire[k])
            IN /\ NeedAt(c.pod).profile = r.profile /\ NeedAt(c.pod).group = r.group
               /\ Covers(r.agg, NeedAt(c.pod).agg)
      BY <1>4, <3>2
    <3> DEFINE r == NeedsFromRollup(wire[k])
    <3>6. r \in OnItsWay'  BY <1>6 DEF OnItsWay, NoRollup
    <3> HIDE DEF r
    <3>7. Reported(c.pod)'
      <4>1. /\ NeedAt(c.pod)'.profile = r.profile /\ NeedAt(c.pod)'.group = r.group
            /\ Covers(r.agg, NeedAt(c.pod)'.agg)
        BY <3>3, <3>5 DEF r
      <4> QED  BY <3>6, <4>1 DEF Reported
    <3> QED  BY <3>4, <3>7
  <2> QED  BY <2>1 DEF PendingReported, apiVars
<1>11. CtlOK' /\ Absent' /\ OpOK' /\ CrsOK' /\ PendingReported'  BY <1>1, <1>9, <1>10
<1> QED  BY <1>11, PartsOfInv, PTL

LEMMA MarkInv ==
  ASSUME IInv, NEW id \in 1 .. MaxCRs, markAcknowledged(id)
  PROVE  IInv'
<1> USE DEF markAcknowledged, ctlVars
<1>1. Kept
  <2>1. TypeOK  BY DEF IInv, Typed
  <2>2. CASE StatusPatch(id, "Acknowledged")  BY <2>1, <2>2, PatchKept DEF Phases
  <2>3. CASE UNCHANGED crs  BY <2>1, <2>3, FewerKept
  <2> QED  BY <2>2, <2>3
<1>2. left' \in 0 .. Inputs[in].budget  BY FaultLeft
<1>3. queue' \subseteq Pods  BY PartsOfInv DEF CtlOK
<1>4. pending' \subseteq pending  OBVIOUS
<1> QED  BY <1>1, <1>2, <1>3, <1>4, WorkStays, WriteInv

\* The demand on its way arrives whole.
LEMMA DeliverInv == ASSUME IInv, Deliver PROVE IInv'
<1> USE DEF Deliver
<1>1. CtlOK' /\ Absent' /\ CrsOK'  BY FaultLeft, OperatorOnly
<1>2. OpOK /\ PendingReported  BY PartsOfInv
<1>3. shard' = {NeedsFromRollup(slot.rows[k]) : k \in DOMAIN slot.rows}
  BY <1>2 DEF OpOK, SlotOK
<1>4. OnItsWay' = OnItsWay
  <2>1. OnItsWay = {NeedsFromRollup(slot.rows[k]) : k \in DOMAIN slot.rows}  BY DEF OnItsWay
  <2>2. OnItsWay' = shard'  BY DEF OnItsWay, NoRollup
  <2> QED  BY <1>3, <2>1, <2>2
<1>5. SlotOK'  BY DEF SlotOK, NoRollup
<1>6. OpOK'  BY <1>2, <1>5 DEF OpOK, apiVars
<1>7. PendingReported'
  <2>1. \A p : NeedAt(p)' = NeedAt(p)  BY DEF NeedAt, RawNeeds, Requests, apiVars
  <2>2. \A p : Reported(p)' = Reported(p)  BY <1>4, <2>1 DEF Reported
  <2> QED  BY <1>2, <2>1, <2>2 DEF PendingReported, apiVars
<1>8. CtlOK' /\ Absent' /\ OpOK' /\ CrsOK' /\ PendingReported'  BY <1>1, <1>6, <1>7
<1> QED  BY <1>8, PartsOfInv, PTL

LEMMA SessionBreaksInv == ASSUME IInv, SessionBreaks PROVE IInv'
<1> USE DEF SessionBreaks
<1>1. CtlOK' /\ Absent' /\ CrsOK'  BY FaultLeft, OperatorOnly
<1>2. OpOK'  BY DEF OpOK, SlotOK, NoRollup
<1>3. PendingReported'  BY DEF PendingReported
<1>4. CtlOK' /\ Absent' /\ OpOK' /\ CrsOK' /\ PendingReported'  BY <1>1, <1>2, <1>3
<1> QED  BY <1>4, PartsOfInv, PTL

-----------------------------------------------------------------------------
(* The theorems.                                                           *)

LEMMA NextIs == IInv /\ [Next]_vars => IInv'
<1> SUFFICES ASSUME IInv, [Next]_vars  PROVE IInv'
  OBVIOUS
<1>1. CASE \E p \in Pods : \/ \E phase \in {"terminal", "gone"} : PodStep(p, phase)
                           \/ CollectGarbage(p) \/ PodEvent(p) \/ PodTouched(p)
  BY <1>1, PodStepInv, CollectGarbageInv, PodEventInv, PodTouchedInv
<1>2. CASE \E p \in Pods : \/ Reconcile(p) \/ DeleteAllOf(p) \/ Create(p)
                           \/ patchInitialPending(p)
  BY <1>2, ReconcileInv, DeleteAllOfInv, CreateInv, PatchInv
<1>3. CASE CRInformer \/ Restart  BY <1>3, CRInformerInv, RestartInv
<1>4. CASE runRollup \/ Deliver \/ SessionBreaks
  BY <1>4, RunRollupInv, DeliverInv, SessionBreaksInv
<1>5. CASE \E id \in 1 .. MaxCRs : markAcknowledged(id)  BY <1>5, MarkInv
<1>6. CASE UNCHANGED vars
  <2> USE <1>6 DEF vars, apiVars, ctlVars, opVars
  <2>1. OpOK' /\ CrsOK' /\ PendingReported'  BY CtlOnly
  <2>2. CtlOK' /\ Absent'  BY FaultLeft, OperatorOnly
  <2>3. CtlOK' /\ Absent' /\ OpOK' /\ CrsOK' /\ PendingReported'  BY <2>1, <2>2
  <2> QED  BY <2>3, PartsOfInv, PTL
<1> QED  BY <1>1, <1>2, <1>3, <1>4, <1>5, <1>6 DEF Next

\* The pipeline's state keeps its shape, and no two CapacityRequests share a name.
THEOREM DemandTypeCorrect == Spec => []TypeOK
<1>1. IInv => TypeOK  BY DEF IInv, Typed
<1> QED  BY <1>1, InitIs, NextIs, PTL DEF Spec

\* A CapacityRequest asks for what its Pod needs at its peak (resourcesFromPod:
\* init containers before, sidecars beside the main ones) in every dimension, and
\* BucketForDollars puts its penalties into the tightest bucket, whatever the Pod.
THEOREM RequestsArePeak == Spec => []RequestIsPeak
<1>1. IInv => RequestIsPeak
  <2> SUFFICES ASSUME IInv, NEW c \in crs
               PROVE  /\ \A d \in Dims :
                           Qty(CR(c).resources, d) = PeakOf(Inputs[in].specs[c.pod], d)
                      /\ c \in Good(crs) =>
                           /\ Need(c).profile.interruption = BucketOf(CR(c).interruption)
                           /\ Need(c).profile.reclamation = BucketOf(CR(c).reclamation)
    BY DEF RequestIsPeak
  <2>1. CtlOK /\ CrsOK  BY PartsOfInv
  <2>2. in \in DOMAIN Inputs /\ c.pod \in Pods  BY <2>1 DEF CtlOK, CrsOK, Distinct, CRs
  <2>3. SpecOf(c.pod) # Nil  BY <2>1, <2>2 DEF CrsOK
  <2>4. CR(c) = Requests[in][c.pod] /\ Need(c) = NeedAt(c.pod)  BY DEF CR, Need, NeedAt
  <2>5. \A d \in Dims : Qty(CR(c).resources, d) = PeakOf(Inputs[in].specs[c.pod], d)
    BY <2>2, <2>3, <2>4, RequestAt DEF SpecOf
  <2>6. ASSUME c \in Good(crs)
        PROVE  /\ Need(c).profile.interruption = BucketOf(CR(c).interruption)
               /\ Need(c).profile.reclamation = BucketOf(CR(c).reclamation)
    <3>1. NeedAt(c.pod) # Nil  BY <2>4, <2>6 DEF Good
    <3> QED  BY <2>2, <2>4, <3>1, NeedAtIs
  <2> QED  BY <2>5, <2>6
<1> QED  BY <1>1, InitIs, NextIs, PTL DEF Spec

\* Whatever is acknowledged (acknowledgeAll) has its row, with at least its
\* resources, in the roll-up on its way to the shard or in the one that arrived
\* last: Aggregate, the wire form and the shard's decoding lose no request.
THEOREM AcksAreReported == Spec => AcknowledgedWhenReported
<1> DEFINE Ack(c) == [c EXCEPT !.phase = "Acknowledged"]
           Rows == IF slot = NoRollup THEN shard
                   ELSE {NeedsFromRollup(slot.rows[k]) : k \in DOMAIN slot.rows}
           Shown(c) == \E r \in Rows : c \in RowOf(r) /\ Covers(r.agg, Need(c).agg)
           A == \A c \in crs : c.phase # "Acknowledged" /\ Ack(c) \in crs' => Shown(c)
<1>1. ASSUME IInv, NEW c \in crs, c.id \in pending  PROVE Shown(c)
  <2>1. NeedAt(c.pod) # Nil /\ Reported(c.pod)  BY <1>1 DEF IInv, PendingReported
  <2>2. Need(c) = NeedAt(c.pod) /\ Rows = OnItsWay  BY DEF Need, NeedAt, OnItsWay
  <2>3. c \in Good(crs)  BY <2>1, <2>2 DEF Good
  <2> QED  BY <2>1, <2>2, <2>3 DEF Reported, RowOf
<1> HIDE DEF Shown
<1>2. ASSUME IInv, NEW c \in crs
      PROVE  /\ Ack(c).id = c.id /\ Ack(c).phase = "Acknowledged"
             /\ \A e \in crs : e.id = c.id => e = c
             /\ c.id \in 1 .. MaxCRs /\ c.id < nextId
  <2>1. CrsOK  BY <1>2, PartsOfInv
  <2> QED  BY <2>1 DEF CrsOK, Distinct, CRs
<1>3. ASSUME IInv, NEW c \in crs, c.phase # "Acknowledged", Ack(c) \in crs', crs' \subseteq crs
      PROVE  FALSE
  BY <1>2, <1>3
<1>4. ASSUME IInv, NEW c \in crs, c.phase # "Acknowledged", Ack(c) \in crs',
             NEW id, NEW phase, StatusPatch(id, phase)
      PROVE  c.id = id /\ phase = "Acknowledged"
  <2>1. PICK e \in crs : Ack(c) = IF e.id = id THEN [e EXCEPT !.phase = phase] ELSE e
    BY <1>4 DEF StatusPatch
  <2>2. e \in CRs  BY <1>4, PartsOfInv DEF CrsOK, Distinct
  <2>3. [e EXCEPT !.phase = phase].id = e.id /\ [e EXCEPT !.phase = phase].phase = phase
    BY <2>2 DEF CRs
  <2>4. Ack(c).id = e.id  BY <2>1, <2>3
  <2>5. e = c  BY <1>2, <1>4, <2>4
  <2>6. e.id = id  BY <1>2, <1>4, <2>1, <2>5
  <2>7. Ack(c).phase = phase  BY <2>1, <2>3, <2>6
  <2> QED  BY <1>2, <1>4, <2>5, <2>6, <2>7
<1>5. IInv /\ [Next]_vars => [A]_crs
  <2> SUFFICES ASSUME IInv, [Next]_vars, NEW c \in crs, c.phase # "Acknowledged", Ack(c) \in crs'
               PROVE  Shown(c)
    OBVIOUS
  <2>1. CASE crs' \subseteq crs  BY <1>3, <2>1
  <2>2. CASE \E p \in Pods : Create(p)
    <3>1. PICK p \in Pods : crs' \subseteq crs \cup {[id |-> nextId, pod |-> p, phase |-> ""]}
      BY <2>2 DEF Create
    <3>2. Ack(c).phase # ""  BY <1>2
    <3>3. Ack(c) \in crs  BY <3>1, <3>2
    <3> QED  BY <1>2, <3>3
  <2>3. CASE \E p \in Pods : patchInitialPending(p)
    <3>1. CASE UNCHANGED crs  BY <2>1, <3>1
    <3>2. CASE \E p \in Pods : StatusPatch(work[p].id, "Pending")  BY <1>4, <3>2
    <3> QED  BY <2>3, <3>1, <3>2 DEF patchInitialPending
  <2>4. CASE \E id \in 1 .. MaxCRs : markAcknowledged(id)
    <3>1. PICK id \in pending : StatusPatch(id, "Acknowledged") \/ UNCHANGED crs
      BY <2>4 DEF markAcknowledged
    <3>2. CASE UNCHANGED crs  BY <2>1, <3>2
    <3>3. CASE StatusPatch(id, "Acknowledged")
      <4>1. c.id = id  BY <1>4, <3>3
      <4> QED  BY <1>1, <3>1, <4>1
    <3> QED  BY <3>1, <3>2, <3>3
  <2>5. CASE \E p \in Pods : \/ \E phase \in {"terminal", "gone"} : PodStep(p, phase)
                             \/ CollectGarbage(p) \/ PodEvent(p) \/ PodTouched(p)
                             \/ Reconcile(p) \/ DeleteAllOf(p)
    <3>1. crs' \subseteq crs
      BY <2>5 DEF PodStep, CollectGarbage, PodEvent, PodTouched, Reconcile, DeleteAllOf, apiVars
    <3> QED  BY <2>1, <3>1
  <2>6. CASE CRInformer \/ Restart \/ runRollup \/ Deliver \/ SessionBreaks \/ UNCHANGED vars
    <3>1. crs' = crs
      BY <2>6 DEF CRInformer, Restart, runRollup, Deliver, SessionBreaks, vars, apiVars
    <3> QED  BY <2>1, <3>1
  <2> QED  BY <2>2, <2>3, <2>4, <2>5, <2>6 DEF Next
<1>6. IInv /\ [Next]_vars => [\A c \in crs :
         c.phase # "Acknowledged" /\ [c EXCEPT !.phase = "Acknowledged"] \in crs'
           => LET rows == IF slot = NoRollup THEN shard
                          ELSE {NeedsFromRollup(slot.rows[k]) : k \in DOMAIN slot.rows}
              IN \E r \in rows : c \in RowOf(r) /\ Covers(r.agg, Need(c).agg)]_crs
  BY <1>5 DEF Shown
<1> QED  BY <1>6, InitIs, NextIs, PTL DEF Spec, AcknowledgedWhenReported

=============================================================================
