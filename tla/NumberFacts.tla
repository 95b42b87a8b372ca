------------------------------ MODULE NumberFacts ------------------------------
(***************************************************************************)
(* What the proofs of several components need of numbers and finite sets,  *)
(* and the library does not state: least and greatest elements, and sums.  *)
(***************************************************************************)
EXTENDS Integers, FiniteSetsExt, FiniteSetTheorems, WellFoundedInduction, TLAPS

(* A set of numbers has a least element.                                      *)
LEMMA NatHasMin ==
  ASSUME NEW T, T \subseteq Nat, T # {}
  PROVE  \E x \in T : \A y \in T : x <= y
<1> DEFINE R == OpToRel(<, Nat)
<1>1. IsWellFoundedOn(R, Nat)
  BY NatLessThanWellFounded
<1>2. \A x, y \in Nat : x < y => <<x, y>> \in R
  BY DEF OpToRel
<1> HIDE DEF R
<1>3. PICK x \in T : \A y \in T : ~ (<<y, x>> \in R)
  <2>1. IsWellFoundedOn(R, T)
    BY <1>1, IsWellFoundedOnSubset
  <2> QED
    BY <2>1, WFMin
<1>4. \A y \in T : ~ (y < x)
  BY <1>2, <1>3
<1>5. \A y \in T : x <= y
  BY <1>4
<1> QED
  BY <1>5

(* A bounded one has a greatest element.                                      *)
LEMMA BoundedHasMax ==
  ASSUME NEW T, T \subseteq Nat, T # {}, NEW n \in Nat, \A x \in T : x <= n
  PROVE  \E x \in T : \A y \in T : y <= x
<1> DEFINE U == {n - x : x \in T}
<1>1. U \subseteq Nat /\ U # {}
  <2>1. U \subseteq Nat
    OBVIOUS
  <2>2. PICK x \in T : TRUE
    OBVIOUS
  <2>3. n - x \in U
    BY <2>2
  <2> QED
    BY <2>1, <2>3
<1>2. PICK u \in U : \A v \in U : u <= v
  <2> HIDE DEF U
  <2> QED
    BY <1>1, NatHasMin
<1>3. PICK x \in T : u = n - x
  OBVIOUS
<1>4. \A y \in T : n - x <= n - y
  BY <1>2, <1>3
<1>5. \A y \in T : y <= x
  BY <1>4
<1> QED
  BY <1>5

LEMMA MaxBounds ==
  ASSUME NEW T, T \subseteq Nat, T # {}, NEW n \in Nat, \A x \in T : x <= n
  PROVE  Max(T) \in T /\ \A x \in T : x <= Max(T)
<1>1. PICK m \in T : \A x \in T : x <= m
  BY BoundedHasMax
<1>2. \E y \in T : \A x \in T : y >= x
  BY <1>1
<1>3. Max(T) \in T /\ \A x \in T : Max(T) >= x
  BY <1>2 DEF Max
<1> QED
  BY <1>3

LEMMA DivisionMonotone ==
  ASSUME NEW n \in Nat \ {0}, NEW a \in Nat, NEW b \in Nat, a <= b
  PROVE  a \div n \in Nat /\ b \div n \in Nat /\ a \div n <= b \div n
<1>1. a \div n \in Nat /\ b \div n \in Nat
  OBVIOUS
<1>2. a \div n <= b \div n
  OBVIOUS
<1> QED
  BY <1>1, <1>2

(* Induction over the subsets of a finite set: Good contains all of them if   *)
(* it contains each one whose proper subsets it contains.                     *)
LEMMA SubsetInduction ==
  ASSUME NEW S, IsFiniteSet(S), NEW Good,
         \A T \in SUBSET S : (\A U \in SUBSET T : U # T => U \in Good) => T \in Good
  PROVE  \A T \in SUBSET S : T \in Good
<1> SUFFICES ASSUME NEW T0 \in SUBSET S, T0 \notin Good
             PROVE  FALSE
  OBVIOUS
<1> DEFINE Bad == {T \in SUBSET S : T \notin Good}
           N   == {Cardinality(T) : T \in Bad}
<1>1. \A T \in SUBSET S : IsFiniteSet(T) /\ Cardinality(T) \in Nat
  BY FS_Subset, FS_CardinalityType
<1>2. N \subseteq Nat /\ N # {}
  BY <1>1
<1>3. PICK n \in N : \A m \in N : n <= m
  <2> HIDE DEF N
  <2> QED
    BY <1>2, NatHasMin
<1>4. PICK T \in Bad : Cardinality(T) = n
  BY <1>3
<1>5. ASSUME NEW U \in SUBSET T, U # T PROVE U \in Good
  <2>1. U \in SUBSET S
    BY <1>4
  <2>2. IsFiniteSet(T) /\ Cardinality(U) \in Nat /\ Cardinality(T) \in Nat
    BY <1>1, <1>4, <2>1
  <2>3. Cardinality(U) < Cardinality(T)
    <3>1. Cardinality(U) <= Cardinality(T) /\ Cardinality(U) # Cardinality(T)
      BY <1>5, <2>2, FS_Subset
    <3> QED
      BY <2>2, <3>1
  <2>4. ASSUME U \in Bad PROVE FALSE
    <3>1. Cardinality(U) \in N
      BY <2>4
    <3>2. n <= Cardinality(U)
      BY <1>3, <3>1
    <3> QED
      BY <1>4, <2>2, <2>3, <3>2
  <2> QED
    BY <2>1, <2>4
<1> QED
  BY <1>4, <1>5
(* A finite set of integers has a least and a greatest element.               *)
LEMMA IntExtremes ==
  ASSUME NEW S, IsFiniteSet(S), S \subseteq Int, S # {}
  PROVE  /\ \E x \in S : \A y \in S : x <= y
         /\ \E x \in S : \A y \in S : y <= x
<1> DEFINE Ends(T) == /\ \E x \in T : \A y \in T : x <= y
                      /\ \E x \in T : \A y \in T : y <= x
           Good == {T \in SUBSET S : T # {} => Ends(T)}
<1>1. ASSUME NEW T \in SUBSET S, \A U \in SUBSET T : U # T => U \in Good, T # {}
      PROVE  Ends(T)
  <2>1. PICK e \in T : TRUE
    BY <1>1
  <2>2. CASE T = {e}
    BY <2>1, <2>2
  <2>3. CASE T # {e}
    <3>0. PICK d \in T : d # e
      BY <2>1, <2>3
    <3>1. T \ {e} # {} /\ T \ {e} \in Good
      <4>1. T \ {e} # {} /\ T \ {e} # T /\ T \ {e} \in SUBSET T
        BY <2>1, <3>0
      <4> HIDE DEF Good
      <4> QED
        BY <1>1, <4>1
    <3>2. PICK x \in T \ {e} : \A y \in T \ {e} : x <= y
      BY <3>1
    <3>3. PICK z \in T \ {e} : \A y \in T \ {e} : y <= z
      BY <3>1
    <3>4. e \in Int /\ x \in Int /\ z \in Int /\ T \subseteq Int
      OBVIOUS
    <3> HIDE DEF Good
    <3>5. \E a \in T : \A y \in T : a <= y
      <4>1. CASE e <= x
        <5>1. \A y \in T : e <= y
          BY <3>2, <3>4, <4>1
        <5> QED
          BY <5>1
      <4>2. CASE x <= e
        <5>1. \A y \in T : x <= y
          BY <3>2, <3>4, <4>2
        <5> QED
          BY <5>1
      <4> QED
        BY <3>4, <4>1, <4>2
    <3>6. \E a \in T : \A y \in T : y <= a
      <4>1. CASE z <= e
        <5>1. \A y \in T : y <= e
          BY <3>3, <3>4, <4>1
        <5> QED
          BY <5>1
      <4>2. CASE e <= z
        <5>1. \A y \in T : y <= z
          BY <3>3, <3>4, <4>2
        <5> QED
          BY <5>1
      <4> QED
        BY <3>4, <4>1, <4>2
    <3> QED
      BY <3>5, <3>6
  <2> QED
    BY <2>2, <2>3
<1>2. \A T \in SUBSET S : (\A U \in SUBSET T : U # T => U \in Good) => T \in Good
  BY <1>1
<1>3. S \in Good
  <2> HIDE DEF Good
  <2> QED
    BY <1>2, SubsetInduction
<1> QED
  BY <1>3

(* A finite family of integers has a least member, and a greatest one.        *)
LEMMA LeastPlace ==
  ASSUME NEW S, IsFiniteSet(S), S # {}, NEW w, \A x \in S : w[x] \in Int
  PROVE  \E x \in S : \A y \in S : w[x] <= w[y]
<1> DEFINE Has(T) == \E x \in T : \A y \in T : w[x] <= w[y]
           Good == {T \in SUBSET S : T # {} => Has(T)}
<1>1. ASSUME NEW T \in SUBSET S, \A U \in SUBSET T : U # T => U \in Good, T # {}
      PROVE  Has(T)
  <2>1. PICK z \in T : TRUE
    BY <1>1
  <2>2. CASE T \ {z} = {}
    <3>1. \A y \in T : y = z
      BY <2>2
    <3>2. w[z] \in Int
      OBVIOUS
    <3> QED
      BY <3>1, <3>2
  <2>3. CASE T \ {z} # {}
    <3>1. T \ {z} \in Good
      BY <1>1
    <3>2. PICK x \in T \ {z} : \A y \in T \ {z} : w[x] <= w[y]
      BY <2>3, <3>1
    <3>3. \A y \in T : w[y] \in Int
      OBVIOUS
    <3> HIDE DEF Good
    <3>4. CASE w[x] <= w[z]
      BY <3>2, <3>4
    <3>5. CASE ~(w[x] <= w[z])
      <4>1. \A y \in T : w[z] <= w[y]
        BY <3>2, <3>3, <3>5
      <4> QED
        BY <4>1
    <3> QED
      BY <3>4, <3>5
  <2> QED
    BY <2>2, <2>3
<1>2. \A T \in SUBSET S : (\A U \in SUBSET T : U # T => U \in Good) => T \in Good
  <2> SUFFICES ASSUME NEW T \in SUBSET S, \A U \in SUBSET T : U # T => U \in Good
               PROVE  T \in Good
    OBVIOUS
  <2>1. T # {} => Has(T)
    BY <1>1
  <2> HIDE DEF Has
  <2> QED
    BY <2>1
<1>3. S \in Good
  <2> HIDE DEF Good
  <2> QED
    BY <1>2, SubsetInduction
<1> QED
  BY <1>3

LEMMA GreatestPlace ==
  ASSUME NEW S, IsFiniteSet(S), S # {}, NEW w, \A x \in S : w[x] \in Int
  PROVE  \E x \in S : \A y \in S : w[y] <= w[x]
<1> DEFINE m == [x \in S |-> -w[x]]
<1>1. \A x \in S : m[x] \in Int
  OBVIOUS
<1>2. PICK x \in S : \A y \in S : m[x] <= m[y]
  <2> HIDE DEF m
  <2> QED
    BY <1>1, LeastPlace
<1>3. \A y \in S : w[y] <= w[x]
  BY <1>2
<1> QED
  BY <1>3

----------------------------------------------------------------------------
(* Sums.  A sum over S adds up w one element at a time.  It is known by the   *)
(* equation that such functions f, the sums over all subsets, satisfy.        *)
Picked(s) == CHOOSE x \in s : TRUE

Sums(f, w, S) ==
  f = [s \in SUBSET S |-> IF s = {} THEN 0 ELSE w[Picked(s)] + f[s \ {Picked(s)}]]

TotalOf(w, S) == MapThenSumSet(LAMBDA x : w[x], S)

(* What a smaller set and a larger one have in common has the same sums.      *)
LEMMA SumsAgree ==
  ASSUME NEW S, IsFiniteSet(S), NEW T \in SUBSET S, NEW w, NEW f, NEW g,
         Sums(f, w, S), Sums(g, w, T)
  PROVE  \A s \in SUBSET T : f[s] = g[s]
<1> DEFINE Good == {s \in SUBSET T : f[s] = g[s]}
<1>1. IsFiniteSet(T)
  BY FS_Subset
<1>2. ASSUME NEW s \in SUBSET T, \A u \in SUBSET s : u # s => u \in Good
      PROVE  f[s] = g[s]
  <2>1. CASE s = {}
    BY <2>1 DEF Sums
  <2>2. CASE s # {}
    <3> DEFINE r == s \ {Picked(s)}
    <3>1. Picked(s) \in s
      BY <2>2 DEF Picked
    <3>2. r \in SUBSET s /\ r # s
      BY <3>1
    <3>3. f[r] = g[r]
      BY <1>2, <3>2
    <3>4. s \in SUBSET S
      OBVIOUS
    <3>5. f[s] = w[Picked(s)] + f[r] /\ g[s] = w[Picked(s)] + g[r]
      BY <2>2, <3>4 DEF Sums
    <3> QED
      BY <3>3, <3>5
  <2> QED
    BY <2>1, <2>2
<1>3. \A s \in SUBSET T : (\A u \in SUBSET s : u # s => u \in Good) => s \in Good
  BY <1>2
<1>4. \A s \in SUBSET T : s \in Good
  <2> HIDE DEF Good
  <2> QED
    BY <1>1, <1>3, SubsetInduction
<1> QED
  BY <1>4

(* There are such sums over every finite set.                                 *)
LEMMA SumsExist ==
  ASSUME NEW S, IsFiniteSet(S), NEW w
  PROVE  \E f : Sums(f, w, S)
<1> DEFINE Good == {T \in SUBSET S : \E f : Sums(f, w, T)}
           SumOf(T) == CHOOSE f : Sums(f, w, T)
<1>1. ASSUME NEW T \in SUBSET S, \A U \in SUBSET T : U # T => U \in Good
      PROVE  \E f : Sums(f, w, T)
  <2> DEFINE rest(s) == s \ {Picked(s)}
             F == [s \in SUBSET T |-> IF s = {} THEN 0
                                      ELSE w[Picked(s)] + SumOf(rest(s))[rest(s)]]
  <2>1. \A U \in SUBSET T : U # T => Sums(SumOf(U), w, U)
    BY <1>1
  <2>2. \A s \in SUBSET T : s # {} => rest(s) \in SUBSET T /\ rest(s) # T /\ rest(s) # s
    BY DEF Picked
  <2> HIDE DEF SumOf
  <2>3. ASSUME NEW U \in SUBSET T, U # T
        PROVE  SumOf(U)[U] = F[U]
    <3>1. CASE U = {}
      <4>1. Sums(SumOf(U), w, U)
        BY <2>1, <2>3
      <4> QED
        BY <3>1, <4>1 DEF Sums
    <3>2. CASE U # {}
      <4>1. Sums(SumOf(U), w, U) /\ Sums(SumOf(rest(U)), w, rest(U))
        BY <2>1, <2>2, <2>3, <3>2
      <4>2. IsFiniteSet(U) /\ rest(U) \in SUBSET U
        <5>1. U \in SUBSET S
          OBVIOUS
        <5> QED
          BY <5>1, FS_Subset
      <4>3. SumOf(U)[rest(U)] = SumOf(rest(U))[rest(U)]
        <5> HIDE DEF F, rest
        <5>1. \A s \in SUBSET rest(U) : SumOf(U)[s] = SumOf(rest(U))[s]
          BY <4>1, <4>2, SumsAgree
        <5> QED
          BY <5>1
      <4>4. SumOf(U)[U] = w[Picked(U)] + SumOf(U)[rest(U)]
        BY <3>2, <4>1 DEF Sums
      <4> QED
        BY <3>2, <4>3, <4>4
    <3> QED
      BY <3>1, <3>2
  <2>4. \A s \in SUBSET T : s # {} => SumOf(rest(s))[rest(s)] = F[rest(s)]
    BY <2>2, <2>3
  <2>5. F = [s \in SUBSET T |-> IF s = {} THEN 0 ELSE w[Picked(s)] + F[rest(s)]]
    BY <2>4
  <2>6. Sums(F, w, T)
    BY <2>5 DEF Sums
  <2> QED
    BY <2>6
<1>2. \A T \in SUBSET S : (\A U \in SUBSET T : U # T => U \in Good) => T \in Good
  BY <1>1
<1>3. S \in Good
  <2> HIDE DEF Good
  <2> QED
    BY <1>2, SubsetInduction
<1> QED
  BY <1>3

(* The sum is theirs.                                                         *)
LEMMA TotalSums ==
  ASSUME NEW S, IsFiniteSet(S), NEW w, NEW f, Sums(f, w, S)
  PROVE  \A T \in SUBSET S : TotalOf(w, T) = f[T]
<1> SUFFICES ASSUME NEW T \in SUBSET S PROVE TotalOf(w, T) = f[T]
  OBVIOUS
<1> DEFINE g == CHOOSE h : Sums(h, w, T)
<1>1. IsFiniteSet(T)
  BY FS_Subset
<1>2. Sums(g, w, T)
  BY <1>1, SumsExist
<1>3. TotalOf(w, T) = g[T]
  BY Zenon DEF Sums, TotalOf, MapThenSumSet, MapThenFoldSet, Picked
<1> HIDE DEF g
<1>4. \A s \in SUBSET T : f[s] = g[s]
  BY <1>2, SumsAgree
<1> QED
  BY <1>3, <1>4

LEMMA TotalEmpty ==
  ASSUME NEW w
  PROVE  TotalOf(w, {}) = 0
<1>1. IsFiniteSet({})
  BY FS_EmptySet
<1>2. PICK f : Sums(f, w, {})
  BY <1>1, SumsExist
<1>3. f[{}] = 0
  BY <1>2 DEF Sums
<1> QED
  BY <1>1, <1>2, <1>3, TotalSums

LEMMA TotalPicked ==
  ASSUME NEW S, IsFiniteSet(S), S # {}, NEW w
  PROVE  TotalOf(w, S) = w[Picked(S)] + TotalOf(w, S \ {Picked(S)})
<1>1. PICK f : Sums(f, w, S)
  BY SumsExist
<1>2. f[S] = w[Picked(S)] + f[S \ {Picked(S)}]
  BY <1>1 DEF Sums
<1>3. TotalOf(w, S) = f[S] /\ TotalOf(w, S \ {Picked(S)}) = f[S \ {Picked(S)}]
  BY <1>1, TotalSums
<1> QED
  BY <1>2, <1>3

LEMMA TotalType ==
  ASSUME NEW S, IsFiniteSet(S), NEW w, \A x \in S : w[x] \in Nat
  PROVE  \A T \in SUBSET S : TotalOf(w, T) \in Nat
<1> DEFINE Good == {T \in SUBSET S : TotalOf(w, T) \in Nat}
<1>1. ASSUME NEW T \in SUBSET S, \A U \in SUBSET T : U # T => U \in Good
      PROVE  TotalOf(w, T) \in Nat
  <2>1. CASE T = {}
    BY <2>1, TotalEmpty
  <2>2. CASE T # {}
    <3>1. Picked(T) \in T
      BY <2>2 DEF Picked
    <3>2. TotalOf(w, T \ {Picked(T)}) \in Nat
      BY <1>1, <3>1
    <3>3. IsFiniteSet(T)
      BY FS_Subset
    <3>4. TotalOf(w, T) = w[Picked(T)] + TotalOf(w, T \ {Picked(T)})
      BY <2>2, <3>3, TotalPicked
    <3> QED
      BY <3>1, <3>2, <3>4
  <2> QED
    BY <2>1, <2>2
<1>2. \A T \in SUBSET S : (\A U \in SUBSET T : U # T => U \in Good) => T \in Good
  BY <1>1
<1>3. \A T \in SUBSET S : T \in Good
  <2> HIDE DEF Good
  <2> QED
    BY <1>2, SubsetInduction
<1> QED
  BY <1>3

(* A sum of integers is one.                                                  *)
LEMMA TotalInt ==
  ASSUME NEW S, IsFiniteSet(S), NEW g, \A x \in S : g[x] \in Int
  PROVE  TotalOf(g, S) \in Int
<1> DEFINE Good == {T \in SUBSET S : TotalOf(g, T) \in Int}
<1>1. ASSUME NEW T \in SUBSET S, \A U \in SUBSET T : U # T => U \in Good
      PROVE  TotalOf(g, T) \in Int
  <2>1. CASE T = {}
    BY <2>1, TotalEmpty
  <2>2. CASE T # {}
    <3>1. Picked(T) \in T /\ T \ {Picked(T)} \in Good
      BY <1>1, <2>2 DEF Picked
    <3>2. TotalOf(g, T) = g[Picked(T)] + TotalOf(g, T \ {Picked(T)})
      BY <2>2, FS_Subset, TotalPicked
    <3> QED
      BY <3>1, <3>2
  <2> QED
    BY <2>1, <2>2
<1>2. \A T \in SUBSET S : (\A U \in SUBSET T : U # T => U \in Good) => T \in Good
  BY <1>1
<1>3. \A T \in SUBSET S : T \in Good
  <2> HIDE DEF Good
  <2> QED
    BY <1>2, SubsetInduction
<1> QED
  BY <1>3

(* Any element may be added last.                                             *)
LEMMA TotalRemove ==
  ASSUME NEW S, IsFiniteSet(S), NEW w, \A x \in S : w[x] \in Int
  PROVE  \A T \in SUBSET S : \A x \in T : TotalOf(w, T) = w[x] + TotalOf(w, T \ {x})
<1> DEFINE Good == {T \in SUBSET S : \A x \in T : TotalOf(w, T) = w[x] + TotalOf(w, T \ {x})}
<1>0. \A T \in SUBSET S : TotalOf(w, T) \in Int /\ IsFiniteSet(T)
  <2>1. ASSUME NEW T \in SUBSET S PROVE IsFiniteSet(T) /\ \A x \in T : w[x] \in Int
    BY FS_Subset
  <2> QED
    BY <2>1, TotalInt
<1>1. ASSUME NEW T \in SUBSET S, \A U \in SUBSET T : U # T => U \in Good, NEW x \in T
      PROVE  TotalOf(w, T) = w[x] + TotalOf(w, T \ {x})
  <2> DEFINE c == Picked(T)
  <2>1. c \in T
    BY DEF Picked
  <2> HIDE DEF c
  <2>2. TotalOf(w, T) = w[c] + TotalOf(w, T \ {c})
    BY <1>0, TotalPicked DEF c
  <2>3. CASE x = c
    BY <2>2, <2>3
  <2>4. CASE x # c
    <3>1. T \ {c} \in Good /\ T \ {x} \in Good
      BY <1>1, <2>1
    <3>2. TotalOf(w, T \ {c}) = w[x] + TotalOf(w, (T \ {c}) \ {x})
      BY <2>4, <3>1
    <3>3. TotalOf(w, T \ {x}) = w[c] + TotalOf(w, (T \ {x}) \ {c})
      BY <2>1, <2>4, <3>1
    <3>4. (T \ {c}) \ {x} = (T \ {x}) \ {c}
      OBVIOUS
    <3>5. PICK r \in Int : r = TotalOf(w, (T \ {x}) \ {c})
      BY <1>0
    <3>6. w[x] \in Int /\ w[c] \in Int
      BY <2>1
    <3>7. TotalOf(w, T) = w[c] + (w[x] + r) /\ TotalOf(w, T \ {x}) = w[c] + r
      BY <2>2, <3>2, <3>3, <3>4, <3>5
    <3>8. w[c] + (w[x] + r) = w[x] + (w[c] + r)
      BY <3>6
    <3> QED
      BY <3>7, <3>8
  <2> QED
    BY <2>3, <2>4
<1>2. \A T \in SUBSET S : (\A U \in SUBSET T : U # T => U \in Good) => T \in Good
  BY <1>1
<1>3. \A T \in SUBSET S : T \in Good
  <2> HIDE DEF Good
  <2> QED
    BY <1>2, SubsetInduction
<1> QED
  BY <1>3

(* A sum over fewer elements is no more.                                      *)
LEMMA TotalSubset ==
  ASSUME NEW S, IsFiniteSet(S), NEW w, \A x \in S : w[x] \in Nat
  PROVE  \A R \in SUBSET S : \A T \in SUBSET R : TotalOf(w, T) <= TotalOf(w, R)
<1> DEFINE Good == {R \in SUBSET S : \A T \in SUBSET R : TotalOf(w, T) <= TotalOf(w, R)}
<1>0. \A T \in SUBSET S : TotalOf(w, T) \in Nat
  BY TotalType
<1>1. ASSUME NEW R \in SUBSET S, \A U \in SUBSET R : U # R => U \in Good, NEW T \in SUBSET R
      PROVE  TotalOf(w, T) <= TotalOf(w, R)
  <2>1. CASE T = R
    BY <1>0, <2>1
  <2>2. CASE T # R
    <3>1. PICK x \in R : x \notin T
      BY <2>2
    <3>2. R \ {x} \in Good /\ T \in SUBSET (R \ {x})
      BY <1>1, <3>1
    <3>3. TotalOf(w, T) <= TotalOf(w, R \ {x})
      BY <3>2
    <3>4. TotalOf(w, R) = w[x] + TotalOf(w, R \ {x})
      BY <3>1, TotalRemove
    <3>5. TotalOf(w, T) \in Nat /\ TotalOf(w, R \ {x}) \in Nat /\ w[x] \in Nat
      BY <1>0, <3>1
    <3> HIDE DEF Good
    <3> QED
      BY <3>3, <3>4, <3>5
  <2> QED
    BY <2>1, <2>2
<1>2. \A T \in SUBSET S : (\A U \in SUBSET T : U # T => U \in Good) => T \in Good
  BY <1>1
<1>3. \A T \in SUBSET S : T \in Good
  <2> HIDE DEF Good
  <2> QED
    BY <1>2, SubsetInduction
<1> QED
  BY <1>3

(* Where g is at most k times w in R, and nothing outside, so are their sums. *)
LEMMA TotalWithin ==
  ASSUME NEW S, IsFiniteSet(S), NEW R \in SUBSET S, NEW k \in Nat, NEW w, NEW g,
         \A x \in S : w[x] \in Nat /\ g[x] \in Nat,
         \A x \in S : IF x \in R THEN g[x] <= k * w[x] ELSE g[x] = 0
  PROVE  \A T \in SUBSET S : TotalOf(g, T) <= k * TotalOf(w, T \cap R)
<1> DEFINE Good == {T \in SUBSET S : TotalOf(g, T) <= k * TotalOf(w, T \cap R)}
<1>0. \A T \in SUBSET S : TotalOf(w, T) \in Nat /\ TotalOf(g, T) \in Nat
  BY TotalType
<1>1. ASSUME NEW T \in SUBSET S, \A U \in SUBSET T : U # T => U \in Good
      PROVE  TotalOf(g, T) <= k * TotalOf(w, T \cap R)
  <2>1. CASE T = {}
    <3>1. T \cap R = {} /\ TotalOf(g, T) = 0 /\ TotalOf(w, {}) = 0
      BY <2>1, TotalEmpty
    <3>2. TotalOf(w, T \cap R) = 0
      BY <3>1
    <3>3. k * 0 = 0
      OBVIOUS
    <3> QED
      BY <3>1, <3>2, <3>3
  <2>2. CASE T # {}
    <3>1. PICK x \in T : TRUE
      BY <2>2
    <3>2. T \ {x} \in Good
      BY <1>1
    <3>3. TotalOf(g, T) = g[x] + TotalOf(g, T \ {x})
      BY TotalRemove
    <3>4. TotalOf(g, T \ {x}) <= k * TotalOf(w, (T \ {x}) \cap R)
      BY <3>2
    <3> HIDE DEF Good
    <3>5. CASE x \in R
      <4>1. TotalOf(w, T \cap R) = w[x] + TotalOf(w, (T \cap R) \ {x})
        <5>1. T \cap R \in SUBSET S /\ x \in T \cap R
          BY <3>5
        <5> QED
          BY <5>1, TotalRemove
      <4>2. (T \cap R) \ {x} = (T \ {x}) \cap R
        OBVIOUS
      <4>3. PICK a \in Nat : a = TotalOf(w, (T \ {x}) \cap R)
        BY <1>0
      <4>4. TotalOf(g, T) <= k * w[x] + k * a
        <5>1. g[x] <= k * w[x] /\ g[x] \in Nat /\ w[x] \in Nat /\ TotalOf(g, T \ {x}) \in Nat
          BY <1>0, <3>5
        <5>2. k * w[x] \in Nat /\ k * a \in Nat
          BY <5>1
        <5> QED
          BY <3>3, <3>4, <4>3, <5>1, <5>2
      <4>5. k * (w[x] + a) = k * w[x] + k * a
        <5>1. w[x] \in Nat
          OBVIOUS
        <5> QED
          BY <5>1
      <4> QED
        BY <4>1, <4>2, <4>3, <4>4, <4>5
    <3>6. CASE x \notin R
      <4>1. (T \ {x}) \cap R = T \cap R /\ g[x] = 0
        BY <3>6
      <4>2. TotalOf(g, T) = TotalOf(g, T \ {x})
        <5>1. TotalOf(g, T \ {x}) \in Nat
          BY <1>0
        <5> QED
          BY <3>3, <4>1, <5>1
      <4>3. TotalOf(g, T \ {x}) <= k * TotalOf(w, T \cap R)
        BY <3>4, <4>1
      <4> QED
        BY <4>2, <4>3
    <3> QED
      BY <3>5, <3>6
  <2> QED
    BY <2>1, <2>2
<1>2. \A T \in SUBSET S : (\A U \in SUBSET T : U # T => U \in Good) => T \in Good
  BY <1>1
<1>3. \A T \in SUBSET S : T \in Good
  <2> HIDE DEF Good
  <2> QED
    BY <1>2, SubsetInduction
<1> QED
  BY <1>3

(* The sum over one element, and over two.                                    *)
LEMMA TotalOne ==
  ASSUME NEW w
  PROVE  \A a : w[a] \in Nat => TotalOf(w, {a}) = w[a]
<1> SUFFICES ASSUME NEW a, w[a] \in Nat PROVE TotalOf(w, {a}) = w[a]
  OBVIOUS
<1>1. IsFiniteSet({a}) /\ \A x \in {a} : w[x] \in Nat
  BY FS_Singleton
<1>2. TotalOf(w, {a}) = w[a] + TotalOf(w, {a} \ {a})
  BY <1>1, TotalRemove
<1>3. TotalOf(w, {a} \ {a}) = 0
  <2>1. {a} \ {a} = {}
    OBVIOUS
  <2> QED
    BY <2>1, TotalEmpty
<1> QED
  BY <1>2, <1>3

LEMMA TotalTwo ==
  ASSUME NEW w
  PROVE  \A a, b : a # b /\ w[a] \in Nat /\ w[b] \in Nat => TotalOf(w, {a, b}) = w[a] + w[b]
<1> SUFFICES ASSUME NEW a, NEW b, a # b, w[a] \in Nat, w[b] \in Nat
             PROVE  TotalOf(w, {a, b}) = w[a] + w[b]
  OBVIOUS
<1>1. IsFiniteSet({a, b}) /\ \A x \in {a, b} : w[x] \in Nat
  <2>1. IsFiniteSet({a}) /\ {a, b} = {a} \cup {b}
    BY FS_Singleton
  <2>2. IsFiniteSet({a} \cup {b})
    BY <2>1, FS_AddElement
  <2> QED
    BY <2>1, <2>2
<1>2. TotalOf(w, {a, b}) = w[a] + TotalOf(w, {a, b} \ {a})
  BY <1>1, TotalRemove
<1>3. {a, b} \ {a} = {b}
  OBVIOUS
<1> QED
  BY <1>2, <1>3, TotalOne

(* The sum of a function is the sum over its domain.                          *)
LEMMA SumIsTotal ==
  ASSUME NEW w
  PROVE  SumFunction(w) = TotalOf(w, DOMAIN w)
  BY Zenon DEF SumFunction, SumFunctionOnSet, FoldFunctionOnSet, TotalOf, MapThenSumSet

(* A sum of positive numbers is positive.                                     *)
LEMMA TotalPositive ==
  ASSUME NEW S, IsFiniteSet(S), S # {}, NEW w, \A x \in S : w[x] \in Nat \ {0}
  PROVE  TotalOf(w, S) \in Nat \ {0}
<1>1. PICK x \in S : TRUE
  OBVIOUS
<1>2. TotalOf(w, S) = w[x] + TotalOf(w, S \ {x})
  BY <1>1, TotalRemove
<1>3. TotalOf(w, S \ {x}) \in Nat
  BY TotalType
<1> QED
  BY <1>1, <1>2, <1>3

(* Where g stays within k times w on both sides, so do their sums.            *)
LEMMA TotalBetween ==
  ASSUME NEW S, IsFiniteSet(S), NEW k \in Nat, NEW w, NEW g,
         \A x \in S : w[x] \in Nat /\ g[x] \in Int /\ -(k * w[x]) <= g[x] /\ g[x] <= k * w[x]
  PROVE  \A T \in SUBSET S :
            /\ TotalOf(g, T) \in Int
            /\ -(k * TotalOf(w, T)) <= TotalOf(g, T) /\ TotalOf(g, T) <= k * TotalOf(w, T)
<1> DEFINE Fits(T) == /\ TotalOf(g, T) \in Int
                      /\ -(k * TotalOf(w, T)) <= TotalOf(g, T)
                      /\ TotalOf(g, T) <= k * TotalOf(w, T)
           Good == {T \in SUBSET S : Fits(T)}
<1>1. ASSUME NEW T \in SUBSET S, \A U \in SUBSET T : U # T => U \in Good
      PROVE  T \in Good
  <2>1. CASE T = {}
    <3>1. TotalOf(g, T) = 0 /\ TotalOf(w, T) = 0
      BY <2>1, TotalEmpty
    <3>2. k * 0 = 0
      OBVIOUS
    <3>3. Fits(T)
      BY <3>1, <3>2
    <3> QED
      BY <3>3
  <2>2. CASE T # {}
    <3> DEFINE x == Picked(T)
               R == T \ {x}
    <3>1. x \in T /\ x \in S
      BY <2>2 DEF Picked
    <3>2. R \in Good
      BY <1>1, <3>1
    <3>3. IsFiniteSet(T) /\ IsFiniteSet(R)
      BY FS_Subset
    <3>4. TotalOf(g, T) = g[x] + TotalOf(g, R) /\ TotalOf(w, T) = w[x] + TotalOf(w, R)
      BY <2>2, <3>3, TotalPicked
    <3>5. PICK a \in Nat : a = TotalOf(w, R)
      BY TotalType
    <3>6. PICK b \in Nat : b = w[x]
      BY <3>1
    <3>7. PICK c \in Int : c = TotalOf(g, R)
      BY <3>2
    <3>8. PICK d \in Int : d = g[x]
      BY <3>1
    <3>9. -(k * a) <= c /\ c <= k * a
      BY <3>2, <3>5, <3>7
    <3>10. -(k * b) <= d /\ d <= k * b
      BY <3>1, <3>6, <3>8
    <3>11. k * (b + a) = k * b + k * a /\ k * b \in Nat /\ k * a \in Nat
      OBVIOUS
    <3>12. TotalOf(g, T) = d + c /\ TotalOf(w, T) = b + a
      BY <3>4, <3>5, <3>6, <3>7, <3>8
    <3>13. d + c \in Int /\ -(k * (b + a)) <= d + c /\ d + c <= k * (b + a)
      BY <3>9, <3>10, <3>11
    <3>14. Fits(T)
      BY <3>12, <3>13
    <3> QED
      BY <3>14
  <2> QED
    BY <2>1, <2>2
<1>2. \A T \in SUBSET S : (\A U \in SUBSET T : U # T => U \in Good) => T \in Good
  BY <1>1
<1>3. \A T \in SUBSET S : T \in Good
  <2> HIDE DEF Good
  <2> QED
    BY <1>2, SubsetInduction
<1> QED
  BY <1>3

(* Families that agree on a set have the same sum over it.                    *)
LEMMA TotalSame ==
  ASSUME NEW S, IsFiniteSet(S), NEW f, NEW g, \A x \in S : f[x] = g[x]
  PROVE  TotalOf(f, S) = TotalOf(g, S)
<1> DEFINE Good == {T \in SUBSET S : TotalOf(f, T) = TotalOf(g, T)}
<1>1. ASSUME NEW T \in SUBSET S, \A U \in SUBSET T : U # T => U \in Good
      PROVE  TotalOf(f, T) = TotalOf(g, T)
  <2>1. CASE T = {}
    BY <2>1, TotalEmpty
  <2>2. CASE T # {}
    <3>1. Picked(T) \in T /\ T \ {Picked(T)} \in Good
      BY <1>1, <2>2 DEF Picked
    <3>2. /\ TotalOf(f, T) = f[Picked(T)] + TotalOf(f, T \ {Picked(T)})
          /\ TotalOf(g, T) = g[Picked(T)] + TotalOf(g, T \ {Picked(T)})
      BY <2>2, FS_Subset, TotalPicked
    <3> QED
      BY <3>1, <3>2
  <2> QED
    BY <2>1, <2>2
<1>2. \A T \in SUBSET S : (\A U \in SUBSET T : U # T => U \in Good) => T \in Good
  BY <1>1
<1>3. \A T \in SUBSET S : T \in Good
  <2> HIDE DEF Good
  <2> QED
    BY <1>2, SubsetInduction
<1> QED
  BY <1>3

(* Greater members, a greater sum; and where h is f + k * g, so are the sums. *)
LEMMA TotalOrder ==
  ASSUME NEW S, IsFiniteSet(S), NEW f, NEW g,
         \A x \in S : f[x] \in Int /\ g[x] \in Int /\ f[x] <= g[x]
  PROVE  TotalOf(f, S) \in Int /\ TotalOf(g, S) \in Int /\ TotalOf(f, S) <= TotalOf(g, S)
<1> DEFINE Good == {T \in SUBSET S : TotalOf(f, T) <= TotalOf(g, T)}
<1>0. ASSUME NEW T \in SUBSET S
      PROVE  TotalOf(f, T) \in Int /\ TotalOf(g, T) \in Int /\ IsFiniteSet(T)
  BY FS_Subset, TotalInt
<1>1. ASSUME NEW T \in SUBSET S, \A U \in SUBSET T : U # T => U \in Good
      PROVE  TotalOf(f, T) <= TotalOf(g, T)
  <2>1. CASE T = {}
    BY <2>1, TotalEmpty
  <2>2. CASE T # {}
    <3> DEFINE x == Picked(T)
               R == T \ {x}
    <3>1. x \in T /\ R \in Good /\ R \in SUBSET S
      BY <1>1, <2>2 DEF Picked
    <3>2. /\ TotalOf(f, T) = f[x] + TotalOf(f, R)
          /\ TotalOf(g, T) = g[x] + TotalOf(g, R)
      BY <1>0, <2>2, TotalPicked
    <3>3. TotalOf(f, R) <= TotalOf(g, R) /\ f[x] <= g[x] /\ f[x] \in Int /\ g[x] \in Int
      BY <3>1
    <3>4. TotalOf(f, R) \in Int /\ TotalOf(g, R) \in Int
      BY <1>0, <3>1
    <3> HIDE DEF x, R
    <3> QED
      BY <3>2, <3>3, <3>4
  <2> QED
    BY <2>1, <2>2
<1>2. \A T \in SUBSET S : (\A U \in SUBSET T : U # T => U \in Good) => T \in Good
  BY <1>1
<1>3. \A T \in SUBSET S : T \in Good
  <2> HIDE DEF Good
  <2> QED
    BY <1>2, SubsetInduction
<1> QED
  BY <1>0, <1>3

LEMMA TotalLinear ==
  ASSUME NEW S, IsFiniteSet(S), NEW k \in Int, NEW f, NEW g, NEW h,
         \A x \in S : f[x] \in Int /\ g[x] \in Int /\ h[x] = f[x] + k * g[x]
  PROVE  /\ TotalOf(f, S) \in Int /\ TotalOf(g, S) \in Int
         /\ TotalOf(h, S) = TotalOf(f, S) + k * TotalOf(g, S)
<1> DEFINE Good == {T \in SUBSET S : TotalOf(h, T) = TotalOf(f, T) + k * TotalOf(g, T)}
<1>0. ASSUME NEW T \in SUBSET S
      PROVE  TotalOf(f, T) \in Int /\ TotalOf(g, T) \in Int /\ IsFiniteSet(T)
  BY FS_Subset, TotalInt
<1>1. ASSUME NEW T \in SUBSET S, \A U \in SUBSET T : U # T => U \in Good
      PROVE  TotalOf(h, T) = TotalOf(f, T) + k * TotalOf(g, T)
  <2>1. CASE T = {}
    BY <2>1, TotalEmpty
  <2>2. CASE T # {}
    <3> DEFINE x == Picked(T)
               R == T \ {x}
    <3>1. x \in T /\ R \in Good /\ R \in SUBSET S
      BY <1>1, <2>2 DEF Picked
    <3>2. /\ TotalOf(f, T) = f[x] + TotalOf(f, R)
          /\ TotalOf(g, T) = g[x] + TotalOf(g, R)
          /\ TotalOf(h, T) = h[x] + TotalOf(h, R)
      BY <1>0, <2>2, TotalPicked
    <3>3. PICK a \in Int, b \in Int : a = f[x] /\ b = g[x]
      BY <3>1
    <3>4. PICK c \in Int, d \in Int : c = TotalOf(f, R) /\ d = TotalOf(g, R)
      BY <1>0, <3>1
    <3>5. TotalOf(h, R) = c + k * d /\ h[x] = a + k * b
      BY <3>1, <3>3, <3>4
    <3>6. (a + k * b) + (c + k * d) = (a + c) + k * (b + d)
      BY Z3
    <3> HIDE DEF x, R
    <3> QED
      BY <3>2, <3>3, <3>4, <3>5, <3>6
  <2> QED
    BY <2>1, <2>2
<1>2. \A T \in SUBSET S : (\A U \in SUBSET T : U # T => U \in Good) => T \in Good
  BY <1>1
<1>3. \A T \in SUBSET S : T \in Good
  <2> HIDE DEF Good
  <2> QED
    BY <1>2, SubsetInduction
<1> QED
  BY <1>0, <1>3

LEMMA TotalNegated ==
  ASSUME NEW S, IsFiniteSet(S), NEW f, NEW h, \A x \in S : f[x] \in Int /\ h[x] = -f[x]
  PROVE  TotalOf(f, S) \in Int /\ TotalOf(h, S) = -TotalOf(f, S)
<1> DEFINE Good == {T \in SUBSET S : TotalOf(h, T) + TotalOf(f, T) = 0}
<1>0. ASSUME NEW T \in SUBSET S
      PROVE  TotalOf(f, T) \in Int /\ TotalOf(h, T) \in Int /\ IsFiniteSet(T)
  <2>1. IsFiniteSet(T) /\ \A x \in T : f[x] \in Int /\ h[x] \in Int
    BY FS_Subset
  <2> QED
    BY <2>1, TotalInt
<1>1. ASSUME NEW T \in SUBSET S, \A U \in SUBSET T : U # T => U \in Good
      PROVE  TotalOf(h, T) + TotalOf(f, T) = 0
  <2>1. CASE T = {}
    BY <2>1, TotalEmpty
  <2>2. CASE T # {}
    <3> DEFINE x == Picked(T)
               R == T \ {x}
    <3>1. x \in T /\ R \in Good /\ R \in SUBSET S
      BY <1>1, <2>2 DEF Picked
    <3>2. /\ TotalOf(f, T) = f[x] + TotalOf(f, R)
          /\ TotalOf(h, T) = h[x] + TotalOf(h, R)
      BY <1>0, <2>2, TotalPicked
    <3>3. f[x] \in Int /\ h[x] = -f[x] /\ TotalOf(h, R) + TotalOf(f, R) = 0
      BY <3>1
    <3>4. TotalOf(f, R) \in Int /\ TotalOf(h, R) \in Int
      BY <1>0, <3>1
    <3> HIDE DEF x, R
    <3> QED
      BY <3>2, <3>3, <3>4
  <2> QED
    BY <2>1, <2>2
<1>2. \A T \in SUBSET S : (\A U \in SUBSET T : U # T => U \in Good) => T \in Good
  BY <1>1
<1>3. \A T \in SUBSET S : T \in Good
  <2> HIDE DEF Good
  <2> QED
    BY <1>2, SubsetInduction
<1>4. TotalOf(h, S) + TotalOf(f, S) = 0 /\ TotalOf(f, S) \in Int /\ TotalOf(h, S) \in Int
  BY <1>0, <1>3
<1> QED
  BY <1>4

(* A finite set has a finite image under m, and its members' sum is that of   *)
(* their images where m tells them apart.                                     *)
LEMMA ImageFinite ==
  ASSUME NEW S, IsFiniteSet(S), NEW m
  PROVE  IsFiniteSet({m[x] : x \in S})
<1> DEFINE Good == {T \in SUBSET S : IsFiniteSet({m[x] : x \in T})}
<1>1. ASSUME NEW T \in SUBSET S, \A U \in SUBSET T : U # T => U \in Good
      PROVE  IsFiniteSet({m[x] : x \in T})
  <2>1. CASE T = {}
    <3>1. {m[x] : x \in T} = {}
      BY <2>1
    <3> QED
      BY <3>1, FS_EmptySet
  <2>2. CASE T # {}
    <3>1. PICK z \in T : TRUE
      BY <2>2
    <3>2. T \ {z} \in Good
      BY <1>1
    <3>3. {m[x] : x \in T} = {m[x] : x \in T \ {z}} \cup {m[z]}
      OBVIOUS
    <3>4. IsFiniteSet({m[x] : x \in T \ {z}} \cup {m[z]})
      BY <3>2, FS_AddElement
    <3> QED
      BY <3>3, <3>4
  <2> QED
    BY <2>1, <2>2
<1>2. \A T \in SUBSET S : (\A U \in SUBSET T : U # T => U \in Good) => T \in Good
  BY <1>1
<1>3. \A T \in SUBSET S : T \in Good
  <2> HIDE DEF Good
  <2> QED
    BY <1>2, SubsetInduction
<1> QED
  BY <1>3

LEMMA TotalImage ==
  ASSUME NEW S, IsFiniteSet(S), NEW m, \A x, y \in S : m[x] = m[y] => x = y,
         NEW f, NEW g, \A x \in S : f[x] \in Int /\ g[m[x]] = f[x]
  PROVE  TotalOf(g, {m[x] : x \in S}) = TotalOf(f, S)
<1> DEFINE Image(T) == {m[x] : x \in T}
           Good == {T \in SUBSET S : TotalOf(g, Image(T)) = TotalOf(f, T)}
<1>1. ASSUME NEW T \in SUBSET S, \A U \in SUBSET T : U # T => U \in Good
      PROVE  TotalOf(g, Image(T)) = TotalOf(f, T)
  <2>1. CASE T = {}
    <3>1. Image(T) = {}
      BY <2>1
    <3> QED
      BY <2>1, <3>1, TotalEmpty
  <2>2. CASE T # {}
    <3>1. PICK z \in T : TRUE
      BY <2>2
    <3>2. T \ {z} \in Good
      BY <1>1
    <3>3. Image(T \ {z}) = Image(T) \ {m[z]} /\ m[z] \in Image(T)
      OBVIOUS
    <3>4. IsFiniteSet(T) /\ IsFiniteSet(Image(T))
      BY FS_Subset, ImageFinite
    <3>5. \A y \in Image(T) : g[y] \in Int
      OBVIOUS
    <3>6. TotalOf(f, T) = f[z] + TotalOf(f, T \ {z})
      BY TotalRemove
    <3>7. TotalOf(g, Image(T)) = g[m[z]] + TotalOf(g, Image(T) \ {m[z]})
      <4> HIDE DEF Image
      <4> QED
        BY <3>3, <3>4, <3>5, TotalRemove
    <3> QED
      BY <3>2, <3>3, <3>6, <3>7
  <2> QED
    BY <2>1, <2>2
<1>2. \A T \in SUBSET S : (\A U \in SUBSET T : U # T => U \in Good) => T \in Good
  BY <1>1
<1>3. \A T \in SUBSET S : T \in Good
  <2> HIDE DEF Good
  <2> QED
    BY <1>2, SubsetInduction
<1> QED
  BY <1>3

(* A sum over two sets apart, and over the parts of a set.                    *)
LEMMA TotalUnion ==
  ASSUME NEW S, IsFiniteSet(S), NEW f, \A x \in S : f[x] \in Int,
         NEW A \in SUBSET S
  PROVE  TotalOf(f, S) = TotalOf(f, A) + TotalOf(f, S \ A)
<1> DEFINE Good == {T \in SUBSET A : TotalOf(f, S) = TotalOf(f, T) + TotalOf(f, S \ T)}
<1>0. ASSUME NEW T \in SUBSET S
      PROVE  IsFiniteSet(T) /\ TotalOf(f, T) \in Int
  BY FS_Subset, TotalInt
<1>1. ASSUME NEW T \in SUBSET A, \A U \in SUBSET T : U # T => U \in Good
      PROVE  TotalOf(f, S) = TotalOf(f, T) + TotalOf(f, S \ T)
  <2>1. CASE T = {}
    <3>1. S \ T = S /\ TotalOf(f, T) = 0 /\ TotalOf(f, S) \in Int
      BY <1>0, <2>1, TotalEmpty
    <3>2. TotalOf(f, S \ T) = TotalOf(f, S)
      BY <3>1
    <3> QED
      BY <3>1, <3>2
  <2>2. CASE T # {}
    <3>1. PICK z \in T : TRUE
      BY <2>2
    <3> DEFINE R == T \ {z}
    <3>2. R \in Good
      BY <1>1
    <3>3. (S \ R) \ {z} = S \ T /\ z \in S \ R /\ S \ R \in SUBSET S /\ T \in SUBSET S /\ R \in SUBSET S
      OBVIOUS
    <3>4. TotalOf(f, S) = TotalOf(f, R) + TotalOf(f, S \ R)
      BY <3>2
    <3>5. TotalOf(f, T) = f[z] + TotalOf(f, R)
      BY <3>3, TotalRemove
    <3>6. TotalOf(f, S \ R) = f[z] + TotalOf(f, S \ T)
      BY <3>3, TotalRemove
    <3>7. f[z] \in Int /\ TotalOf(f, R) \in Int /\ TotalOf(f, S \ T) \in Int
      BY <1>0, <3>3
    <3> HIDE DEF R
    <3> QED
      BY <3>4, <3>5, <3>6, <3>7
  <2> QED
    BY <2>1, <2>2
<1>2. \A T \in SUBSET A : (\A U \in SUBSET T : U # T => U \in Good) => T \in Good
  BY <1>1
<1>3. IsFiniteSet(A)
  BY FS_Subset
<1>4. \A T \in SUBSET A : T \in Good
  <2> HIDE DEF Good
  <2> QED
    BY <1>2, <1>3, SubsetInduction
<1> QED
  BY <1>4

\* sums[g] is the total of the part g of S, of the parts P that part[x] tells.
TotalsOfParts(sums, f, S, part, P) ==
  /\ \A x \in S : part[x] \in P
  /\ \A g \in P : sums[g] = TotalOf(f, {x \in S : part[x] = g})

LEMMA TotalParted ==
  ASSUME NEW S, IsFiniteSet(S), NEW f, \A x \in S : f[x] \in Int, NEW part,
         NEW P, IsFiniteSet(P), NEW sums, TotalsOfParts(sums, f, S, part, P)
  PROVE  TotalOf(sums, P) = TotalOf(f, S)
<1>0. /\ \A x \in S : part[x] \in P
      /\ \A g \in P : sums[g] = TotalOf(f, {x \in S : part[x] = g})
  BY DEF TotalsOfParts
<1> DEFINE In(T) == {x \in S : part[x] \in T}
           Good == {T \in SUBSET P : TotalOf(sums, T) = TotalOf(f, In(T))}
<1>1. \A T \in SUBSET S : IsFiniteSet(T) /\ TotalOf(f, T) \in Int
  <2>1. ASSUME NEW T \in SUBSET S PROVE IsFiniteSet(T) /\ TotalOf(f, T) \in Int
    BY FS_Subset, TotalInt
  <2> QED
    BY <2>1
<1>2. \A g \in P : sums[g] \in Int
  <2>1. \A g \in P : {x \in S : part[x] = g} \in SUBSET S
    OBVIOUS
  <2> QED
    BY <1>0, <1>1, <2>1
<1>3. ASSUME NEW T \in SUBSET P, \A U \in SUBSET T : U # T => U \in Good
      PROVE  TotalOf(sums, T) = TotalOf(f, In(T))
  <2>1. CASE T = {}
    <3>1. In(T) = {}
      BY <2>1
    <3> QED
      BY <2>1, <3>1, TotalEmpty
  <2>2. CASE T # {}
    <3>1. PICK g \in T : TRUE
      BY <2>2
    <3> DEFINE A == {x \in S : part[x] = g}
    <3>2. T \ {g} \in Good
      BY <1>3
    <3>3. TotalOf(sums, T) = sums[g] + TotalOf(sums, T \ {g})
      BY <1>2, TotalRemove
    <3>4. In(T) \ A = In(T \ {g}) /\ A \in SUBSET In(T) /\ In(T) \in SUBSET S
      OBVIOUS
    <3>5. TotalOf(f, In(T)) = TotalOf(f, A) + TotalOf(f, In(T) \ A)
      <4>1. IsFiniteSet(In(T)) /\ \A x \in In(T) : f[x] \in Int
        BY <1>1, <3>4
      <4> HIDE DEF In, A
      <4> QED
        BY <3>4, <4>1, TotalUnion
    <3>6. sums[g] = TotalOf(f, A)
      BY <1>0
    <3>7. TotalOf(sums, T \ {g}) = TotalOf(f, In(T \ {g}))
      BY <3>2
    <3> HIDE DEF A, In, Good
    <3> QED
      BY <3>3, <3>4, <3>5, <3>6, <3>7
  <2> QED
    BY <2>1, <2>2
<1>4. \A T \in SUBSET P : (\A U \in SUBSET T : U # T => U \in Good) => T \in Good
  BY <1>3
<1>5. \A T \in SUBSET P : T \in Good
  <2> HIDE DEF Good, In
  <2> QED
    BY <1>4, SubsetInduction
<1>6. In(P) = S
  BY <1>0
<1> QED
  BY <1>5, <1>6

(* A quotient lies between the bounds its dividend is between the multiples   *)
(* of.                                                                        *)
LEMMA QuotientBetween ==
  ASSUME NEW n \in Nat \ {0}, NEW k \in Nat, NEW v \in Int, -(k * n) <= v, v <= k * n
  PROVE  v \div n \in Int /\ -k <= v \div n /\ v \div n <= k
<1>1. PICK q \in Int : q = v \div n
  OBVIOUS
<1>2. n * q <= v /\ v < n * q + n
  BY <1>1, Z3
<1>3. ASSUME q > k PROVE FALSE
  <2>1. PICK d \in Nat : q = k + 1 + d
    BY <1>3
  <2>2. n * q = k * n + n + n * d /\ n * d \in Nat /\ k * n \in Nat
    BY <2>1, Z3
  <2> QED
    BY <1>2, <2>2
<1>4. ASSUME q < -k PROVE FALSE
  <2>1. PICK d \in Nat : q = -k - 1 - d
    <3>1. -k - 1 - q \in Nat /\ q = -k - 1 - (-k - 1 - q)
      BY <1>4
    <3> QED
      BY <3>1
  <2>2. n * q = -(k * n) - n - n * d /\ n * d \in Nat /\ k * n \in Nat
    BY <2>1, Z3
  <2> QED
    BY <1>2, <2>2
<1> QED
  BY <1>1, <1>3, <1>4

----------------------------------------------------------------------------
(* Folds.  What is made of a set one element at a time, in the order of pick, *)
(* is known by the equation that such functions f, over all subsets, satisfy. *)
Folding(f, pick, step, base, S) ==
  f = [s \in SUBSET S |-> IF s = {} THEN base ELSE step[<<pick[s], f[s \ {pick[s]}]>>]]

LEMMA FoldsAgree ==
  ASSUME NEW S, IsFiniteSet(S), NEW T \in SUBSET S, NEW pick, NEW step, NEW base,
         \A s \in SUBSET S : s # {} => pick[s] \in s,
         NEW f, NEW g, Folding(f, pick, step, base, S), Folding(g, pick, step, base, T)
  PROVE  \A s \in SUBSET T : f[s] = g[s]
<1> DEFINE Good == {s \in SUBSET T : f[s] = g[s]}
<1>1. IsFiniteSet(T)
  BY FS_Subset
<1>2. ASSUME NEW s \in SUBSET T, \A u \in SUBSET s : u # s => u \in Good
      PROVE  f[s] = g[s]
  <2>1. CASE s = {}
    BY <2>1 DEF Folding
  <2>2. CASE s # {}
    <3> DEFINE r == s \ {pick[s]}
    <3>1. s \in SUBSET S
      OBVIOUS
    <3>2. r \in SUBSET s /\ r # s
      BY <2>2, <3>1
    <3>3. f[r] = g[r]
      BY <1>2, <3>2
    <3>4. f[s] = step[<<pick[s], f[r]>>] /\ g[s] = step[<<pick[s], g[r]>>]
      BY <2>2, <3>1 DEF Folding
    <3> QED
      BY <3>3, <3>4
  <2> QED
    BY <2>1, <2>2
<1>3. \A s \in SUBSET T : (\A u \in SUBSET s : u # s => u \in Good) => s \in Good
  BY <1>2
<1>4. \A s \in SUBSET T : s \in Good
  <2> HIDE DEF Good
  <2> QED
    BY <1>1, <1>3, SubsetInduction
<1> QED
  BY <1>4

(* There is such a function over every finite set.                            *)
LEMMA FoldExists ==
  ASSUME NEW S, IsFiniteSet(S), NEW pick, NEW step, NEW base,
         \A s \in SUBSET S : s # {} => pick[s] \in s
  PROVE  \E f : Folding(f, pick, step, base, S)
<1> DEFINE Good == {T \in SUBSET S : \E f : Folding(f, pick, step, base, T)}
           Fold(T) == CHOOSE f : Folding(f, pick, step, base, T)
<1>1. ASSUME NEW T \in SUBSET S, \A U \in SUBSET T : U # T => U \in Good
      PROVE  \E f : Folding(f, pick, step, base, T)
  <2> DEFINE rest(s) == s \ {pick[s]}
             F == [s \in SUBSET T |-> IF s = {} THEN base
                                      ELSE step[<<pick[s], Fold(rest(s))[rest(s)]>>]]
  <2>1. \A U \in SUBSET T : U # T => Folding(Fold(U), pick, step, base, U)
    BY <1>1
  <2>2. \A s \in SUBSET T : s # {} => rest(s) \in SUBSET T /\ rest(s) # T /\ rest(s) # s
    <3> SUFFICES ASSUME NEW s \in SUBSET T, s # {}
                 PROVE  rest(s) \in SUBSET T /\ rest(s) # T /\ rest(s) # s
      OBVIOUS
    <3>1. s \in SUBSET S
      OBVIOUS
    <3>2. pick[s] \in s
      BY <3>1
    <3> QED
      BY <3>2
  <2> HIDE DEF Fold
  <2>3. ASSUME NEW U \in SUBSET T, U # T
        PROVE  Fold(U)[U] = F[U]
    <3>1. CASE U = {}
      <4>1. Folding(Fold(U), pick, step, base, U)
        BY <2>1, <2>3
      <4> QED
        BY <3>1, <4>1 DEF Folding
    <3>2. CASE U # {}
      <4>1. Folding(Fold(U), pick, step, base, U) /\ Folding(Fold(rest(U)), pick, step, base, rest(U))
        BY <2>1, <2>2, <2>3, <3>2
      <4>2. IsFiniteSet(U) /\ rest(U) \in SUBSET U
        <5>1. U \in SUBSET S
          OBVIOUS
        <5> QED
          BY <5>1, FS_Subset
      <4>3. Fold(U)[rest(U)] = Fold(rest(U))[rest(U)]
        <5> HIDE DEF F, rest
        <5>1. \A s \in SUBSET U : s # {} => pick[s] \in s
          OBVIOUS
        <5>2. \A s \in SUBSET rest(U) : Fold(U)[s] = Fold(rest(U))[s]
          BY <4>1, <4>2, <5>1, FoldsAgree
        <5> QED
          BY <5>2
      <4>4. Fold(U)[U] = step[<<pick[U], Fold(U)[rest(U)]>>]
        BY <3>2, <4>1 DEF Folding
      <4> QED
        BY <3>2, <4>3, <4>4
    <3> QED
      BY <3>1, <3>2
  <2>4. \A s \in SUBSET T : s # {} => Fold(rest(s))[rest(s)] = F[rest(s)]
    BY <2>2, <2>3
  <2>5. F = [s \in SUBSET T |-> IF s = {} THEN base ELSE step[<<pick[s], F[rest(s)]>>]]
    BY <2>4
  <2>6. Folding(F, pick, step, base, T)
    BY <2>5 DEF Folding
  <2> QED
    BY <2>6
<1>2. \A T \in SUBSET S : (\A U \in SUBSET T : U # T => U \in Good) => T \in Good
  BY <1>1
<1>3. S \in Good
  <2> HIDE DEF Good
  <2> QED
    BY <1>2, SubsetInduction
<1> QED
  BY <1>3

(* Its values are of the type that the step keeps.                            *)
LEMMA FoldType ==
  ASSUME NEW S, IsFiniteSet(S), NEW pick, NEW B, NEW base \in B, NEW step \in [S \X B -> B],
         \A s \in SUBSET S : s # {} => pick[s] \in s,
         NEW f, Folding(f, pick, step, base, S)
  PROVE  \A s \in SUBSET S : f[s] \in B
<1> DEFINE Good == {s \in SUBSET S : f[s] \in B}
<1>1. ASSUME NEW s \in SUBSET S, \A u \in SUBSET s : u # s => u \in Good
      PROVE  f[s] \in B
  <2>1. CASE s = {}
    BY <2>1 DEF Folding
  <2>2. CASE s # {}
    <3>1. pick[s] \in s
      BY <2>2
    <3>2. f[s \ {pick[s]}] \in B
      BY <1>1, <3>1
    <3>3. f[s] = step[<<pick[s], f[s \ {pick[s]}]>>]
      BY <2>2 DEF Folding
    <3> QED
      BY <3>1, <3>2, <3>3
  <2> QED
    BY <2>1, <2>2
<1>2. \A s \in SUBSET S : (\A u \in SUBSET s : u # s => u \in Good) => s \in Good
  BY <1>1
<1>3. \A s \in SUBSET S : s \in Good
  <2> HIDE DEF Good
  <2> QED
    BY <1>2, SubsetInduction
<1> QED
  BY <1>3
================================================================================
