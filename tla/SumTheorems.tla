---------------------------- MODULE SumTheorems ----------------------------
(***************************************************************************)
(* What the sum of a function over a finite set is when a member is taken  *)
(* out, or one of the numbers changes.  SumFunctionOnSet is a fold by an   *)
(* arbitrary choice of the next member; it is shown here that the choice   *)
(* does not matter.                                                        *)
(***************************************************************************)
EXTENDS Functions, Integers, Sequences, FiniteSetTheorems, NaturalsInduction,
        WellFoundedInduction, TLAPS

(* The fold behind the sum, as a function on the subsets of S.             *)
Any(s) == CHOOSE x \in s : TRUE
FoldStep(f, g, s) == IF s = {} THEN 0 ELSE f[Any(s)] + g[s \ {Any(s)}]
IsFold(g, f, S) == g = [s \in SUBSET S |-> FoldStep(f, g, s)]
Fold(f, S) == CHOOSE g : IsFold(g, f, S)

(* The sum is the value of the fold at the whole set.                      *)
LEMMA SumIsFold == ASSUME NEW f, NEW S PROVE SumFunctionOnSet(f, S) = Fold(f, S)[S]
BY DEF SumFunctionOnSet, FoldFunctionOnSet, MapThenFoldSet, Fold, IsFold, FoldStep, Any

(* Induction over the naturals, for a set of them instead of a predicate.  *)
LEMMA SetInduction ==
    ASSUME NEW T \in SUBSET Nat, 0 \in T, \A n \in T : n + 1 \in T
    PROVE  T = Nat
<1> SUFFICES ASSUME Nat \ T # {} PROVE FALSE  OBVIOUS
<1> DEFINE R == {ss \in Nat \X Nat : ss[1] < ss[2]}
<1>1. IsWellFoundedOn(R, Nat)  BY NatLessThanWellFounded, Zenon DEF OpToRel
<1>2. PICK x \in Nat \ T : \A y \in Nat \ T : ~(<<y, x>> \in R)  BY <1>1, WFMin
<1>3. x # 0 /\ x - 1 \in Nat /\ (x - 1) + 1 = x  OBVIOUS
<1>4. x - 1 \notin T  BY <1>2, <1>3
<1>5. <<x - 1, x>> \in R  BY <1>3
<1>6. QED  BY <1>2, <1>3, <1>4, <1>5

(* What a step takes away, and that a smaller set is left.                 *)
LEMMA Without ==
    ASSUME NEW s, IsFiniteSet(s), s # {}, NEW x \in s
    PROVE  /\ IsFiniteSet(s \ {x}) /\ Cardinality(s) \in Nat
           /\ Cardinality(s \ {x}) = Cardinality(s) - 1
           /\ Any(s) \in s
BY FS_RemoveElement, FS_CardinalityType DEF Any

(* What holds of a set when it holds of all smaller ones holds of all.     *)
LEMMA SubsetInduction ==
    ASSUME NEW S, IsFiniteSet(S), NEW P,
           \A t \in SUBSET S : (\A u \in SUBSET t : u # t => u \in P) => t \in P
    PROVE  S \in P
<1> DEFINE T == {n \in Nat : \A t \in SUBSET S : Cardinality(t) <= n => t \in P}
<1>1. \A t \in SUBSET S : IsFiniteSet(t) /\ Cardinality(t) \in Nat
  BY FS_Subset, FS_CardinalityType
<1>2. \A t \in SUBSET S : \A u \in SUBSET t : u # t => Cardinality(u) < Cardinality(t)
  <2> TAKE t \in SUBSET S
  <2> TAKE u \in SUBSET t
  <2> HAVE u # t
  <2>1. IsFiniteSet(t) /\ Cardinality(t) \in Nat /\ Cardinality(u) \in Nat  BY <1>1
  <2>2. Cardinality(u) <= Cardinality(t) /\ (Cardinality(u) = Cardinality(t) => u = t)
    BY <2>1, FS_Subset
  <2>3. QED  BY <2>1, <2>2
<1>3. 0 \in T
  <2> SUFFICES ASSUME NEW t \in SUBSET S, Cardinality(t) <= 0 PROVE t \in P  OBVIOUS
  <2>1. \A u \in SUBSET t : u = t
    <3> TAKE u \in SUBSET t
    <3>1. Cardinality(u) \in Nat /\ Cardinality(t) \in Nat  BY <1>1
    <3>2. u # t => Cardinality(u) < Cardinality(t)  BY <1>2
    <3>3. QED  BY <3>1, <3>2
  <2>2. QED  BY <2>1
<1>4. \A n \in T : n + 1 \in T
  <2> TAKE n \in T
  <2> SUFFICES ASSUME NEW t \in SUBSET S, Cardinality(t) <= n + 1 PROVE t \in P  OBVIOUS
  <2>1. \A u \in SUBSET t : u # t => u \in P
    <3> TAKE u \in SUBSET t
    <3> HAVE u # t
    <3>1. u \in SUBSET S /\ Cardinality(u) <= n  BY <1>1, <1>2
    <3>2. QED  BY <3>1
  <2>2. QED  BY <2>1
<1>5. T = Nat
  <2> HIDE DEF T
  <2>1. T \in SUBSET Nat  BY DEF T
  <2>2. QED  BY <1>3, <1>4, <2>1, SetInduction
<1>6. QED
  <2>1. Cardinality(S) \in T  BY <1>1, <1>5
  <2>2. QED  BY <1>1, <2>1

(* The fold exists: by the size of the sets it is to be defined for.       *)
LEMMA FoldIsFold ==
    ASSUME NEW f, NEW S, IsFiniteSet(S)
    PROVE  \A s \in SUBSET S : Fold(f, S)[s] = FoldStep(f, Fold(f, S), s)
<1> DEFINE Good(g, s) == g[s] = FoldStep(f, g, s)
           T == {n \in Nat : \E g : \A s \in SUBSET S : Cardinality(s) <= n => Good(g, s)}
<1>1. \A s \in SUBSET S : IsFiniteSet(s) /\ Cardinality(s) \in Nat
                          /\ Cardinality(s) <= Cardinality(S)
  BY FS_Subset, FS_CardinalityType
<1>2. 0 \in T
  <2> DEFINE g == [s \in SUBSET S |-> 0]
  <2>1. \A s \in SUBSET S : Cardinality(s) <= 0 => Good(g, s)
    <3> TAKE s \in SUBSET S
    <3> HAVE Cardinality(s) <= 0
    <3>1. s = {}  BY <1>1, FS_EmptySet
    <3>2. QED  BY <3>1 DEF FoldStep
  <2>2. QED  BY <2>1
<1>3. \A n \in T : n + 1 \in T
  <2> TAKE n \in T
  <2>1. PICK g : \A s \in SUBSET S : Cardinality(s) <= n => Good(g, s)  OBVIOUS
  <2> DEFINE h == [s \in SUBSET S |-> FoldStep(f, g, s)]
  <2>2. \A s \in SUBSET S : Cardinality(s) <= n + 1 => Good(h, s)
    <3> TAKE s \in SUBSET S
    <3> HAVE Cardinality(s) <= n + 1
    <3>1. CASE s = {}  BY <3>1 DEF FoldStep
    <3>2. CASE s # {}
      <4> DEFINE r == s \ {Any(s)}
      <4>1. Any(s) \in s  BY <3>2 DEF Any
      <4>2. r \in SUBSET S /\ Cardinality(r) <= n
        BY <1>1, <3>2, <4>1, Without
      <4>3. h[r] = g[r]  BY <2>1, <4>2
      <4>4. h[s] = f[Any(s)] + g[r]  BY <3>2 DEF FoldStep
      <4>5. QED  BY <3>2, <4>3, <4>4 DEF FoldStep
    <3>3. QED  BY <3>1, <3>2
  <2> HIDE DEF h
  <2>3. \E k : \A s \in SUBSET S : Cardinality(s) <= n + 1 => Good(k, s)  BY <2>2
  <2>4. QED  BY <2>3
<1>4. T = Nat
  <2> HIDE DEF T
  <2>1. T \in SUBSET Nat  BY DEF T
  <2>2. QED  BY <1>2, <1>3, <2>1, SetInduction
<1>5. PICK g : \A s \in SUBSET S : Good(g, s)
  <2>1. Cardinality(S) \in T  BY <1>1, <1>4
  <2>2. QED  BY <1>1, <2>1
<1> DEFINE G == [s \in SUBSET S |-> g[s]]
<1>6. \A s \in SUBSET S : FoldStep(f, G, s) = FoldStep(f, g, s)
  <2> TAKE s \in SUBSET S
  <2>1. s \ {Any(s)} \in SUBSET S  OBVIOUS
  <2>2. QED  BY <2>1 DEF FoldStep
<1>7. G = [s \in SUBSET S |-> FoldStep(f, G, s)]
  <2>1. \A s \in SUBSET S : g[s] = FoldStep(f, G, s)  BY <1>5, <1>6
  <2>2. [s \in SUBSET S |-> g[s]] = [s \in SUBSET S |-> FoldStep(f, G, s)]
    <3> HIDE DEF G
    <3>1. QED  BY <2>1
  <2>3. QED  BY <2>2
<1>8. IsFold(Fold(f, S), f, S)
  <2> HIDE DEF G
  <2>1. IsFold(G, f, S)  BY <1>7 DEF IsFold
  <2>2. QED  BY <2>1 DEF Fold
<1>9. QED
  <2> DEFINE F == Fold(f, S)
  <2>1. F = [s \in SUBSET S |-> FoldStep(f, F, s)]  BY <1>8 DEF IsFold
  <2> HIDE DEF F
  <2>2. \A s \in SUBSET S : F[s] = FoldStep(f, F, s)  BY <2>1
  <2>3. QED  BY <2>2 DEF F

(* The fold of a set depends on the numbers of its members only.           *)
LEMMA FoldSame ==
    ASSUME NEW f, NEW h, NEW S, NEW T, IsFiniteSet(S), IsFiniteSet(T),
           NEW s \in SUBSET S, s \in SUBSET T, \A x \in s : f[x] = h[x]
    PROVE  Fold(f, S)[s] = Fold(h, T)[s]
<1> DEFINE P == {t \in SUBSET s : Fold(f, S)[t] = Fold(h, T)[t]}
<1>1. ASSUME NEW t \in SUBSET s, \A u \in SUBSET t : u # t => u \in P PROVE t \in P
  <2>1. t \in SUBSET S /\ t \in SUBSET T  OBVIOUS
  <2>2. Fold(f, S)[t] = FoldStep(f, Fold(f, S), t) /\ Fold(h, T)[t] = FoldStep(h, Fold(h, T), t)
    BY <2>1, FoldIsFold
  <2>3. CASE t = {}  BY <2>2, <2>3 DEF FoldStep
  <2>4. CASE t # {}
    <3>1. Any(t) \in t  BY <2>4 DEF Any
    <3>2. t \ {Any(t)} \in P  BY <1>1, <3>1
    <3>3. f[Any(t)] = h[Any(t)]  BY <3>1
    <3>4. QED  BY <2>2, <2>4, <3>2, <3>3 DEF FoldStep
  <2>5. QED  BY <2>3, <2>4
<1>2. IsFiniteSet(s)  BY FS_Subset
<1> HIDE DEF P
<1>3. s \in P  BY <1>1, <1>2, SubsetInduction
<1>4. QED  BY <1>3 DEF P

(* So does the sum.                                                        *)
LEMMA SumSame ==
    ASSUME NEW f, NEW h, NEW S, IsFiniteSet(S), \A x \in S : f[x] = h[x]
    PROVE  SumFunctionOnSet(f, S) = SumFunctionOnSet(h, S)
BY FoldSame, SumIsFold

(* Nothing sums up to 0.                                                   *)
LEMMA SumEmpty == ASSUME NEW f PROVE SumFunctionOnSet(f, {}) = 0
<1>1. IsFiniteSet({})  BY FS_EmptySet
<1>2. QED  BY <1>1, FoldIsFold, SumIsFold DEF FoldStep

(* One member is taken out first.                                          *)
LEMMA SumAny ==
    ASSUME NEW f, NEW S, IsFiniteSet(S), S # {}
    PROVE  SumFunctionOnSet(f, S) = f[Any(S)] + SumFunctionOnSet(f, S \ {Any(S)})
<1> DEFINE r == S \ {Any(S)}
<1>1. IsFiniteSet(r) /\ r \in SUBSET S  BY FS_Subset
<1>2. Fold(f, S)[S] = f[Any(S)] + Fold(f, S)[r]  BY FoldIsFold DEF FoldStep
<1>3. Fold(f, S)[r] = Fold(f, r)[r]
  <2> HIDE DEF r
  <2>1. QED  BY <1>1, FoldSame
<1>4. QED  BY <1>2, <1>3, SumIsFold

(* The sum of naturals is one.                                             *)
LEMMA SumNat ==
    ASSUME NEW f, NEW S, IsFiniteSet(S), \A x \in S : f[x] \in Nat
    PROVE  SumFunctionOnSet(f, S) \in Nat
<1> DEFINE P == {t \in SUBSET S : SumFunctionOnSet(f, t) \in Nat}
<1>1. ASSUME NEW t \in SUBSET S, \A u \in SUBSET t : u # t => u \in P PROVE t \in P
  <2>1. CASE t = {}  BY <2>1, SumEmpty
  <2>2. CASE t # {}
    <3>1. Any(t) \in t  BY <2>2 DEF Any
    <3>2. t \ {Any(t)} \in P  BY <1>1, <3>1
    <3>3. SumFunctionOnSet(f, t) = f[Any(t)] + SumFunctionOnSet(f, t \ {Any(t)})
      BY <2>2, FS_Subset, SumAny
    <3>4. f[Any(t)] \in Nat /\ SumFunctionOnSet(f, t \ {Any(t)}) \in Nat  BY <3>1, <3>2
    <3>5. QED  BY <3>3, <3>4
  <2>3. QED  BY <2>1, <2>2
<1> HIDE DEF P
<1>2. S \in P  BY <1>1, SubsetInduction
<1>3. QED  BY <1>2 DEF P

(* Any member may be taken out first.                                      *)
LEMMA SumWithout ==
    ASSUME NEW f, NEW S, IsFiniteSet(S), \A x \in S : f[x] \in Nat, NEW x \in S
    PROVE  SumFunctionOnSet(f, S) = f[x] + SumFunctionOnSet(f, S \ {x})
<1> DEFINE P == {t \in SUBSET S : \A y \in t :
                    SumFunctionOnSet(f, t) = f[y] + SumFunctionOnSet(f, t \ {y})}
<1>1. ASSUME NEW t \in SUBSET S, \A u \in SUBSET t : u # t => u \in P PROVE t \in P
  <2> SUFFICES ASSUME NEW y \in t
               PROVE  SumFunctionOnSet(f, t) = f[y] + SumFunctionOnSet(f, t \ {y})
    OBVIOUS
  <2> DEFINE z == Any(t)  r == (t \ {y}) \ {z}
  <2>1. z \in t  BY DEF Any
  <2>2. IsFiniteSet(t) /\ IsFiniteSet(t \ {z}) /\ IsFiniteSet(r)  BY FS_Subset
  <2>3. SumFunctionOnSet(f, t) = f[z] + SumFunctionOnSet(f, t \ {z})  BY <2>2, SumAny
  <2>4. CASE y = z  BY <2>3, <2>4
  <2>5. CASE y # z
    <3> HIDE DEF z
    <3>1. t \ {z} \in P /\ y \in t \ {z}  BY <1>1, <2>1, <2>5
    <3>2. t \ {y} \in P /\ z \in t \ {y}  BY <1>1, <2>1, <2>5
    <3>3. r = (t \ {z}) \ {y}  OBVIOUS
    <3>4. SumFunctionOnSet(f, t \ {z}) = f[y] + SumFunctionOnSet(f, r)  BY <3>1, <3>3
    <3>5. SumFunctionOnSet(f, t \ {y}) = f[z] + SumFunctionOnSet(f, r)  BY <3>2
    <3>6. f[y] \in Nat /\ f[z] \in Nat /\ SumFunctionOnSet(f, r) \in Nat
      BY <2>1, <2>2, SumNat
    <3>7. QED  BY <2>3, <3>4, <3>5, <3>6
  <2>6. QED  BY <2>4, <2>5
<1> HIDE DEF P
<1>2. S \in P  BY <1>1, SubsetInduction
<1>3. QED  BY <1>2 DEF P

(* A sum of which one term changes.                                        *)
LEMMA SumChanges ==
    ASSUME NEW f, NEW h, NEW S, IsFiniteSet(S), NEW x \in S,
           \A y \in S : f[y] \in Nat /\ h[y] \in Nat,
           \A y \in S \ {x} : f[y] = h[y]
    PROVE  /\ SumFunctionOnSet(f, S) \in Nat /\ SumFunctionOnSet(h, S) \in Nat
           /\ SumFunctionOnSet(h, S) + f[x] = SumFunctionOnSet(f, S) + h[x]
<1>1. IsFiniteSet(S \ {x})  BY FS_Subset
<1>2. /\ SumFunctionOnSet(f, S) = f[x] + SumFunctionOnSet(f, S \ {x})
      /\ SumFunctionOnSet(h, S) = h[x] + SumFunctionOnSet(h, S \ {x})
  BY SumWithout
<1>3. SumFunctionOnSet(f, S \ {x}) = SumFunctionOnSet(h, S \ {x})  BY <1>1, SumSame
<1>4. SumFunctionOnSet(f, S \ {x}) \in Nat  BY <1>1, SumNat
<1>5. QED  BY <1>2, <1>3, <1>4

-----------------------------------------------------------------------------
(* Sums of two functions compared, and of the parts of a set.              *)
LEMMA SumZero ==
    ASSUME NEW f, NEW S, IsFiniteSet(S), \A x \in S : f[x] = 0
    PROVE  SumFunctionOnSet(f, S) = 0
<1> DEFINE P == {t \in SUBSET S : SumFunctionOnSet(f, t) = 0}
<1>1. ASSUME NEW t \in SUBSET S, \A u \in SUBSET t : u # t => u \in P PROVE t \in P
  <2>1. CASE t = {}  BY <2>1, SumEmpty
  <2>2. CASE t # {}
    <3>1. Any(t) \in t  BY <2>2 DEF Any
    <3>2. t \ {Any(t)} \in P  BY <1>1, <3>1
    <3>3. SumFunctionOnSet(f, t) = f[Any(t)] + SumFunctionOnSet(f, t \ {Any(t)})
      BY <2>2, FS_Subset, SumAny
    <3>4. f[Any(t)] = 0 /\ SumFunctionOnSet(f, t \ {Any(t)}) = 0  BY <3>1, <3>2
    <3>5. QED  BY <3>3, <3>4
  <2>3. QED  BY <2>1, <2>2
<1> HIDE DEF P
<1>2. S \in P  BY <1>1, SubsetInduction
<1>3. QED  BY <1>2 DEF P

(* A sum of zeros and ones is at most the number of its terms.             *)
LEMMA SumOfBits ==
    ASSUME NEW f, NEW S, IsFiniteSet(S), \A x \in S : f[x] \in 0..1
    PROVE  SumFunctionOnSet(f, S) \in 0..Cardinality(S)
<1> DEFINE P == {t \in SUBSET S : SumFunctionOnSet(f, t) \in 0..Cardinality(t)}
<1>1. ASSUME NEW t \in SUBSET S, \A u \in SUBSET t : u # t => u \in P PROVE t \in P
  <2>1. CASE t = {}  BY <2>1, SumEmpty, FS_EmptySet
  <2>2. CASE t # {}
    <3> DEFINE x == Any(t)  r == t \ {x}
    <3>1. x \in t  BY <2>2 DEF Any
    <3>2. r \in P  BY <1>1, <3>1
    <3>3. SumFunctionOnSet(f, t) = f[x] + SumFunctionOnSet(f, r)
      BY <2>2, FS_Subset, SumAny
    <3>4. Cardinality(r) = Cardinality(t) - 1 /\ Cardinality(t) \in Nat
      BY <3>1, FS_Subset, Without
    <3>5. f[x] \in 0..1 /\ SumFunctionOnSet(f, r) \in 0..Cardinality(r)  BY <3>1, <3>2
    <3> HIDE DEF x, r
    <3>6. QED  BY <3>3, <3>4, <3>5
  <2>3. QED  BY <2>1, <2>2
<1> HIDE DEF P
<1>2. S \in P  BY <1>1, SubsetInduction
<1>3. QED  BY <1>2 DEF P

LEMMA SumAtMost ==
    ASSUME NEW f, NEW g, NEW S, IsFiniteSet(S),
           \A x \in S : f[x] \in Nat /\ g[x] \in Nat /\ f[x] <= g[x]
    PROVE  SumFunctionOnSet(f, S) <= SumFunctionOnSet(g, S)
<1> DEFINE P == {t \in SUBSET S : SumFunctionOnSet(f, t) <= SumFunctionOnSet(g, t)}
<1>1. ASSUME NEW t \in SUBSET S, \A u \in SUBSET t : u # t => u \in P PROVE t \in P
  <2>1. CASE t = {}  BY <2>1, SumEmpty
  <2>2. CASE t # {}
    <3> DEFINE x == Any(t)  r == t \ {x}
    <3>1. x \in t  BY <2>2 DEF Any
    <3>2. r \in P  BY <1>1, <3>1
    <3>3. /\ SumFunctionOnSet(f, t) = f[x] + SumFunctionOnSet(f, r)
          /\ SumFunctionOnSet(g, t) = g[x] + SumFunctionOnSet(g, r)
      BY <2>2, FS_Subset, SumAny
    <3>4. IsFiniteSet(r)  BY FS_Subset
    <3> HIDE DEF r
    <3>5. \A y \in r : y \in S  BY DEF r
    <3>6. PICK a \in Nat, b \in Nat, k \in Nat, m \in Nat :
             /\ a = f[x] /\ b = g[x] /\ a <= b
             /\ k = SumFunctionOnSet(f, r) /\ m = SumFunctionOnSet(g, r) /\ k <= m
      BY <3>1, <3>2, <3>4, <3>5, SumNat
    <3>7. a + k <= b + m  BY <3>6
    <3>8. QED  BY <3>3, <3>6, <3>7
  <2>3. QED  BY <2>1, <2>2
<1> HIDE DEF P
<1>2. S \in P  BY <1>1, SubsetInduction
<1>3. QED  BY <1>2 DEF P

LEMMA SumSplit ==
    ASSUME NEW f, NEW T, NEW U, IsFiniteSet(T), IsFiniteSet(U), T \cap U = {},
           \A x \in T \cup U : f[x] \in Nat
    PROVE  SumFunctionOnSet(f, T \cup U) = SumFunctionOnSet(f, T) + SumFunctionOnSet(f, U)
<1> DEFINE Splits(u) == SumFunctionOnSet(f, T \cup u)
                          = SumFunctionOnSet(f, T) + SumFunctionOnSet(f, u)
           P == {u \in SUBSET U : Splits(u)}
<1>1. SumFunctionOnSet(f, T) \in Nat  BY SumNat
<1>2. ASSUME NEW t \in SUBSET U, \A u \in SUBSET t : u # t => u \in P PROVE t \in P
  <2>1. CASE t = {}
    <3>1. SumFunctionOnSet(f, {}) = 0 /\ T \cup {} = T  BY SumEmpty
    <3>2. QED  BY <1>1, <2>1, <3>1
  <2>2. CASE t # {}
    <3>1. PICK x : x \in t  BY <2>2
    <3> DEFINE r == t \ {x}
    <3>2. Splits(r)  BY <1>2, <3>1
    <3>3. /\ IsFiniteSet(t) /\ IsFiniteSet(r) /\ IsFiniteSet(T \cup t)
          /\ x \in T \cup t /\ (T \cup t) \ {x} = T \cup r
      BY <3>1, FS_Subset, FS_Union
    <3>4. SumFunctionOnSet(f, T \cup t) = f[x] + SumFunctionOnSet(f, T \cup r)
      <4>1. \A y \in T \cup t : f[y] \in Nat  OBVIOUS
      <4>2. SumFunctionOnSet(f, T \cup t) = f[x] + SumFunctionOnSet(f, (T \cup t) \ {x})
        BY <3>3, <4>1, SumWithout
      <4>3. QED  BY <3>3, <4>2
    <3>5. SumFunctionOnSet(f, t) = f[x] + SumFunctionOnSet(f, r)
      BY <3>1, <3>3, SumWithout
    <3>6. PICK a \in Nat, b \in Nat, k \in Nat :
             a = f[x] /\ b = SumFunctionOnSet(f, T) /\ k = SumFunctionOnSet(f, r)
      BY <1>1, <3>1, <3>3, SumNat
    <3>7. a + (b + k) = b + (a + k)  BY <3>6
    <3>8. QED  BY <3>2, <3>4, <3>5, <3>6, <3>7
  <2>3. QED  BY <2>1, <2>2
<1> HIDE DEF P
<1>3. U \in P  BY <1>2, SubsetInduction
<1>4. QED  BY <1>3 DEF P

(* What is outside of T counts for nothing, or at least not for less.      *)
LEMMA SumOutside ==
    ASSUME NEW f, NEW S, NEW T \in SUBSET S, IsFiniteSet(S), \A x \in S : f[x] \in Nat
    PROVE  /\ SumFunctionOnSet(f, T) <= SumFunctionOnSet(f, S)
           /\ (\A x \in S \ T : f[x] = 0) => SumFunctionOnSet(f, T) = SumFunctionOnSet(f, S)
<1> DEFINE U == S \ T
<1>1. IsFiniteSet(T) /\ IsFiniteSet(U)  BY FS_Subset
<1>2. T \cup U = S /\ T \cap U = {}  OBVIOUS
<1>3. SumFunctionOnSet(f, S) = SumFunctionOnSet(f, T) + SumFunctionOnSet(f, U)
  <2>1. SumFunctionOnSet(f, T \cup U) = SumFunctionOnSet(f, T) + SumFunctionOnSet(f, U)
    BY <1>1, <1>2, SumSplit
  <2>2. QED  BY <1>2, <2>1
<1>4. SumFunctionOnSet(f, T) \in Nat /\ SumFunctionOnSet(f, U) \in Nat  BY <1>1, SumNat
<1>5. (\A x \in U : f[x] = 0) => SumFunctionOnSet(f, U) = 0  BY <1>1, SumZero
<1> HIDE DEF U
<1>6. PICK a \in Nat, b \in Nat :
         a = SumFunctionOnSet(f, T) /\ b = SumFunctionOnSet(f, U)
  BY <1>4
<1>7. a <= a + b /\ (b = 0 => a = a + b)  OBVIOUS
<1>8. QED  BY <1>3, <1>5, <1>6, <1>7 DEF U

(* A set summed class by class.                                            *)
Class(S, k, i) == {x \in S : k[x] = i}

LEMMA SumByClass ==
    ASSUME NEW f, NEW S, NEW K, NEW k, IsFiniteSet(S), IsFiniteSet(K),
           \A x \in S : f[x] \in Nat /\ k[x] \in K
    PROVE  SumFunctionOnSet([i \in K |-> SumFunctionOnSet(f, Class(S, k, i))], K)
             = SumFunctionOnSet(f, S)
<1> DEFINE h(t) == [i \in K |-> SumFunctionOnSet(f, Class(t, k, i))]
           P == {t \in SUBSET S : SumFunctionOnSet(h(t), K) = SumFunctionOnSet(f, t)}
<1>1. ASSUME NEW t \in SUBSET S
      PROVE  /\ IsFiniteSet(t) /\ SumFunctionOnSet(f, t) \in Nat
             /\ \A i \in K : h(t)[i] \in Nat /\ IsFiniteSet(Class(t, k, i))
  <2>1. IsFiniteSet(t) /\ \A i \in K : Class(t, k, i) \in SUBSET t  BY FS_Subset DEF Class
  <2>2. \A i \in K : IsFiniteSet(Class(t, k, i))  BY <2>1, FS_Subset
  <2>3. \A i \in K : SumFunctionOnSet(f, Class(t, k, i)) \in Nat
    <3> TAKE i \in K
    <3>1. \A x \in Class(t, k, i) : f[x] \in Nat  BY <2>1
    <3>2. QED  BY <2>2, <3>1, SumNat
  <2>4. SumFunctionOnSet(f, t) \in Nat  BY <2>1, SumNat
  <2>5. QED  BY <2>1, <2>2, <2>3, <2>4
<1>2. ASSUME NEW t \in SUBSET S, \A u \in SUBSET t : u # t => u \in P PROVE t \in P
  <2>1. CASE t = {}
    <3>1. \A i \in K : h(t)[i] = 0  BY <2>1, SumEmpty DEF Class
    <3> HIDE DEF h
    <3>2. SumFunctionOnSet(h(t), K) = 0  BY <3>1, SumZero
    <3>3. QED  BY <2>1, <3>2, SumEmpty
  <2>2. CASE t # {}
    <3>1. PICK x : x \in t  BY <2>2
    <3> DEFINE r == t \ {x}  j == k[x]
    <3>2. r \in P /\ r \in SUBSET S /\ j \in K  BY <1>2, <3>1
    <3>3. SumFunctionOnSet(f, t) = f[x] + SumFunctionOnSet(f, r)  BY <1>1, <3>1, SumWithout
    <3>4. h(t)[j] = f[x] + h(r)[j]
      <4>1. x \in Class(t, k, j) /\ Class(t, k, j) \ {x} = Class(r, k, j)
        BY <3>1 DEF Class
      <4>2. IsFiniteSet(Class(t, k, j)) /\ \A y \in Class(t, k, j) : f[y] \in Nat
        BY <1>1, <3>2 DEF Class
      <4>3. SumFunctionOnSet(f, Class(t, k, j))
              = f[x] + SumFunctionOnSet(f, Class(t, k, j) \ {x})
        BY <4>1, <4>2, SumWithout
      <4>4. QED  BY <3>2, <4>1, <4>3
    <3>5. \A i \in K \ {j} : h(r)[i] = h(t)[i]
      <4>1. \A i \in K \ {j} : Class(r, k, i) = Class(t, k, i)  BY DEF Class
      <4>2. QED  BY <4>1
    <3>6. \A i \in K : h(r)[i] \in Nat /\ h(t)[i] \in Nat  BY <1>1, <3>2
    <3> HIDE DEF h, r, j
    <3>7. /\ SumFunctionOnSet(h(r), K) \in Nat /\ SumFunctionOnSet(h(t), K) \in Nat
          /\ SumFunctionOnSet(h(t), K) + h(r)[j] = SumFunctionOnSet(h(r), K) + h(t)[j]
      BY <3>2, <3>5, <3>6, SumChanges
    <3>8. SumFunctionOnSet(h(r), K) = SumFunctionOnSet(f, r)  BY <3>2
    <3>9. PICK a \in Nat, b \in Nat, m \in Nat, n \in Nat :
             /\ a = f[x] /\ b = h(r)[j] /\ n = SumFunctionOnSet(h(t), K)
             /\ m = SumFunctionOnSet(h(r), K)
      BY <3>1, <3>2, <3>6, <3>7
    <3>10. n + b = m + (a + b)  BY <3>4, <3>7, <3>9
    <3>11. n = a + m  BY <3>10
    <3>12. QED  BY <3>3, <3>8, <3>9, <3>11
  <2>3. QED  BY <2>1, <2>2
<1> HIDE DEF P
<1>3. S \in P  BY <1>2, SubsetInduction
<1>4. QED  BY <1>3 DEF P

-----------------------------------------------------------------------------
(* Sums over the indices of a sequence: a last term, and a first one.      *)
LEMMA SumLast ==
    ASSUME NEW n \in Nat, NEW f, \A i \in 1..n + 1 : f[i] \in Nat
    PROVE  /\ SumFunctionOnSet(f, 1..n) \in Nat
           /\ SumFunctionOnSet(f, 1..n + 1) = SumFunctionOnSet(f, 1..n) + f[n + 1]
<1>1. IsFiniteSet(1..n) /\ IsFiniteSet(1..n + 1)  BY FS_Interval
<1>2. n + 1 \in 1..n + 1 /\ (1..n + 1) \ {n + 1} = 1..n  OBVIOUS
<1>3. SumFunctionOnSet(f, 1..n) \in Nat  BY <1>1, SumNat
<1>4. SumFunctionOnSet(f, 1..n + 1) = f[n + 1] + SumFunctionOnSet(f, 1..n)
  <2>1. SumFunctionOnSet(f, 1..n + 1) = f[n + 1] + SumFunctionOnSet(f, (1..n + 1) \ {n + 1})
    BY <1>1, <1>2, SumWithout
  <2>2. QED  BY <1>2, <2>1
<1>5. QED  BY <1>2, <1>3, <1>4

LEMMA SumFirst ==
    ASSUME NEW m \in Nat, NEW f, NEW g, \A i \in 1..m + 1 : f[i] \in Nat,
           \A i \in 1..m : g[i] = f[i + 1]
    PROVE  SumFunctionOnSet(f, 1..m + 1) = f[1] + SumFunctionOnSet(g, 1..m)
<1> DEFINE Shifted(n) == SumFunctionOnSet(f, 1..n + 1) = f[1] + SumFunctionOnSet(g, 1..n)
           T == {n \in Nat : n <= m => Shifted(n)}
<1>1. 0 \in T
  <2>1. 0 \in Nat /\ 1..0 = {} /\ f[1] \in Nat /\ \A i \in 1..0 + 1 : f[i] \in Nat
    OBVIOUS
  <2>2. SumFunctionOnSet(f, 1..0 + 1) = SumFunctionOnSet(f, 1..0) + f[0 + 1]
    BY <2>1, SumLast
  <2>3. SumFunctionOnSet(f, 1..0) = 0 /\ SumFunctionOnSet(g, 1..0) = 0  BY <2>1, SumEmpty
  <2>4. QED  BY <2>1, <2>2, <2>3
<1>2. \A n \in T : n + 1 \in T
  <2> TAKE n \in T
  <2> SUFFICES ASSUME n + 1 <= m PROVE Shifted(n + 1)  OBVIOUS
  <2>1. n \in Nat /\ n + 1 \in Nat /\ Shifted(n)  OBVIOUS
  <2>2. /\ \A i \in 1..(n + 1) + 1 : f[i] \in Nat
        /\ \A i \in 1..n + 1 : g[i] \in Nat
        /\ f[1] \in Nat /\ g[n + 1] \in Nat /\ g[n + 1] = f[(n + 1) + 1]
    <3>1. \A i \in 1..(n + 1) + 1 : i \in 1..m + 1  BY <2>1
    <3>2. \A i \in 1..n + 1 : i \in 1..m /\ i + 1 \in 1..m + 1  BY <2>1
    <3>3. 1 \in 1..m + 1 /\ n + 1 \in 1..n + 1  BY <2>1
    <3>4. \A i \in 1..n + 1 : g[i] \in Nat /\ g[i] = f[i + 1]  BY <3>2
    <3>5. QED  BY <3>1, <3>3, <3>4
  <2>3. SumFunctionOnSet(f, 1..(n + 1) + 1) = SumFunctionOnSet(f, 1..n + 1) + f[(n + 1) + 1]
    BY <2>1, <2>2, SumLast
  <2>4. /\ SumFunctionOnSet(g, 1..n) \in Nat
        /\ SumFunctionOnSet(g, 1..n + 1) = SumFunctionOnSet(g, 1..n) + g[n + 1]
    BY <2>1, <2>2, SumLast
  <2>5. QED  BY <2>1, <2>2, <2>3, <2>4
<1>3. T = Nat
  <2> HIDE DEF T
  <2>1. T \in SUBSET Nat  BY DEF T
  <2>2. QED  BY <1>1, <1>2, <2>1, SetInduction
<1>4. QED  BY <1>3
=============================================================================
