-------------------------- MODULE InductionLemmas --------------------------
(***************************************************************************)
(* Induction, and what follows from it about Min, Max and sums.            *)
(*                                                                         *)
(* The induction theorems of the library are about an operator, which none *)
(* of the provers can supply.  That < is well founded on the naturals, and *)
(* that a well-founded relation has minimal members, are stated of sets;   *)
(* induction over naturals and over finite sets follows, with a set in the *)
(* place of the predicate.                                                 *)
(***************************************************************************)
EXTENDS Integers, FiniteSets, FiniteSetsExt, Functions, IndexOrder, WellFoundedInduction,
        FiniteSetTheorems, TLAPS

(* A set of naturals that is not empty has a least member: this is what    *)
(* the library knows of < being well founded.                              *)
LEMMA LeastNat ==
  ASSUME NEW T, T \subseteq Nat, T # {}
  PROVE \E x \in T : \A y \in T : x <= y
<1> DEFINE R == OpToRel(<, Nat)
<1>1. IsWellFoundedOn(R, Nat)
  BY NatLessThanWellFounded
<1>2. \A x, y \in Nat : x < y => <<x, y>> \in R
  BY DEF OpToRel
<1> HIDE DEF R
<1>3. PICK x \in T : \A y \in T : ~ (<<y, x>> \in R)
  BY <1>1, WFMin
<1>4. SUFFICES ASSUME NEW y \in T PROVE x <= y
  OBVIOUS
<1>5. x \in Nat /\ y \in Nat /\ ~(y < x)
  BY <1>2, <1>3
<1> QED
  BY <1>5

(* Induction over the naturals, stated of a set: 0 is in it, and with n    *)
(* also n + 1.                                                             *)
LEMMA NatInd ==
  ASSUME NEW S, S \subseteq Nat, 0 \in S, \A n \in S : n + 1 \in S
  PROVE S = Nat
<1> SUFFICES ASSUME Nat \ S # {} PROVE FALSE
  OBVIOUS
<1>1. PICK x \in Nat \ S : \A y \in Nat \ S : x <= y
  <2> DEFINE T == Nat \ S
  <2>1. T \subseteq Nat /\ T # {}
    OBVIOUS
  <2> HIDE DEF T
  <2>2. \E x \in T : \A y \in T : x <= y
    BY <2>1, LeastNat
  <2> QED BY <2>2 DEF T
<1>2. x # 0 /\ x \in Nat
  OBVIOUS
<1>3. x - 1 \in Nat /\ x - 1 < x /\ x = (x - 1) + 1
  BY <1>2
<1>4. x - 1 \in S
  BY <1>3, <1>1
<1> QED BY <1>3, <1>4

(* Min is the least member of a set of naturals.                           *)
LEMMA MinOf ==
  ASSUME NEW S, S \subseteq Nat, S # {}
  PROVE Min(S) \in S /\ \A y \in S : Min(S) <= y
BY LeastNat DEF Min

(* Max is the greatest member of a set of naturals that has a bound.       *)
LEMMA MaxOf ==
  ASSUME NEW S, S \subseteq Nat, S # {}, NEW n \in Nat, \A y \in S : y <= n
  PROVE Max(S) \in S /\ \A y \in S : y <= Max(S)
<1> DEFINE T == {m \in Nat : \A y \in S : y <= m}
<1>1. T \subseteq Nat /\ n \in T
  OBVIOUS
<1>2. PICK m \in T : \A u \in T : m <= u
  <2> HIDE DEF T
  <2> QED BY <1>1, LeastNat
<1>3. m \in Nat /\ \A y \in S : y <= m
  OBVIOUS
<1>4. m \in S
  <2> SUFFICES ASSUME m \notin S PROVE FALSE
    OBVIOUS
  <2>1. \A y \in S : y \in Nat /\ y < m
    BY <1>3
  <2>0. PICK z \in S : TRUE
    OBVIOUS
  <2> HIDE DEF T
  <2>a. m - 1 \in Nat
    BY <1>3, <2>1, <2>0
  <2>b. \A y \in S : y <= m - 1
    BY <1>3, <2>1
  <2>2. m - 1 \in Nat /\ \A y \in S : y <= m - 1
    BY <2>a, <2>b
  <2>3. m - 1 \in T
    BY <2>2 DEF T
  <2> QED BY <1>2, <1>3, <2>3
<1>5. \A y \in S : m >= y
  BY <1>3
<1>6. Max(S) \in S /\ \A y \in S : Max(S) >= y
  BY <1>4, <1>5 DEF Max
<1> QED BY <1>6

Pick(T) == CHOOSE x \in T : TRUE
Summed(f, g, T) == IF T = {} THEN 0 ELSE f[Pick(T)] + g[T \ {Pick(T)}]
Sums(f, S, g) == \A T \in SUBSET S : g[T] = Summed(f, g, T)

(* What a fold takes from a set is one of its members.                     *)
LEMMA PickIn ==
  ASSUME NEW T, T # {}
  PROVE Pick(T) \in T
BY DEF Pick

(* Induction over the subsets of a finite set: a set is in OK if all sets  *)
(* with one member less are.                                               *)
LEMMA SetInd ==
  ASSUME NEW S, IsFiniteSet(S), NEW OK, {} \in OK,
         \A T \in SUBSET S : T # {} /\ (\A x \in T : T \ {x} \in OK) => T \in OK
  PROVE SUBSET S \subseteq OK
<1> DEFINE Good == {n \in Nat : \A T \in SUBSET S : Cardinality(T) = n => T \in OK}
<1>0. \A T \in SUBSET S : IsFiniteSet(T) /\ Cardinality(T) \in Nat
  BY FS_Subset, FS_CardinalityType
<1>1. 0 \in Good
  <2>1. \A T \in SUBSET S : Cardinality(T) = 0 => T = {}
    BY <1>0, FS_EmptySet
  <2> QED BY <2>1
<1>2. ASSUME NEW n \in Good PROVE n + 1 \in Good
  <2>1. n \in Nat /\ \A T \in SUBSET S : Cardinality(T) = n => T \in OK
    OBVIOUS
  <2> HIDE DEF Good
  <2>2. ASSUME NEW T \in SUBSET S, Cardinality(T) = n + 1 PROVE T \in OK
    <3>1. T # {}
      <4>1. n + 1 # 0
        BY <2>1
      <4> QED BY <4>1, <2>2, FS_EmptySet
    <3>2. ASSUME NEW x \in T PROVE T \ {x} \in OK
      <4>1. Cardinality(T \ {x}) = Cardinality(T) - 1
        BY <1>0, FS_RemoveElement
      <4>2. Cardinality(T \ {x}) = n
        BY <4>1, <2>1, <2>2
      <4> QED BY <4>2, <2>1
    <3> QED BY <3>1, <3>2
  <2> QED BY <2>1, <2>2 DEF Good
<1>3. Good = Nat
  <2> HIDE DEF Good
  <2>1. Good \subseteq Nat
    BY DEF Good
  <2> QED BY <1>1, <1>2, <2>1, NatInd
<1> QED BY <1>0, <1>3

(* There is a function that gives every subset of S its sum, by the        *)
(* equation a fold is written with.                                        *)
LEMMA SumsExist ==
  ASSUME NEW f, NEW S, IsFiniteSet(S)
  PROVE \E g : g = [T \in SUBSET S |-> Summed(f, g, T)]
<1> DEFINE Upto(n) == {T \in SUBSET S : Cardinality(T) <= n}
           OK == {n \in Nat : \E g : \A T \in Upto(n) : g[T] = Summed(f, g, T)}
<1>0. \A T \in SUBSET S : IsFiniteSet(T) /\ Cardinality(T) \in Nat
  BY FS_Subset, FS_CardinalityType
<1>1. 0 \in OK
  <2> DEFINE g == [T \in SUBSET S |-> 0]
  <2>1. \A T \in Upto(0) : T = {}
    BY <1>0, FS_EmptySet
  <2>2. \A T \in Upto(0) : g[T] = Summed(f, g, T)
    BY <2>1 DEF Summed
  <2> QED BY <2>2
<1>2. ASSUME NEW n \in OK PROVE n + 1 \in OK
  <2>1. PICK g : \A T \in Upto(n) : g[T] = Summed(f, g, T)
    OBVIOUS
  <2> DEFINE h == [T \in Upto(n + 1) |-> Summed(f, g, T)]
  <2>2. \A T \in Upto(n + 1) : T # {} => T \ {Pick(T)} \in Upto(n)
    <3> SUFFICES ASSUME NEW T \in Upto(n + 1), T # {} PROVE T \ {Pick(T)} \in Upto(n)
      OBVIOUS
    <3>1. Pick(T) \in T
      BY PickIn
    <3>2. Cardinality(T \ {Pick(T)}) = Cardinality(T) - 1
      BY <3>1, <1>0, FS_RemoveElement
    <3> QED BY <3>2, <1>0
  <2>3. \A T \in Upto(n) : T \in Upto(n + 1)
    BY <1>0
  <2>4. \A T \in Upto(n) : h[T] = g[T]
    BY <2>1, <2>3
  <2>5. \A T \in Upto(n + 1) : h[T] = Summed(f, h, T)
    <3> SUFFICES ASSUME NEW T \in Upto(n + 1) PROVE h[T] = Summed(f, h, T)
      OBVIOUS
    <3>1. h[T] = Summed(f, g, T)
      OBVIOUS
    <3>2. T # {} => h[T \ {Pick(T)}] = g[T \ {Pick(T)}]
      BY <2>2, <2>4
    <3> HIDE DEF h
    <3> QED BY <3>1, <3>2 DEF Summed
  <2>6. \E k : \A T \in Upto(n + 1) : k[T] = Summed(f, k, T)
    <3> HIDE DEF h, Upto
    <3> QED BY <2>5
  <2> QED BY <2>6
<1>3. OK = Nat
  <2> HIDE DEF OK
  <2>1. OK \subseteq Nat
    BY DEF OK
  <2> QED BY <1>1, <1>2, <2>1, NatInd
<1>4. PICK g : \A T \in Upto(Cardinality(S)) : g[T] = Summed(f, g, T)
  BY <1>3, FS_CardinalityType
<1>5. \A T \in SUBSET S : T \in Upto(Cardinality(S))
  BY FS_Subset
<1> DEFINE h == [T \in SUBSET S |-> g[T]]
<1>6. \A T \in SUBSET S : h[T] = Summed(f, h, T)
  <2> SUFFICES ASSUME NEW T \in SUBSET S PROVE h[T] = Summed(f, h, T)
    OBVIOUS
  <2>1. h[T] = Summed(f, g, T)
    BY <1>4, <1>5
  <2>2. h[T \ {Pick(T)}] = g[T \ {Pick(T)}]
    OBVIOUS
  <2> HIDE DEF h
  <2> QED BY <2>1, <2>2 DEF Summed
<1>7. h = [T \in SUBSET S |-> Summed(f, h, T)]
  <2>1. h = [T \in SUBSET S |-> h[T]]
    OBVIOUS
  <2> HIDE DEF h
  <2> QED BY <2>1, <1>6
<1> QED BY <1>7

(* SumFunctionOnSet is the value of such a function.                       *)
LEMMA SumsFix ==
  ASSUME NEW f, NEW S, IsFiniteSet(S)
  PROVE \E g : Sums(f, S, g) /\ SumFunctionOnSet(f, S) = g[S]
<1> DEFINE g == CHOOSE g : g = [T \in SUBSET S |-> Summed(f, g, T)]
<1>1. g = [T \in SUBSET S |-> Summed(f, g, T)]
  BY SumsExist
<1>2. SumFunctionOnSet(f, S) = g[S]
  BY DEF SumFunctionOnSet, FoldFunctionOnSet, MapThenFoldSet, Summed, Pick
<1> HIDE DEF g
<1>3. Sums(f, S, g)
  BY <1>1 DEF Sums
<1> QED BY <1>2, <1>3

(* Two such functions agree on the sets both know.                         *)
LEMMA SumsAgree ==
  ASSUME NEW f, NEW S, NEW R, NEW g, NEW h, Sums(f, S, g), Sums(f, R, h),
         NEW U, U \subseteq S, U \subseteq R, IsFiniteSet(U)
  PROVE g[U] = h[U]
<1> DEFINE OK == {T \in SUBSET U : g[T] = h[T]}
<1>r. \A T \in SUBSET U : g[T] = Summed(f, g, T) /\ h[T] = Summed(f, h, T)
  BY DEF Sums
<1>1. {} \in OK
  BY <1>r DEF Summed
<1>2. \A T \in SUBSET U : T # {} /\ (\A x \in T : T \ {x} \in OK) => T \in OK
  <2> SUFFICES ASSUME NEW T \in SUBSET U, T # {}, \A x \in T : T \ {x} \in OK
               PROVE g[T] = h[T]
    OBVIOUS
  <2>1. g[T \ {Pick(T)}] = h[T \ {Pick(T)}]
    BY PickIn
  <2> QED BY <2>1, <1>r DEF Summed
<1> HIDE DEF OK
<1>3. U \in OK
  BY <1>1, <1>2, SetInd
<1> QED BY <1>3 DEF OK

(* The equation that defines the sum of f over S.                          *)
LEMMA SumPicked ==
  ASSUME NEW f, NEW S, IsFiniteSet(S)
  PROVE SumFunctionOnSet(f, S) =
          IF S = {} THEN 0
          ELSE f[Pick(S)] + SumFunctionOnSet(f, S \ {Pick(S)})
<1>1. PICK g : Sums(f, S, g) /\ SumFunctionOnSet(f, S) = g[S]
  BY SumsFix
<1> DEFINE R == S \ {Pick(S)}
<1>2. IsFiniteSet(R) /\ R \subseteq S
  BY FS_RemoveElement
<1>3. PICK h : Sums(f, R, h) /\ SumFunctionOnSet(f, R) = h[R]
  BY <1>2, SumsFix
<1>4. g[R] = h[R]
  BY <1>1, <1>2, <1>3, SumsAgree
<1>5. g[S] = Summed(f, g, S)
  BY <1>1 DEF Sums
<1> QED BY <1>1, <1>3, <1>4, <1>5 DEF Summed

(* The sum over no member is 0.                                            *)
LEMMA SumOfNone ==
  ASSUME NEW f
  PROVE SumFunctionOnSet(f, {}) = 0
BY SumPicked, FS_EmptySet

(* A sum of naturals is one.                                               *)
LEMMA SumInNat ==
  ASSUME NEW f, NEW S, IsFiniteSet(S), \A x \in S : f[x] \in Nat
  PROVE SumFunctionOnSet(f, S) \in Nat
<1> DEFINE OK == {T \in SUBSET S : SumFunctionOnSet(f, T) \in Nat}
<1>1. {} \in OK
  BY SumOfNone
<1>2. \A T \in SUBSET S : T # {} /\ (\A x \in T : T \ {x} \in OK) => T \in OK
  <2> SUFFICES ASSUME NEW T \in SUBSET S, T # {}, \A x \in T : T \ {x} \in OK
               PROVE SumFunctionOnSet(f, T) \in Nat
    OBVIOUS
  <2>1. Pick(T) \in T
    BY PickIn
  <2>2. SumFunctionOnSet(f, T) = f[Pick(T)] + SumFunctionOnSet(f, T \ {Pick(T)})
    BY FS_Subset, SumPicked
  <2> QED BY <2>1, <2>2
<1> HIDE DEF OK
<1>3. S \in OK
  BY <1>1, <1>2, SetInd
<1> QED BY <1>3 DEF OK

(* Any member may be taken from a sum first, not only the one the fold     *)
(* takes.                                                                  *)
LEMMA SumTake ==
  ASSUME NEW f, NEW S, IsFiniteSet(S), \A x \in S : f[x] \in Nat, NEW e \in S
  PROVE SumFunctionOnSet(f, S) = f[e] + SumFunctionOnSet(f, S \ {e})
<1> DEFINE OK == {T \in SUBSET S :
                    \A x \in T : SumFunctionOnSet(f, T) = f[x] + SumFunctionOnSet(f, T \ {x})}
<1>1. {} \in OK
  OBVIOUS
<1>2. \A T \in SUBSET S : T # {} /\ (\A x \in T : T \ {x} \in OK) => T \in OK
  <2> SUFFICES ASSUME NEW T \in SUBSET S, \A x \in T : T \ {x} \in OK, NEW x \in T
               PROVE SumFunctionOnSet(f, T) = f[x] + SumFunctionOnSet(f, T \ {x})
    OBVIOUS
  <2> DEFINE p == Pick(T)
  <2>1. p \in T
    BY PickIn
  <2>2. SumFunctionOnSet(f, T) = f[p] + SumFunctionOnSet(f, T \ {p})
    BY FS_Subset, SumPicked
  <2> HIDE DEF p
  <2>3. CASE x = p
    BY <2>2, <2>3
  <2>4. CASE x # p
    <3>2. SumFunctionOnSet(f, T \ {p}) = f[x] + SumFunctionOnSet(f, (T \ {p}) \ {x})
      BY <2>1, <2>4
    <3>3. SumFunctionOnSet(f, T \ {x}) = f[p] + SumFunctionOnSet(f, (T \ {x}) \ {p})
      BY <2>1, <2>4
    <3>4. (T \ {x}) \ {p} = (T \ {p}) \ {x}
      OBVIOUS
    <3>5. SumFunctionOnSet(f, (T \ {p}) \ {x}) \in Nat
      BY FS_Subset, SumInNat
    <3>6. f[x] \in Nat /\ f[p] \in Nat
      BY <2>1
    <3> QED BY <2>2, <3>2, <3>3, <3>4, <3>5, <3>6
  <2> QED BY <2>3, <2>4
<1> HIDE DEF OK
<1>3. S \in OK
  BY <1>1, <1>2, SetInd
<1> QED BY <1>3 DEF OK

(* A sum with one more member.                                             *)
LEMMA SumPut ==
  ASSUME NEW f, NEW S, IsFiniteSet(S), NEW e, \A x \in S \cup {e} : f[x] \in Nat, e \notin S
  PROVE SumFunctionOnSet(f, S \cup {e}) = SumFunctionOnSet(f, S) + f[e]
<1> DEFINE R == S \cup {e}
<1>1. IsFiniteSet(R) /\ e \in R /\ R \ {e} = S
  BY FS_AddElement
<1>2. \A x \in R : f[x] \in Nat
  OBVIOUS
<1> HIDE DEF R
<1>3. SumFunctionOnSet(f, R) = f[e] + SumFunctionOnSet(f, S)
  BY <1>1, <1>2, SumTake
<1>4. SumFunctionOnSet(f, S) \in Nat /\ f[e] \in Nat
  BY <1>1, <1>2, SumInNat
<1> QED BY <1>3, <1>4 DEF R

(* Fewer, and smaller, summands give a smaller sum.                        *)
LEMMA SumMonotone ==
  ASSUME NEW f, NEW g, NEW S, NEW R, IsFiniteSet(S), R \subseteq S,
         \A x \in S : g[x] \in Nat,
         \A x \in R : f[x] \in Nat /\ f[x] <= g[x]
  PROVE SumFunctionOnSet(f, R) <= SumFunctionOnSet(g, S)
<1> DEFINE OK == {T \in SUBSET S : SumFunctionOnSet(f, T \cap R) <= SumFunctionOnSet(g, T)}
<1>0. \A T \in SUBSET S : IsFiniteSet(T) /\ IsFiniteSet(T \cap R)
  BY FS_Subset
<1>s. \A T \in SUBSET S :
        SumFunctionOnSet(g, T) \in Nat /\ SumFunctionOnSet(f, T \cap R) \in Nat
  <2> TAKE T \in SUBSET S
  <2>1. SumFunctionOnSet(g, T) \in Nat
    BY <1>0, SumInNat
  <2> DEFINE V == T \cap R
  <2>2. IsFiniteSet(V) /\ \A x \in V : f[x] \in Nat
    BY <1>0
  <2> HIDE DEF V
  <2>3. SumFunctionOnSet(f, V) \in Nat
    BY <2>2, SumInNat
  <2> QED BY <2>1, <2>3 DEF V
<1>1. {} \in OK
  <2>1. {} \cap R = {}
    OBVIOUS
  <2> QED BY <2>1, SumOfNone
<1>2. \A T \in SUBSET S : T # {} /\ (\A x \in T : T \ {x} \in OK) => T \in OK
  <2> SUFFICES ASSUME NEW T \in SUBSET S, \A x \in T : T \ {x} \in OK, NEW x \in T
               PROVE SumFunctionOnSet(f, T \cap R) <= SumFunctionOnSet(g, T)
    OBVIOUS
  <2> DEFINE U == T \ {x}
  <2>1. SumFunctionOnSet(f, U \cap R) <= SumFunctionOnSet(g, U)
    OBVIOUS
  <2>2. SumFunctionOnSet(g, T) = g[x] + SumFunctionOnSet(g, U)
    <3>1. IsFiniteSet(T) /\ \A y \in T : g[y] \in Nat
      BY <1>0
    <3> HIDE DEF OK
    <3> QED BY <3>1, SumTake
  <2>3. U \in SUBSET S
    OBVIOUS
  <2>4. CASE x \in R
    <3> DEFINE V == T \cap R
    <3>1. IsFiniteSet(V) /\ x \in V /\ V \ {x} = U \cap R /\ \A y \in V : f[y] \in Nat
      BY <1>0, <2>4
    <3>2. f[x] \in Nat /\ g[x] \in Nat /\ f[x] <= g[x]
      BY <2>4
    <3> HIDE DEF U, V
    <3>3. SumFunctionOnSet(f, V) = f[x] + SumFunctionOnSet(f, V \ {x})
      BY <3>1, SumTake
    <3>4. SumFunctionOnSet(f, V) = f[x] + SumFunctionOnSet(f, U \cap R)
      BY <3>1, <3>3
    <3>5. SumFunctionOnSet(g, U) \in Nat /\ SumFunctionOnSet(f, U \cap R) \in Nat
      BY <1>s, <2>3
    <3> HIDE DEF OK
    <3>6. SumFunctionOnSet(f, V) <= SumFunctionOnSet(g, T)
      BY <2>1, <2>2, <3>2, <3>4, <3>5
    <3> QED BY <3>6 DEF V
  <2>5. CASE x \notin R
    <3>1. T \cap R = U \cap R
      BY <2>5
    <3>2. g[x] \in Nat
      OBVIOUS
    <3> HIDE DEF U
    <3>5. SumFunctionOnSet(g, U) \in Nat /\ SumFunctionOnSet(f, U \cap R) \in Nat
      BY <1>s, <2>3
    <3> HIDE DEF OK
    <3>6. SumFunctionOnSet(f, U \cap R) <= SumFunctionOnSet(g, T)
      BY <2>1, <2>2, <3>2, <3>5
    <3> QED BY <3>1, <3>6
  <2> QED BY <2>4, <2>5
<1> HIDE DEF OK
<1>3. S \in OK
  BY <1>1, <1>2, SetInd
<1>4. S \cap R = R
  OBVIOUS
<1> QED BY <1>3, <1>4 DEF OK
-----------------------------------------------------------------------------
(* Sorting *)

StrictOrder(D, R) ==
    /\ \A x \in D : <<x, x>> \notin R
    /\ \A x, y \in D : x # y => <<x, y>> \in R \/ <<y, x>> \in R
    /\ \A x, y, z \in D : <<x, y>> \in R /\ <<y, z>> \in R => <<x, z>> \in R

(* Each member has a rank of its own, after the ranks of all before it.    *)
LEMMA RankIs ==
  ASSUME NEW D, IsFiniteSet(D), NEW R, StrictOrder(D, R)
  PROVE /\ \A x \in D : Rank(D, R, x) \in 1 .. Cardinality(D)
        /\ \A x, y \in D : <<x, y>> \in R => Rank(D, R, x) < Rank(D, R, y)
<1> DEFINE Less(x) == {y \in D : <<y, x>> \in R}
<1>1. Cardinality(D) \in Nat
  BY FS_CardinalityType
<1>2. \A x \in D : IsFiniteSet(Less(x)) /\ Cardinality(Less(x)) \in Nat
  BY FS_Subset, FS_CardinalityType
<1>3. ASSUME NEW x \in D PROVE Rank(D, R, x) \in 1 .. Cardinality(D)
  <2> DEFINE T == D \ {x}
             L == Less(x)
  <2>1. L \subseteq T
    BY DEF StrictOrder
  <2>2. IsFiniteSet(T) /\ Cardinality(T) = Cardinality(D) - 1
    BY FS_RemoveElement
  <2>3. Cardinality(L) <= Cardinality(D) - 1
    <3> HIDE DEF L, T
    <3> QED BY <2>1, <2>2, FS_Subset
  <2>4. Cardinality(L) \in Nat
    BY <1>2
  <2>5. Rank(D, R, x) = Cardinality(L) + 1
    BY DEF Rank
  <2> HIDE DEF L
  <2> QED BY <1>1, <2>3, <2>4, <2>5
<1>4. ASSUME NEW x \in D, NEW y \in D, <<x, y>> \in R
      PROVE  Rank(D, R, x) < Rank(D, R, y)
  <2> DEFINE L == Less(x)
             M == Less(y)
  <2>1. L \cup {x} \subseteq M /\ x \notin L
    BY <1>4 DEF StrictOrder
  <2>2. IsFiniteSet(L) /\ IsFiniteSet(M) /\ Cardinality(L) \in Nat /\ Cardinality(M) \in Nat
    BY <1>2
  <2>3. Rank(D, R, x) = Cardinality(L) + 1 /\ Rank(D, R, y) = Cardinality(M) + 1
    BY DEF Rank
  <2> HIDE DEF L, M
  <2>4. Cardinality(L \cup {x}) = Cardinality(L) + 1
    BY <2>1, <2>2, FS_AddElement
  <2>5. Cardinality(L \cup {x}) <= Cardinality(M)
    BY <2>1, <2>2, FS_Subset
  <2> QED BY <2>2, <2>3, <2>4, <2>5
<1> QED BY <1>3, <1>4

(* InOrder gives all members of the set, each once and in order.           *)
LEMMA InOrderIs ==
  ASSUME NEW D, IsFiniteSet(D), NEW R, StrictOrder(D, R), NEW f, f = InOrder(D, R)
  PROVE /\ f \in [1 .. Cardinality(D) -> D]
        /\ \A m, n \in 1 .. Cardinality(D) : m < n => <<f[m], f[n]>> \in R
        /\ \A m, n \in 1 .. Cardinality(D) : m # n => f[m] # f[n]
        /\ \A x \in D : \E n \in 1 .. Cardinality(D) : f[n] = x
<1> DEFINE N == 1 .. Cardinality(D)
           g == [x \in D |-> Rank(D, R, x)]
<1>1. Cardinality(D) \in Nat /\ IsFiniteSet(N) /\ Cardinality(N) = Cardinality(D)
  <2>1. Cardinality(D) \in Nat
    BY FS_CardinalityType
  <2> QED BY <2>1, FS_Interval
<1>2. g \in [D -> N]
  BY RankIs
<1>3. \A x, y \in D : x # y => g[x] # g[y]
  <2> SUFFICES ASSUME NEW x \in D, NEW y \in D, x # y PROVE g[x] # g[y]
    OBVIOUS
  <2>1. <<x, y>> \in R \/ <<y, x>> \in R
    BY DEF StrictOrder
  <2>2. g[x] \in Nat /\ g[y] \in Nat
    BY <1>1, <1>2
  <2>3. g[x] = Rank(D, R, x) /\ g[y] = Rank(D, R, y)
    OBVIOUS
  <2>4. Rank(D, R, x) < Rank(D, R, y) \/ Rank(D, R, y) < Rank(D, R, x)
    BY <2>1, RankIs
  <2> HIDE DEF g
  <2> QED BY <2>2, <2>3, <2>4
<1>4. g \in Injection(D, N)
  <2> HIDE DEF g, N
  <2> QED BY <1>2, <1>3 DEF Injection, IsInjective
<1>5. g \in Surjection(D, N)
  <2> HIDE DEF g, N
  <2> QED BY <1>1, <1>4, FS_Injection
<1>6. \A n \in N : \E x \in D : Rank(D, R, x) = n
  <2>1. \A n \in N : \E x \in D : g[x] = n
    <3> HIDE DEF g, N
    <3> QED BY <1>5 DEF Surjection
  <2> QED BY <2>1
<1>7. f = [n \in N |-> CHOOSE x \in D : Rank(D, R, x) = n]
  BY DEF InOrder
<1>8. \A n \in N : f[n] \in D /\ Rank(D, R, f[n]) = n
  <2> SUFFICES ASSUME NEW n \in N PROVE f[n] \in D /\ Rank(D, R, f[n]) = n
    OBVIOUS
  <2>1. f[n] = CHOOSE x \in D : Rank(D, R, x) = n
    BY <1>7
  <2>2. \E x \in D : Rank(D, R, x) = n
    BY <1>6
  <2> QED BY <2>1, <2>2
<1>9. f \in [N -> D]
  BY <1>7, <1>8
<1>10. \A m, n \in N : m # n => f[m] # f[n]
  BY <1>8
<1>11. ASSUME NEW m \in N, NEW n \in N, m < n PROVE <<f[m], f[n]>> \in R
  <2>1. m \in Nat /\ n \in Nat
    BY <1>1
  <2>2. f[m] \in D /\ f[n] \in D /\ f[m] # f[n] /\ Rank(D, R, f[m]) = m /\ Rank(D, R, f[n]) = n
    BY <1>8, <1>10, <1>11, <2>1
  <2>3. <<f[n], f[m]>> \in R => n < m
    BY <2>2, RankIs
  <2>4. <<f[m], f[n]>> \in R \/ <<f[n], f[m]>> \in R
    BY <2>2 DEF StrictOrder
  <2> QED BY <1>11, <2>1, <2>3, <2>4
<1>12. ASSUME NEW x \in D PROVE \E n \in N : f[n] = x
  <2>1. g[x] \in N /\ g[x] = Rank(D, R, x)
    BY <1>2
  <2>2. f[g[x]] \in D /\ Rank(D, R, f[g[x]]) = g[x]
    <3> HIDE DEF g, N
    <3> QED BY <1>8, <2>1
  <2>3. g[f[g[x]]] = g[x]
    BY <2>2
  <2> HIDE DEF g
  <2>4. f[g[x]] = x
    BY <1>3, <2>2, <2>3
  <2> QED BY <2>1, <2>4
<1> HIDE DEF N, g
<1> QED BY <1>9, <1>10, <1>11, <1>12 DEF N

(* The order of the entries of an index is strict and total.               *)
LEMMA BeforeIs ==
  ASSUME NEW E, \A e \in E : e.key \in Nat /\ e.removed \in BOOLEAN, NEW s \in Seq(E)
  PROVE /\ \A i \in DOMAIN s : ~Before(s, i, i)
        /\ \A i, j \in DOMAIN s : i # j => Before(s, i, j) \/ Before(s, j, i)
        /\ \A i, j, l \in DOMAIN s : Before(s, i, j) /\ Before(s, j, l) => Before(s, i, l)
<1> DEFINE k(i) == s[i].key
           m(i) == s[i].removed
<1>1. \A i \in DOMAIN s : k(i) \in Nat /\ m(i) \in BOOLEAN /\ i \in Nat
  <2>1. \A i \in DOMAIN s : s[i] \in E /\ i \in Nat
    OBVIOUS
  <2> QED BY <2>1
<1>2. \A i, j \in DOMAIN s : Before(s, i, j) <=>
          \/ k(i) < k(j)
          \/ k(i) = k(j) /\ m(i) /\ ~m(j)
          \/ k(i) = k(j) /\ (m(i) <=> m(j)) /\ i < j
  BY <1>1 DEF Before
<1> HIDE DEF k, m
<1> QED BY <1>1, <1>2

(* The sorted index is a permutation of the index, in order:               *)
(* eblob_disk_control_sort_with_flags.                                     *)
Sorts(s, f) ==
    /\ SortedByKey(s) = [p \in DOMAIN s |-> s[f[p]]]
    /\ \A p, q \in DOMAIN s : p < q => Before(s, f[p], f[q])
    /\ \A p, q \in DOMAIN s : p # q => f[p] # f[q]
    /\ \A i \in DOMAIN s : \E p \in DOMAIN s : f[p] = i

(* Sorting an index permutes its entries and puts them in order.           *)
LEMMA SortIs ==
  ASSUME NEW E, \A e \in E : e.key \in Nat /\ e.removed \in BOOLEAN, NEW s \in Seq(E)
  PROVE \E f \in [DOMAIN s -> DOMAIN s] : Sorts(s, f)
<1> DEFINE D == DOMAIN s
           R == KeyOrder(s)
           f == InOrder(D, R)
<1>1. D = 1 .. Len(s) /\ Len(s) \in Nat
  OBVIOUS
<1>2. IsFiniteSet(D) /\ Cardinality(D) = Len(s)
  BY <1>1, FS_Interval
<1>3. \A i, j \in D : <<i, j>> \in R <=> Before(s, i, j)
  BY DEF KeyOrder
<1>4. StrictOrder(D, R)
  <2> HIDE DEF R
  <2> QED BY <1>3, BeforeIs DEF StrictOrder
<1>5. SortedByKey(s) = [p \in D |-> s[f[p]]]
  BY DEF SortedByKey
<1> HIDE DEF f, R
<1>6. /\ f \in [1 .. Cardinality(D) -> D]
      /\ \A m, n \in 1 .. Cardinality(D) : m < n => <<f[m], f[n]>> \in R
      /\ \A m, n \in 1 .. Cardinality(D) : m # n => f[m] # f[n]
      /\ \A x \in D : \E n \in 1 .. Cardinality(D) : f[n] = x
  <2> HIDE DEF D
  <2> QED BY <1>2, <1>4, InOrderIs DEF f
<1>7. 1 .. Cardinality(D) = D
  BY <1>1, <1>2
<1>8. /\ f \in [D -> D]
      /\ \A m, n \in D : m < n => <<f[m], f[n]>> \in R
      /\ \A m, n \in D : m # n => f[m] # f[n]
      /\ \A x \in D : \E n \in D : f[n] = x
  BY <1>6, <1>7
<1>9. \A p, q \in D : p < q => Before(s, f[p], f[q])
  BY <1>3, <1>8
<1> QED BY <1>5, <1>8, <1>9 DEF Sorts
=============================================================================
