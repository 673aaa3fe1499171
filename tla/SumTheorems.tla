----------------------------- MODULE SumTheorems -----------------------------
(***************************************************************************)
(* What SumOver computes, for every finite set.  The fold of the community *)
(* modules names a recursive function by CHOOSE: it is shown to exist, to  *)
(* be the only one, and not to depend on the order of the choices.         *)
(*                                                                         *)
(* Each induction is over sets, as "a set of counterexamples has a         *)
(* smallest": a theorem whose parameter is a predicate cannot be           *)
(* instantiated here, one whose parameter is a set can.                    *)
(***************************************************************************)
EXTENDS Integers, Sums, FiniteSetTheorems, WellFoundedInduction, TLAPS

Less == {ss \in Nat \X Nat : ss[1] < ss[2]}

LEMMA LessIsWellFounded == IsWellFoundedOn(Less, Nat)
  BY NatLessThanWellFounded DEF Less, OpToRel

(* Every set of natural numbers has a least one.                           *)
LEMMA LeastNumber ==
    ASSUME NEW T, T \subseteq Nat, T # {}
    PROVE  \E x \in T : \A y \in T : x <= y
<1>1. \A a, b \in Nat : a < b => <<a, b>> \in Less
  BY DEF Less
<1>2. PICK x \in T : \A y \in T : ~ (<<y, x>> \in Less)
  BY LessIsWellFounded, WFMin
<1>3. ASSUME NEW y \in T PROVE x <= y
  <2>1. x \in Nat /\ y \in Nat /\ ~(y < x)
    BY <1>1, <1>2
  <2> QED
    BY <2>1
<1> QED
  BY <1>3

(* Of some subsets of a finite set, one has no smaller one among them.     *)
LEMMA LeastSubset ==
    ASSUME NEW S, IsFiniteSet(S), NEW T, T \subseteq SUBSET S, T # {}
    PROVE  \E t \in T : \A x \in t : t \ {x} \notin T
<1> DEFINE Sizes == {Cardinality(t) : t \in T}
<1>1. \A t \in T : IsFiniteSet(t) /\ Cardinality(t) \in Nat
  BY FS_Subset, FS_CardinalityType
<1>2. Sizes \subseteq Nat /\ Sizes # {}
  BY <1>1
<1>3. PICK n \in Sizes : \A m \in Sizes : n <= m
  <2> HIDE DEF Sizes
  <2> QED
    BY <1>2, LeastNumber
<1>4. PICK t \in T : n = Cardinality(t)
  OBVIOUS
<1>5. ASSUME NEW x \in t, t \ {x} \in T PROVE FALSE
  <2>1. Cardinality(t \ {x}) = n - 1
    BY <1>1, <1>4, FS_RemoveElement
  <2>2. n <= Cardinality(t \ {x})
    BY <1>3, <1>5
  <2>3. n \in Nat
    BY <1>1, <1>4
  <2> QED
    BY <2>1, <2>2, <2>3
<1> QED
  BY <1>5

(* The recursion that the fold names, and its solutions on the subsets of  *)
(* at most n elements.                                                     *)
Chosen(s) == CHOOSE x \in s : TRUE
Adds(f, S, g) ==
    g = [s \in SUBSET S |-> IF s = {} THEN 0 ELSE f[Chosen(s)] + g[s \ {Chosen(s)}]]
Summed(f, S) == CHOOSE g : Adds(f, S, g)

LEMMA Unfolded == ASSUME NEW f, NEW S PROVE SumOver(f, S) = Summed(f, S)[S]
  BY DEF SumOver, MapThenSumSet, MapThenFoldSet, Summed, Adds, Chosen

Small(S, n) == {s \in SUBSET S : Cardinality(s) <= n}
Solves(f, S, n, g) ==
    /\ g \in [Small(S, n) -> Int]
    /\ \A s \in Small(S, n) : g[s] = IF s = {} THEN 0 ELSE f[Chosen(s)] + g[s \ {Chosen(s)}]

LEMMA SmallerSubset ==
    ASSUME NEW S, IsFiniteSet(S), NEW n \in Nat, NEW s \in Small(S, n), s # {}
    PROVE  /\ Chosen(s) \in S /\ n # 0
           /\ s \ {Chosen(s)} \in Small(S, n - 1)
           /\ s \ {Chosen(s)} \in Small(S, n)
<1>1. Chosen(s) \in s
  BY DEF Chosen
<1>2. IsFiniteSet(s) /\ s \subseteq S
  BY FS_Subset DEF Small
<1>3. Cardinality(s) \in Nat /\ Cardinality(s) # 0 /\ Cardinality(s \ {Chosen(s)}) = Cardinality(s) - 1
  BY <1>1, <1>2, FS_CardinalityType, FS_EmptySet, FS_RemoveElement
<1>4. Cardinality(s) <= n
  BY DEF Small
<1>5. Cardinality(s \ {Chosen(s)}) <= n - 1 /\ Cardinality(s \ {Chosen(s)}) <= n /\ n # 0
  BY <1>3, <1>4
<1> QED
  BY <1>1, <1>2, <1>5 DEF Small

LEMMA OneMore ==
    ASSUME NEW f, NEW S, IsFiniteSet(S), \A x \in S : f[x] \in Int,
           NEW n \in Nat, NEW g, Solves(f, S, n, g)
    PROVE  \E h : Solves(f, S, n + 1, h)
<1> DEFINE h == [s \in Small(S, n + 1) |-> IF s = {} THEN 0 ELSE f[Chosen(s)] + g[s \ {Chosen(s)}]]
<1>1. ASSUME NEW s \in Small(S, n + 1), s # {}
      PROVE  /\ s \ {Chosen(s)} \in Small(S, n) /\ f[Chosen(s)] \in Int /\ g[s \ {Chosen(s)}] \in Int
             /\ s \ {Chosen(s)} \in Small(S, n + 1)
  <2>1. s \ {Chosen(s)} \in Small(S, n + 1 - 1) /\ s \ {Chosen(s)} \in Small(S, n + 1) /\ Chosen(s) \in S
    BY <1>1, SmallerSubset
  <2>2. s \ {Chosen(s)} \in Small(S, n)
    BY <2>1
  <2> QED
    BY <2>1, <2>2 DEF Solves
<1>2. \A s \in Small(S, n) : h[s] = g[s]
  <2> TAKE s \in Small(S, n)
  <2>1. s \in Small(S, n + 1)
    <3>1. Cardinality(s) \in Nat
      BY FS_Subset, FS_CardinalityType DEF Small
    <3> QED
      BY <3>1 DEF Small
  <2> QED
    BY <2>1 DEF Solves
<1>3. h \in [Small(S, n + 1) -> Int]
  <2>1. ASSUME NEW s \in Small(S, n + 1)
        PROVE  (IF s = {} THEN 0 ELSE f[Chosen(s)] + g[s \ {Chosen(s)}]) \in Int
    <3>1. CASE s = {}
      BY <3>1
    <3>2. CASE s # {}
      <4>1. f[Chosen(s)] \in Int /\ g[s \ {Chosen(s)}] \in Int
        BY <1>1, <3>2
      <4>2. f[Chosen(s)] + g[s \ {Chosen(s)}] \in Int
        BY <4>1
      <4> QED
        BY <3>2, <4>2
    <3> QED
      BY <3>1, <3>2
  <2> QED
    BY <2>1
<1>4. ASSUME NEW s \in Small(S, n + 1)
      PROVE  h[s] = IF s = {} THEN 0 ELSE f[Chosen(s)] + h[s \ {Chosen(s)}]
  BY <1>1, <1>2
<1>5. Solves(f, S, n + 1, h)
  BY <1>3, <1>4 DEF Solves
<1> QED
  BY <1>5

LEMMA Solvable ==
    ASSUME NEW f, NEW S, IsFiniteSet(S), \A x \in S : f[x] \in Int
    PROVE  \A n \in Nat : \E g : Solves(f, S, n, g)
<1> DEFINE T == {n \in Nat : ~ \E g : Solves(f, S, n, g)}
<1>1. SUFFICES ASSUME T # {} PROVE FALSE
  OBVIOUS
<1>2. PICK n \in T : \A k \in T : n <= k
  BY <1>1, LeastNumber
<1>3. n # 0
  <2>1. Solves(f, S, 0, [s \in Small(S, 0) |-> 0])
    <3>1. \A s \in Small(S, 0) : s = {}
      BY SmallerSubset
    <3> QED
      BY <3>1 DEF Solves
  <2> QED
    BY <1>2, <2>1
<1>4. n - 1 \in Nat /\ n - 1 \notin T /\ (n - 1) + 1 = n
  BY <1>2, <1>3
<1>5. PICK g : Solves(f, S, n - 1, g)
  BY <1>4
<1>6. \E h : Solves(f, S, (n - 1) + 1, h)
  BY <1>4, <1>5, OneMore
<1> QED
  BY <1>2, <1>4, <1>6

LEMMA FoldExists ==
    ASSUME NEW f, NEW S, IsFiniteSet(S), \A x \in S : f[x] \in Int
    PROVE  Adds(f, S, Summed(f, S))
<1>1. Cardinality(S) \in Nat /\ \A s \in SUBSET S : s \in Small(S, Cardinality(S))
  BY FS_CardinalityType, FS_Subset DEF Small
<1>2. Small(S, Cardinality(S)) = SUBSET S
  BY <1>1 DEF Small
<1>3. PICK g : Solves(f, S, Cardinality(S), g)
  BY <1>1, Solvable
<1>4. /\ g \in [SUBSET S -> Int]
      /\ \A s \in SUBSET S : g[s] = IF s = {} THEN 0 ELSE f[Chosen(s)] + g[s \ {Chosen(s)}]
  BY <1>2, <1>3 DEF Solves
<1>5. Adds(f, S, g)
  BY <1>4 DEF Adds
<1> QED
  BY <1>5 DEF Summed

(* Two such functions, over a set and over one of its subsets, agree.      *)
LEMMA FoldsAgree ==
    ASSUME NEW f, NEW S, IsFiniteSet(S), NEW T \in SUBSET S,
           NEW g, Adds(f, S, g), NEW h, Adds(f, T, h)
    PROVE  \A u \in SUBSET T : g[u] = h[u]
<1> DEFINE Bad == {u \in SUBSET T : g[u] # h[u]}
<1>1. SUFFICES ASSUME Bad # {} PROVE FALSE
  OBVIOUS
<1>2. IsFiniteSet(T)
  BY FS_Subset
<1>3. PICK u \in Bad : \A x \in u : u \ {x} \notin Bad
  <2>1. Bad \subseteq SUBSET T
    OBVIOUS
  <2> HIDE DEF Bad
  <2> QED
    BY <1>1, <1>2, <2>1, LeastSubset
<1>4. u # {}
  BY <1>3 DEF Adds
<1>5. Chosen(u) \in u /\ u \ {Chosen(u)} \in SUBSET T /\ u \in SUBSET S
  BY <1>4 DEF Chosen
<1>6. g[u] = f[Chosen(u)] + g[u \ {Chosen(u)}] /\ h[u] = f[Chosen(u)] + h[u \ {Chosen(u)}]
  BY <1>4, <1>5 DEF Adds
<1>7. g[u \ {Chosen(u)}] = h[u \ {Chosen(u)}]
  BY <1>3, <1>5
<1> QED
  BY <1>3, <1>6, <1>7

LEMMA SumEmpty == ASSUME NEW f PROVE SumOver(f, {}) = 0
<1>1. Adds(f, {}, Summed(f, {}))
  BY FS_EmptySet, FoldExists
<1> QED
  BY <1>1, Unfolded DEF Adds

LEMMA SumUnfolds ==
    ASSUME NEW f, NEW S, IsFiniteSet(S), \A x \in S : f[x] \in Int, S # {}
    PROVE  SumOver(f, S) = f[Chosen(S)] + SumOver(f, S \ {Chosen(S)})
<1> DEFINE R == S \ {Chosen(S)}
<1>1. IsFiniteSet(R) /\ R \in SUBSET S
  BY FS_Subset
<1>2. Adds(f, S, Summed(f, S)) /\ Adds(f, R, Summed(f, R))
  BY <1>1, FoldExists
<1>3. Summed(f, S)[R] = Summed(f, R)[R]
  <2> HIDE DEF R
  <2>1. \A u \in SUBSET R : Summed(f, S)[u] = Summed(f, R)[u]
    BY <1>1, <1>2, FoldsAgree
  <2> QED
    BY <2>1
<1>4. Summed(f, S)[S] = f[Chosen(S)] + Summed(f, S)[R]
  BY <1>2 DEF Adds
<1> QED
  BY <1>3, <1>4, Unfolded

LEMMA SumInt ==
    ASSUME NEW f, NEW S, IsFiniteSet(S), \A x \in S : f[x] \in Int
    PROVE  SumOver(f, S) \in Int
<1> DEFINE Bad == {t \in SUBSET S : SumOver(f, t) \notin Int}
<1>1. SUFFICES ASSUME Bad # {} PROVE FALSE
  OBVIOUS
<1>2. PICK t \in Bad : \A x \in t : t \ {x} \notin Bad
  <2>1. Bad \subseteq SUBSET S
    OBVIOUS
  <2> HIDE DEF Bad
  <2> QED
    BY <1>1, <2>1, LeastSubset
<1>3. IsFiniteSet(t) /\ t \subseteq S /\ t # {}
  <2>1. t \subseteq S /\ SumOver(f, t) \notin Int
    BY <1>2
  <2>2. SumOver(f, {}) \in Int
    BY SumEmpty
  <2> QED
    BY <2>1, <2>2, FS_Subset
<1>4. Chosen(t) \in t /\ SumOver(f, t) = f[Chosen(t)] + SumOver(f, t \ {Chosen(t)})
  <2>1. Chosen(t) \in t
    BY <1>3 DEF Chosen
  <2> QED
    BY <1>3, <2>1, SumUnfolds
<1>5. SumOver(f, t \ {Chosen(t)}) \in Int /\ f[Chosen(t)] \in Int
  BY <1>2, <1>3, <1>4
<1> QED
  BY <1>2, <1>4, <1>5

(* Chosen element may be the one to begin with.                               *)
LEMMA SumRemove ==
    ASSUME NEW f, NEW S, IsFiniteSet(S), \A x \in S : f[x] \in Int, NEW x \in S
    PROVE  SumOver(f, S) = f[x] + SumOver(f, S \ {x})
<1> DEFINE Takes(t, y) == SumOver(f, t) = f[y] + SumOver(f, t \ {y})
           Bad == {t \in SUBSET S : \E y \in t : ~Takes(t, y)}
<1>1. SUFFICES ASSUME Bad # {} PROVE FALSE
  OBVIOUS
<1>2. PICK t \in Bad : \A y \in t : t \ {y} \notin Bad
  <2>1. Bad \subseteq SUBSET S
    OBVIOUS
  <2> HIDE DEF Bad
  <2> QED
    BY <1>1, <2>1, LeastSubset
<1>3. PICK y \in t : ~Takes(t, y)
  BY <1>2
<1> DEFINE a == Chosen(t)
           u == (t \ {a}) \ {y}
<1>4. t \subseteq S /\ a \in t /\ y \in t /\ u \subseteq S /\ t \ {y} \subseteq S /\ t \ {a} \subseteq S
  BY <1>2 DEF Chosen
<1>5. IsFiniteSet(t) /\ IsFiniteSet(t \ {y}) /\ IsFiniteSet(t \ {a}) /\ IsFiniteSet(u)
  BY <1>4, FS_Subset
<1>6. /\ f[a] \in Int /\ f[y] \in Int
      /\ SumOver(f, u) \in Int
  BY <1>4, <1>5, SumInt
<1>7. Takes(t, a)
  BY <1>4, <1>5, SumUnfolds
<1>8. a # y
  BY <1>3, <1>7
<1>9. Takes(t \ {a}, y) /\ Takes(t \ {y}, a)
  BY <1>2, <1>4, <1>8
<1>10. (t \ {y}) \ {a} = u
  OBVIOUS
<1>11. SumOver(f, t \ {a}) = f[y] + SumOver(f, u) /\ SumOver(f, t \ {y}) = f[a] + SumOver(f, u)
  BY <1>9, <1>10
<1>12. SumOver(f, t) = f[a] + SumOver(f, t \ {a}) /\ SumOver(f, t) # f[y] + SumOver(f, t \ {y})
  BY <1>3, <1>7
<1> HIDE DEF u, a, Takes, Bad
<1> QED
  BY <1>6, <1>11, <1>12

(* An element more.                                                        *)
LEMMA SumInsert ==
    ASSUME NEW f, NEW S, IsFiniteSet(S), \A y \in S : f[y] \in Int,
           NEW x, x \notin S, f[x] \in Int
    PROVE  SumOver(f, S \cup {x}) = SumOver(f, S) + f[x]
<1>1. IsFiniteSet(S \cup {x}) /\ (S \cup {x}) \ {x} = S
  BY FS_AddElement
<1>2. SumOver(f, S \cup {x}) = f[x] + SumOver(f, (S \cup {x}) \ {x})
  BY <1>1, SumRemove
<1>3. SumOver(f, (S \cup {x}) \ {x}) = SumOver(f, S)
  BY <1>1
<1>4. SumOver(f, S) \in Int
  BY SumInt
<1> QED
  BY <1>2, <1>3, <1>4

(* The sum depends on the elements alone.                                  *)
LEMMA SumSame ==
    ASSUME NEW f, NEW g, NEW S, IsFiniteSet(S),
           \A x \in S : f[x] \in Int /\ g[x] = f[x]
    PROVE  SumOver(g, S) = SumOver(f, S)
<1> DEFINE Bad == {t \in SUBSET S : SumOver(g, t) # SumOver(f, t)}
<1>1. SUFFICES ASSUME Bad # {} PROVE FALSE
  OBVIOUS
<1>2. PICK t \in Bad : \A x \in t : t \ {x} \notin Bad
  <2>1. Bad \subseteq SUBSET S
    OBVIOUS
  <2> HIDE DEF Bad
  <2> QED
    BY <1>1, <2>1, LeastSubset
<1>3. IsFiniteSet(t) /\ t \subseteq S /\ t # {}
  BY <1>2, FS_Subset, SumEmpty
<1>4. PICK x : x \in t
  BY <1>3
<1>5. SumOver(g, t) = g[x] + SumOver(g, t \ {x}) /\ SumOver(f, t) = f[x] + SumOver(f, t \ {x})
  BY <1>3, <1>4, SumRemove
<1>6. SumOver(g, t \ {x}) = SumOver(f, t \ {x})
  BY <1>2, <1>3, <1>4
<1> QED
  BY <1>2, <1>3, <1>4, <1>5, <1>6

(* A bound on every element is one on the sum: linear, with an error each. *)
LEMMA SumBound ==
    ASSUME NEW f, NEW g, NEW S, IsFiniteSet(S),
           NEW a \in Int, NEW b \in Int, NEW e \in Int,
           \A x \in S : f[x] \in Int /\ g[x] \in Int /\ a * f[x] <= b * g[x] + e
    PROVE  a * SumOver(f, S) <= b * SumOver(g, S) + e * Cardinality(S)
<1> DEFINE Holds(t) == a * SumOver(f, t) <= b * SumOver(g, t) + e * Cardinality(t)
           Bad == {t \in SUBSET S : ~Holds(t)}
<1>1. SUFFICES ASSUME Bad # {} PROVE FALSE
  OBVIOUS
<1>2. PICK t \in Bad : \A x \in t : t \ {x} \notin Bad
  <2>1. Bad \subseteq SUBSET S
    OBVIOUS
  <2> HIDE DEF Bad
  <2> QED
    BY <1>1, <2>1, LeastSubset
<1>3. IsFiniteSet(t) /\ t \subseteq S
  BY <1>2, FS_Subset
<1>4. t # {}
  <2>1. Holds({})
    BY SumEmpty, FS_EmptySet
  <2> QED
    BY <1>2, <2>1
<1>5. PICK x : x \in t
  BY <1>4
<1> DEFINE r == t \ {x}
<1>6. IsFiniteSet(r) /\ r \subseteq S /\ Cardinality(r) \in Nat /\ Cardinality(t) = Cardinality(r) + 1
  <2>1. IsFiniteSet(r) /\ r \subseteq S
    BY <1>3, FS_Subset
  <2>2. Cardinality(r) = Cardinality(t) - 1
    BY <1>3, <1>5, FS_RemoveElement
  <2>3. Cardinality(r) \in Nat /\ Cardinality(t) \in Nat
    BY <1>3, <2>1, FS_CardinalityType
  <2> QED
    BY <2>1, <2>2, <2>3
<1>7. SumOver(g, t) = g[x] + SumOver(g, r) /\ SumOver(f, t) = f[x] + SumOver(f, r)
  BY <1>3, <1>5, SumRemove
<1>8. SumOver(f, r) \in Int /\ SumOver(g, r) \in Int /\ f[x] \in Int /\ g[x] \in Int
  BY <1>3, <1>5, <1>6, SumInt
<1>9. Holds(r)
  BY <1>2, <1>3, <1>5
<1>10. a * f[x] <= b * g[x] + e
  BY <1>3, <1>5
<1>11. ASSUME NEW F \in Int, NEW G \in Int, NEW y \in Int, NEW z \in Int, NEW n \in Int,
             a * F <= b * G + e * n, a * y <= b * z + e
      PROVE  a * (y + F) <= b * (z + G) + e * (n + 1)
  <2>1. a * (y + F) = a * y + a * F /\ b * (z + G) = b * z + b * G /\ e * (n + 1) = e * n + e
    OBVIOUS
  <2>2. a * y \in Int /\ a * F \in Int /\ b * z \in Int /\ b * G \in Int /\ e * n \in Int
    OBVIOUS
  <2> QED
    BY <1>11, <2>1, <2>2
<1>12. Holds(t)
  BY <1>6, <1>7, <1>8, <1>9, <1>10, <1>11
<1> QED
  BY <1>2, <1>12

LEMMA SumNat ==
    ASSUME NEW f, NEW S, IsFiniteSet(S), \A x \in S : f[x] \in Nat
    PROVE  SumOver(f, S) \in Nat
<1>1. SumOver(f, S) \in Int
  BY SumInt
<1>2. 0 * SumOver(f, S) <= 1 * SumOver(f, S) + 0 * Cardinality(S)
  <2>1. 0 \in Int /\ 1 \in Int /\ \A x \in S : f[x] \in Int /\ 0 * f[x] <= 1 * f[x] + 0
    OBVIOUS
  <2> QED
    BY ONLY IsFiniteSet(S), <2>1, SumBound
<1>3. Cardinality(S) \in Int
  BY FS_CardinalityType
<1> QED
  BY <1>1, <1>2, <1>3

(* A sum of positive numbers is zero when there are none.                  *)
LEMMA SumZero ==
    ASSUME NEW f, NEW S, IsFiniteSet(S), \A x \in S : f[x] \in Nat \ {0}
    PROVE  SumOver(f, S) = 0 <=> S = {}
<1>1. ASSUME NEW x \in S PROVE SumOver(f, S) # 0
  <2>1. SumOver(f, S) = f[x] + SumOver(f, S \ {x})
    BY SumRemove
  <2>2. SumOver(f, S \ {x}) \in Nat
    BY FS_Subset, SumNat
  <2> QED
    BY <2>1, <2>2
<1> QED
  BY <1>1, SumEmpty

LEMMA SumConstant ==
    ASSUME NEW f, NEW S, IsFiniteSet(S), NEW q \in Int, \A x \in S : f[x] = q
    PROVE  SumOver(f, S) = q * Cardinality(S)
<1>1. Cardinality(S) \in Nat /\ SumOver(f, S) \in Int
  BY FS_CardinalityType, SumInt
<1>2. 1 * SumOver(f, S) <= 0 * SumOver(f, S) + q * Cardinality(S)
  <2>1. \A x \in S : f[x] \in Int /\ f[x] \in Int /\ 1 * f[x] <= 0 * f[x] + q
    OBVIOUS
  <2>2. 1 \in Int /\ 0 \in Int
    OBVIOUS
  <2> QED
    BY <2>1, <2>2, SumBound
<1>3. 0 * SumOver(f, S) <= 1 * SumOver(f, S) + (-q) * Cardinality(S)
  <2>1. \A x \in S : f[x] \in Int /\ f[x] \in Int /\ 0 * f[x] <= 1 * f[x] + (-q)
    OBVIOUS
  <2>2. 1 \in Int /\ 0 \in Int /\ -q \in Int
    OBVIOUS
  <2> QED
    BY <2>1, <2>2, SumBound
<1>4. ASSUME NEW s \in Int, NEW n \in Nat, 1 * s <= 0 * s + q * n, 0 * s <= 1 * s + (-q) * n
      PROVE  s = q * n
  <2>1. (-q) * n = -(q * n) /\ q * n \in Int
    OBVIOUS
  <2> QED
    BY <1>4, <2>1
<1> QED
  BY <1>1, <1>2, <1>3, <1>4

(* Leaving zeros out, enlarging elements and adding some make no sum       *)
(* smaller.                                                                *)
LEMMA SumMonotone ==
    ASSUME NEW f, NEW g, NEW S, IsFiniteSet(S), NEW T, IsFiniteSet(T),
           \A x \in S : f[x] \in Nat, \A x \in T : g[x] \in Nat,
           \A x \in S : f[x] = 0 \/ (x \in T /\ f[x] <= g[x])
    PROVE  SumOver(f, S) <= SumOver(g, T)
<1> DEFINE U == S \cup T
           Holds(u) == SumOver(f, u \cap S) <= SumOver(g, u \cap T)
           Bad == {u \in SUBSET U : ~Holds(u)}
<1>1. SUFFICES ASSUME Bad # {} PROVE FALSE
  <2>1. Holds(U)
    BY <1>1
  <2>2. U \cap S = S /\ U \cap T = T
    OBVIOUS
  <2> QED
    BY <2>1, <2>2
<1>2. PICK u \in Bad : \A x \in u : u \ {x} \notin Bad
  <2>1. Bad \subseteq SUBSET U /\ IsFiniteSet(U)
    BY FS_Union
  <2> HIDE DEF Bad, U
  <2> QED
    BY <1>1, <2>1, LeastSubset
<1>3. u \subseteq U /\ ~Holds(u)
  BY <1>2
<1>4. u # {}
  <2>1. Holds({})
    BY SumEmpty
  <2> QED
    BY <1>3, <2>1
<1>5. PICK x : x \in u
  BY <1>4
<1> DEFINE r == u \ {x}
<1>6. Holds(r)
  BY <1>2, <1>3, <1>5
<1>7. /\ IsFiniteSet(u \cap S) /\ IsFiniteSet(u \cap T) /\ IsFiniteSet(r \cap S) /\ IsFiniteSet(r \cap T)
  <2>1. u \cap S \in SUBSET S /\ u \cap T \in SUBSET T /\ r \cap S \in SUBSET S /\ r \cap T \in SUBSET T
    OBVIOUS
  <2> QED
    BY <2>1, FS_Subset
<1>8. SumOver(f, r \cap S) \in Nat /\ SumOver(g, r \cap T) \in Nat
  <2>1. (\A y \in r \cap S : f[y] \in Nat) /\ (\A y \in r \cap T : g[y] \in Nat)
    OBVIOUS
  <2> QED
    BY <1>7, <2>1, SumNat
<1>9. SumOver(f, u \cap S) = IF x \in S THEN f[x] + SumOver(f, r \cap S) ELSE SumOver(f, r \cap S)
  <2>1. CASE x \in S
    <3>1. x \in u \cap S /\ (u \cap S) \ {x} = r \cap S /\ \A y \in u \cap S : f[y] \in Int
      BY <1>5, <2>1
    <3>2. SumOver(f, u \cap S) = f[x] + SumOver(f, (u \cap S) \ {x})
      BY <1>7, <3>1, SumRemove
    <3> QED
      BY <2>1, <3>1, <3>2
  <2>2. CASE x \notin S
    <3>1. u \cap S = r \cap S
      BY <2>2
    <3> QED
      BY <2>2, <3>1
  <2> QED
    BY <2>1, <2>2
<1>10. SumOver(g, u \cap T) = IF x \in T THEN g[x] + SumOver(g, r \cap T) ELSE SumOver(g, r \cap T)
  <2>1. CASE x \in T
    <3>1. x \in u \cap T /\ (u \cap T) \ {x} = r \cap T /\ \A y \in u \cap T : g[y] \in Int
      BY <1>5, <2>1
    <3>2. SumOver(g, u \cap T) = g[x] + SumOver(g, (u \cap T) \ {x})
      BY <1>7, <3>1, SumRemove
    <3> QED
      BY <2>1, <3>1, <3>2
  <2>2. CASE x \notin T
    <3>1. u \cap T = r \cap T
      BY <2>2
    <3> QED
      BY <2>2, <3>1
  <2> QED
    BY <2>1, <2>2
<1>11. /\ x \in S => f[x] \in Nat /\ (f[x] = 0 \/ (x \in T /\ f[x] <= g[x]))
       /\ x \in T => g[x] \in Nat
  OBVIOUS
<1>12. Holds(u)
  <2> DEFINE F == SumOver(f, r \cap S)
             G == SumOver(g, r \cap T)
  <2>1. F \in Nat /\ G \in Nat /\ F <= G
    BY <1>6, <1>8
  <2>2. SumOver(f, u \cap S) = IF x \in S THEN f[x] + F ELSE F
    BY <1>9
  <2>3. SumOver(g, u \cap T) = IF x \in T THEN g[x] + G ELSE G
    BY <1>10
  <2> HIDE DEF F, G
  <2> QED
    BY <1>11, <2>1, <2>2, <2>3
<1> QED
  BY <1>3, <1>12

(* Every element of P falls under one s of S, or under none: the sizes of  *)
(* the parts add up.                                                       *)
LEMMA SumOfParts ==
    ASSUME NEW f, NEW P, IsFiniteSet(P), NEW S, IsFiniteSet(S), \A d \in P : f[d] \in S
    PROVE  SumOver([s \in S |-> Cardinality({d \in P : f[d] = s})], S) = Cardinality(P)
<1> DEFINE Part(s) == {d \in P : f[d] = s}
           Among(t) == {d \in P : f[d] \in t}
           g == [s \in S |-> Cardinality(Part(s))]
           Bad == {t \in SUBSET S : SumOver(g, t) # Cardinality(Among(t))}
<1>1. SUFFICES ASSUME Bad # {} PROVE FALSE
  <2>1. SumOver(g, S) = Cardinality(Among(S))
    BY <1>1
  <2>2. Among(S) = P
    OBVIOUS
  <2> QED
    BY <2>1, <2>2
<1>2. PICK t \in Bad : \A x \in t : t \ {x} \notin Bad
  <2>1. Bad \subseteq SUBSET S
    OBVIOUS
  <2> HIDE DEF Bad
  <2> QED
    BY <1>1, <2>1, LeastSubset
<1>3. t \subseteq S /\ SumOver(g, t) # Cardinality(Among(t)) /\ IsFiniteSet(t)
  BY <1>2, FS_Subset
<1>4. t # {}
  <2>1. Among({}) = {} /\ SumOver(g, {}) = 0 /\ Cardinality({}) = 0
    BY SumEmpty, FS_EmptySet
  <2> QED
    BY <1>3, <2>1
<1>5. PICK x : x \in t
  BY <1>4
<1> DEFINE r == t \ {x}
<1>6. SumOver(g, r) = Cardinality(Among(r))
  BY <1>2, <1>3, <1>5
<1>7. \A s \in S : IsFiniteSet(Part(s)) /\ Cardinality(Part(s)) \in Nat
  <2>1. \A s \in S : Part(s) \in SUBSET P
    OBVIOUS
  <2> QED
    BY <2>1, FS_Subset, FS_CardinalityType
<1>8. SumOver(g, t) = g[x] + SumOver(g, r)
  <2>1. \A s \in t : g[s] = Cardinality(Part(s)) /\ s \in S
    BY <1>3
  <2> HIDE DEF g, Part
  <2>2. \A s \in t : g[s] \in Int
    BY <1>7, <2>1
  <2> QED
    BY <1>3, <1>5, <2>2, SumRemove
<1>9. Among(t) = Part(x) \cup Among(r) /\ Part(x) \cap Among(r) = {}
  BY <1>5
<1>10. IsFiniteSet(Among(r)) /\ Cardinality(Among(r)) \in Nat
  <2>1. Among(r) \in SUBSET P
    OBVIOUS
  <2> QED
    BY <2>1, FS_Subset, FS_CardinalityType
<1>11. Cardinality(Among(t)) = Cardinality(Part(x)) + Cardinality(Among(r))
  <2>1. x \in S /\ IsFiniteSet(Part(x)) /\ Cardinality(Part(x)) \in Nat
    BY <1>3, <1>5, <1>7
  <2>2. Cardinality(Part(x) \cup Among(r))
          = Cardinality(Part(x)) + Cardinality(Among(r)) - Cardinality(Part(x) \cap Among(r))
    <3> HIDE DEF Part, Among
    <3> QED
      BY <1>10, <2>1, FS_Union
  <2>3. Cardinality(Part(x) \cap Among(r)) = 0
    BY <1>9, FS_EmptySet
  <2> HIDE DEF Part, Among
  <2> QED
    BY <1>9, <1>10, <2>1, <2>2, <2>3
<1>12. g[x] = Cardinality(Part(x))
  BY <1>3, <1>5
<1> QED
  BY <1>3, <1>6, <1>8, <1>11, <1>12
=============================================================================
