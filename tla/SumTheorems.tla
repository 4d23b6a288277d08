---------------------------- MODULE SumTheorems ----------------------------
(***************************************************************************)
(* What SumFunctionOnSet of the library computes, for any finite set: the  *)
(* sum does not depend on the order in which elements are taken, so that   *)
(* changing one entry changes the sum by the difference.  The books of     *)
(* AsyncImage and BillingSession are sums of this kind.                    *)
(*                                                                         *)
(* Induction is over the number of elements, as the principle of the       *)
(* smallest counterexample: a set of numbers or of finite sets that is not *)
(* empty has a smallest member.                                            *)
(***************************************************************************)
EXTENDS FiniteSetTheorems, TLAPS

\* A set of natural numbers has a least member.
LEMMA LeastNumber ==
    ASSUME NEW T, T \subseteq Nat, T # {}
    PROVE  \E n \in T : \A m \in T : n <= m
<1> DEFINE R == {ss \in Nat \X Nat : ss[1] < ss[2]}
<1>1. OpToRel(<, Nat) = R
  BY DEF OpToRel
<1>2. IsWellFoundedOn(R, Nat)
  BY <1>1, NatLessThanWellFounded
<1> HIDE DEF R
<1>3. \E x \in T : \A y \in T : ~ (<<y, x>> \in R)
  BY <1>2, WFMin, Zenon
<1>4. \A x, y \in T : <<y, x>> \in R <=> y < x
  BY DEF R
<1>5. PICK x \in T : \A y \in T : ~ (y < x)
  BY <1>3, <1>4
<1>6. \A y \in T : x <= y
  BY <1>5
<1> QED
  BY <1>6

\* Among finite sets there is a smallest one; what is true of a set whenever it is true of
\* every smaller one is therefore true of all.
LEMMA SmallestSet ==
    ASSUME NEW S, IsFiniteSet(S), NEW B, B \subseteq SUBSET S, B # {}
    PROVE  \E s \in B : /\ IsFiniteSet(s) /\ Cardinality(s) \in Nat
                        /\ \A r \in B : Cardinality(s) <= Cardinality(r)
<1>1. \A s \in B : IsFiniteSet(s) /\ Cardinality(s) \in Nat
  BY FS_Subset, FS_CardinalityType
<1> DEFINE T == {Cardinality(s) : s \in B}
<1>2. T \subseteq Nat /\ T # {}
  BY <1>1
<1> HIDE DEF T
<1>3. PICK n \in T : \A m \in T : n <= m
  BY <1>2, LeastNumber
<1> QED
  BY <1>1, <1>3 DEF T

\* An element that is taken out leaves a smaller set.
LEMMA Smaller ==
    ASSUME NEW s, NEW x \in s, IsFiniteSet(s)
    PROVE  /\ IsFiniteSet(s \ {x})
           /\ Cardinality(s \ {x}) = Cardinality(s) - 1
           /\ Cardinality(s) \in Nat /\ Cardinality(s \ {x}) \in Nat
BY FS_RemoveElement, FS_CardinalityType

-----------------------------------------------------------------------------
(* The function behind the sum *)

Picked(s) == CHOOSE x \in s : TRUE

LEMMA PickedIn == ASSUME NEW s, s # {} PROVE Picked(s) \in s
BY DEF Picked

\* g[s] is the sum of f over s, for every part s of S.
Sums(f, S, g) ==
    g = [s \in SUBSET S |-> IF s = {} THEN 0 ELSE f[Picked(s)] + g[s \ {Picked(s)}]]

LEMMA SumIs ==
    ASSUME NEW S, NEW f
    PROVE  SumFunctionOnSet(f, S) = (CHOOSE g : Sums(f, S, g))[S]
BY DEF SumFunctionOnSet, FoldFunctionOnSet, MapThenFoldSet, Sums, Picked

\* There is such a function: one for the parts with at most n elements, for each n.
LEMMA SumsExists ==
    ASSUME NEW S, IsFiniteSet(S), NEW f
    PROVE  \E g : Sums(f, S, g)
<1> DEFINE D(n) == {s \in SUBSET S : Cardinality(s) <= n}
           Entry(h, s) == IF s = {} THEN 0 ELSE f[Picked(s)] + h[s \ {Picked(s)}]
           Part(n, h) == h = [s \in D(n) |-> Entry(h, s)]
           B == {n \in Nat : ~ \E h : Part(n, h)}
<1>1. \A s \in SUBSET S : IsFiniteSet(s) /\ Cardinality(s) \in Nat
  BY FS_Subset, FS_CardinalityType
<1>2. \A s \in SUBSET S : s # {} =>
        /\ s \ {Picked(s)} \in SUBSET S
        /\ Cardinality(s \ {Picked(s)}) = Cardinality(s) - 1
  BY <1>1, PickedIn, Smaller
<1>3. B = {}
  <2> SUFFICES ASSUME B # {} PROVE FALSE
    OBVIOUS
  <2>1. B \subseteq Nat
    OBVIOUS
  <2> HIDE DEF B
  <2>2. PICK n \in B : \A m \in B : n <= m
    BY <2>1, LeastNumber
  <2> USE DEF B
  <2>3. CASE n = 0
    <3> DEFINE h == [s \in D(0) |-> 0]
    <3>1. \A s \in D(0) : s = {}
      BY <1>1, FS_EmptySet
    <3>2. \A s \in D(0) : Entry(h, s) = 0
      BY <3>1
    <3>3. Part(0, h)
      BY <3>2
    <3> QED
      BY <2>2, <2>3, <3>3
  <2>4. CASE n # 0
    <3>1. n - 1 \in Nat /\ n \in Nat /\ ~ (n <= n - 1)
      BY <2>4
    <3>2. PICK k : Part(n - 1, k)
      BY <2>2, <3>1
    <3> DEFINE h == [s \in D(n) |-> IF s \in D(n - 1) THEN k[s] ELSE Entry(k, s)]
    <3>3. \A s \in D(n) : s # {} => s \ {Picked(s)} \in D(n - 1)
      BY <1>1, <1>2, <3>1
    <3>4. D(n - 1) \subseteq D(n)
      BY <1>1, <3>1
    <3>5. \A s \in D(n) : h[s] = Entry(k, s)
      BY <3>2
    <3>6. \A s \in D(n) : Entry(h, s) = Entry(k, s)
      <4>1. ASSUME NEW s \in D(n), s # {} PROVE h[s \ {Picked(s)}] = k[s \ {Picked(s)}]
        <5>1. s \ {Picked(s)} \in D(n - 1) /\ s \ {Picked(s)} \in D(n)
          BY <3>3, <3>4, <4>1
        <5> HIDE DEF D
        <5> QED
          BY <5>1
      <4> HIDE DEF h
      <4> QED
        BY <4>1
    <3>7. Part(n, h)
      BY <3>5, <3>6
    <3> HIDE DEF Part, h
    <3> QED
      BY <2>2, <3>1, <3>7
  <2> QED
    BY <2>3, <2>4
<1> DEFINE N == Cardinality(S)
<1>4. N \in Nat /\ D(N) = SUBSET S
  BY FS_CardinalityType, FS_Subset
<1>5. PICK g : Part(N, g)
  BY <1>3, <1>4
<1>6. g = [s \in SUBSET S |-> Entry(g, s)]
  BY <1>4, <1>5
<1> QED
  BY <1>6 DEF Sums

LEMMA SumOfParts ==
    ASSUME NEW S, IsFiniteSet(S), NEW f
    PROVE  \E g : Sums(f, S, g) /\ SumFunctionOnSet(f, S) = g[S]
<1> DEFINE g == CHOOSE h : Sums(f, S, h)
<1>1. Sums(f, S, g)
  BY SumsExists
<1>2. SumFunctionOnSet(f, S) = g[S]
  BY SumIs
<1> QED
  BY <1>1, <1>2

LEMMA SumsAt ==
    ASSUME NEW S, NEW f, NEW g, Sums(f, S, g), NEW s \in SUBSET S
    PROVE  g[s] = IF s = {} THEN 0 ELSE f[Picked(s)] + g[s \ {Picked(s)}]
<1> DEFINE Entry(h, r) == IF r = {} THEN 0 ELSE f[Picked(r)] + h[r \ {Picked(r)}]
<1>1. g = [r \in SUBSET S |-> Entry(g, r)]
  BY DEF Sums
<1> HIDE DEF Entry
<1>2. g[s] = Entry(g, s)
  BY <1>1
<1> QED
  BY <1>2 DEF Entry

-----------------------------------------------------------------------------
(* Its type, and the order of the elements *)

LEMMA SumsType ==
    ASSUME NEW S, IsFiniteSet(S), NEW f \in [S -> Int], NEW g, Sums(f, S, g)
    PROVE  \A s \in SUBSET S : g[s] \in Int
<1>a. \A s \in SUBSET S : g[s] = IF s = {} THEN 0 ELSE f[Picked(s)] + g[s \ {Picked(s)}]
  <2> TAKE s \in SUBSET S
  <2> QED
    BY SumsAt, SMTT(20)
<1> DEFINE B == {s \in SUBSET S : g[s] \notin Int}
<1> SUFFICES ASSUME B # {} PROVE FALSE
  OBVIOUS
<1>1. B \subseteq SUBSET S
  OBVIOUS
<1> HIDE DEF B
<1>2. PICK s \in B : IsFiniteSet(s) /\ Cardinality(s) \in Nat
                     /\ \A r \in B : Cardinality(s) <= Cardinality(r)
  BY <1>1, SmallestSet
<1>3. s \in SUBSET S /\ g[s] \notin Int
  BY DEF B
<1>4. s # {}
  <2>1. 0 \in Int
    OBVIOUS
  <2> QED
    BY <1>a, <1>3, <2>1
<1>5. Picked(s) \in s
  BY <1>4, PickedIn
<1>6. s \ {Picked(s)} \in SUBSET S /\ s \ {Picked(s)} \notin B
  <2>1. Cardinality(s \ {Picked(s)}) = Cardinality(s) - 1
    BY <1>2, <1>5, Smaller
  <2> QED
    BY <1>2, <1>3, <2>1
<1>7. g[s \ {Picked(s)}] \in Int /\ f[Picked(s)] \in Int
  BY <1>3, <1>5, <1>6 DEF B
<1>8. g[s] = f[Picked(s)] + g[s \ {Picked(s)}]
  BY <1>a, <1>3, <1>4
<1> QED
  BY <1>3, <1>7, <1>8

\* Any element may be taken first.
LEMMA SumsRemove ==
    ASSUME NEW S, IsFiniteSet(S), NEW f \in [S -> Int], NEW g, Sums(f, S, g)
    PROVE  \A s \in SUBSET S : \A y \in s : g[s] = f[y] + g[s \ {y}]
<1> DEFINE B == {s \in SUBSET S : \E y \in s : g[s] # f[y] + g[s \ {y}]}
<1> SUFFICES ASSUME B # {} PROVE FALSE
  OBVIOUS
<1>1. B \subseteq SUBSET S
  OBVIOUS
<1> HIDE DEF B
<1>2. PICK s \in B : IsFiniteSet(s) /\ Cardinality(s) \in Nat
                     /\ \A r \in B : Cardinality(s) <= Cardinality(r)
  BY <1>1, SmallestSet
<1>3. PICK y \in s : s \in SUBSET S /\ g[s] # f[y] + g[s \ {y}]
  BY DEF B
<1> DEFINE x == Picked(s)
<1>4. x \in s /\ g[s] = f[x] + g[s \ {x}]
  BY <1>3, PickedIn, SumsAt
<1>5. x # y
  BY <1>3, <1>4
<1> HIDE DEF x
<1>6. ASSUME NEW z \in s PROVE s \ {z} \in SUBSET S /\ s \ {z} \notin B
  <2>1. Cardinality(s \ {z}) = Cardinality(s) - 1
    BY <1>2, Smaller
  <2> QED
    BY <1>2, <1>3, <2>1
<1>7. g[s \ {x}] = f[y] + g[(s \ {x}) \ {y}]
  BY <1>3, <1>4, <1>5, <1>6 DEF B
<1>8. g[s \ {y}] = f[x] + g[(s \ {y}) \ {x}]
  BY <1>3, <1>4, <1>5, <1>6 DEF B
<1>9. (s \ {x}) \ {y} = (s \ {y}) \ {x} /\ (s \ {x}) \ {y} \in SUBSET S
  BY <1>3
<1>10. g[(s \ {x}) \ {y}] \in Int /\ f[x] \in Int /\ f[y] \in Int
  BY <1>3, <1>4, <1>9, SumsType
<1>11. g[s] = f[x] + (f[y] + g[(s \ {x}) \ {y}]) /\ g[s \ {y}] = f[x] + g[(s \ {x}) \ {y}]
  BY <1>4, <1>7, <1>8, <1>9
<1> QED
  BY <1>3, <1>10, <1>11

LEMMA SumsAgree ==
    ASSUME NEW S, IsFiniteSet(S), NEW f, NEW g, Sums(f, S, g), NEW h, NEW k, Sums(h, S, k)
    PROVE  \A s \in SUBSET S : (\A x \in s : f[x] = h[x]) => g[s] = k[s]
<1> DEFINE B == {s \in SUBSET S : (\A x \in s : f[x] = h[x]) /\ g[s] # k[s]}
<1> SUFFICES ASSUME B # {} PROVE FALSE
  OBVIOUS
<1>1. B \subseteq SUBSET S
  OBVIOUS
<1> HIDE DEF B
<1>2. PICK s \in B : IsFiniteSet(s) /\ Cardinality(s) \in Nat
                     /\ \A r \in B : Cardinality(s) <= Cardinality(r)
  BY <1>1, SmallestSet
<1>3. s \in SUBSET S /\ (\A x \in s : f[x] = h[x]) /\ g[s] # k[s]
  BY DEF B
<1>4. s # {}
  BY <1>3, SumsAt
<1>5. Picked(s) \in s
  BY <1>4, PickedIn
<1>6. s \ {Picked(s)} \in SUBSET S /\ s \ {Picked(s)} \notin B
  <2>1. Cardinality(s \ {Picked(s)}) = Cardinality(s) - 1
    BY <1>2, <1>5, Smaller
  <2> QED
    BY <1>2, <1>3, <2>1
<1>7. g[s \ {Picked(s)}] = k[s \ {Picked(s)}] /\ f[Picked(s)] = h[Picked(s)]
  BY <1>3, <1>5, <1>6 DEF B
<1>8. /\ g[s] = f[Picked(s)] + g[s \ {Picked(s)}]
      /\ k[s] = h[Picked(s)] + k[s \ {Picked(s)}]
  BY <1>3, <1>4, SumsAt
<1> QED
  BY <1>3, <1>7, <1>8

-----------------------------------------------------------------------------
(* What the proofs about books use *)

LEMMA SumType ==
    ASSUME NEW S, IsFiniteSet(S), NEW f \in [S -> Int]
    PROVE  SumFunctionOnSet(f, S) \in Int
BY SumOfParts, SumsType

LEMMA SumOfZeros ==
    ASSUME NEW S, IsFiniteSet(S), NEW f, \A x \in S : f[x] = 0
    PROVE  SumFunctionOnSet(f, S) = 0
<1>1. PICK g : Sums(f, S, g) /\ SumFunctionOnSet(f, S) = g[S]
  BY SumOfParts
<1> DEFINE B == {s \in SUBSET S : g[s] # 0}
<1> SUFFICES ASSUME B # {} PROVE FALSE
  BY <1>1
<1>2. B \subseteq SUBSET S
  OBVIOUS
<1> HIDE DEF B
<1>3. PICK s \in B : IsFiniteSet(s) /\ Cardinality(s) \in Nat
                     /\ \A r \in B : Cardinality(s) <= Cardinality(r)
  BY <1>2, SmallestSet
<1>4. s \in SUBSET S /\ g[s] # 0
  BY DEF B
<1>5. s # {}
  <2>1. g[s] = IF s = {} THEN 0 ELSE f[Picked(s)] + g[s \ {Picked(s)}]
    BY <1>1, <1>4, SumsAt
  <2> QED
    BY <1>4, <2>1
<1>6. Picked(s) \in s
  BY <1>5, PickedIn
<1>7. s \ {Picked(s)} \in SUBSET S /\ s \ {Picked(s)} \notin B
  <2>1. Cardinality(s \ {Picked(s)}) = Cardinality(s) - 1
    BY <1>3, <1>6, Smaller
  <2> QED
    BY <1>3, <1>4, <2>1
<1>8. g[s \ {Picked(s)}] = 0 /\ f[Picked(s)] = 0
  BY <1>4, <1>6, <1>7 DEF B
<1>9. g[s] = f[Picked(s)] + g[s \ {Picked(s)}]
  BY <1>1, <1>4, <1>5, SumsAt
<1> QED
  BY <1>4, <1>8, <1>9

\* Changing one entry changes the sum by the difference.
LEMMA SumChanges ==
    ASSUME NEW S, IsFiniteSet(S), NEW f \in [S -> Int], NEW h \in [S -> Int],
           NEW t \in S, \A x \in S : x # t => h[x] = f[x]
    PROVE  SumFunctionOnSet(h, S) = SumFunctionOnSet(f, S) + h[t] - f[t]
<1>1. PICK g : Sums(f, S, g) /\ SumFunctionOnSet(f, S) = g[S]
  BY SumOfParts
<1>2. PICK k : Sums(h, S, k) /\ SumFunctionOnSet(h, S) = k[S]
  BY SumOfParts
<1>3. S \ {t} \in SUBSET S /\ S \in SUBSET S
  OBVIOUS
<1>4. g[S] = f[t] + g[S \ {t}]
  BY <1>1, <1>3, SumsRemove
<1>5. k[S] = h[t] + k[S \ {t}]
  BY <1>2, <1>3, SumsRemove
<1>6. g[S \ {t}] = k[S \ {t}]
  BY <1>1, <1>2, <1>3, SumsAgree
<1>7. g[S \ {t}] \in Int /\ f[t] \in Int /\ h[t] \in Int
  BY <1>1, <1>3, SumsType
<1> QED
  BY <1>1, <1>2, <1>4, <1>5, <1>6, <1>7

\* A sum of natural numbers is one.
LEMMA SumNat ==
    ASSUME NEW S, IsFiniteSet(S), NEW f \in [S -> Nat]
    PROVE  SumFunctionOnSet(f, S) \in Nat
<1>1. PICK g : Sums(f, S, g) /\ SumFunctionOnSet(f, S) = g[S]
  BY SumOfParts
<1>a. \A s \in SUBSET S : g[s] = IF s = {} THEN 0 ELSE f[Picked(s)] + g[s \ {Picked(s)}]
  <2> TAKE s \in SUBSET S
  <2> QED
    BY <1>1, SumsAt
<1> DEFINE B == {s \in SUBSET S : g[s] \notin Nat}
<1> SUFFICES ASSUME B # {} PROVE FALSE
  BY <1>1
<1>2. B \subseteq SUBSET S
  OBVIOUS
<1> HIDE DEF B
<1>3. PICK s \in B : IsFiniteSet(s) /\ Cardinality(s) \in Nat
                     /\ \A r \in B : Cardinality(s) <= Cardinality(r)
  BY <1>2, SmallestSet
<1>4. s \in SUBSET S /\ g[s] \notin Nat
  BY DEF B
<1>5. s # {}
  <2>1. 0 \in Nat
    OBVIOUS
  <2> QED
    BY <1>a, <1>4, <2>1
<1>6. Picked(s) \in s
  BY <1>5, PickedIn
<1>7. s \ {Picked(s)} \in SUBSET S /\ s \ {Picked(s)} \notin B
  <2>1. Cardinality(s \ {Picked(s)}) = Cardinality(s) - 1
    BY <1>3, <1>6, Smaller
  <2> QED
    BY <1>3, <1>4, <2>1
<1>8. g[s \ {Picked(s)}] \in Nat /\ f[Picked(s)] \in Nat
  BY <1>4, <1>6, <1>7 DEF B
<1>9. g[s] = f[Picked(s)] + g[s \ {Picked(s)}]
  BY <1>a, <1>4, <1>5
<1> QED
  BY <1>4, <1>8, <1>9

\* No entry of a sum of natural numbers exceeds it.
LEMMA SumAtLeast ==
    ASSUME NEW S, IsFiniteSet(S), NEW f \in [S -> Nat], NEW t \in S
    PROVE  SumFunctionOnSet(f, S) >= f[t]
<1> DEFINE h == [f EXCEPT ![t] = 0]
<1>1. /\ f \in [S -> Int] /\ h \in [S -> Int] /\ h \in [S -> Nat] /\ h[t] = 0
      /\ \A x \in S : x # t => h[x] = f[x]
  OBVIOUS
<1> HIDE DEF h
<1>2. SumFunctionOnSet(h, S) = SumFunctionOnSet(f, S) + h[t] - f[t]
  BY <1>1, SumChanges
<1>3. SumFunctionOnSet(h, S) \in Nat /\ SumFunctionOnSet(f, S) \in Nat /\ f[t] \in Nat
  BY <1>1, SumNat
<1> QED
  BY <1>1, <1>2, <1>3

=============================================================================
