------------------------------ MODULE SumFacts ------------------------------
(***************************************************************************)
(* Induction, finite sets, and sums over them.  The library's induction    *)
(* theorems take the predicate as an operator; here the predicate is a     *)
(* set, and the proofs go back to the well-foundedness of <.  The facts    *)
(* about finite sets are the few the sums need.                            *)
(* The sum is SumFunctionOnSet of Functions, a recursive function on the   *)
(* subsets of the set: it is shown to exist, and then to obey the laws of  *)
(* sums whatever order the elements are taken in.                          *)
(***************************************************************************)
EXTENDS Integers, Sequences, FiniteSets, Functions, WellFoundedInduction, TLAPS

\* Induction on the natural numbers.
LEMMA NatInd ==
  ASSUME NEW S, 0 \in S, \A n \in Nat : n \in S => n + 1 \in S
  PROVE  Nat \subseteq S
<1> SUFFICES ASSUME NEW m \in Nat, m \notin S PROVE FALSE
  OBVIOUS
<1> DEFINE T == {n \in Nat : n \notin S}
<1>1. T \subseteq Nat /\ T # {}
  OBVIOUS
<1>2. PICK x \in T : \A y \in T : ~(<<y, x>> \in OpToRel(<, Nat))
  <2> HIDE DEF T
  <2> QED BY <1>1, NatLessThanWellFounded, WFMin
<1>3. x \in Nat /\ x \notin S
  OBVIOUS
<1>4. x # 0
  BY <1>3
<1>5. x - 1 \in Nat /\ (x - 1) + 1 = x
  BY <1>3, <1>4
<1>6. x - 1 \in T
  BY <1>3, <1>5
<1>7. <<x - 1, x>> \in OpToRel(<, Nat)
  BY <1>3, <1>5 DEF OpToRel
<1> QED BY <1>2, <1>6, <1>7

\* n numbers list the elements of S.
Listed(S, n) == \E f \in [1..n -> S] : \A s \in S : \E i \in 1..n : f[i] = s

LEMMA FinListed == \A S : IsFiniteSet(S) <=> \E n \in Nat : Listed(S, n)
<1> TAKE S
<1>1. ASSUME IsFiniteSet(S) PROVE \E n \in Nat : Listed(S, n)
  <2>1. PICK q \in Seq(S) : \A s \in S : \E i \in 1..Len(q) : q[i] = s
    BY <1>1, Zenon DEF IsFiniteSet
  <2>2. Len(q) \in Nat /\ q \in [1..Len(q) -> S]
    OBVIOUS
  <2> QED
    BY <2>1, <2>2, Zenon DEF Listed
<1>2. ASSUME NEW n \in Nat, Listed(S, n) PROVE IsFiniteSet(S)
  <2>1. PICK f \in [1..n -> S] : \A s \in S : \E i \in 1..n : f[i] = s
    BY <1>2, Zenon DEF Listed
  <2>2. f \in Seq(S) /\ Len(f) = n
    OBVIOUS
  <2> QED
    BY <2>1, <2>2, Zenon DEF IsFiniteSet
<1> QED
  BY <1>1, <1>2, Zenon

\* A list of a set is one of each of its subsets, and a shorter one does when an
\* element is missing.
LEMMA ListedSubset ==
  ASSUME NEW S, NEW n \in Nat, Listed(S, n), NEW T \in SUBSET S, T # {}
  PROVE  Listed(T, n)
<1>1. PICK f \in [1..n -> S] : \A s \in S : \E i \in 1..n : f[i] = s
  BY Zenon DEF Listed
<1>2. PICK t \in T : TRUE
  OBVIOUS
<1> DEFINE g == [i \in 1..n |-> IF f[i] \in T THEN f[i] ELSE t]
<1>3. g \in [1..n -> T]
  OBVIOUS
<1>4. \A s \in T : \E i \in 1..n : g[i] = s
  BY <1>1
<1> QED
  BY <1>3, <1>4, Zenon DEF Listed

LEMMA ListedSmaller ==
  ASSUME NEW S, NEW n \in Nat, Listed(S, n + 1), NEW x \in S, NEW T \in SUBSET S, x \notin T, T # {}
  PROVE  Listed(T, n)
<1>1. PICK f \in [1..n + 1 -> S] : \A s \in S : \E i \in 1..n + 1 : f[i] = s
  BY Zenon DEF Listed
<1>2. PICK j \in 1..n + 1 : f[j] = x
  BY <1>1
<1>3. PICK t \in T : TRUE
  OBVIOUS
<1> DEFINE k(i) == IF i = j THEN n + 1 ELSE i
           g == [i \in 1..n |-> IF f[k(i)] \in T THEN f[k(i)] ELSE t]
<1>4. g \in [1..n -> T]
  OBVIOUS
<1>5. ASSUME NEW s \in T PROVE \E i \in 1..n : g[i] = s
  <2>1. PICK i \in 1..n + 1 : f[i] = s
    BY <1>1
  <2>2. i # j
    BY <1>2, <2>1
  <2>3. CASE i = n + 1
    <3>1. j \in 1..n /\ k(j) = i
      BY <2>2, <2>3
    <3> QED
      BY <2>1, <3>1
  <2>4. CASE i # n + 1
    <3>1. i \in 1..n /\ k(i) = i
      BY <2>2, <2>4
    <3> QED
      BY <2>1, <3>1
  <2> QED
    BY <2>3, <2>4
<1> QED
  BY <1>4, <1>5, Zenon DEF Listed

LEMMA FinEmpty == IsFiniteSet({})
<1>1. [i \in 1..0 |-> 0] \in [1..0 -> {}]
  OBVIOUS
<1> QED
  BY <1>1, FinListed DEF Listed

LEMMA FinSubset ==
  ASSUME NEW S, IsFiniteSet(S), NEW T \in SUBSET S
  PROVE  IsFiniteSet(T)
<1>1. CASE T = {}
  BY <1>1, FinEmpty, Zenon
<1>2. CASE T # {}
  BY <1>2, FinListed, ListedSubset, Zenon
<1> QED
  BY <1>1, <1>2

LEMMA FinUnion ==
  ASSUME NEW S, IsFiniteSet(S), NEW T, IsFiniteSet(T)
  PROVE  IsFiniteSet(S \cup T)
<1>1. PICK m \in Nat : Listed(S, m)
  BY FinListed, Zenon
<1>2. PICK n \in Nat : Listed(T, n)
  BY FinListed, Zenon
<1>3. PICK f \in [1..m -> S] : \A s \in S : \E i \in 1..m : f[i] = s
  BY <1>1, Zenon DEF Listed
<1>4. PICK g \in [1..n -> T] : \A s \in T : \E i \in 1..n : g[i] = s
  BY <1>2, Zenon DEF Listed
<1> DEFINE h == [i \in 1..m + n |-> IF i <= m THEN f[i] ELSE g[i - m]]
<1>5. h \in [1..m + n -> S \cup T] /\ m + n \in Nat
  OBVIOUS
<1>6. \A s \in S : \E i \in 1..m + n : h[i] = s
  <2> TAKE s \in S
  <2>1. PICK i \in 1..m : f[i] = s
    BY <1>3
  <2>2. i \in 1..m + n /\ h[i] = s
    BY <2>1
  <2> QED
    BY <2>2
<1>7. \A s \in T : \E i \in 1..m + n : h[i] = s
  <2> TAKE s \in T
  <2>1. PICK i \in 1..n : g[i] = s
    BY <1>4
  <2>2. m + i \in 1..m + n /\ h[m + i] = s
    BY <2>1
  <2> QED
    BY <2>2
<1> HIDE DEF h
<1>8. Listed(S \cup T, m + n)
  BY <1>5, <1>6, <1>7, Zenon DEF Listed
<1> QED
  BY <1>5, <1>8, FinListed, Zenon

LEMMA FinAdd ==
  ASSUME NEW S, IsFiniteSet(S), NEW x
  PROVE  IsFiniteSet(S \cup {x})
<1>1. [i \in 1..1 |-> x] \in [1..1 -> {x}] /\ \A s \in {x} : \E i \in 1..1 : [k \in 1..1 |-> x][i] = s
  OBVIOUS
<1>2. Listed({x}, 1)
  BY <1>1 DEF Listed
<1>3. IsFiniteSet({x})
  BY <1>2, FinListed
<1> QED
  BY <1>3, FinUnion, Zenon

LEMMA FinRange == \A n \in Nat : IsFiniteSet(1..n)
<1> TAKE n \in Nat
<1>1. [i \in 1..n |-> i] \in [1..n -> 1..n] /\ \A s \in 1..n : \E i \in 1..n : [k \in 1..n |-> k][i] = s
  OBVIOUS
<1>2. Listed(1..n, n)
  BY <1>1, Zenon DEF Listed
<1> QED
  BY <1>2, FinListed, Zenon

\* Induction on the subsets of a finite set, from all smaller ones.
LEMMA FinStrong ==
  ASSUME NEW S, IsFiniteSet(S), NEW G,
         \A T \in SUBSET S : (\A U \in SUBSET T : U # T => U \in G) => T \in G
  PROVE  \A T \in SUBSET S : T \in G
<1> DEFINE Good(n) == \A T \in SUBSET S : Listed(T, n) => T \in G
           B == {n \in Nat : \A k \in 0..n : Good(k)}
<1>0. {} \in G
  OBVIOUS
<1>1. 0 \in B
  <2>1. ASSUME NEW T \in SUBSET S, Listed(T, 0) PROVE T = {}
    BY <2>1 DEF Listed
  <2> QED
    BY <1>0, <2>1
<1>2. ASSUME NEW n \in Nat, n \in B PROVE n + 1 \in B
  <2>1. ASSUME NEW T \in SUBSET S, Listed(T, n + 1) PROVE T \in G
    <3>1. ASSUME NEW U \in SUBSET T, U # T PROVE U \in G
      <4>1. CASE U = {}
        BY <1>0, <4>1
      <4>2. CASE U # {}
        <5>1. PICK x \in T : x \notin U
          BY <3>1
        <5>2. Listed(U, n)
          BY <2>1, <3>1, <4>2, <5>1, ListedSmaller, Zenon
        <5>3. Good(n)
          BY <1>2
        <5> QED
          BY <5>2, <5>3
      <4> QED
        BY <4>1, <4>2
    <3> QED
      BY <3>1, Zenon
  <2>2. Good(n + 1)
    BY <2>1
  <2> HIDE DEF Good
  <2>3. \A k \in 0..n + 1 : k \in 0..n \/ k = n + 1
    OBVIOUS
  <2> QED
    BY <1>2, <2>2, <2>3
<1>3. Nat \subseteq B
  <2> HIDE DEF B
  <2> QED
    BY <1>1, <1>2, NatInd, Zenon
<1>4. ASSUME NEW T \in SUBSET S PROVE T \in G
  <2>0. IsFiniteSet(T)
    BY FinSubset, Zenon
  <2>1. PICK n \in Nat : Listed(T, n)
    BY <2>0, FinListed, Zenon
  <2>2. Good(n)
    BY <1>3
  <2> QED
    BY <2>1, <2>2
<1> QED
  BY <1>4

\* Induction on a finite set, element by element.
LEMMA FinInd ==
  ASSUME NEW S, IsFiniteSet(S), NEW G, {} \in G,
         \A T \in SUBSET S, x \in S : T \in G /\ x \notin T => T \cup {x} \in G
  PROVE  S \in G
<1>1. ASSUME NEW T \in SUBSET S, \A U \in SUBSET T : U # T => U \in G
      PROVE  T \in G
  <2>1. CASE T = {}
    BY <2>1
  <2>2. CASE T # {}
    <3>1. PICK x \in T : TRUE
      BY <2>2
    <3>2. /\ (T \ {x}) \cup {x} = T /\ T \ {x} \in SUBSET S /\ x \in S /\ x \notin T \ {x}
          /\ T \ {x} \in SUBSET T /\ T \ {x} # T
      OBVIOUS
    <3>3. T \ {x} \in G
      BY <1>1, <3>2, Zenon
    <3>4. (T \ {x}) \cup {x} \in G
      BY <3>2, <3>3, Zenon
    <3> QED
      BY <3>2, <3>4, Zenon
  <2> QED
    BY <2>1, <2>2
<1>2. \A T \in SUBSET S : T \in G
  BY <1>1, FinStrong, Zenon
<1> QED
  BY <1>2

\* The element the library takes first.
AnyOf(s) == CHOOSE x \in s : TRUE

\* g sums f over the subsets of S.
Sums(g, f, S) == g = [s \in SUBSET S |-> IF s = {} THEN 0 ELSE f[AnyOf(s)] + g[s \ {AnyOf(s)}]]

SumsOf(f, S) == CHOOSE g : Sums(g, f, S)

\* What SumFunctionOnSet unfolds to.
LEMMA SumIs == \A f, S : SumFunctionOnSet(f, S) = SumsOf(f, S)[S]
BY DEF SumFunctionOnSet, FoldFunctionOnSet, MapThenFoldSet, SumsOf, Sums, AnyOf

\* g takes one element of s out.
SumsStep(g, f, s) == g[s] = f[AnyOf(s)] + g[s \ {AnyOf(s)}]

\* What a function that sums f over the subsets of S is.
LEMMA SumsAt ==
  ASSUME NEW f, NEW S, NEW g, Sums(g, f, S)
  PROVE  /\ DOMAIN g = SUBSET S
         /\ g[{}] = 0
         /\ \A s \in SUBSET S : s # {} => SumsStep(g, f, s)
<1> DEFINE h == [s \in SUBSET S |-> IF s = {} THEN 0 ELSE f[AnyOf(s)] + g[s \ {AnyOf(s)}]]
<1>1. g = h
  BY Zenon DEF Sums
<1>2. DOMAIN h = SUBSET S /\ \A s \in SUBSET S : h[s] = IF s = {} THEN 0 ELSE f[AnyOf(s)] + g[s \ {AnyOf(s)}]
  BY Zenon
<1> HIDE DEF h
<1> QED BY <1>1, <1>2, Zenon DEF SumsStep

LEMMA AnyOfIsIn == \A s : s # {} => AnyOf(s) \in s
BY DEF AnyOf

\* Two such functions agree, also when one is for a larger set.
LEMMA SumsUnique ==
  ASSUME NEW f, NEW S, IsFiniteSet(S), NEW g, NEW h, Sums(g, f, S),
         NEW T \in SUBSET S, Sums(h, f, T)
  PROVE  h[T] = g[T]
<1> DEFINE G == {s \in SUBSET T : g[s] = h[s]}
<1>1. IsFiniteSet(T)
  BY FinSubset
<1>2. ASSUME NEW s \in SUBSET T, \A U \in SUBSET s : U # s => U \in G
      PROVE  s \in G
  <2>1. CASE s = {}
    BY <2>1, SumsAt, Zenon
  <2>2. CASE s # {}
    <3>1. AnyOf(s) \in s /\ s \ {AnyOf(s)} \in SUBSET s /\ s \ {AnyOf(s)} # s
      BY <2>2, AnyOfIsIn
    <3>2. g[s \ {AnyOf(s)}] = h[s \ {AnyOf(s)}]
      BY <3>1, <1>2, Zenon
    <3>3. s \in SUBSET S /\ s \in SUBSET T
      OBVIOUS
    <3>4. SumsStep(g, f, s) /\ SumsStep(h, f, s)
      BY <3>3, <2>2, SumsAt
    <3> QED BY <3>2, <3>3, <3>4, Zenon DEF SumsStep
  <2> QED BY <2>1, <2>2
<1>3. \A s \in SUBSET T : s \in G
  <2> HIDE DEF G
  <2> QED BY <1>1, <1>2, FinStrong, Zenon
<1> QED BY <1>3

\* There is one.
LEMMA SumsExist ==
  ASSUME NEW f, NEW S, IsFiniteSet(S)
  PROVE  Sums(SumsOf(f, S), f, S)
<1> DEFINE G == {T \in SUBSET S : Sums(SumsOf(f, T), f, T)}
<1>1. ASSUME NEW T \in SUBSET S, \A U \in SUBSET T : U # T => U \in G
      PROVE  T \in G
  <2> DEFINE R == T \ {AnyOf(T)}
             g == [s \in SUBSET T |-> IF s = {} THEN 0 ELSE f[AnyOf(s)] + SumsOf(f, s \ {AnyOf(s)})[s \ {AnyOf(s)}]]
             h == [s \in SUBSET T |-> IF s = {} THEN 0 ELSE f[AnyOf(s)] + g[s \ {AnyOf(s)}]]
  <2>1. ASSUME NEW s \in SUBSET T, s # T
        PROVE  g[s] = SumsOf(f, s)[s]
    <3>1. Sums(SumsOf(f, s), f, s)
      BY <1>1, <2>1, Zenon
    <3>2. CASE s = {}
      BY <3>1, <3>2, SumsAt, Zenon
    <3>3. CASE s # {}
      <4>1. s \ {AnyOf(s)} \in SUBSET s /\ s \ {AnyOf(s)} \in SUBSET T /\ s \ {AnyOf(s)} # T /\ s \in SUBSET S
        BY <2>1, <3>3, AnyOfIsIn
      <4>2. Sums(SumsOf(f, s \ {AnyOf(s)}), f, s \ {AnyOf(s)})
        BY <4>1, <1>1, Zenon
      <4>3. IsFiniteSet(s)
        BY <4>1, FinSubset
      <4>4. SumsOf(f, s \ {AnyOf(s)})[s \ {AnyOf(s)}] = SumsOf(f, s)[s \ {AnyOf(s)}]
        <5> HIDE DEF g, h, R, G
        <5> QED BY <3>1, <4>1, <4>2, <4>3, SumsUnique
      <4>5. SumsOf(f, s)[s] = f[AnyOf(s)] + SumsOf(f, s)[s \ {AnyOf(s)}]
        <5>1. s \in SUBSET s
          OBVIOUS
        <5>2. SumsStep(SumsOf(f, s), f, s)
          BY <5>1, <3>1, <3>3, SumsAt
        <5> QED BY <5>2, Zenon DEF SumsStep
      <4>6. g[s] = f[AnyOf(s)] + SumsOf(f, s \ {AnyOf(s)})[s \ {AnyOf(s)}]
        BY <2>1, <3>3, Zenon
      <4> QED BY <4>4, <4>5, <4>6, Zenon
    <3> QED BY <3>2, <3>3
  <2>2. ASSUME NEW s \in SUBSET T, s # {}
        PROVE  g[s] = f[AnyOf(s)] + g[s \ {AnyOf(s)}]
    <3>1. s \ {AnyOf(s)} \in SUBSET T /\ s \ {AnyOf(s)} # T
      BY <2>2, AnyOfIsIn
    <3>2. g[s] = f[AnyOf(s)] + SumsOf(f, s \ {AnyOf(s)})[s \ {AnyOf(s)}]
      BY <2>2, Zenon
    <3> HIDE DEF g
    <3> QED BY <3>1, <3>2, <2>1, Zenon
  <2>3. g = h
    <3>1. \A s \in SUBSET T : g[s] = h[s]
      <4> SUFFICES ASSUME NEW s \in SUBSET T PROVE g[s] = h[s]
        OBVIOUS
      <4>1. CASE s = {}
        BY <4>1, Zenon
      <4>2. CASE s # {}
        <5>1. g[s] = f[AnyOf(s)] + g[s \ {AnyOf(s)}]
          BY <4>2, <2>2, Zenon
        <5> HIDE DEF g
        <5> QED BY <5>1, <4>2, Zenon
      <4> QED BY <4>1, <4>2
    <3>2. DOMAIN g = SUBSET T /\ DOMAIN h = SUBSET T /\ g = [s \in DOMAIN g |-> g[s]] /\ h = [s \in DOMAIN h |-> h[s]]
      BY Zenon
    <3> HIDE DEF g, h
    <3> QED BY <3>1, <3>2, SMT
  <2>4. Sums(g, f, T)
    BY <2>3, Zenon DEF Sums
  <2> HIDE DEF g
  <2>5. Sums(SumsOf(f, T), f, T)
    BY <2>4, Zenon DEF SumsOf
  <2> QED BY <2>5
<1>2. \A T \in SUBSET S : T \in G
  <2> HIDE DEF G
  <2> QED BY <1>1, FinStrong, Zenon
<1>3. S \in SUBSET S
  OBVIOUS
<1> QED BY <1>2, <1>3, Zenon

\* So the sum obeys its recursion.
LEMMA SumSteps ==
  ASSUME NEW f, NEW S, IsFiniteSet(S)
  PROVE  /\ SumFunctionOnSet(f, {}) = 0
         /\ S # {} => SumFunctionOnSet(f, S) = f[AnyOf(S)] + SumFunctionOnSet(f, S \ {AnyOf(S)})
<1>1. Sums(SumsOf(f, {}), f, {})
  BY SumsExist, FinEmpty, Zenon
<1>2. SumFunctionOnSet(f, {}) = 0
  BY <1>1, SumIs, SumsAt, Zenon
<1>3. ASSUME S # {}
      PROVE  SumFunctionOnSet(f, S) = f[AnyOf(S)] + SumFunctionOnSet(f, S \ {AnyOf(S)})
  <2> DEFINE R == S \ {AnyOf(S)}
  <2>1. Sums(SumsOf(f, S), f, S)
    BY SumsExist, Zenon
  <2>2. R \in SUBSET S /\ S \in SUBSET S
    OBVIOUS
  <2>3. IsFiniteSet(R)
    BY <2>2, FinSubset
  <2>4. Sums(SumsOf(f, R), f, R)
    BY <2>3, SumsExist, Zenon
  <2>5. SumsOf(f, R)[R] = SumsOf(f, S)[R]
    <3> HIDE DEF R
    <3> QED BY <2>1, <2>2, <2>4, SumsUnique
  <2>6. SumsOf(f, S)[S] = f[AnyOf(S)] + SumsOf(f, S)[R]
    <3>1. SumsStep(SumsOf(f, S), f, S)
      BY <2>1, <2>2, <1>3, SumsAt
    <3> QED BY <3>1, Zenon DEF SumsStep
  <2> QED BY <2>5, <2>6, SumIs, Zenon
<1> QED BY <1>2, <1>3, Zenon

\* f is a natural number everywhere on S.
NatOn(f, S) == \A x \in S : f[x] \in Nat

LEMMA SumEmpty == \A f : SumFunctionOnSet(f, {}) = 0
BY SumSteps, FinEmpty, Zenon

LEMMA SumAnyOf ==
  ASSUME NEW f, NEW S, IsFiniteSet(S), S # {}
  PROVE  SumFunctionOnSet(f, S) = f[AnyOf(S)] + SumFunctionOnSet(f, S \ {AnyOf(S)})
BY SumSteps, Zenon

\* A sum of naturals is one.
LEMMA SumType ==
  ASSUME NEW f, NEW S, IsFiniteSet(S), NatOn(f, S)
  PROVE  SumFunctionOnSet(f, S) \in Nat
<1> DEFINE G == {T \in SUBSET S : SumFunctionOnSet(f, T) \in Nat}
<1>1. ASSUME NEW T \in SUBSET S, \A U \in SUBSET T : U # T => U \in G
      PROVE  T \in G
  <2>1. CASE T = {}
    BY <2>1, SumEmpty
  <2>2. CASE T # {}
    <3>1. AnyOf(T) \in T /\ IsFiniteSet(T) /\ T \ {AnyOf(T)} \in SUBSET T /\ T \ {AnyOf(T)} # T
      BY <2>2, AnyOfIsIn, FinSubset
    <3>2. SumFunctionOnSet(f, T \ {AnyOf(T)}) \in Nat
      BY <3>1, <1>1, Zenon
    <3>3. f[AnyOf(T)] \in Nat
      BY <3>1 DEF NatOn
    <3>4. SumFunctionOnSet(f, T) = f[AnyOf(T)] + SumFunctionOnSet(f, T \ {AnyOf(T)})
      BY <3>1, <2>2, SumAnyOf, Zenon
    <3> QED BY <3>2, <3>3, <3>4
  <2> QED BY <2>1, <2>2
<1>2. \A T \in SUBSET S : T \in G
  <2> HIDE DEF G
  <2> QED BY <1>1, FinStrong, Zenon
<1>3. S \in SUBSET S
  OBVIOUS
<1> QED BY <1>2, <1>3, Zenon

\* Any element may be taken out first.
LEMMA SumRemove ==
  ASSUME NEW f, NEW S, IsFiniteSet(S), NatOn(f, S), NEW e \in S
  PROVE  SumFunctionOnSet(f, S) = f[e] + SumFunctionOnSet(f, S \ {e})
<1> DEFINE G == {T \in SUBSET S : \A x \in T : SumFunctionOnSet(f, T) = f[x] + SumFunctionOnSet(f, T \ {x})}
<1>1. ASSUME NEW T \in SUBSET S, \A U \in SUBSET T : U # T => U \in G
      PROVE  T \in G
  <2> SUFFICES ASSUME NEW x \in T PROVE SumFunctionOnSet(f, T) = f[x] + SumFunctionOnSet(f, T \ {x})
    OBVIOUS
  <2> DEFINE y == AnyOf(T)
  <2>1. y \in T /\ IsFiniteSet(T) /\ T # {}
    BY AnyOfIsIn, FinSubset
  <2>2. SumFunctionOnSet(f, T) = f[y] + SumFunctionOnSet(f, T \ {y})
    BY <2>1, SumAnyOf
  <2> HIDE DEF y
  <2>3. CASE x = y
    BY <2>2, <2>3
  <2>4. CASE x # y
    <3>1. T \ {y} \in SUBSET T /\ T \ {y} # T /\ x \in T \ {y}
      BY <2>1, <2>4
    <3>2. T \ {x} \in SUBSET T /\ T \ {x} # T /\ y \in T \ {x}
      BY <2>1, <2>4
    <3>3. SumFunctionOnSet(f, T \ {y}) = f[x] + SumFunctionOnSet(f, (T \ {y}) \ {x})
      BY <3>1, <1>1, Zenon
    <3>4. SumFunctionOnSet(f, T \ {x}) = f[y] + SumFunctionOnSet(f, (T \ {x}) \ {y})
      BY <3>2, <1>1, Zenon
    <3>5. (T \ {x}) \ {y} = (T \ {y}) \ {x}
      OBVIOUS
    <3>6. IsFiniteSet((T \ {y}) \ {x}) /\ NatOn(f, (T \ {y}) \ {x})
      <4>1. (T \ {y}) \ {x} \in SUBSET S
        OBVIOUS
      <4> QED BY <4>1, FinSubset DEF NatOn
    <3>7. SumFunctionOnSet(f, (T \ {y}) \ {x}) \in Nat
      BY <3>6, SumType, Zenon
    <3>8. f[x] \in Nat /\ f[y] \in Nat
      BY <2>1 DEF NatOn
    <3>9. SumFunctionOnSet(f, T) = f[y] + (f[x] + SumFunctionOnSet(f, (T \ {y}) \ {x})) /\ SumFunctionOnSet(f, T \ {x}) = f[y] + SumFunctionOnSet(f, (T \ {y}) \ {x})
      BY <2>2, <3>3, <3>4, <3>5, Zenon
    <3> QED BY <3>7, <3>8, <3>9
  <2> QED BY <2>3, <2>4
<1>2. \A T \in SUBSET S : T \in G
  <2> HIDE DEF G
  <2> QED BY <1>1, FinStrong, Zenon
<1>3. S \in SUBSET S
  OBVIOUS
<1> QED BY <1>2, <1>3, Zenon

\* An element joins.
LEMMA SumAdd ==
  ASSUME NEW f, NEW S, IsFiniteSet(S), NatOn(f, S), NEW e, e \notin S, f[e] \in Nat
  PROVE  SumFunctionOnSet(f, S \cup {e}) = f[e] + SumFunctionOnSet(f, S)
<1>1. IsFiniteSet(S \cup {e})
  BY FinAdd
<1>2. NatOn(f, S \cup {e}) /\ (S \cup {e}) \ {e} = S /\ e \in S \cup {e}
  BY DEF NatOn
<1> QED BY <1>1, <1>2, SumRemove

\* Only the values on the set count.
LEMMA SumEqual ==
  ASSUME NEW f, NEW g, NEW S, IsFiniteSet(S), \A x \in S : f[x] = g[x]
  PROVE  SumFunctionOnSet(f, S) = SumFunctionOnSet(g, S)
<1> DEFINE G == {T \in SUBSET S : SumFunctionOnSet(f, T) = SumFunctionOnSet(g, T)}
<1>1. ASSUME NEW T \in SUBSET S, \A U \in SUBSET T : U # T => U \in G
      PROVE  T \in G
  <2>1. CASE T = {}
    BY <2>1, SumEmpty
  <2>2. CASE T # {}
    <3>1. AnyOf(T) \in T /\ IsFiniteSet(T) /\ T \ {AnyOf(T)} \in SUBSET T /\ T \ {AnyOf(T)} # T
      BY <2>2, AnyOfIsIn, FinSubset
    <3>2. SumFunctionOnSet(f, T \ {AnyOf(T)}) = SumFunctionOnSet(g, T \ {AnyOf(T)})
      BY <3>1, <1>1, Zenon
    <3>3. f[AnyOf(T)] = g[AnyOf(T)]
      BY <3>1
    <3>4. SumFunctionOnSet(f, T) = f[AnyOf(T)] + SumFunctionOnSet(f, T \ {AnyOf(T)}) /\ SumFunctionOnSet(g, T) = g[AnyOf(T)] + SumFunctionOnSet(g, T \ {AnyOf(T)})
      BY <3>1, <2>2, SumAnyOf, Zenon
    <3> QED BY <3>2, <3>3, <3>4, Zenon
  <2> QED BY <2>1, <2>2
<1>2. \A T \in SUBSET S : T \in G
  <2> HIDE DEF G
  <2> QED BY <1>1, FinStrong, Zenon
<1>3. S \in SUBSET S
  OBVIOUS
<1> QED BY <1>2, <1>3, Zenon

\* The sum over two sets that have nothing in common.
LEMMA SumUnion ==
  ASSUME NEW f, NEW S, IsFiniteSet(S), NatOn(f, S),
         NEW T, IsFiniteSet(T), NatOn(f, T), S \cap T = {}
  PROVE  SumFunctionOnSet(f, S \cup T) = SumFunctionOnSet(f, S) + SumFunctionOnSet(f, T)
<1> DEFINE G == {U \in SUBSET T : SumFunctionOnSet(f, S \cup U) = SumFunctionOnSet(f, S) + SumFunctionOnSet(f, U)}
<1>0. SumFunctionOnSet(f, S) \in Nat
  BY SumType
<1>1. {} \in G
  <2> S \cup {} = S
    OBVIOUS
  <2> QED BY <1>0, SumEmpty
<1>2. ASSUME NEW U \in SUBSET T, NEW x \in T, U \in G, x \notin U
      PROVE  U \cup {x} \in G
  <2>1. IsFiniteSet(U) /\ NatOn(f, U) /\ f[x] \in Nat
    BY FinSubset DEF NatOn
  <2>2. IsFiniteSet(S \cup U) /\ NatOn(f, S \cup U)
    BY <2>1, FinUnion DEF NatOn
  <2>3. x \notin S \cup U
    BY <1>2
  <2>4. SumFunctionOnSet(f, (S \cup U) \cup {x}) = f[x] + SumFunctionOnSet(f, S \cup U)
    BY <2>1, <2>2, <2>3, SumAdd
  <2>5. SumFunctionOnSet(f, U \cup {x}) = f[x] + SumFunctionOnSet(f, U)
    BY <2>1, <1>2, SumAdd
  <2>6. SumFunctionOnSet(f, U) \in Nat
    BY <2>1, SumType
  <2>7. S \cup (U \cup {x}) = (S \cup U) \cup {x}
    OBVIOUS
  <2>8. SumFunctionOnSet(f, S \cup U) = SumFunctionOnSet(f, S) + SumFunctionOnSet(f, U)
    BY <1>2, Zenon
  <2>9. SumFunctionOnSet(f, S \cup (U \cup {x})) = SumFunctionOnSet(f, S) + SumFunctionOnSet(f, U \cup {x})
    <3>1. SumFunctionOnSet(f, S \cup (U \cup {x})) = f[x] + (SumFunctionOnSet(f, S) + SumFunctionOnSet(f, U))
      BY <2>4, <2>7, <2>8, Zenon
    <3>2. f[x] \in Nat
      BY <2>1
    <3> QED BY <1>0, <2>5, <2>6, <3>1, <3>2
  <2> QED BY <2>9, Zenon
<1>3. T \in G
  <2> HIDE DEF G
  <2> QED BY <1>1, <1>2, FinInd, Zenon
<1> QED BY <1>3

\* A part of a sum of naturals is no more than the whole.
LEMMA SumPart ==
  ASSUME NEW f, NEW S, IsFiniteSet(S), NatOn(f, S), NEW T \in SUBSET S
  PROVE  /\ IsFiniteSet(T) /\ NatOn(f, T)
         /\ SumFunctionOnSet(f, T) \in Nat
         /\ SumFunctionOnSet(f, T) <= SumFunctionOnSet(f, S)
<1>1. IsFiniteSet(T) /\ IsFiniteSet(S \ T) /\ NatOn(f, T) /\ NatOn(f, S \ T)
  BY FinSubset DEF NatOn
<1>2. T \cup (S \ T) = S /\ T \cap (S \ T) = {}
  OBVIOUS
<1>3. SumFunctionOnSet(f, S) = SumFunctionOnSet(f, T) + SumFunctionOnSet(f, S \ T)
  BY <1>1, <1>2, SumUnion
<1>4. SumFunctionOnSet(f, T) \in Nat /\ SumFunctionOnSet(f, S \ T) \in Nat
  BY <1>1, SumType
<1> QED
  BY <1>1, <1>3, <1>4

PairsOf(c, I) == {<<c, i>> : i \in I}

\* The sum over pairs with a common first part is the sum over the second parts.
LEMMA SumPairs ==
  ASSUME NEW c, NEW g, NEW I, IsFiniteSet(I), NatOn(g, I),
         NEW f, \A i \in I : f[<<c, i>>] = g[i]
  PROVE  /\ IsFiniteSet(PairsOf(c, I)) /\ NatOn(f, PairsOf(c, I))
         /\ SumFunctionOnSet(f, PairsOf(c, I)) = SumFunctionOnSet(g, I)
<1> DEFINE Pairs(J) == PairsOf(c, J)
           G == {J \in SUBSET I : /\ IsFiniteSet(Pairs(J))
                                  /\ SumFunctionOnSet(f, Pairs(J)) = SumFunctionOnSet(g, J)}
<1>1. {} \in G
  <2>1. Pairs({}) = {}
    BY DEF PairsOf
  <2>2. IsFiniteSet({})
    BY FinEmpty
  <2> QED BY <2>1, <2>2, SumEmpty
<1>2. ASSUME NEW J \in SUBSET I, NEW i \in I, J \in G, i \notin J
      PROVE  J \cup {i} \in G
  <2>1. Pairs(J \cup {i}) = Pairs(J) \cup {<<c, i>>} /\ <<c, i>> \notin Pairs(J)
    BY <1>2 DEF PairsOf
  <2>2. IsFiniteSet(Pairs(J)) /\ SumFunctionOnSet(f, Pairs(J)) = SumFunctionOnSet(g, J)
    BY <1>2
  <2>3. NatOn(f, Pairs(J)) /\ f[<<c, i>>] = g[i] /\ g[i] \in Nat /\ NatOn(g, J) /\ IsFiniteSet(J)
    BY FinSubset DEF NatOn, PairsOf
  <2> HIDE DEF Pairs
  <2>4. IsFiniteSet(Pairs(J) \cup {<<c, i>>})
    BY <2>2, FinAdd
  <2>5. SumFunctionOnSet(f, Pairs(J) \cup {<<c, i>>}) = f[<<c, i>>] + SumFunctionOnSet(f, Pairs(J))
    BY <2>1, <2>2, <2>3, SumAdd
  <2>6. SumFunctionOnSet(g, J \cup {i}) = g[i] + SumFunctionOnSet(g, J)
    BY <1>2, <2>3, SumAdd
  <2>7. J \cup {i} \in SUBSET I
    OBVIOUS
  <2>8. SumFunctionOnSet(f, Pairs(J \cup {i})) = SumFunctionOnSet(g, J \cup {i})
    BY <2>1, <2>2, <2>3, <2>5, <2>6, Zenon
  <2> QED BY <2>1, <2>4, <2>7, <2>8
<1>3. I \in G
  <2> HIDE DEF G
  <2> QED BY <1>1, <1>2, FinInd, Zenon
<1>4. NatOn(f, Pairs(I))
  BY DEF NatOn, PairsOf
<1> QED BY <1>3, <1>4
=============================================================================
