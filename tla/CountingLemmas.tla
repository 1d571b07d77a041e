---------------------------- MODULE CountingLemmas ----------------------------
(***************************************************************************)
(* Facts about numbers, finite sets, sums and fields that the proofs of    *)
(* the components share.  Induction is by the least counterexample, so     *)
(* that it needs no theorem that takes an operator.                        *)
(***************************************************************************)
EXTENDS Integers, FiniteSets, Functions, Fields, FiniteSetTheorems, WellFoundedInduction, TLAPS

---------------------------------------------------------------------------
(* Induction and least elements. *)

\* A set of natural numbers has a least one.
LEMMA LeastNatural ==
  ASSUME NEW T, T \subseteq Nat, T # {}
  PROVE  \E n \in T : \A m \in T : n <= m
PROOF
  <1> DEFINE F == FiniteSubsetsOf(Nat)
             R == StrictSubsetOrdering(Nat)
             S == {1..n : n \in T}
  <1>1. IsWellFoundedOn(R, F)
    BY FS_StrictSubsetOrderingWellFounded
  <1>2. S \subseteq F
    BY FS_Interval DEF FiniteSubsetsOf
  <1>3. \A m, n \in Nat : m < n => <<1..m, 1..n>> \in R
    <2> SUFFICES ASSUME NEW m \in Nat, NEW n \in Nat, m < n PROVE <<1..m, 1..n>> \in R
      OBVIOUS
    <2>1. n \in 1..n /\ n \notin 1..m /\ 1..m \subseteq 1..n
      OBVIOUS
    <2> QED
      BY <2>1 DEF StrictSubsetOrdering
  <1>4. S # {}
    OBVIOUS
  <1>5. \E X \in S : \A Y \in S : <<Y, X>> \notin R
    <2> HIDE DEF F, R, S
    <2> QED
      BY <1>1, <1>2, <1>4, WFMin
  <1> HIDE DEF R
  <1>6. PICK n \in T : \A m \in T : <<1..m, 1..n>> \notin R
    BY <1>5
  <1>7. \A m \in T : ~(m < n)
    BY <1>3, <1>6
  <1> QED
    <2> HIDE DEF F, S
    <2> QED
      BY <1>7

\* A set that has zero and with every number the next has them all.
LEMMA AllNaturals ==
  ASSUME NEW G, 0 \in G, \A n \in Nat : n \in G => n + 1 \in G
  PROVE  Nat \subseteq G
PROOF
  <1> SUFFICES ASSUME Nat \ G # {} PROVE FALSE
    OBVIOUS
  <1>1. PICK n \in Nat \ G : \A m \in Nat \ G : n <= m
    BY LeastNatural
  <1>2. n # 0 /\ n - 1 \in Nat
    BY <1>1
  <1>3. n - 1 \in G
    BY <1>1, <1>2
  <1>4. (n - 1) + 1 \in G
    BY <1>2, <1>3
  <1> QED
    BY <1>1, <1>4

---------------------------------------------------------------------------
(* Finite sets. *)

\* A property that every finite set has if all those smaller by one member do.
LEMMA AllFiniteSubsets ==
  ASSUME NEW S, IsFiniteSet(S), NEW G,
         \A T \in SUBSET S : (\A x \in T : T \ {x} \in G) => T \in G
  PROVE  SUBSET S \subseteq G
PROOF
  <1> DEFINE Sized == {n \in Nat : \A T \in SUBSET S : Cardinality(T) = n => T \in G}
  <1>1. 0 \in Sized
    <2> SUFFICES ASSUME NEW T \in SUBSET S, Cardinality(T) = 0 PROVE T \in G
      OBVIOUS
    <2>1. T = {}
      BY FS_Subset, FS_EmptySet
    <2> QED
      BY <2>1
  <1>2. ASSUME NEW n \in Nat, n \in Sized PROVE n + 1 \in Sized
    <2> SUFFICES ASSUME NEW T \in SUBSET S, Cardinality(T) = n + 1, NEW x \in T PROVE T \ {x} \in G
      OBVIOUS
    <2>1. Cardinality(T \ {x}) = Cardinality(T) - 1
      BY FS_Subset, FS_RemoveElement
    <2>2. Cardinality(T \ {x}) = n
      BY <2>1
    <2> QED
      BY <1>2, <2>2
  <1>3. Nat \subseteq Sized
    <2> HIDE DEF Sized
    <2> QED
      BY <1>1, <1>2, AllNaturals
  <1> SUFFICES ASSUME NEW T \in SUBSET S PROVE T \in G
    OBVIOUS
  <1>4. Cardinality(T) \in Nat
    BY FS_Subset, FS_CardinalityType
  <1> QED
    BY <1>3, <1>4

\* A finite set of numbers that is not empty has a greatest member.
LEMMA GreatestMember ==
  ASSUME NEW S, IsFiniteSet(S), S \subseteq Int, S # {}
  PROVE  \E x \in S : \A y \in S : y <= x
PROOF
  <1> DEFINE G == {T \in SUBSET S : T # {} => \E x \in T : \A y \in T : y <= x}
  <1>2. ASSUME NEW T \in SUBSET S, \A x \in T : T \ {x} \in G PROVE T \in G
    <2> SUFFICES ASSUME NEW z \in T PROVE \E x \in T : \A y \in T : y <= x
      OBVIOUS
    <2>1. CASE T = {z}
      BY <2>1
    <2>2. CASE T # {z}
      <3>1. PICK x \in T \ {z} : \A y \in T \ {z} : y <= x
        BY <1>2, <2>2
      <3>2. CASE z <= x
        BY <3>1, <3>2
      <3>3. CASE ~(z <= x)
        <4>1. \A y \in T : y <= z
          BY <3>1, <3>3
        <4> QED
          BY <4>1
      <3> QED
        BY <3>2, <3>3
    <2> QED
      BY <2>1, <2>2
  <1>3. S \in G
    <2> HIDE DEF G
    <2> QED
      BY <1>2, AllFiniteSubsets
  <1> QED
    BY <1>3

---------------------------------------------------------------------------
(* The place of a member among the members of a set of numbers. *)

Place(S, i) == Cardinality({j \in S : j <= i})

LEMMA GreatestHasLastPlace ==
  ASSUME NEW S, NEW i \in S, \A j \in S : j <= i
  PROVE  Place(S, i) = Cardinality(S)
PROOF
  <1>1. {j \in S : j <= i} = S
    OBVIOUS
  <1> QED
    BY <1>1 DEF Place

LEMMA PlaceInRange ==
  ASSUME NEW S, IsFiniteSet(S), S \subseteq Int, NEW i \in S
  PROVE  Place(S, i) \in 1..Cardinality(S)
PROOF
  <1> DEFINE P == {j \in S : j <= i}
  <1>1. P \subseteq S /\ i \in P
    OBVIOUS
  <1> HIDE DEF P
  <1>2. IsFiniteSet(P) /\ Cardinality(P) <= Cardinality(S)
    BY <1>1, FS_Subset
  <1>3. Cardinality(P) \in Nat /\ Cardinality(S) \in Nat /\ Cardinality(P) # 0
    BY <1>1, <1>2, FS_CardinalityType, FS_EmptySet
  <1>4. Cardinality(P) \in 1..Cardinality(S)
    BY <1>2, <1>3
  <1> QED
    BY <1>4 DEF Place, P

\* The greater the member the further its place.
LEMMA PlaceGrows ==
  ASSUME NEW S, IsFiniteSet(S), S \subseteq Int, NEW i \in S, NEW j \in S, i < j
  PROVE  Place(S, i) < Place(S, j)
PROOF
  <1> DEFINE P == {k \in S : k <= i}
             Q == {k \in S : k <= j}
  <1>1. P \subseteq Q \ {j} /\ Q \subseteq S /\ j \in Q
    <2>1. \A k \in S : k <= i => k <= j /\ k # j
      OBVIOUS
    <2>2. j <= j
      OBVIOUS
    <2>3. P \subseteq Q \ {j}
      BY <2>1
    <2>4. j \in Q
      BY <2>2
    <2> QED
      BY <2>3, <2>4
  <1> HIDE DEF P, Q
  <1>2. IsFiniteSet(Q)
    BY <1>1, FS_Subset
  <1>3. Cardinality(Q \ {j}) = Cardinality(Q) - 1 /\ IsFiniteSet(Q \ {j})
    BY <1>1, <1>2, FS_RemoveElement
  <1>4. Cardinality(P) <= Cardinality(Q \ {j}) /\ IsFiniteSet(P)
    BY <1>1, <1>3, FS_Subset
  <1>5. Cardinality(P) \in Nat /\ Cardinality(Q) \in Nat
    BY <1>2, <1>4, FS_CardinalityType
  <1>6. Cardinality(P) < Cardinality(Q)
    BY <1>3, <1>4, <1>5
  <1> QED
    BY <1>6 DEF Place, P, Q

LEMMA PlaceUnique ==
  ASSUME NEW S, IsFiniteSet(S), S \subseteq Int, NEW i \in S, NEW j \in S, Place(S, i) = Place(S, j)
  PROVE  i = j
PROOF
  <1>1. Place(S, i) \in 1..Cardinality(S) /\ Place(S, j) \in 1..Cardinality(S) /\ Cardinality(S) \in Nat
    BY PlaceInRange, FS_CardinalityType
  <1>2. ASSUME i < j PROVE FALSE
    <2>1. Place(S, i) < Place(S, j)
      BY <1>2, PlaceGrows
    <2> QED
      BY <1>1, <2>1
  <1>3. ASSUME j < i PROVE FALSE
    <2>1. Place(S, j) < Place(S, i)
      BY <1>3, PlaceGrows
    <2> QED
      BY <1>1, <2>1
  <1> QED
    BY <1>2, <1>3

\* No place up to the last is left empty.
LEMMA PlaceTaken ==
  ASSUME NEW S, IsFiniteSet(S), S \subseteq Int, NEW n \in 1..Cardinality(S)
  PROVE  \E i \in S : Place(S, i) = n
PROOF
  <1> DEFINE G == {T \in SUBSET S : \A m \in 1..Cardinality(T) : \E i \in T : Place(T, i) = m}
  <1>1. ASSUME NEW T \in SUBSET S, \A x \in T : T \ {x} \in G PROVE T \in G
    <2> SUFFICES ASSUME NEW m \in 1..Cardinality(T) PROVE \E i \in T : Place(T, i) = m
      OBVIOUS
    <2>1. IsFiniteSet(T) /\ T \subseteq Int /\ Cardinality(T) \in Nat
      BY FS_Subset, FS_CardinalityType
    <2>2. T # {}
      BY FS_EmptySet
    <2>3. PICK x \in T : \A y \in T : y <= x
      BY <2>1, <2>2, GreatestMember
    <2>4. CASE m = Cardinality(T)
      BY <2>3, <2>4, GreatestHasLastPlace
    <2>5. CASE m # Cardinality(T)
      <3>1. Cardinality(T \ {x}) = Cardinality(T) - 1
        BY <2>1, <2>3, FS_RemoveElement
      <3>2. m \in 1..Cardinality(T \ {x})
        BY <2>1, <2>5, <3>1
      <3>3. PICK i \in T \ {x} : Place(T \ {x}, i) = m
        BY <1>1, <2>3, <3>2
      <3>4. {j \in T \ {x} : j <= i} = {j \in T : j <= i}
        <4>1. ~(x <= i)
          BY <2>1, <2>3, <3>3
        <4> QED
          BY <4>1
      <3> QED
        BY <3>3, <3>4 DEF Place
    <2> QED
      BY <2>4, <2>5
  <1>2. S \in G
    <2> HIDE DEF G
    <2> QED
      BY <1>1, AllFiniteSubsets
  <1> QED
    BY <1>2

---------------------------------------------------------------------------
(* Sums over finite sets. *)

Pick(s) == CHOOSE x \in s : TRUE
Sums(f, S, g) == g = [s \in SUBSET S |-> IF s = {} THEN 0 ELSE f[Pick(s)] + g[s \ {Pick(s)}]]

LEMMA SumIsChosen ==
  ASSUME NEW f, NEW S
  PROVE  SumFunctionOnSet(f, S) = (CHOOSE g : Sums(f, S, g))[S]
  BY DEF SumFunctionOnSet, FoldFunctionOnSet, MapThenFoldSet, Sums, Pick

LEMMA SumsExist ==
  ASSUME NEW f, NEW S, IsFiniteSet(S)
  PROVE  \E g : Sums(f, S, g)
PROOF
  <1> DEFINE Level(n) == {s \in SUBSET S : Cardinality(s) <= n}
             Solves(g, n) == g = [s \in Level(n) |-> IF s = {} THEN 0 ELSE f[Pick(s)] + g[s \ {Pick(s)}]]
             G == {n \in Nat : \E g : Solves(g, n)}
  <1>0. \A s \in SUBSET S : /\ Cardinality(s) \in Nat
                            /\ Cardinality(s) = 0 <=> s = {}
                            /\ \A x \in s : Cardinality(s \ {x}) = Cardinality(s) - 1
    BY FS_Subset, FS_CardinalityType, FS_EmptySet, FS_RemoveElement
  <1>p. \A s : s # {} => Pick(s) \in s
    BY DEF Pick
  <1>1. 0 \in G
    <2>1. Level(0) = {{}}
      BY <1>0
    <2>2. Solves([s \in Level(0) |-> 0], 0)
      BY <2>1
    <2> QED
      BY <2>2
  <1>2. ASSUME NEW n \in Nat, n \in G PROVE n + 1 \in G
    <2>1. PICK g : Solves(g, n)
      BY <1>2
    <2> DEFINE h == [s \in Level(n + 1) |->
                       IF s \in Level(n) THEN g[s] ELSE f[Pick(s)] + g[s \ {Pick(s)}]]
    <2>2. ASSUME NEW s \in Level(n + 1), s # {}
          PROVE  s \ {Pick(s)} \in Level(n)
      BY <1>0, <1>p, <2>2
    <2>3. ASSUME NEW s \in Level(n + 1)
          PROVE  h[s] = IF s = {} THEN 0 ELSE f[Pick(s)] + h[s \ {Pick(s)}]
      <3>1. CASE s = {}
        <4>1. s \in Level(n)
          BY <1>0, <3>1
        <4> QED
          BY <2>1, <3>1, <4>1
      <3>2. CASE s # {}
        <4>1. s \ {Pick(s)} \in Level(n) /\ s \ {Pick(s)} \in Level(n + 1)
          <5>1. s \ {Pick(s)} \in Level(n)
            BY <2>2, <3>2
          <5>2. Cardinality(s \ {Pick(s)}) \in Nat
            BY <1>0
          <5> QED
            BY <5>1, <5>2
        <4>2. h[s \ {Pick(s)}] = g[s \ {Pick(s)}]
          BY <4>1
        <4>3. CASE s \in Level(n)
          BY <2>1, <3>2, <4>2, <4>3
        <4>4. CASE s \notin Level(n)
          BY <3>2, <4>2, <4>4
        <4> QED
          BY <4>3, <4>4
      <3> QED
        BY <3>1, <3>2
    <2>4. Solves(h, n + 1)
      <3> HIDE DEF Level
      <3> QED
        BY <2>3
    <2> HIDE DEF Solves, h
    <2> QED
      BY <2>4
  <1>3. Cardinality(S) \in G
    <2> HIDE DEF G
    <2> QED
      BY <1>0, <1>1, <1>2, AllNaturals
  <1>4. Level(Cardinality(S)) = SUBSET S
    BY FS_Subset
  <1> QED
    BY <1>3, <1>4 DEF Sums

LEMMA SumsAreIntegers ==
  ASSUME NEW f, NEW S, IsFiniteSet(S), \A x \in S : f[x] \in Int, NEW g, Sums(f, S, g)
  PROVE  \A s \in SUBSET S : g[s] \in Int
PROOF
  <1> DEFINE G == {t \in SUBSET S : g[t] \in Int}
  <1>1. ASSUME NEW t \in SUBSET S, \A x \in t : t \ {x} \in G PROVE t \in G
    <2>1. CASE t = {}
      BY <2>1 DEF Sums
    <2>2. CASE t # {}
      <3> DEFINE p == Pick(t)
      <3>1. p \in t
        BY <2>2 DEF Pick
      <3>2. g[t] = f[p] + g[t \ {p}]
        BY <2>2 DEF Sums
      <3>3. f[p] \in Int /\ g[t \ {p}] \in Int
        BY <1>1, <3>1
      <3>4. \A m, n \in Int : m + n \in Int
        OBVIOUS
      <3> HIDE DEF p
      <3>5. g[t] \in Int
        BY <3>2, <3>3, <3>4
      <3> QED
        BY <3>5
    <2> QED
      BY <2>1, <2>2
  <1>2. SUBSET S \subseteq G
    <2> HIDE DEF G
    <2> QED
      BY <1>1, AllFiniteSubsets
  <1> QED
    BY <1>2

LEMMA SumsRemove ==
  ASSUME NEW f, NEW S, IsFiniteSet(S), \A x \in S : f[x] \in Int, NEW g, Sums(f, S, g),
         NEW s \in SUBSET S, NEW x \in s
  PROVE  g[s] = f[x] + g[s \ {x}]
PROOF
  <1> DEFINE G == {t \in SUBSET S : \A y \in t : g[t] = f[y] + g[t \ {y}]}
  <1>0. \A t \in SUBSET S : g[t] \in Int
    BY SumsAreIntegers
  <1>1. ASSUME NEW t \in SUBSET S, \A y \in t : t \ {y} \in G PROVE t \in G
    <2> SUFFICES ASSUME NEW y \in t PROVE g[t] = f[y] + g[t \ {y}]
      OBVIOUS
    <2> DEFINE p == Pick(t)
    <2>1. p \in t
      BY DEF Pick
    <2>2. g[t] = f[p] + g[t \ {p}]
      BY DEF Sums
    <2> HIDE DEF p
    <2>3. CASE y = p
      BY <2>2, <2>3
    <2>4. CASE y # p
      <3>1. g[t \ {p}] = f[y] + g[(t \ {p}) \ {y}]
        BY <1>1, <2>1, <2>4
      <3>2. g[t \ {y}] = f[p] + g[(t \ {y}) \ {p}]
        BY <1>1, <2>1, <2>4
      <3>3. (t \ {p}) \ {y} = (t \ {y}) \ {p}
        OBVIOUS
      <3>4. f[y] \in Int /\ f[p] \in Int /\ g[(t \ {y}) \ {p}] \in Int
        BY <1>0, <2>1
      <3>5. \A m, n, o \in Int : m + (n + o) = n + (m + o)
        OBVIOUS
      <3> DEFINE r == g[(t \ {y}) \ {p}]
      <3>6. g[t] = f[p] + (f[y] + r) /\ g[t \ {y}] = f[p] + r
        BY <2>2, <3>1, <3>2, <3>3
      <3>7. r \in Int
        BY <3>4
      <3> HIDE DEF r
      <3> QED
        BY <3>4, <3>5, <3>6, <3>7
    <2> QED
      BY <2>3, <2>4
  <1>2. SUBSET S \subseteq G
    <2> HIDE DEF G
    <2> QED
      BY <1>1, AllFiniteSubsets
  <1> QED
    BY <1>2

\* What SumFunctionOnSet is, whatever order it adds in: nothing for no members, and
\* one member's value and the sum of the rest otherwise.
LEMMA SumSolves ==
  ASSUME NEW f, NEW S, IsFiniteSet(S)
  PROVE  \E g : Sums(f, S, g) /\ SumFunctionOnSet(f, S) = g[S]
PROOF
  <1>1. \E g : Sums(f, S, g)
    BY SumsExist
  <1>2. Sums(f, S, CHOOSE g : Sums(f, S, g))
    BY <1>1
  <1> QED
    BY <1>2, SumIsChosen

LEMMA SumOfNone ==
  ASSUME NEW f
  PROVE  SumFunctionOnSet(f, {}) = 0
PROOF
  <1>1. PICK g : Sums(f, {}, g) /\ SumFunctionOnSet(f, {}) = g[{}]
    BY SumSolves, FS_EmptySet
  <1> QED
    BY <1>1 DEF Sums

LEMMA SumOfZeros ==
  ASSUME NEW f, NEW S, IsFiniteSet(S), \A x \in S : f[x] = 0
  PROVE  SumFunctionOnSet(f, S) = 0
PROOF
  <1>1. PICK g : Sums(f, S, g) /\ SumFunctionOnSet(f, S) = g[S]
    BY SumSolves
  <1> DEFINE G == {t \in SUBSET S : g[t] = 0}
  <1>2. ASSUME NEW t \in SUBSET S, \A x \in t : t \ {x} \in G PROVE t \in G
    <2>1. CASE t = {}
      BY <1>1, <2>1 DEF Sums
    <2>2. CASE t # {}
      <3>1. Pick(t) \in t
        BY <2>2 DEF Pick
      <3>2. g[t] = f[Pick(t)] + g[t \ {Pick(t)}]
        BY <1>1, <2>2 DEF Sums
      <3> QED
        BY <1>2, <3>1, <3>2
    <2> QED
      BY <2>1, <2>2
  <1>3. SUBSET S \subseteq G
    <2> HIDE DEF G
    <2> QED
      BY <1>2, AllFiniteSubsets
  <1> QED
    BY <1>1, <1>3

LEMMA SumIsInteger ==
  ASSUME NEW f, NEW S, IsFiniteSet(S), \A x \in S : f[x] \in Int
  PROVE  SumFunctionOnSet(f, S) \in Int
  BY SumSolves, SumsAreIntegers

LEMMA SumsAgree ==
  ASSUME NEW f, NEW h, NEW S, NEW T, IsFiniteSet(S), T \subseteq S,
         \A x \in T : f[x] \in Int /\ f[x] = h[x],
         NEW g, Sums(f, T, g), NEW k, Sums(h, S, k)
  PROVE  \A s \in SUBSET T : g[s] = k[s]
PROOF
  <1> DEFINE G == {t \in SUBSET T : g[t] = k[t]}
  <1>1. ASSUME NEW t \in SUBSET T, \A y \in t : t \ {y} \in G PROVE t \in G
    <2>1. CASE t = {}
      BY <2>1 DEF Sums
    <2>2. CASE t # {}
      <3>1. Pick(t) \in t
        BY <2>2 DEF Pick
      <3>2. g[t] = f[Pick(t)] + g[t \ {Pick(t)}] /\ k[t] = h[Pick(t)] + k[t \ {Pick(t)}]
        BY <2>2 DEF Sums
      <3> QED
        BY <1>1, <3>1, <3>2
    <2> QED
      BY <2>1, <2>2
  <1>2. IsFiniteSet(T)
    BY FS_Subset
  <1>3. SUBSET T \subseteq G
    <2> HIDE DEF G
    <2> QED
      BY <1>1, <1>2, AllFiniteSubsets
  <1> QED
    BY <1>3

LEMMA SumOfSame ==
  ASSUME NEW f, NEW h, NEW S, IsFiniteSet(S), \A x \in S : f[x] \in Int /\ f[x] = h[x]
  PROVE  SumFunctionOnSet(f, S) = SumFunctionOnSet(h, S)
PROOF
  <1>1. PICK g : Sums(f, S, g) /\ SumFunctionOnSet(f, S) = g[S]
    BY SumSolves
  <1>2. PICK k : Sums(h, S, k) /\ SumFunctionOnSet(h, S) = k[S]
    BY SumSolves
  <1>3. g[S] = k[S]
    BY <1>1, <1>2, SumsAgree
  <1> QED
    BY <1>1, <1>2, <1>3

LEMMA SumWithout ==
  ASSUME NEW f, NEW S, IsFiniteSet(S), \A x \in S : f[x] \in Int, NEW x \in S
  PROVE  SumFunctionOnSet(f, S) = f[x] + SumFunctionOnSet(f, S \ {x})
PROOF
  <1>1. PICK g : Sums(f, S, g) /\ SumFunctionOnSet(f, S) = g[S]
    BY SumSolves
  <1>2. IsFiniteSet(S \ {x})
    BY FS_RemoveElement
  <1>3. PICK k : Sums(f, S \ {x}, k) /\ SumFunctionOnSet(f, S \ {x}) = k[S \ {x}]
    BY <1>2, SumSolves
  <1>4. g[S] = f[x] + g[S \ {x}]
    BY <1>1, SumsRemove
  <1>5. k[S \ {x}] = g[S \ {x}]
    BY <1>1, <1>3, SumsAgree
  <1> QED
    BY <1>1, <1>3, <1>4, <1>5

\* Changing one value changes the sum by as much.
LEMMA SumUpdated ==
  ASSUME NEW f, NEW h, NEW S, IsFiniteSet(S), NEW x \in S,
         \A y \in S : f[y] \in Int /\ h[y] \in Int /\ (y # x => h[y] = f[y])
  PROVE  SumFunctionOnSet(h, S) = SumFunctionOnSet(f, S) + (h[x] - f[x])
PROOF
  <1>1. IsFiniteSet(S \ {x})
    BY FS_RemoveElement
  <1>2. SumFunctionOnSet(f, S \ {x}) = SumFunctionOnSet(h, S \ {x})
    BY <1>1, SumOfSame
  <1>3. /\ SumFunctionOnSet(f, S) = f[x] + SumFunctionOnSet(f, S \ {x})
        /\ SumFunctionOnSet(h, S) = h[x] + SumFunctionOnSet(h, S \ {x})
    BY SumWithout
  <1>4. SumFunctionOnSet(f, S \ {x}) \in Int
    BY <1>1, SumIsInteger
  <1> QED
    BY <1>2, <1>3, <1>4

\* A larger or equal value everywhere makes a larger or equal sum.
LEMMA SumMonotone ==
  ASSUME NEW f, NEW h, NEW S, IsFiniteSet(S),
         \A y \in S : f[y] \in Int /\ h[y] \in Int /\ f[y] <= h[y]
  PROVE  SumFunctionOnSet(f, S) <= SumFunctionOnSet(h, S)
PROOF
  <1> DEFINE G == {t \in SUBSET S : SumFunctionOnSet(f, t) <= SumFunctionOnSet(h, t)}
  <1>1. ASSUME NEW t \in SUBSET S, \A y \in t : t \ {y} \in G PROVE t \in G
    <2>1. CASE t = {}
      BY <2>1, SumOfNone
    <2>2. CASE t # {}
      <3>1. PICK y \in t : TRUE
        BY <2>2
      <3>2. IsFiniteSet(t) /\ IsFiniteSet(t \ {y})
        BY FS_Subset, FS_RemoveElement
      <3>3. /\ SumFunctionOnSet(f, t) = f[y] + SumFunctionOnSet(f, t \ {y})
            /\ SumFunctionOnSet(h, t) = h[y] + SumFunctionOnSet(h, t \ {y})
        BY <3>2, SumWithout
      <3>4. SumFunctionOnSet(f, t \ {y}) \in Int /\ SumFunctionOnSet(h, t \ {y}) \in Int
        BY <3>2, SumIsInteger
      <3>5. SumFunctionOnSet(f, t \ {y}) <= SumFunctionOnSet(h, t \ {y})
        BY <1>1
      <3> QED
        BY <3>3, <3>4, <3>5
    <2> QED
      BY <2>1, <2>2
  <1>2. SUBSET S \subseteq G
    <2> HIDE DEF G
    <2> QED
      BY <1>1, AllFiniteSubsets
  <1> QED
    BY <1>2

\* The sum over a set and one more member.
LEMMA SumWith ==
  ASSUME NEW f, NEW S, IsFiniteSet(S), \A x \in S : f[x] \in Int, NEW y, y \notin S, f[y] \in Int
  PROVE  SumFunctionOnSet(f, S \cup {y}) = f[y] + SumFunctionOnSet(f, S)
PROOF
  <1>1. IsFiniteSet(S \cup {y}) /\ (S \cup {y}) \ {y} = S
    BY FS_AddElement
  <1> DEFINE T == S \cup {y}
  <1>2. y \in T /\ \A x \in T : f[x] \in Int
    OBVIOUS
  <1>3. IsFiniteSet(T) /\ T \ {y} = S
    BY <1>1
  <1> HIDE DEF T
  <1>4. SumFunctionOnSet(f, T) = f[y] + SumFunctionOnSet(f, T \ {y})
    BY <1>2, <1>3, SumWithout
  <1> QED
    BY <1>3, <1>4 DEF T

\* The sum over two sets that share nothing is the sum of the sums.
LEMMA SumOfUnion ==
  ASSUME NEW f, NEW S, IsFiniteSet(S), NEW T, IsFiniteSet(T), S \cap T = {}, \A x \in S \cup T : f[x] \in Int
  PROVE  SumFunctionOnSet(f, S \cup T) = SumFunctionOnSet(f, S) + SumFunctionOnSet(f, T)
PROOF
  <1> DEFINE G == {t \in SUBSET T : SumFunctionOnSet(f, S \cup t) = SumFunctionOnSet(f, S) + SumFunctionOnSet(f, t)}
  <1>1. SumFunctionOnSet(f, S) \in Int
    BY SumIsInteger
  <1>2. ASSUME NEW t \in SUBSET T, \A x \in t : t \ {x} \in G PROVE t \in G
    <2>1. CASE t = {}
      <3>1. S \cup t = S /\ SumFunctionOnSet(f, t) = 0
        BY <2>1, SumOfNone
      <3>2. \A k \in Int : k = k + 0
        OBVIOUS
      <3>3. SumFunctionOnSet(f, S) = SumFunctionOnSet(f, S) + 0
        BY <1>1, <3>2
      <3>4. SumFunctionOnSet(f, S \cup t) = SumFunctionOnSet(f, S) + SumFunctionOnSet(f, t)
        BY <3>1, <3>3
      <3> QED
        BY <3>4
    <2>2. CASE t # {}
      <3>1. PICK y \in t : TRUE
        BY <2>2
      <3> DEFINE u == t \ {y}
                 V == S \cup u
      <3>2. IsFiniteSet(u) /\ IsFiniteSet(V) /\ y \notin V /\ y \notin u /\ V \cup {y} = S \cup t /\ u \cup {y} = t
        <4>1. IsFiniteSet(u)
          BY FS_Subset
        <4> QED
          BY <3>1, <4>1, FS_Union
      <3>3. (\A x \in V : f[x] \in Int) /\ (\A x \in u : f[x] \in Int) /\ f[y] \in Int
        BY <3>1
      <3>4. SumFunctionOnSet(f, V) = SumFunctionOnSet(f, S) + SumFunctionOnSet(f, u)
        BY <1>2, <3>1
      <3> HIDE DEF u, V
      <3>5. SumFunctionOnSet(f, V \cup {y}) = f[y] + SumFunctionOnSet(f, V)
        BY <3>2, <3>3, SumWith
      <3>6. SumFunctionOnSet(f, u \cup {y}) = f[y] + SumFunctionOnSet(f, u)
        BY <3>2, <3>3, SumWith
      <3>7. SumFunctionOnSet(f, u) \in Int
        BY <3>2, <3>3, SumIsInteger
      <3>8. \A k, m, n \in Int : k + (m + n) = m + (k + n)
        OBVIOUS
      <3>9. SumFunctionOnSet(f, S \cup t) = SumFunctionOnSet(f, S) + SumFunctionOnSet(f, t)
        <4>1. SumFunctionOnSet(f, S \cup t) = f[y] + (SumFunctionOnSet(f, S) + SumFunctionOnSet(f, u))
          BY <3>2, <3>4, <3>5
        <4>2. SumFunctionOnSet(f, t) = f[y] + SumFunctionOnSet(f, u)
          BY <3>2, <3>6
        <4> QED
          BY <1>1, <3>3, <3>7, <3>8, <4>1, <4>2
      <3> QED
        BY <3>9
    <2> QED
      BY <2>1, <2>2
  <1>3. SUBSET T \subseteq G
    <2> HIDE DEF G
    <2> QED
      BY <1>2, AllFiniteSubsets
  <1> QED
    BY <1>3

LEMMA SumIsNatural ==
  ASSUME NEW f, NEW S, IsFiniteSet(S), \A x \in S : f[x] \in Nat
  PROVE  SumFunctionOnSet(f, S) \in Nat
PROOF
  <1> DEFINE G == {t \in SUBSET S : SumFunctionOnSet(f, t) \in Nat}
  <1>1. ASSUME NEW t \in SUBSET S, \A x \in t : t \ {x} \in G PROVE t \in G
    <2>1. CASE t = {}
      BY <2>1, SumOfNone
    <2>2. CASE t # {}
      <3>1. PICK y \in t : TRUE
        BY <2>2
      <3>2. IsFiniteSet(t)
        BY FS_Subset
      <3>3. SumFunctionOnSet(f, t) = f[y] + SumFunctionOnSet(f, t \ {y})
        BY <3>2, SumWithout
      <3>4. SumFunctionOnSet(f, t \ {y}) \in Nat /\ f[y] \in Nat
        BY <1>1
      <3> QED
        BY <3>3, <3>4
    <2> QED
      BY <2>1, <2>2
  <1>2. SUBSET S \subseteq G
    <2> HIDE DEF G
    <2> QED
      BY <1>1, AllFiniteSubsets
  <1> QED
    BY <1>2

\* A part of the set sums to no more than the whole.
LEMMA SumOfPart ==
  ASSUME NEW f, NEW S, IsFiniteSet(S), \A x \in S : f[x] \in Nat, NEW T \in SUBSET S
  PROVE  SumFunctionOnSet(f, T) <= SumFunctionOnSet(f, S)
PROOF
  <1> DEFINE R == S \ T
  <1>1. IsFiniteSet(T) /\ IsFiniteSet(R) /\ T \cap R = {} /\ T \cup R = S
    BY FS_Subset
  <1>2. SumFunctionOnSet(f, T) \in Nat /\ SumFunctionOnSet(f, R) \in Nat
    BY <1>1, SumIsNatural
  <1> HIDE DEF R
  <1>3. SumFunctionOnSet(f, T \cup R) = SumFunctionOnSet(f, T) + SumFunctionOnSet(f, R)
    <2>1. \A x \in T \cup R : f[x] \in Int
      BY <1>1
    <2> QED
      BY <1>1, <2>1, SumOfUnion
  <1>4. \A k, n \in Nat : k <= k + n
    OBVIOUS
  <1>5. SumFunctionOnSet(f, T) <= SumFunctionOnSet(f, T) + SumFunctionOnSet(f, R)
    BY <1>2, <1>4
  <1> QED
    BY <1>1, <1>3, <1>5

\* Values moved up by one place have the same sum.
LEMMA SumShifted ==
  ASSUME NEW m \in Nat, NEW n \in Nat, NEW f, NEW h,
         \A a \in m..(m + n) : a < m + n => f[a] \in Int /\ h[a + 1] = f[a]
  PROVE  SumFunctionOnSet(h, (m + 1)..(m + n)) = SumFunctionOnSet(f, m..(m + n - 1))
PROOF
  <1> DEFINE Up(k) == (m + 1)..(m + k)
             Down(k) == m..(m + k - 1)
             G == {k \in Nat : k <= n => SumFunctionOnSet(h, Up(k)) = SumFunctionOnSet(f, Down(k))}
  <1>1. 0 \in G
    <2>1. Up(0) = {} /\ Down(0) = {}
      OBVIOUS
    <2> QED
      BY <2>1, SumOfNone
  <1>2. ASSUME NEW k \in Nat, k \in G PROVE k + 1 \in G
    <2> SUFFICES ASSUME k + 1 <= n PROVE SumFunctionOnSet(h, Up(k + 1)) = SumFunctionOnSet(f, Down(k + 1))
      OBVIOUS
    <2> DEFINE U == Up(k)
               D == Down(k)
               y == m + k
    <2>1. /\ Up(k + 1) = U \cup {y + 1} /\ y + 1 \notin U
          /\ Down(k + 1) = D \cup {y} /\ y \notin D
          /\ IsFiniteSet(U) /\ IsFiniteSet(D)
      <3>1. IsFiniteSet(U) /\ IsFiniteSet(D)
        BY FS_Interval
      <3>2. Up(k + 1) = U \cup {y + 1} /\ Down(k + 1) = D \cup {y}
        OBVIOUS
      <3>3. y + 1 \notin U /\ y \notin D
        OBVIOUS
      <3> QED
        BY <3>1, <3>2, <3>3
    <2>2. /\ \A x \in U : h[x] \in Int
          /\ \A x \in D : f[x] \in Int
          /\ f[y] \in Int /\ h[y + 1] = f[y]
      <3>1. \A x \in U : x - 1 \in m..(m + n) /\ x - 1 < m + n /\ (x - 1) + 1 = x
        OBVIOUS
      <3>2. \A x \in D \cup {y} : x \in m..(m + n) /\ x < m + n
        OBVIOUS
      <3> HIDE DEF U, D, y
      <3> QED
        BY <3>1, <3>2
    <2>3. SumFunctionOnSet(h, U) = SumFunctionOnSet(f, D)
      BY <1>2
    <2> HIDE DEF U, D, y, Up, Down
    <2>4. SumFunctionOnSet(h, U \cup {y + 1}) = h[y + 1] + SumFunctionOnSet(h, U)
      BY <2>1, <2>2, SumWith
    <2>5. SumFunctionOnSet(f, D \cup {y}) = f[y] + SumFunctionOnSet(f, D)
      BY <2>1, <2>2, SumWith
    <2> QED
      BY <2>1, <2>2, <2>3, <2>4, <2>5
  <1>3. n \in G
    <2> HIDE DEF G
    <2> QED
      BY <1>1, <1>2, AllNaturals
  <1> QED
    BY <1>3

---------------------------------------------------------------------------
(* Overlays of fields *)

\* What an overlay is ...
LEMMA OverlayIs ==
  ASSUME NEW f, NEW g
  PROVE  /\ DOMAIN (f ++ g) = DOMAIN f \cup DOMAIN g
         /\ \A x \in DOMAIN f : (f ++ g)[x] = f[x]
         /\ \A x \in DOMAIN g \ DOMAIN f : (f ++ g)[x] = g[x]
  BY DEF ++, Overlay

\* ... and that nothing else is one.
LEMMA OverlaysAre ==
  ASSUME NEW f, NEW g, NEW h, DOMAIN h = DOMAIN f \cup DOMAIN g,
         \A x \in DOMAIN f : h[x] = f[x], \A x \in DOMAIN g \ DOMAIN f : h[x] = g[x],
         h = [x \in DOMAIN h |-> h[x]]
  PROVE  h = f ++ g
  BY DEF ++, Overlay

LEMMA OverlaysAreFunctions ==
  ASSUME NEW f, NEW g
  PROVE  f ++ g = [x \in DOMAIN (f ++ g) |-> (f ++ g)[x]]
  BY DEF ++, Overlay

\* Taken one field at a time:
LEMMA OverlayKeeps ==
  ASSUME NEW f, NEW g, NEW x \in DOMAIN f
  PROVE  x \in DOMAIN (f ++ g) /\ (f ++ g)[x] = f[x]
  BY DEF ++, Overlay

LEMMA OverlayAdds ==
  ASSUME NEW f, NEW g, NEW x \in DOMAIN g, x \notin DOMAIN f
  PROVE  x \in DOMAIN (f ++ g) /\ (f ++ g)[x] = g[x]
  BY DEF ++, Overlay

LEMMA OverlayLacks ==
  ASSUME NEW f, NEW g, NEW x, x \notin DOMAIN f, x \notin DOMAIN g
  PROVE  x \notin DOMAIN (f ++ g)
  BY DEF ++, Overlay

LEMMA FieldIs ==
  /\ \A n, v : DOMAIN Field(n, TRUE, v) = {n} /\ Field(n, TRUE, v)[n] = v
  /\ \A n, v : DOMAIN Field(n, FALSE, v) = {}
  BY DEF Field

\* They may be grouped at will.
LEMMA OverlayGroups ==
  ASSUME NEW f, NEW g, NEW h
  PROVE  f ++ (g ++ h) = (f ++ g) ++ h
PROOF
  <1> DEFINE gh == g ++ h
             fg == f ++ g
             e == fg ++ h
  <1>1. /\ DOMAIN gh = DOMAIN g \cup DOMAIN h /\ DOMAIN fg = DOMAIN f \cup DOMAIN g
        /\ \A x \in DOMAIN g : gh[x] = g[x]
        /\ \A x \in DOMAIN h \ DOMAIN g : gh[x] = h[x]
        /\ \A x \in DOMAIN f : fg[x] = f[x]
        /\ \A x \in DOMAIN g \ DOMAIN f : fg[x] = g[x]
    BY OverlayIs
  <1> HIDE DEF gh, fg
  <1>2. /\ DOMAIN e = DOMAIN fg \cup DOMAIN h
        /\ \A x \in DOMAIN fg : e[x] = fg[x]
        /\ \A x \in DOMAIN h \ DOMAIN fg : e[x] = h[x]
    BY OverlayIs
  <1>3. e = [x \in DOMAIN e |-> e[x]]
    BY DEF ++, Overlay
  <1> HIDE DEF e
  <1>4. e = f ++ gh
    <2>1. DOMAIN e = DOMAIN f \cup DOMAIN gh
      BY <1>1, <1>2
    <2>2. \A x \in DOMAIN f : e[x] = f[x]
      BY <1>1, <1>2
    <2>3. \A x \in DOMAIN gh \ DOMAIN f : e[x] = gh[x]
      BY <1>1, <1>2
    <2> QED
      BY <1>3, <2>1, <2>2, <2>3 DEF ++, Overlay
  <1> QED
    BY <1>4 DEF e, gh, fg

\* What adds no field of its own leaves an overlay as it is.
LEMMA OverlayAbsorbs ==
  ASSUME NEW f, NEW g, NEW h, DOMAIN h \subseteq DOMAIN f \cup DOMAIN g
  PROVE  (f ++ g) ++ h = f ++ g
PROOF
  <1> DEFINE fg == f ++ g
  <1>1. DOMAIN h \subseteq DOMAIN fg /\ fg = [x \in DOMAIN fg |-> fg[x]]
    BY DEF ++, Overlay
  <1> HIDE DEF fg
  <1>2. fg = fg ++ h
    <2>1. DOMAIN fg = DOMAIN fg \cup DOMAIN h /\ \A x \in DOMAIN h \ DOMAIN fg : fg[x] = h[x]
      BY <1>1
    <2> QED
      BY <1>1, <2>1, OverlaysAre, Zenon
  <1> QED
    BY <1>2 DEF fg

\* A field that is absent adds nothing.
LEMMA OverlaySkips ==
  ASSUME NEW f, NEW e, DOMAIN e = {}, NEW g
  PROVE  (f ++ e) ++ g = f ++ g
PROOF
  <1> DEFINE fe == f ++ e
             h == fe ++ g
  <1>1. DOMAIN fe = DOMAIN f /\ \A x \in DOMAIN f : fe[x] = f[x]
    BY DEF ++, Overlay
  <1> HIDE DEF fe
  <1>2. h = f ++ g
    BY <1>1 DEF ++, Overlay
  <1> QED
    BY <1>2 DEF h, fe

LEMMA NothingOverlaid ==
  ASSUME NEW f, NEW d, NEW e, DOMAIN d = {}, DOMAIN e = {}
  PROVE  f ++ d = f ++ e
  BY DEF ++, Overlay

\* Dimensions are overlays of one field.
LEMMA DimensionsAre ==
  /\ \A w, h : [width |-> w, height |-> h] = Field("width", TRUE, w) ++ Field("height", TRUE, h)
  /\ \A w : [width |-> w] = Field("width", TRUE, w)
  /\ \A h : [height |-> h] = Field("height", TRUE, h)
  /\ DOMAIN <<>> = {}
PROOF
  <1>1. ASSUME NEW w, NEW h
        PROVE  [width |-> w, height |-> h] = Field("width", TRUE, w) ++ Field("height", TRUE, h)
    <2> DEFINE f == Field("width", TRUE, w)
               g == Field("height", TRUE, h)
               r == [width |-> w, height |-> h]
    <2>1. DOMAIN f = {"width"} /\ f["width"] = w /\ DOMAIN g = {"height"} /\ g["height"] = h
      BY FieldIs
    <2>2. DOMAIN r = {"width", "height"} /\ r["width"] = w /\ r["height"] = h /\ r = [x \in DOMAIN r |-> r[x]]
      OBVIOUS
    <2> HIDE DEF f, g, r
    <2>3. r = f ++ g
      BY <2>1, <2>2 DEF ++, Overlay
    <2> QED
      BY <2>3 DEF f, g, r
  <1>2. ASSUME NEW w PROVE [width |-> w] = Field("width", TRUE, w) /\ [height |-> w] = Field("height", TRUE, w)
    BY DEF Field
  <1>3. DOMAIN <<>> = {}
    OBVIOUS
  <1> QED
    BY <1>1, <1>2, <1>3, Zenon
=============================================================================
