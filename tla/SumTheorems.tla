------------------------------ MODULE SumTheorems ------------------------------
(***************************************************************************)
(* What the proofs about accounts need to know of least numbers and of     *)
(* SumFunction, which adds the values of a function in an order of its     *)
(* own: the sum changes with one value as one expects.                     *)
(***************************************************************************)
EXTENDS Integers, FiniteSetsExt, FiniteSetTheorems, WellFoundedInduction, TLAPS

\* A set of natural numbers that is not empty has a least element.
LEMMA LeastElement ==
    ASSUME NEW S, S \subseteq Nat, S # {}
    PROVE  \E x \in S : \A y \in S : x <= y
<1>1. PICK x \in S : \A y \in S : ~(<<y, x>> \in OpToRel(<, Nat))
  BY NatLessThanWellFounded, WFMin
<1>2. \A y, z \in Nat : y < z => <<y, z>> \in OpToRel(<, Nat)
  BY DEF OpToRel
<1>3. \A y \in S : ~(y < x)
  BY <1>1, <1>2
<1>4. \A y \in S : x <= y
  BY <1>3
<1> QED BY <1>4

LEMMA LeastNat ==
    ASSUME NEW S, S \subseteq Nat, S # {}
    PROVE  Min(S) \in S
BY LeastElement DEF Min

\* A set of subsets of a finite set that is not empty has a smallest element.
LEMMA SmallestSubset ==
    ASSUME NEW D, IsFiniteSet(D), NEW B, B \subseteq SUBSET D, B # {}
    PROVE  \E T \in B : \A x \in T : T \ {x} \notin B
<1> DEFINE sizes == {Cardinality(T) : T \in B}
<1>1. \A T \in B : IsFiniteSet(T) /\ Cardinality(T) \in Nat
  BY FS_Subset, FS_CardinalityType
<1>2. sizes \subseteq Nat /\ sizes # {}
  BY <1>1
<1>3. PICK n \in sizes : \A m \in sizes : n <= m
  <2> HIDE DEF sizes
  <2> QED BY <1>2, LeastElement
<1>4. PICK T \in B : n = Cardinality(T)
  BY <1>3
<1>5. ASSUME NEW x \in T, T \ {x} \in B PROVE FALSE
  <2>1. Cardinality(T \ {x}) = Cardinality(T) - 1
    BY <1>1, <1>4, FS_RemoveElement
  <2>2. n <= Cardinality(T \ {x})
    BY <1>3, <1>5
  <2> QED BY <1>1, <1>4, <2>1, <2>2
<1> QED BY <1>4, <1>5

-----------------------------------------------------------------------------
(* The sums over the parts of a function's domain, as SumFunction has them. *)

Pick(s) == CHOOSE x \in s : TRUE

IsSums(f, g) ==
    g = [s \in SUBSET DOMAIN f |->
            IF s = {} THEN 0 ELSE f[Pick(s)] + g[s \ {Pick(s)}]]

Sums(f) == CHOOSE g : IsSums(f, g)

LEMMA SumOfAll == ASSUME NEW f PROVE SumFunction(f) = Sums(f)[DOMAIN f]
BY DEF SumFunction, SumFunctionOnSet, FoldFunctionOnSet, MapThenFoldSet, Sums, IsSums, Pick

\* The recursion is well founded: the sums exist, one size after the other.
LEMMA SumsExist ==
    ASSUME NEW D, IsFiniteSet(D), NEW f \in [D -> Int]
    PROVE  \E g \in [SUBSET D -> Int] : IsSums(f, g)
<1> DEFINE Step(g, s) == IF s = {} THEN 0 ELSE f[Pick(s)] + g[s \ {Pick(s)}]
           UpTo(n, g) == \A s \in SUBSET D : Cardinality(s) <= n => g[s] = Step(g, s)
           Bad == {n \in Nat : \A g \in [SUBSET D -> Int] : ~UpTo(n, g)}
<1>1. \A s \in SUBSET D : IsFiniteSet(s) /\ Cardinality(s) \in Nat
                          /\ Cardinality(s) <= Cardinality(D)
  BY FS_Subset, FS_CardinalityType
<1>2. \A s \in SUBSET D : s # {} =>
            /\ Pick(s) \in s /\ Pick(s) \in D /\ f[Pick(s)] \in Int
            /\ s \ {Pick(s)} \in SUBSET D
            /\ Cardinality(s \ {Pick(s)}) = Cardinality(s) - 1
  BY <1>1, FS_RemoveElement DEF Pick
<1>3. Bad = {}
  <2> SUFFICES ASSUME Bad # {} PROVE FALSE
    OBVIOUS
  <2>1. PICK n \in Bad : \A m \in Bad : n <= m
    <3>1. Bad \subseteq Nat
      OBVIOUS
    <3> HIDE DEF Bad
    <3> QED BY <3>1, LeastElement
  <2>2. n \in Nat /\ \A g \in [SUBSET D -> Int] : ~UpTo(n, g)
    BY <2>1
  <2>3. CASE n = 0
    <3> DEFINE zero == [s \in SUBSET D |-> 0]
    <3>1. zero \in [SUBSET D -> Int]
      OBVIOUS
    <3>2. UpTo(0, zero)
      <4>1. \A s \in SUBSET D : Cardinality(s) <= 0 => s = {}
        BY <1>1, FS_EmptySet
      <4> QED BY <4>1
    <3> QED BY <2>2, <2>3, <3>1, <3>2
  <2>4. CASE n # 0
    <3>1. n - 1 \in Nat /\ n - 1 \notin Bad
      <4>1. n - 1 \in Nat /\ ~(n <= n - 1)
        BY <2>2, <2>4
      <4> HIDE DEF Bad
      <4> QED BY <2>1, <4>1
    <3>2. PICK g \in [SUBSET D -> Int] : UpTo(n - 1, g)
      <4> HIDE DEF UpTo
      <4> QED BY <3>1
    <3> DEFINE h == [s \in SUBSET D |-> Step(g, s)]
    <3>3. ASSUME NEW s \in SUBSET D PROVE Step(g, s) \in Int
      <4>1. CASE s # {}
        <5>1. f[Pick(s)] \in Int /\ s \ {Pick(s)} \in SUBSET D
          BY <1>2, <4>1
        <5>2. g[s \ {Pick(s)}] \in Int
          BY <3>2, <5>1
        <5> QED BY <4>1, <5>1, <5>2
      <4> QED BY <4>1
    <3>4. h \in [SUBSET D -> Int]
      <4> HIDE DEF Step
      <4> QED BY <3>3
    <3>5. ASSUME NEW s \in SUBSET D, Cardinality(s) <= n PROVE h[s] = Step(h, s)
      <4>1. CASE s = {}
        BY <4>1
      <4>2. CASE s # {}
        <5> DEFINE r == s \ {Pick(s)}
        <5>1. r \in SUBSET D /\ Cardinality(r) <= n - 1
          BY <1>1, <1>2, <2>2, <3>5, <4>2
        <5>2. g[r] = Step(g, r)
          <6> HIDE DEF r, Step
          <6> QED BY <3>2, <5>1
        <5>3. h[r] = g[r]
          <6> HIDE DEF r, Step
          <6> QED BY <5>1, <5>2
        <5> HIDE DEF r
        <5>4. h[s] = f[Pick(s)] + g[r]
          BY <4>2 DEF r
        <5> HIDE DEF h
        <5> QED BY <4>2, <5>3, <5>4 DEF r
      <4> QED BY <4>1, <4>2
    <3> QED BY <2>2, <3>4, <3>5
  <2> QED BY <2>3, <2>4
<1>4. PICK g \in [SUBSET D -> Int] : UpTo(Cardinality(D), g)
  BY <1>3, FS_CardinalityType
<1>5. \A s \in SUBSET D : g[s] = Step(g, s)
  BY <1>1, <1>4
<1>6. g = [s \in SUBSET D |-> Step(g, s)]
  <2> HIDE DEF Step
  <2> QED BY <1>5
<1> QED BY <1>6 DEF IsSums

\* Which element is taken first does not matter.
AddsUp(D, f, g) ==
    /\ g \in [SUBSET D -> Int]
    /\ g[{}] = 0
    /\ \A s \in SUBSET D : \A x \in s : g[s] = f[x] + g[s \ {x}]

LEMMA SumsAddUp ==
    ASSUME NEW D, IsFiniteSet(D), NEW f \in [D -> Int]
    PROVE  AddsUp(D, f, Sums(f))
<1> DEFINE g == Sums(f)
<1>1. IsSums(f, g)
  BY SumsExist DEF Sums
<1>2. /\ DOMAIN f = D /\ g[{}] = 0
      /\ \A s \in SUBSET D : s # {} => g[s] = f[Pick(s)] + g[s \ {Pick(s)}]
      /\ \A s \in SUBSET D : s # {} => Pick(s) \in s /\ Pick(s) \in D
  BY <1>1 DEF IsSums, Pick
<1>3. DOMAIN g = SUBSET D /\ g = [s \in SUBSET D |-> g[s]]
  BY <1>1 DEF IsSums
<1> HIDE DEF g
<1>4. ASSUME NEW B, B = {s \in SUBSET D : g[s] \notin Int}, B # {} PROVE FALSE
  <2>1. PICK s \in B : \A x \in s : s \ {x} \notin B
    BY <1>4, SmallestSubset
  <2>2. s \in SUBSET D /\ g[s] \notin Int
    BY <1>4, <2>1
  <2>3. s # {}
    BY <1>2, <2>2
  <2> DEFINE x == Pick(s)
  <2>4. x \in s /\ x \in D /\ g[s] = f[x] + g[s \ {x}]
    BY <1>2, <2>2, <2>3
  <2> HIDE DEF x
  <2>5. s \ {x} \in SUBSET D /\ s \ {x} \notin B
    BY <2>1, <2>2, <2>4
  <2>6. g[s \ {x}] \in Int
    BY <1>4, <2>5
  <2>7. f[x] \in Int
    BY <2>4
  <2> QED BY <2>2, <2>4, <2>6, <2>7
<1>5. \A s \in SUBSET D : g[s] \in Int
  <2> DEFINE B == {s \in SUBSET D : g[s] \notin Int}
  <2>1. B = {}
    <3> HIDE DEF B
    <3> QED BY <1>4 DEF B
  <2> QED BY <2>1
<1>6. ASSUME NEW B, B = {s \in SUBSET D : \E x \in s : g[s] # f[x] + g[s \ {x}]},
             B # {}
      PROVE  FALSE
  <2>1. PICK s \in B : \A x \in s : s \ {x} \notin B
    <3>1. B \subseteq SUBSET D
      BY <1>6
    <3> QED BY <1>6, <3>1, SmallestSubset
  <2>2. s \in SUBSET D
    BY <1>6, <2>1
  <2>3. PICK x \in s : g[s] # f[x] + g[s \ {x}]
    BY <1>6, <2>1
  <2> DEFINE y == Pick(s)
  <2>4. y \in s /\ g[s] = f[y] + g[s \ {y}] /\ x # y
    BY <1>2, <2>2, <2>3
  <2> HIDE DEF y
  <2>5. g[s \ {y}] = f[x] + g[(s \ {y}) \ {x}]
    <3>1. s \ {y} \in SUBSET D /\ s \ {y} \notin B /\ x \in s \ {y}
      BY <2>1, <2>2, <2>3, <2>4
    <3> QED BY <1>6, <3>1
  <2>6. g[s \ {x}] = f[y] + g[(s \ {x}) \ {y}]
    <3>1. s \ {x} \in SUBSET D /\ s \ {x} \notin B /\ y \in s \ {x}
      BY <2>1, <2>2, <2>3, <2>4
    <3> QED BY <1>6, <3>1
  <2> DEFINE t == (s \ {y}) \ {x}
  <2>7. t = (s \ {x}) \ {y} /\ t \in SUBSET D /\ g[s \ {y}] = f[x] + g[t]
    BY <2>2, <2>5
  <2> HIDE DEF t
  <2>8. f[x] \in Int /\ f[y] \in Int /\ g[t] \in Int
    BY <1>5, <2>2, <2>3, <2>4, <2>7
  <2>9. g[s \ {x}] = f[y] + g[t]
    BY <2>6, <2>7
  <2> QED BY <2>3, <2>4, <2>7, <2>8, <2>9
<1>7. \A s \in SUBSET D : \A x \in s : g[s] = f[x] + g[s \ {x}]
  <2> DEFINE B == {s \in SUBSET D : \E x \in s : g[s] # f[x] + g[s \ {x}]}
  <2>1. B = {}
    <3> HIDE DEF B
    <3> QED BY <1>6 DEF B
  <2> QED BY <2>1
<1>8. g \in [SUBSET D -> Int]
  BY <1>3, <1>5
<1>9. AddsUp(D, f, g)
  BY <1>2, <1>7, <1>8 DEF AddsUp
<1> QED BY <1>9 DEF g

LEMMA AddsUpTake ==
    ASSUME NEW D, NEW f \in [D -> Int], NEW g, AddsUp(D, f, g),
           NEW s \in SUBSET D, NEW x \in s
    PROVE  /\ g[s] = f[x] + g[s \ {x}]
           /\ f[x] \in Int /\ g[s \ {x}] \in Int /\ g[s] \in Int
<1>1. g \in [SUBSET D -> Int] /\ g[s] = f[x] + g[s \ {x}]
  BY DEF AddsUp
<1>2. s \ {x} \in SUBSET D /\ x \in D
  OBVIOUS
<1>3. f[x] \in Int
  BY <1>2
<1>4. g[s \ {x}] \in Int /\ g[s] \in Int
  BY <1>1, <1>2
<1> QED BY <1>1, <1>3, <1>4

LEMMA SumsTake ==
    ASSUME NEW D, IsFiniteSet(D), NEW f \in [D -> Int], NEW s \in SUBSET D, NEW x \in s
    PROVE  /\ Sums(f)[s] = f[x] + Sums(f)[s \ {x}]
           /\ f[x] \in Int /\ Sums(f)[s \ {x}] \in Int
<1> DEFINE g == Sums(f)
<1>1. AddsUp(D, f, g)
  BY SumsAddUp
<1> HIDE DEF g
<1>2. /\ g[s] = f[x] + g[s \ {x}]
      /\ f[x] \in Int /\ g[s \ {x}] \in Int
  BY <1>1, AddsUpTake
<1> QED BY <1>2 DEF g

LEMMA SumsEmpty ==
    ASSUME NEW D, IsFiniteSet(D), NEW f \in [D -> Int]
    PROVE  Sums(f) \in [SUBSET D -> Int] /\ Sums(f)[{}] = 0
BY SumsAddUp DEF AddsUp

\* Two functions have the same sum over a set on which they agree.
LEMMA SumsAgree ==
    ASSUME NEW D, IsFiniteSet(D), NEW E \in SUBSET D, NEW f \in [D -> Int],
           NEW h \in [E -> Int], \A x \in E : h[x] = f[x]
    PROVE  Sums(h)[E] = Sums(f)[E]
<1>1. IsFiniteSet(E)
  BY FS_Subset
<1> DEFINE B == {s \in SUBSET E : Sums(h)[s] # Sums(f)[s]}
<1>2. ASSUME B # {} PROVE FALSE
  <2>1. PICK s \in B : \A x \in s : s \ {x} \notin B
    <3>1. B \subseteq SUBSET E
      OBVIOUS
    <3> HIDE DEF B
    <3> QED BY <1>1, <1>2, <3>1, SmallestSubset
  <2>2. s \in SUBSET E /\ s \in SUBSET D /\ Sums(h)[s] # Sums(f)[s]
    BY <2>1
  <2>3. s # {}
    BY <1>1, <2>2, SumsEmpty
  <2>4. PICK x \in s : TRUE
    BY <2>3
  <2>5. Sums(h)[s \ {x}] = Sums(f)[s \ {x}]
    BY <2>1, <2>2
  <2>6. Sums(h)[s] = h[x] + Sums(h)[s \ {x}]
    <3>1. ASSUME NEW g, AddsUp(E, h, g) PROVE g[s] = h[x] + g[s \ {x}]
      BY <2>2, <2>4, <3>1, AddsUpTake
    <3> QED BY <1>1, <3>1, SumsAddUp
  <2>7. Sums(f)[s] = f[x] + Sums(f)[s \ {x}]
    BY <2>2, <2>4, SumsTake
  <2>8. h[x] = f[x]
    BY <2>2, <2>4
  <2> QED BY <2>2, <2>5, <2>6, <2>7, <2>8
<1>3. E \notin B
  BY <1>2
<1> QED BY <1>3

-----------------------------------------------------------------------------
\* The sum of a function into the integers is one.
LEMMA SumType ==
    ASSUME NEW D, IsFiniteSet(D), NEW f \in [D -> Int]
    PROVE  SumFunction(f) \in Int
<1>1. DOMAIN f = D /\ D \in SUBSET D
  OBVIOUS
<1>2. Sums(f)[D] \in Int
  <2> DEFINE g == Sums(f)
  <2>1. g \in [SUBSET D -> Int]
    BY SumsEmpty
  <2> HIDE DEF g
  <2>2. g[D] \in Int
    BY <1>1, <2>1
  <2> QED BY <2>2 DEF g
<1> QED BY <1>1, <1>2, SumOfAll

\* The sum over the empty set, and of zeroes over any other.
LEMMA SumZero ==
    ASSUME NEW D, IsFiniteSet(D), NEW f \in [D -> Int], \A x \in D : f[x] = 0
    PROVE  SumFunction(f) = 0
<1> DEFINE B == {s \in SUBSET D : Sums(f)[s] # 0}
<1>1. ASSUME B # {} PROVE FALSE
  <2>1. PICK s \in B : \A x \in s : s \ {x} \notin B
    <3>1. B \subseteq SUBSET D
      OBVIOUS
    <3> HIDE DEF B
    <3> QED BY <1>1, <3>1, SmallestSubset
  <2>2. s \in SUBSET D /\ Sums(f)[s] # 0
    BY <2>1
  <2>3. PICK x \in s : TRUE
    BY <2>2, SumsEmpty
  <2>4. Sums(f)[s \ {x}] = 0
    BY <2>1, <2>2
  <2>5. Sums(f)[s] = f[x] + Sums(f)[s \ {x}] /\ f[x] = 0
    BY <2>2, <2>3, SumsTake
  <2> QED BY <2>2, <2>4, <2>5
<1>2. D \notin B
  BY <1>1
<1> QED BY <1>2, SumOfAll

\* One more value adds itself to the sum.
LEMMA SumExtend ==
    ASSUME NEW D, IsFiniteSet(D), NEW f \in [D -> Int], NEW x \in D,
           NEW h \in [D \ {x} -> Int], \A y \in D \ {x} : h[y] = f[y]
    PROVE  SumFunction(f) = SumFunction(h) + f[x]
<1>1. /\ Sums(f)[D] = f[x] + Sums(f)[D \ {x}]
      /\ f[x] \in Int /\ Sums(f)[D \ {x}] \in Int
  <2>1. D \in SUBSET D
    OBVIOUS
  <2> QED BY <2>1, SumsTake
<1>2. Sums(h)[D \ {x}] = Sums(f)[D \ {x}]
  <2>1. D \ {x} \in SUBSET D
    OBVIOUS
  <2> QED BY <2>1, SumsAgree
<1>3. SumFunction(f) = Sums(f)[D] /\ SumFunction(h) = Sums(h)[D \ {x}]
  BY SumOfAll
<1> QED BY <1>1, <1>2, <1>3

\* So it is with a value at the end of a sequence.
LEMMA SumAppend ==
    \A m, f, g :
        /\ m \in Nat /\ f \in [1..m -> Int] /\ g \in [1..(m + 1) -> Int]
        /\ \A i \in 1..m : f[i] = g[i]
        => SumFunction(g) = SumFunction(f) + g[m + 1]
<1>1. ASSUME NEW m, NEW f, NEW g,
             m \in Nat /\ f \in [1..m -> Int] /\ g \in [1..(m + 1) -> Int],
             \A i \in 1..m : f[i] = g[i]
      PROVE  SumFunction(g) = SumFunction(f) + g[m + 1]
  <2>1. PICK D, last : D = 1..(m + 1) /\ last = m + 1
    OBVIOUS
  <2>2. D \ {last} = 1..m /\ last \in D
    BY <1>1, <2>1
  <2>3. IsFiniteSet(D)
    BY <1>1, <2>1, FS_Interval
  <2>4. g \in [D -> Int] /\ f \in [D \ {last} -> Int]
    BY <1>1, <2>1, <2>2
  <2>5. \A y \in D \ {last} : f[y] = g[y]
    BY <1>1, <2>2
  <2>6. SumFunction(g) = SumFunction(f) + g[last]
    <3>1. last \in D
      BY <2>2
    <3> QED BY <2>3, <2>4, <2>5, <3>1, SumExtend
  <2> QED BY <2>1, <2>6
<1> QED BY <1>1

\* Changing one value changes the sum by as much.
LEMMA SumChange ==
    ASSUME NEW D, IsFiniteSet(D), NEW f \in [D -> Int], NEW g \in [D -> Int],
           NEW x \in D, \A y \in D \ {x} : g[y] = f[y]
    PROVE  SumFunction(g) = SumFunction(f) + (g[x] - f[x])
<1> DEFINE h == [y \in D \ {x} |-> f[y]]
<1>1. h \in [D \ {x} -> Int] /\ (\A y \in D \ {x} : h[y] = f[y])
      /\ (\A y \in D \ {x} : h[y] = g[y])
  OBVIOUS
<1>2. IsFiniteSet(D \ {x})
  BY FS_RemoveElement
<1> HIDE DEF h
<1>3. SumFunction(f) = SumFunction(h) + f[x]
  BY <1>1, SumExtend
<1>4. SumFunction(g) = SumFunction(h) + g[x]
  BY <1>1, SumExtend
<1>5. SumFunction(h) \in Int /\ f[x] \in Int /\ g[x] \in Int
  BY <1>1, <1>2, SumType
<1> QED BY <1>3, <1>4, <1>5

=============================================================================
