-------------------------------- MODULE Sums --------------------------------
(***************************************************************************)
(* What the sums of the community modules compute: the sum of a function   *)
(* over a finite set does not depend on the order its elements are chosen  *)
(* in, so a summand can be added, removed or replaced.                     *)
(***************************************************************************)
EXTENDS Integers, FiniteSetsExt, Functions, FiniteSetTheorems, WellFoundedInduction, TLAPS

-----------------------------------------------------------------------------
(* Induction on the natural numbers, for a set instead of a predicate. *)

\* A set that holds 0, and the successor of all it holds, holds every number.
LEMMA SetInduction ==
  ASSUME NEW T, 0 \in T, \A n \in Nat : n \in T => n + 1 \in T
  PROVE  Nat \subseteq T
<1> DEFINE U == {n \in Nat : n \notin T}
<1>1. SUFFICES ASSUME U # {}  PROVE FALSE
  OBVIOUS
<1>2. U \subseteq Nat
  OBVIOUS
<1>3. \E x \in U : \A y \in U : ~ (<<y, x>> \in OpToRel(<, Nat))
  BY <1>1, <1>2, NatLessThanWellFounded, WFMin
<1>4. PICK x \in U : \A y \in U : ~ (<<y, x>> \in OpToRel(<, Nat))
  BY <1>3
<1>5. \A y \in U : ~ (y < x)
  BY <1>2, <1>4 DEF OpToRel
<1>6. x # 0 /\ x \in Nat
  BY <1>4
<1>7. x - 1 \in Nat /\ x - 1 < x /\ (x - 1) + 1 = x
  BY <1>6
<1>8. x - 1 \in T
  BY <1>5, <1>7
<1>9. x \in T
  BY <1>7, <1>8
<1> QED  BY <1>4, <1>9

-----------------------------------------------------------------------------
(* The recursion behind a sum. *)

\* The element the recursion takes from a set.
Chosen(s) == CHOOSE y \in s : TRUE

\* h is the table of partial sums of f over the subsets of S.
PartialSums(f, S, h) ==
  h = [s \in SUBSET S |-> IF s = {} THEN 0 ELSE f[Chosen(s)] + h[s \ {Chosen(s)}]]

\* The sum is an entry of the table, if there is one.
LEMMA SumIsPartial ==
  ASSUME NEW f, NEW S, NEW g, PartialSums(f, S, g)
  PROVE  \E h : PartialSums(f, S, h) /\ SumFunctionOnSet(f, S) = h[S]
  BY DEF SumFunctionOnSet, FoldFunctionOnSet, MapThenFoldSet, PartialSums, Chosen

\* A set that is not empty holds its chosen element, and loses one with it.
LEMMA ChosenCounts ==
  ASSUME NEW s, IsFiniteSet(s), s # {}
  PROVE  /\ Chosen(s) \in s /\ IsFiniteSet(s \ {Chosen(s)})
         /\ Cardinality(s) \in Nat /\ Cardinality(s \ {Chosen(s)}) = Cardinality(s) - 1
<1>1. Chosen(s) \in s
  BY DEF Chosen
<1>2. /\ IsFiniteSet(s \ {Chosen(s)})
      /\ Cardinality(s \ {Chosen(s)}) = Cardinality(s) - 1
  BY <1>1, FS_RemoveElement
<1> QED  BY <1>1, <1>2, FS_CardinalityType

\* There is a table: it is filled in by the size of the subsets.
LEMMA PartialSumsExist ==
  ASSUME NEW f, NEW S, IsFiniteSet(S)
  PROVE  \E h : PartialSums(f, S, h)
<1> DEFINE Entry(h, s) == IF s = {} THEN 0 ELSE f[Chosen(s)] + h[s \ {Chosen(s)}]
           T == {n \in Nat : \E h : \A s \in SUBSET S : Cardinality(s) <= n => h[s] = Entry(h, s)}
<1>0. \A s \in SUBSET S : IsFiniteSet(s) /\ Cardinality(s) \in Nat
  BY FS_Subset, FS_CardinalityType
<1>1. 0 \in T
  <2>1. PICK h : h = [s \in SUBSET S |-> 0]
    OBVIOUS
  <2>2. \A s \in SUBSET S : Cardinality(s) <= 0 => s = {}
    BY <1>0, FS_EmptySet
  <2>3. \A s \in SUBSET S : Cardinality(s) <= 0 => h[s] = Entry(h, s)
    BY <2>1, <2>2
  <2> QED  BY <2>3
<1>2. ASSUME NEW n \in Nat, n \in T  PROVE n + 1 \in T
  <2>1. PICK h : \A s \in SUBSET S : Cardinality(s) <= n => h[s] = Entry(h, s)
    BY <1>2
  <2>2. PICK g : g = [s \in SUBSET S |-> IF Cardinality(s) <= n THEN h[s] ELSE Entry(h, s)]
    OBVIOUS
  <2>3. ASSUME NEW s \in SUBSET S, Cardinality(s) <= n + 1  PROVE g[s] = Entry(g, s)
    <3>1. CASE s = {}
      <4>1. Cardinality(s) = 0
        BY <3>1, FS_EmptySet
      <4>2. g[s] = h[s] /\ h[s] = Entry(h, s)
        BY <4>1, <2>1, <2>2
      <4> QED  BY <3>1, <4>2
    <3>2. CASE s # {}
      <4>1. PICK r : r = s \ {Chosen(s)}
        OBVIOUS
      <4>2. r \in SUBSET S /\ Cardinality(r) = Cardinality(s) - 1 /\ Cardinality(s) \in Nat
        BY <3>2, <4>1, <1>0, ChosenCounts
      <4>3. Cardinality(r) <= n
        BY <4>2, <2>3
      <4>4. g[r] = h[r]
        BY <4>2, <4>3, <2>2
      <4>5. g[s] = Entry(h, s)
        BY <2>1, <2>2
      <4>6. Entry(h, s) = f[Chosen(s)] + h[r] /\ Entry(g, s) = f[Chosen(s)] + g[r]
        BY <3>2, <4>1
      <4> QED  BY <4>4, <4>5, <4>6
    <3> QED  BY <3>1, <3>2
  <2>4. n + 1 \in Nat
    OBVIOUS
  <2> QED  BY <2>3, <2>4
<1>3. Nat \subseteq T
  <2> HIDE DEF T
  <2> QED  BY <1>1, <1>2, SetInduction
<1>4. Cardinality(S) \in T
  BY <1>0, <1>3
<1>5. PICK h : \A s \in SUBSET S : Cardinality(s) <= Cardinality(S) => h[s] = Entry(h, s)
  BY <1>4
<1>6. \A s \in SUBSET S : Cardinality(s) <= Cardinality(S)
  BY FS_Subset
<1>7. PICK g : g = [s \in SUBSET S |-> h[s]]
  OBVIOUS
<1>8. \A s \in SUBSET S : s \ {Chosen(s)} \in SUBSET S
  OBVIOUS
<1>9. \A s \in SUBSET S : g[s] = Entry(g, s)
  BY <1>5, <1>6, <1>7, <1>8
<1>10. g = [s \in SUBSET S |-> Entry(g, s)]
  BY <1>7, <1>9
<1> QED  BY <1>10 DEF PartialSums

\* Tables of functions that agree, agree.
LEMMA TablesAgree ==
  ASSUME NEW f, NEW g, NEW S, NEW R, NEW h, NEW k, IsFiniteSet(S), R \subseteq S,
         \A x \in R : f[x] = g[x],
         PartialSums(f, S, h), PartialSums(g, R, k)
  PROVE  \A s \in SUBSET R : h[s] = k[s]
<1> DEFINE T == {n \in Nat : \A s \in SUBSET R : Cardinality(s) <= n => h[s] = k[s]}
<1>0. \A s \in SUBSET R : s \in SUBSET S /\ IsFiniteSet(s) /\ Cardinality(s) \in Nat
  BY FS_Subset, FS_CardinalityType
<1>1. \A s \in SUBSET R :
        /\ h[s] = IF s = {} THEN 0 ELSE f[Chosen(s)] + h[s \ {Chosen(s)}]
        /\ k[s] = IF s = {} THEN 0 ELSE g[Chosen(s)] + k[s \ {Chosen(s)}]
  BY <1>0 DEF PartialSums
<1>2. 0 \in T
  <2>1. \A s \in SUBSET R : Cardinality(s) <= 0 => s = {}
    BY <1>0, FS_EmptySet
  <2> QED  BY <2>1, <1>1
<1>3. ASSUME NEW n \in Nat, n \in T  PROVE n + 1 \in T
  <2>1. ASSUME NEW s \in SUBSET R, Cardinality(s) <= n + 1  PROVE h[s] = k[s]
    <3>1. CASE s = {}
      BY <3>1, <1>1
    <3>2. CASE s # {}
      <4>1. /\ Chosen(s) \in s /\ Cardinality(s) \in Nat
            /\ Cardinality(s \ {Chosen(s)}) = Cardinality(s) - 1
        BY <3>2, <1>0, ChosenCounts
      <4>2. s \ {Chosen(s)} \in SUBSET R /\ Cardinality(s \ {Chosen(s)}) <= n
        BY <4>1, <2>1
      <4>3. h[s \ {Chosen(s)}] = k[s \ {Chosen(s)}]
        BY <4>2, <1>3
      <4>4. f[Chosen(s)] = g[Chosen(s)]
        BY <4>1
      <4> QED  BY <3>2, <4>3, <4>4, <1>1
    <3> QED  BY <3>1, <3>2
  <2>2. n + 1 \in Nat
    OBVIOUS
  <2> QED  BY <2>1, <2>2
<1>4. Nat \subseteq T
  <2> HIDE DEF T
  <2> QED  BY <1>2, <1>3, SetInduction
<1> QED
  <2> TAKE s \in SUBSET R
  <2>1. Cardinality(s) \in T
    BY <1>0, <1>4
  <2>2. Cardinality(s) <= Cardinality(s)
    BY <1>0
  <2> QED  BY <2>1, <2>2

\* Functions that agree on a set have the same sum over it.
LEMMA SumsAgree ==
  \A f, g, S : IsFiniteSet(S) /\ (\A x \in S : f[x] = g[x]) =>
    SumFunctionOnSet(f, S) = SumFunctionOnSet(g, S)
<1> SUFFICES ASSUME NEW f, NEW g, NEW S, IsFiniteSet(S), \A x \in S : f[x] = g[x]
             PROVE  SumFunctionOnSet(f, S) = SumFunctionOnSet(g, S)
  OBVIOUS
<1>1. PICK h : PartialSums(f, S, h) /\ SumFunctionOnSet(f, S) = h[S]
  BY PartialSumsExist, SumIsPartial
<1>2. PICK k : PartialSums(g, S, k) /\ SumFunctionOnSet(g, S) = k[S]
  BY PartialSumsExist, SumIsPartial
<1>3. \A s \in SUBSET S : h[s] = k[s]
  BY <1>1, <1>2, TablesAgree
<1> QED  BY <1>1, <1>2, <1>3

\* A sum over the empty set is 0, any other that of a summand and the rest.
LEMMA SumRecursion ==
  ASSUME NEW f, NEW S, IsFiniteSet(S)
  PROVE  SumFunctionOnSet(f, S) =
           IF S = {} THEN 0 ELSE f[Chosen(S)] + SumFunctionOnSet(f, S \ {Chosen(S)})
<1>1. PICK h : PartialSums(f, S, h) /\ SumFunctionOnSet(f, S) = h[S]
  BY PartialSumsExist, SumIsPartial
<1>2. h[S] = IF S = {} THEN 0 ELSE f[Chosen(S)] + h[S \ {Chosen(S)}]
  BY <1>1 DEF PartialSums
<1>3. PICK R : R = S \ {Chosen(S)}
  OBVIOUS
<1>4. IsFiniteSet(R) /\ R \subseteq S
  BY <1>3, FS_Subset
<1>5. PICK k : PartialSums(f, R, k) /\ SumFunctionOnSet(f, R) = k[R]
  BY <1>4, PartialSumsExist, SumIsPartial
<1>6. \A s \in SUBSET R : h[s] = k[s]
  BY <1>1, <1>4, <1>5, TablesAgree
<1>7. h[R] = SumFunctionOnSet(f, R)
  BY <1>5, <1>6
<1> QED  BY <1>1, <1>2, <1>3, <1>7

-----------------------------------------------------------------------------
(* The order of the summands does not matter. *)

\* A sum of integers is one, and any summand may be taken first.
LEMMA SumsOfIntegers ==
  ASSUME NEW f, NEW S, IsFiniteSet(S), \A x \in S : f[x] \in Int
  PROVE  /\ SumFunctionOnSet(f, S) \in Int
         /\ \A x \in S : SumFunctionOnSet(f, S) = f[x] + SumFunctionOnSet(f, S \ {x})
<1> DEFINE Sum(s) == SumFunctionOnSet(f, s)
           Holds(s) == Sum(s) \in Int /\ \A x \in s : Sum(s) = f[x] + Sum(s \ {x})
           T == {n \in Nat : \A s \in SUBSET S : Cardinality(s) <= n => Holds(s)}
<1>0. \A s \in SUBSET S : IsFiniteSet(s) /\ Cardinality(s) \in Nat
  BY FS_Subset, FS_CardinalityType
<1>1. \A s \in SUBSET S : Sum(s) = IF s = {} THEN 0 ELSE f[Chosen(s)] + Sum(s \ {Chosen(s)})
  BY <1>0, SumRecursion
<1> HIDE DEF Sum
<1>e. Holds({})
  <2>1. Sum({}) = 0
    BY <1>1
  <2> QED  BY <2>1
<1>2. 0 \in T
  <2>1. \A s \in SUBSET S : Cardinality(s) <= 0 => s = {}
    BY <1>0, FS_EmptySet
  <2>2. \A s \in SUBSET S : Cardinality(s) <= 0 => Holds(s)
    <3> TAKE s \in SUBSET S
    <3> HAVE Cardinality(s) <= 0
    <3>1. s = {}
      BY <2>1
    <3> HIDE DEF Holds
    <3> QED  BY <3>1, <1>e
  <2> QED  BY <2>2
<1>3. ASSUME NEW n \in Nat, n \in T  PROVE n + 1 \in T
  <2>1. ASSUME NEW s \in SUBSET S, Cardinality(s) <= n + 1  PROVE Holds(s)
    <3>1. CASE s = {}
      <4> HIDE DEF Holds
      <4> QED  BY <3>1, <1>e
    <3>2. CASE s # {}
      <4>1. PICK c : c = Chosen(s)
        OBVIOUS
      <4>2. c \in s /\ Cardinality(s) \in Nat
        BY <3>2, <4>1, <1>0, ChosenCounts
      <4>3. \A x \in s : s \ {x} \in SUBSET S /\ Cardinality(s \ {x}) = Cardinality(s) - 1
        BY <1>0, FS_RemoveElement
      <4>4. \A x \in s : Cardinality(s \ {x}) <= n
        BY <2>1, <4>2, <4>3
      <4>5. \A x \in s : Holds(s \ {x})
        BY <4>3, <4>4, <1>3
      <4>6. Sum(s) = f[c] + Sum(s \ {c})
        BY <3>2, <4>1, <1>1
      <4>7. Sum(s) \in Int
        BY <4>2, <4>5, <4>6
      <4>8. ASSUME NEW x \in s  PROVE Sum(s) = f[x] + Sum(s \ {x})
        <5>1. CASE x = c
          BY <5>1, <4>6
        <5>2. CASE x # c
          <6>1. PICK r : r = (s \ {c}) \ {x}
            OBVIOUS
          <6>2. r = (s \ {x}) \ {c} /\ x \in s \ {c} /\ c \in s \ {x}
            BY <5>2, <4>2, <4>8, <6>1
          <6>3. Sum(s \ {c}) = f[x] + Sum(r) /\ Sum(s \ {x}) = f[c] + Sum(r)
            BY <6>1, <6>2, <4>2, <4>5, <4>8
          <6>f. IsFiniteSet(s \ {c}) /\ r \in SUBSET S
            BY <6>1, <4>2, <4>3, <1>0
          <6>g. Cardinality((s \ {c}) \ {x}) = Cardinality(s \ {c}) - 1
            BY <6>2, <6>f, FS_RemoveElement
          <6>4. r \in SUBSET S /\ Cardinality(r) = Cardinality(s \ {c}) - 1
            BY <6>1, <6>f, <6>g
          <6>5. Cardinality(r) <= n
            BY <6>4, <4>2, <4>3, <4>4
          <6>6. Sum(r) \in Int
            BY <6>4, <6>5, <1>3
          <6>7. f[x] \in Int /\ f[c] \in Int
            BY <4>2, <4>8
          <6> QED  BY <4>6, <6>3, <6>6, <6>7
        <5> QED  BY <5>1, <5>2
      <4> QED  BY <4>7, <4>8
    <3> QED  BY <3>1, <3>2
  <2>2. n + 1 \in Nat
    OBVIOUS
  <2> QED  BY <2>1, <2>2
<1>4. Nat \subseteq T
  <2> HIDE DEF T
  <2> QED  BY <1>2, <1>3, SetInduction
<1>5. Cardinality(S) \in T /\ Cardinality(S) <= Cardinality(S)
  BY <1>0, <1>4
<1>6. Holds(S)
  BY <1>5
<1> QED  BY <1>6 DEF Sum

-----------------------------------------------------------------------------
(* Sums of functions, one change at a time. *)

\* The sum of no numbers is 0.
LEMMA SumOfNone == \A f : DOMAIN f = {} => SumFunction(f) = 0
<1> TAKE f
<1> HAVE DOMAIN f = {}
<1>1. SumFunctionOnSet(f, {}) = 0
  BY FS_EmptySet, SumRecursion
<1> QED  BY <1>1 DEF SumFunction

\* The sum of a new summand and those there were.
LEMMA SumGrows ==
  \A f, g, x :
    /\ IsFiniteSet(DOMAIN f) /\ x \notin DOMAIN f /\ DOMAIN g = DOMAIN f \cup {x}
    /\ \A y \in DOMAIN f : f[y] \in Int /\ g[y] = f[y]
    /\ g[x] \in Int
    => SumFunction(g) = SumFunction(f) + g[x]
<1> SUFFICES ASSUME NEW f, NEW g, NEW x,
                    IsFiniteSet(DOMAIN f), x \notin DOMAIN f, DOMAIN g = DOMAIN f \cup {x},
                    \A y \in DOMAIN f : f[y] \in Int /\ g[y] = f[y], g[x] \in Int
             PROVE  SumFunction(g) = SumFunction(f) + g[x]
  OBVIOUS
<1>1. PICK S : S = DOMAIN g
  OBVIOUS
<1>2. IsFiniteSet(S) /\ x \in S /\ S \ {x} = DOMAIN f
  BY <1>1, FS_AddElement
<1>3. \A y \in S : g[y] \in Int
  BY <1>1
<1>4. SumFunctionOnSet(g, S) = g[x] + SumFunctionOnSet(g, S \ {x})
  BY <1>2, <1>3, SumsOfIntegers
<1>5. SumFunctionOnSet(g, DOMAIN f) = SumFunctionOnSet(f, DOMAIN f)
  BY SumsAgree
<1>6. SumFunctionOnSet(f, DOMAIN f) \in Int
  BY SumsOfIntegers
<1> QED  BY <1>1, <1>2, <1>4, <1>5, <1>6 DEF SumFunction

\* Functions with the same values have the same sum, which is an integer.
LEMMA SumKept ==
  \A f, g :
    /\ IsFiniteSet(DOMAIN f) /\ DOMAIN g = DOMAIN f
    /\ \A y \in DOMAIN f : f[y] \in Int /\ g[y] = f[y]
    => SumFunction(g) = SumFunction(f) /\ SumFunction(f) \in Int
<1> SUFFICES ASSUME NEW f, NEW g, IsFiniteSet(DOMAIN f), DOMAIN g = DOMAIN f,
                    \A y \in DOMAIN f : f[y] \in Int /\ g[y] = f[y]
             PROVE  SumFunction(g) = SumFunction(f) /\ SumFunction(f) \in Int
  OBVIOUS
<1>1. SumFunctionOnSet(g, DOMAIN f) = SumFunctionOnSet(f, DOMAIN f)
  BY SumsAgree
<1>2. SumFunctionOnSet(f, DOMAIN f) \in Int
  BY SumsOfIntegers
<1> QED  BY <1>1, <1>2 DEF SumFunction

\* A changed summand changes the sum by as much.
LEMMA SumChanges ==
  \A f, g, x :
    /\ IsFiniteSet(DOMAIN f) /\ x \in DOMAIN f /\ DOMAIN g = DOMAIN f
    /\ \A y \in DOMAIN f : f[y] \in Int /\ (y # x => g[y] = f[y])
    /\ g[x] \in Int
    => SumFunction(g) = SumFunction(f) - f[x] + g[x]
<1> SUFFICES ASSUME NEW f, NEW g, NEW x,
                    IsFiniteSet(DOMAIN f), x \in DOMAIN f, DOMAIN g = DOMAIN f,
                    \A y \in DOMAIN f : f[y] \in Int /\ (y # x => g[y] = f[y]), g[x] \in Int
             PROVE  SumFunction(g) = SumFunction(f) - f[x] + g[x]
  OBVIOUS
<1>1. PICK S : S = DOMAIN f
  OBVIOUS
<1>2. PICK R : R = S \ {x}
  OBVIOUS
<1>3. IsFiniteSet(S) /\ IsFiniteSet(R)
  BY <1>1, <1>2, FS_Subset
<1>4. \A y \in S : g[y] \in Int /\ f[y] \in Int
  BY <1>1
<1>5. /\ SumFunctionOnSet(g, S) = g[x] + SumFunctionOnSet(g, R)
      /\ SumFunctionOnSet(f, S) = f[x] + SumFunctionOnSet(f, R)
  BY <1>1, <1>2, <1>3, <1>4, SumsOfIntegers
<1>6. \A y \in R : f[y] = g[y] /\ f[y] \in Int
  BY <1>1, <1>2
<1>7. SumFunctionOnSet(f, R) = SumFunctionOnSet(g, R) /\ SumFunctionOnSet(f, R) \in Int
  BY <1>3, <1>6, SumsAgree, SumsOfIntegers
<1> QED  BY <1>1, <1>4, <1>5, <1>7 DEF SumFunction

\* A sum of integers is an integer; of natural numbers, one of them.
LEMMA SumType ==
  \A f : IsFiniteSet(DOMAIN f) =>
    /\ (\A y \in DOMAIN f : f[y] \in Int) => SumFunction(f) \in Int
    /\ (\A y \in DOMAIN f : f[y] \in Nat) => SumFunction(f) \in Nat
<1> SUFFICES ASSUME NEW f, IsFiniteSet(DOMAIN f)
             PROVE  /\ (\A y \in DOMAIN f : f[y] \in Int) => SumFunction(f) \in Int
                    /\ (\A y \in DOMAIN f : f[y] \in Nat) => SumFunction(f) \in Nat
  OBVIOUS
<1>1. (\A y \in DOMAIN f : f[y] \in Int) => SumFunction(f) \in Int
  BY SumsOfIntegers DEF SumFunction
<1>2. ASSUME \A y \in DOMAIN f : f[y] \in Nat  PROVE SumFunction(f) \in Nat
  <2> DEFINE S == DOMAIN f
             T == {n \in Nat : \A s \in SUBSET S : Cardinality(s) <= n => SumFunctionOnSet(f, s) \in Nat}
  <2>0. \A s \in SUBSET S : IsFiniteSet(s) /\ Cardinality(s) \in Nat
    BY FS_Subset, FS_CardinalityType
  <2>1. \A s \in SUBSET S : s # {} =>
          SumFunctionOnSet(f, s) = f[Chosen(s)] + SumFunctionOnSet(f, s \ {Chosen(s)})
    BY <2>0, SumRecursion
  <2>n. SumFunctionOnSet(f, {}) \in Nat
    <3>1. IsFiniteSet({})
      BY FS_EmptySet
    <3>2. SumFunctionOnSet(f, {}) = 0
      BY <3>1, SumRecursion
    <3> QED  BY <3>2
  <2>2. 0 \in T
    <3>1. \A s \in SUBSET S : Cardinality(s) <= 0 => s = {}
      BY <2>0, FS_EmptySet
    <3>2. \A s \in SUBSET S : Cardinality(s) <= 0 => SumFunctionOnSet(f, s) \in Nat
      BY <3>1, <2>n
    <3> QED  BY <3>2
  <2>3. ASSUME NEW n \in Nat, n \in T  PROVE n + 1 \in T
    <3>1. ASSUME NEW s \in SUBSET S, Cardinality(s) <= n + 1  PROVE SumFunctionOnSet(f, s) \in Nat
      <4>1. CASE s = {}
        BY <4>1, <2>n
      <4>2. CASE s # {}
        <5>1. /\ Chosen(s) \in s /\ Cardinality(s) \in Nat
              /\ Cardinality(s \ {Chosen(s)}) = Cardinality(s) - 1
          BY <4>2, <2>0, ChosenCounts
        <5>2. s \ {Chosen(s)} \in SUBSET S /\ Cardinality(s \ {Chosen(s)}) <= n
          BY <5>1, <3>1
        <5>3. SumFunctionOnSet(f, s \ {Chosen(s)}) \in Nat
          BY <5>2, <2>3
        <5>4. f[Chosen(s)] \in Nat
          BY <5>1, <1>2
        <5> QED  BY <4>2, <5>3, <5>4, <2>1
      <4> QED  BY <4>1, <4>2
    <3>2. n + 1 \in Nat
      OBVIOUS
    <3> QED  BY <3>1, <3>2
  <2>4. Nat \subseteq T
    <3> HIDE DEF T
    <3> QED  BY <2>2, <2>3, SetInduction
  <2>5. Cardinality(S) \in T /\ Cardinality(S) <= Cardinality(S)
    BY <2>0, <2>4
  <2>6. SumFunctionOnSet(f, S) \in Nat
    BY <2>5
  <2> QED  BY <2>6 DEF SumFunction
<1> QED  BY <1>1, <1>2

-----------------------------------------------------------------------------
(* Sums over sets, by induction on their subsets. *)

\* A collection that holds the empty set, and with a set of elements of S the
\* set with one element more, holds every set of elements of S.
LEMMA SubsetInduction ==
  ASSUME NEW S, IsFiniteSet(S), NEW T, {} \in T,
         \A s \in SUBSET S : \A x \in S \ s : s \in T => s \cup {x} \in T
  PROVE  SUBSET S \subseteq T
<1> DEFINE N == {n \in Nat : \A s \in SUBSET S : Cardinality(s) <= n => s \in T}
<1>0. \A s \in SUBSET S : IsFiniteSet(s) /\ Cardinality(s) \in Nat
  BY FS_Subset, FS_CardinalityType
<1>1. 0 \in N
  <2>1. \A s \in SUBSET S : Cardinality(s) <= 0 => s = {}
    BY <1>0, FS_EmptySet
  <2> QED  BY <2>1
<1>2. ASSUME NEW n \in Nat, n \in N  PROVE n + 1 \in N
  <2>1. ASSUME NEW s \in SUBSET S, Cardinality(s) <= n + 1  PROVE s \in T
    <3>1. CASE s = {}
      BY <3>1
    <3>2. CASE s # {}
      <4>1. PICK x, r : x = Chosen(s) /\ r = s \ {x}
        OBVIOUS
      <4>2. x \in s /\ Cardinality(s) \in Nat /\ Cardinality(r) = Cardinality(s) - 1
        BY <1>0, <3>2, <4>1, ChosenCounts
      <4>3. r \in SUBSET S /\ x \in S \ r /\ Cardinality(r) <= n
        BY <2>1, <4>1, <4>2
      <4>4. r \in T
        BY <1>2, <4>3
      <4>5. r \cup {x} = s
        BY <4>1, <4>2
      <4> QED  BY <4>3, <4>4, <4>5
    <3> QED  BY <3>1, <3>2
  <2>2. n + 1 \in Nat
    OBVIOUS
  <2> QED  BY <2>1, <2>2
<1>3. Nat \subseteq N
  <2> HIDE DEF N
  <2> QED  BY <1>1, <1>2, SetInduction
<1>4. \A s \in SUBSET S : Cardinality(s) \in N /\ Cardinality(s) <= Cardinality(s)
  BY <1>0, <1>3
<1> QED  BY <1>4

\* The sum over nothing, and over a set with one element more.
LEMMA SumStep ==
  /\ \A f : SumFunctionOnSet(f, {}) = 0
  /\ \A f, S, x : IsFiniteSet(S) /\ x \notin S /\ f[x] \in Int /\ (\A y \in S : f[y] \in Int) =>
       /\ SumFunctionOnSet(f, S \cup {x}) = f[x] + SumFunctionOnSet(f, S)
       /\ SumFunctionOnSet(f, S) \in Int /\ IsFiniteSet(S \cup {x})
<1>1. \A f : SumFunctionOnSet(f, {}) = 0
  <2>1. IsFiniteSet({})
    BY FS_EmptySet
  <2> QED  BY <2>1, SumRecursion
<1>2. ASSUME NEW f, NEW S, NEW x, IsFiniteSet(S), x \notin S, f[x] \in Int, \A y \in S : f[y] \in Int
      PROVE  /\ SumFunctionOnSet(f, S \cup {x}) = f[x] + SumFunctionOnSet(f, S)
             /\ SumFunctionOnSet(f, S) \in Int /\ IsFiniteSet(S \cup {x})
  <2>1. PICK R : R = S \cup {x}
    OBVIOUS
  <2>2. IsFiniteSet(R) /\ x \in R /\ R \ {x} = S /\ \A y \in R : f[y] \in Int
    BY <1>2, <2>1, FS_AddElement
  <2>3. SumFunctionOnSet(f, R) = f[x] + SumFunctionOnSet(f, R \ {x})
    BY <2>2, SumsOfIntegers
  <2>4. SumFunctionOnSet(f, S) \in Int
    BY <1>2, SumsOfIntegers
  <2> QED  BY <2>1, <2>2, <2>3, <2>4
<1> QED  BY <1>1, <1>2

\* Two sets with nothing in common are summed one after the other.
LEMMA SumOfUnion ==
  \A f, A, B :
    /\ IsFiniteSet(A) /\ IsFiniteSet(B) /\ A \cap B = {}
    /\ \A y \in A \cup B : f[y] \in Int
    => SumFunctionOnSet(f, A \cup B) = SumFunctionOnSet(f, A) + SumFunctionOnSet(f, B)
<1> SUFFICES ASSUME NEW f, NEW A, NEW B, IsFiniteSet(A), IsFiniteSet(B), A \cap B = {},
                    \A y \in A \cup B : f[y] \in Int
             PROVE  SumFunctionOnSet(f, A \cup B) =
                      SumFunctionOnSet(f, A) + SumFunctionOnSet(f, B)
  OBVIOUS
<1> DEFINE T == {s \in SUBSET A : SumFunctionOnSet(f, s \cup B) =
                                   SumFunctionOnSet(f, s) + SumFunctionOnSet(f, B)}
<1>1. SumFunctionOnSet(f, B) \in Int
  BY SumsOfIntegers
<1>2. {} \in T
  <2>1. {} \cup B = B
    OBVIOUS
  <2> QED  BY <1>1, <2>1, SumStep
<1>3. ASSUME NEW s \in SUBSET A, NEW x \in A \ s, s \in T  PROVE s \cup {x} \in T
  <2>1. PICK r : r = s \cup B
    OBVIOUS
  <2>2. /\ IsFiniteSet(s) /\ IsFiniteSet(r) /\ x \notin s /\ x \notin r /\ f[x] \in Int
        /\ \A y \in s : f[y] \in Int
        /\ \A y \in r : f[y] \in Int
    <3>1. IsFiniteSet(s)
      BY FS_Subset
    <3> QED  BY <2>1, <3>1, FS_Union
  <2>3. /\ SumFunctionOnSet(f, s \cup {x}) = f[x] + SumFunctionOnSet(f, s)
        /\ SumFunctionOnSet(f, r \cup {x}) = f[x] + SumFunctionOnSet(f, r)
        /\ SumFunctionOnSet(f, s) \in Int
    BY <2>2, SumStep
  <2>4. r \cup {x} = (s \cup {x}) \cup B
    BY <2>1
  <2>5. SumFunctionOnSet(f, r) = SumFunctionOnSet(f, s) + SumFunctionOnSet(f, B)
    BY <1>3, <2>1
  <2>6. SumFunctionOnSet(f, (s \cup {x}) \cup B) =
          SumFunctionOnSet(f, s \cup {x}) + SumFunctionOnSet(f, B)
    <3>1. SumFunctionOnSet(f, (s \cup {x}) \cup B) = f[x] + SumFunctionOnSet(f, r)
      BY <2>3, <2>4
    <3>2. f[x] \in Int
      BY <2>2
    <3> QED  BY <1>1, <2>3, <2>5, <3>1, <3>2
  <2> QED  BY <2>6
<1>4. SUBSET A \subseteq T
  <2> HIDE DEF T
  <2> QED  BY <1>2, <1>3, SubsetInduction
<1>5. A \in T
  BY <1>4
<1> QED  BY <1>5

\* A set that m renames has the sum of what its elements become.
LEMMA SumOfImage ==
  \A f, g, m, A, I :
    /\ IsFiniteSet(A)
    /\ \A z : z \in I <=> \E y \in A : z = m[y]
    /\ \A x, y \in A : m[x] = m[y] => x = y
    /\ \A y \in A : g[y] \in Int /\ f[m[y]] = g[y]
    => SumFunctionOnSet(f, I) = SumFunctionOnSet(g, A) /\ IsFiniteSet(I)
<1> SUFFICES ASSUME NEW f, NEW g, NEW m, NEW A, NEW I, IsFiniteSet(A),
                    \A z : z \in I <=> \E y \in A : z = m[y],
                    \A x, y \in A : m[x] = m[y] => x = y,
                    \A y \in A : g[y] \in Int /\ f[m[y]] = g[y]
             PROVE  SumFunctionOnSet(f, I) = SumFunctionOnSet(g, A) /\ IsFiniteSet(I)
  OBVIOUS
<1> DEFINE Image(s) == {m[y] : y \in s}
           T == {s \in SUBSET A : /\ SumFunctionOnSet(f, Image(s)) = SumFunctionOnSet(g, s)
                                  /\ IsFiniteSet(Image(s))}
<1>1. {} \in T
  <2>1. Image({}) = {}
    OBVIOUS
  <2>2. IsFiniteSet({})
    BY FS_EmptySet
  <2>3. SumFunctionOnSet(f, {}) = SumFunctionOnSet(g, {})
    BY SumStep
  <2> QED  BY <2>1, <2>2, <2>3
<1>2. ASSUME NEW s \in SUBSET A, NEW x \in A \ s, s \in T  PROVE s \cup {x} \in T
  <2>1. PICK r : r = Image(s)
    OBVIOUS
  <2>2. Image(s \cup {x}) = r \cup {m[x]}
    BY <2>1
  <2>3. m[x] \notin r
    BY <2>1
  <2>4. \A y \in r : f[y] \in Int
    BY <2>1
  <2>5. /\ IsFiniteSet(r) /\ SumFunctionOnSet(f, r) = SumFunctionOnSet(g, s)
        /\ IsFiniteSet(s)
    BY <1>2, <2>1, FS_Subset
  <2>6. f[m[x]] = g[x] /\ g[x] \in Int /\ \A y \in s : g[y] \in Int
    OBVIOUS
  <2>7. /\ SumFunctionOnSet(f, r \cup {m[x]}) = f[m[x]] + SumFunctionOnSet(f, r)
        /\ IsFiniteSet(r \cup {m[x]})
    BY <2>3, <2>4, <2>5, <2>6, SumStep
  <2>8. SumFunctionOnSet(g, s \cup {x}) = g[x] + SumFunctionOnSet(g, s)
    BY <2>5, <2>6, SumStep
  <2>9. SumFunctionOnSet(f, Image(s \cup {x})) = SumFunctionOnSet(g, s \cup {x})
    BY <2>2, <2>5, <2>6, <2>7, <2>8
  <2>10. IsFiniteSet(Image(s \cup {x}))
    BY <2>2, <2>7
  <2> HIDE DEF Image
  <2> QED  BY <2>9, <2>10
<1>3. SUBSET A \subseteq T
  <2> HIDE DEF T
  <2> QED  BY <1>1, <1>2, SubsetInduction
<1>4. A \in T
  BY <1>3
<1>5. I = Image(A)
  OBVIOUS
<1> QED  BY <1>4, <1>5

\* The sum of the negated numbers, and of no more than zeros.
LEMMA SumOfNegated ==
  \A f, g, A : IsFiniteSet(A) /\ (\A y \in A : f[y] \in Int /\ g[y] = 0 - f[y]) =>
    SumFunctionOnSet(g, A) = 0 - SumFunctionOnSet(f, A)
<1> SUFFICES ASSUME NEW f, NEW g, NEW A, IsFiniteSet(A),
                    \A y \in A : f[y] \in Int /\ g[y] = 0 - f[y]
             PROVE  SumFunctionOnSet(g, A) = 0 - SumFunctionOnSet(f, A)
  OBVIOUS
<1> DEFINE T == {s \in SUBSET A : SumFunctionOnSet(g, s) = 0 - SumFunctionOnSet(f, s)}
<1>1. {} \in T
  BY SumStep
<1>2. ASSUME NEW s \in SUBSET A, NEW x \in A \ s, s \in T  PROVE s \cup {x} \in T
  <2>1. /\ IsFiniteSet(s) /\ f[x] \in Int /\ g[x] \in Int /\ g[x] = 0 - f[x]
        /\ \A y \in s : f[y] \in Int
        /\ \A y \in s : g[y] \in Int
    BY FS_Subset
  <2>2. /\ SumFunctionOnSet(g, s \cup {x}) = g[x] + SumFunctionOnSet(g, s)
        /\ SumFunctionOnSet(f, s \cup {x}) = f[x] + SumFunctionOnSet(f, s)
        /\ SumFunctionOnSet(f, s) \in Int
    BY <2>1, SumStep
  <2>3. SumFunctionOnSet(g, s \cup {x}) = 0 - SumFunctionOnSet(f, s \cup {x})
    BY <1>2, <2>1, <2>2
  <2> QED  BY <2>3
<1>3. SUBSET A \subseteq T
  <2> HIDE DEF T
  <2> QED  BY <1>1, <1>2, SubsetInduction
<1>4. A \in T
  BY <1>3
<1> QED  BY <1>4

\* Zeros add up to zero.
LEMMA SumOfZeros ==
  \A f, A : IsFiniteSet(A) /\ (\A y \in A : f[y] = 0) => SumFunctionOnSet(f, A) = 0
<1> SUFFICES ASSUME NEW f, NEW A, IsFiniteSet(A), \A y \in A : f[y] = 0
             PROVE  SumFunctionOnSet(f, A) = 0
  OBVIOUS
<1> DEFINE T == {s \in SUBSET A : SumFunctionOnSet(f, s) = 0}
<1>1. {} \in T
  BY SumStep
<1>2. ASSUME NEW s \in SUBSET A, NEW x \in A \ s, s \in T  PROVE s \cup {x} \in T
  <2>1. IsFiniteSet(s) /\ f[x] \in Int /\ f[x] = 0 /\ \A y \in s : f[y] \in Int
    BY FS_Subset
  <2>2. SumFunctionOnSet(f, s \cup {x}) = f[x] + SumFunctionOnSet(f, s)
    BY <2>1, SumStep
  <2>3. SumFunctionOnSet(f, s \cup {x}) = 0
    BY <1>2, <2>1, <2>2
  <2> QED  BY <2>3
<1>3. SUBSET A \subseteq T
  <2> HIDE DEF T
  <2> QED  BY <1>1, <1>2, SubsetInduction
<1>4. A \in T
  BY <1>3
<1> QED  BY <1>4

\* More natural numbers have no smaller sum.
LEMMA SumMonotone ==
  \A f, g :
    /\ IsFiniteSet(DOMAIN g) /\ DOMAIN f \subseteq DOMAIN g
    /\ \A y \in DOMAIN f : f[y] = g[y]
    /\ \A y \in DOMAIN g : g[y] \in Nat
    => SumFunction(f) \in Nat /\ SumFunction(g) \in Nat /\ SumFunction(g) >= SumFunction(f)
<1> SUFFICES ASSUME NEW f, NEW g, IsFiniteSet(DOMAIN g), DOMAIN f \subseteq DOMAIN g,
                    \A y \in DOMAIN f : f[y] = g[y], \A y \in DOMAIN g : g[y] \in Nat
             PROVE  /\ SumFunction(f) \in Nat /\ SumFunction(g) \in Nat
                    /\ SumFunction(g) >= SumFunction(f)
  OBVIOUS
<1>1. PICK A, B, h : A = DOMAIN f /\ B = DOMAIN g \ DOMAIN f /\ h = [y \in B |-> g[y]]
  OBVIOUS
<1>2. /\ IsFiniteSet(A) /\ IsFiniteSet(B) /\ A \cap B = {} /\ A \cup B = DOMAIN g
      /\ DOMAIN h = B
      /\ \A y \in B : h[y] = g[y] /\ h[y] \in Nat
      /\ \A y \in A \cup B : g[y] \in Int
      /\ \A y \in A : f[y] = g[y] /\ f[y] \in Nat
  <2>1. A \subseteq DOMAIN g /\ B \subseteq DOMAIN g
    BY <1>1
  <2>2. IsFiniteSet(A) /\ IsFiniteSet(B)
    BY <2>1, FS_Subset
  <2>3. A \cap B = {} /\ A \cup B = DOMAIN g /\ DOMAIN h = B
    BY <1>1
  <2>4. /\ \A y \in B : h[y] = g[y] /\ h[y] \in Nat
        /\ \A y \in A : f[y] = g[y] /\ f[y] \in Nat
    BY <1>1
  <2>5. \A y \in A \cup B : g[y] \in Int
    BY <2>3
  <2>6. QED
    BY <2>2, <2>3, <2>4, <2>5
<1>3. SumFunctionOnSet(g, A \cup B) = SumFunctionOnSet(g, A) + SumFunctionOnSet(g, B)
  BY <1>2, SumOfUnion
<1>4. /\ SumFunctionOnSet(f, A) = SumFunctionOnSet(g, A)
      /\ SumFunctionOnSet(h, B) = SumFunctionOnSet(g, B)
  BY <1>2, SumsAgree
<1>5. SumFunction(f) \in Nat /\ SumFunction(h) \in Nat
  BY <1>1, <1>2, SumType
<1>6. /\ SumFunction(f) = SumFunctionOnSet(f, A) /\ SumFunction(h) = SumFunctionOnSet(h, B)
      /\ SumFunction(g) = SumFunctionOnSet(g, A \cup B)
  BY <1>1, <1>2 DEF SumFunction
<1>7. QED
  BY <1>3, <1>4, <1>5, <1>6

\* Entries M for the rows P, U and R, and K that take those of R back; entries N
\* for D, and L that restore those of V.  g and h are the amounts, f what the
\* entries say.
Entries(f, g, h, m, k, n, l, P, U, R, D, V, M, K, N, L) ==
  /\ IsFiniteSet(P) /\ IsFiniteSet(U) /\ IsFiniteSet(R) /\ IsFiniteSet(D) /\ V \subseteq D
  /\ P \cap U = {} /\ P \cap R = {} /\ U \cap R = {}
  /\ \A x \in P \cup U \cup R : g[x] \in Int
  /\ \A x \in U : g[x] = 0
  /\ \A x \in D : h[x] \in Int
  /\ \A x, y \in P \cup U \cup R : m[x] = m[y] \/ k[x] = k[y] => x = y
  /\ \A x, y \in D : n[x] = n[y] \/ l[x] = l[y] => x = y
  /\ \A x \in P \cup U \cup R : f[m[x]] = g[x] /\ f[k[x]] = 0 - g[x]
  /\ \A x \in D : f[n[x]] = 0 - h[x] /\ f[l[x]] = h[x]
  /\ \A x, y \in P \cup U \cup R : m[x] # k[y]
  /\ \A x, y \in D : n[x] # l[y]
  /\ \A x \in P \cup U \cup R : \A y \in D :
       m[x] # n[y] /\ m[x] # l[y] /\ k[x] # n[y] /\ k[x] # l[y]
  /\ \A z : z \in M <=> \E x \in P \cup U \cup R : z = m[x]
  /\ \A z : z \in K <=> \E x \in R : z = k[x]
  /\ \A z : z \in N <=> \E x \in D : z = n[x]
  /\ \A z : z \in L <=> \E x \in V : z = l[x]

\* Entries and counter-entries: what is taken back and what is restored cancels.
LEMMA EntriesAddUp ==
  ASSUME NEW f, NEW g, NEW h, NEW m, NEW k, NEW n, NEW l,
         NEW P, NEW U, NEW R, NEW D, NEW V, NEW M, NEW K, NEW N, NEW L,
         Entries(f, g, h, m, k, n, l, P, U, R, D, V, M, K, N, L)
  PROVE  /\ SumFunctionOnSet(f, M \cup K \cup N \cup L)
              = SumFunctionOnSet(g, P) - SumFunctionOnSet(h, D \ V)
         /\ IsFiniteSet(M \cup K \cup N \cup L)
<1>1. PICK C : C = P \cup U \cup R
  OBVIOUS
<1>2. /\ IsFiniteSet(P) /\ IsFiniteSet(U) /\ IsFiniteSet(R) /\ IsFiniteSet(D)
      /\ IsFiniteSet(P \cup U) /\ IsFiniteSet(C) /\ IsFiniteSet(V) /\ IsFiniteSet(D \ V)
  <2>1. IsFiniteSet(P) /\ IsFiniteSet(U) /\ IsFiniteSet(R) /\ IsFiniteSet(D)
    BY DEF Entries
  <2>2. IsFiniteSet(P \cup U)
    BY <2>1, FS_Union
  <2>3. IsFiniteSet(C)
    BY <1>1, <2>1, <2>2, FS_Union
  <2>4. V \in SUBSET D /\ D \ V \in SUBSET D
    BY DEF Entries
  <2>5. IsFiniteSet(V) /\ IsFiniteSet(D \ V)
    BY <2>1, <2>4, FS_Subset
  <2>6. QED
    BY <2>1, <2>2, <2>3, <2>5
<1>3. PICK gg, hh : gg = [x \in C |-> 0 - g[x]] /\ hh = [x \in D |-> 0 - h[x]]
  OBVIOUS
<1>4. /\ \A x \in C : g[x] \in Int
      /\ \A x \in D : h[x] \in Int
  BY <1>1 DEF Entries
<1>5. /\ \A x \in C : gg[x] = 0 - g[x] /\ gg[x] \in Int
      /\ \A x \in D : hh[x] = 0 - h[x] /\ hh[x] \in Int
  BY <1>3, <1>4
<1>6. SumFunctionOnSet(f, M) = SumFunctionOnSet(g, C) /\ IsFiniteSet(M)
  <2>1. \A x, y \in C : m[x] = m[y] => x = y
    BY <1>1 DEF Entries
  <2>2. \A x \in C : g[x] \in Int /\ f[m[x]] = g[x]
    BY <1>1 DEF Entries
  <2>3. \A z : z \in M <=> \E x \in C : z = m[x]
    BY <1>1 DEF Entries
  <2>4. IsFiniteSet(C)
    BY <1>2
  <2>5. QED
    BY <2>1, <2>2, <2>3, <2>4, SumOfImage
<1>7. SumFunctionOnSet(f, K) = SumFunctionOnSet(gg, R) /\ IsFiniteSet(K)
  <2>1. \A x, y \in R : k[x] = k[y] => x = y
    BY DEF Entries
  <2>2. \A x \in R : x \in C /\ f[k[x]] = 0 - g[x]
    BY <1>1 DEF Entries
  <2>3. \A x \in R : gg[x] \in Int /\ f[k[x]] = gg[x]
    BY <1>5, <2>2
  <2>4. IsFiniteSet(R) /\ \A z : z \in K <=> \E x \in R : z = k[x]
    BY DEF Entries
  <2>5. QED
    BY <2>1, <2>3, <2>4, SumOfImage
<1>8. SumFunctionOnSet(f, N) = SumFunctionOnSet(hh, D) /\ IsFiniteSet(N)
  <2>1. \A x, y \in D : n[x] = n[y] => x = y
    BY DEF Entries
  <2>2. \A x \in D : f[n[x]] = 0 - h[x]
    BY DEF Entries
  <2>3. \A x \in D : hh[x] \in Int /\ f[n[x]] = hh[x]
    BY <1>5, <2>2
  <2>4. IsFiniteSet(D) /\ \A z : z \in N <=> \E x \in D : z = n[x]
    BY DEF Entries
  <2>5. QED
    BY <2>1, <2>3, <2>4, SumOfImage
<1>9. SumFunctionOnSet(f, L) = SumFunctionOnSet(h, V) /\ IsFiniteSet(L)
  <2>1. \A x, y \in V : l[x] = l[y] => x = y
    BY DEF Entries
  <2>2. \A x \in V : h[x] \in Int /\ f[l[x]] = h[x]
    BY DEF Entries
  <2>3. \A z : z \in L <=> \E x \in V : z = l[x]
    BY DEF Entries
  <2>4. IsFiniteSet(V)
    BY <1>2
  <2>5. QED
    BY <2>1, <2>2, <2>3, <2>4, SumOfImage
<1>10. /\ P \subseteq C /\ U \subseteq C /\ R \subseteq C /\ V \subseteq D
       /\ \A x \in U : g[x] = 0
  BY <1>1 DEF Entries
<1>11. /\ SumFunctionOnSet(gg, R) = 0 - SumFunctionOnSet(g, R)
       /\ SumFunctionOnSet(hh, D) = 0 - SumFunctionOnSet(h, D)
  <2>1. SumFunctionOnSet(gg, R) = 0 - SumFunctionOnSet(g, R)
    BY <1>2, <1>4, <1>5, <1>10, SumOfNegated
  <2>2. SumFunctionOnSet(hh, D) = 0 - SumFunctionOnSet(h, D)
    BY <1>2, <1>4, <1>5, SumOfNegated
  <2>3. QED
    BY <2>1, <2>2
<1>12. /\ SumFunctionOnSet(g, P) \in Int /\ SumFunctionOnSet(g, R) \in Int
       /\ SumFunctionOnSet(h, V) \in Int /\ SumFunctionOnSet(h, D \ V) \in Int
  <2>1. SumFunctionOnSet(g, P) \in Int /\ SumFunctionOnSet(g, R) \in Int
    BY <1>2, <1>4, <1>10, SumsOfIntegers
  <2>2. SumFunctionOnSet(h, V) \in Int /\ SumFunctionOnSet(h, D \ V) \in Int
    BY <1>2, <1>4, <1>10, SumsOfIntegers
  <2>3. QED
    BY <2>1, <2>2
<1>13. SumFunctionOnSet(g, C) = SumFunctionOnSet(g, P) + SumFunctionOnSet(g, R)
  <2>1. P \cap U = {} /\ (P \cup U) \cap R = {}
    BY DEF Entries
  <2>2. SumFunctionOnSet(g, U) = 0
    BY <1>2, <1>10, SumOfZeros
  <2>3. SumFunctionOnSet(g, P \cup U) = SumFunctionOnSet(g, P) + SumFunctionOnSet(g, U)
    BY <1>2, <1>4, <1>10, <2>1, SumOfUnion
  <2>4. SumFunctionOnSet(g, (P \cup U) \cup R)
          = SumFunctionOnSet(g, P \cup U) + SumFunctionOnSet(g, R)
    BY <1>2, <1>4, <1>10, <2>1, SumOfUnion
  <2>5. QED
    BY <1>1, <1>12, <2>2, <2>3, <2>4
<1>14. SumFunctionOnSet(h, D) = SumFunctionOnSet(h, D \ V) + SumFunctionOnSet(h, V)
  <2>1. (D \ V) \cap V = {} /\ (D \ V) \cup V = D
    BY <1>10
  <2>2. QED
    BY <1>2, <1>4, <1>10, <2>1, SumOfUnion
<1>15. /\ M \cap K = {} /\ (M \cup K) \cap N = {} /\ (M \cup K \cup N) \cap L = {}
       /\ \A z \in M \cup K \cup N \cup L : f[z] \in Int
  <2>1. M \cap K = {}
    <3>1. \A x, y \in C : m[x] # k[y]
      BY <1>1 DEF Entries
    <3>2. /\ \A z \in M : \E x \in C : z = m[x]
          /\ \A z \in K : \E x \in C : z = k[x]
      BY <1>1 DEF Entries
    <3>3. QED
      BY <3>1, <3>2
  <2>2. (M \cup K) \cap (N \cup L) = {}
    <3>1. \A x \in C : \A y \in D :
            m[x] # n[y] /\ m[x] # l[y] /\ k[x] # n[y] /\ k[x] # l[y]
      BY <1>1 DEF Entries
    <3>2. /\ \A z \in M \cup K : \E x \in C : z = m[x] \/ z = k[x]
          /\ \A z \in N \cup L : \E y \in D : z = n[y] \/ z = l[y]
      BY <1>1 DEF Entries
    <3>3. QED
      BY <3>1, <3>2
  <2>3. N \cap L = {}
    <3>1. \A x, y \in D : n[x] # l[y]
      BY DEF Entries
    <3>2. /\ \A z \in N : \E x \in D : z = n[x]
          /\ \A z \in L : \E x \in D : z = l[x]
      BY DEF Entries
    <3>3. QED
      BY <3>1, <3>2
  <2>4. \A z \in M \cup K : f[z] \in Int
    <3>1. \A z \in M \cup K : \E x \in C : z = m[x] \/ z = k[x]
      BY <1>1 DEF Entries
    <3>2. \A x \in C : f[m[x]] = g[x] /\ f[k[x]] = 0 - g[x]
      BY <1>1 DEF Entries
    <3>3. QED
      BY <1>4, <3>1, <3>2
  <2>5. \A z \in N \cup L : f[z] \in Int
    <3>1. \A z \in N \cup L : \E y \in D : z = n[y] \/ z = l[y]
      BY DEF Entries
    <3>2. \A x \in D : f[n[x]] = 0 - h[x] /\ f[l[x]] = h[x]
      BY DEF Entries
    <3>3. QED
      BY <1>4, <3>1, <3>2
  <2>6. QED
    BY <2>1, <2>2, <2>3, <2>4, <2>5
<1>16. /\ SumFunctionOnSet(f, M \cup K \cup N \cup L)
            = SumFunctionOnSet(f, M) + SumFunctionOnSet(f, K)
                + SumFunctionOnSet(f, N) + SumFunctionOnSet(f, L)
       /\ IsFiniteSet(M \cup K \cup N \cup L)
  <2>1. IsFiniteSet(M) /\ IsFiniteSet(K) /\ IsFiniteSet(N) /\ IsFiniteSet(L)
    BY <1>6, <1>7, <1>8, <1>9
  <2>2. IsFiniteSet(M \cup K)
    BY <2>1, FS_Union
  <2>3. IsFiniteSet((M \cup K) \cup N)
    BY <2>1, <2>2, FS_Union
  <2>4. IsFiniteSet((M \cup K \cup N) \cup L)
    BY <2>1, <2>3, FS_Union
  <2>5. SumFunctionOnSet(f, M \cup K) = SumFunctionOnSet(f, M) + SumFunctionOnSet(f, K)
    BY <1>15, <2>1, SumOfUnion
  <2>6. SumFunctionOnSet(f, (M \cup K) \cup N)
          = SumFunctionOnSet(f, M \cup K) + SumFunctionOnSet(f, N)
    BY <1>15, <2>1, <2>2, SumOfUnion
  <2>7. SumFunctionOnSet(f, (M \cup K \cup N) \cup L)
          = SumFunctionOnSet(f, M \cup K \cup N) + SumFunctionOnSet(f, L)
    BY <1>15, <2>1, <2>3, SumOfUnion
  <2>8. QED
    BY <2>4, <2>5, <2>6, <2>7
<1>17. ASSUME NEW p \in Int, NEW r \in Int, NEW v \in Int, NEW d \in Int
       PROVE  (p + r) + (0 - r) + (0 - (d + v)) + v = p - d
  OBVIOUS
<1>18. QED
  BY <1>6, <1>7, <1>8, <1>9, <1>11, <1>12, <1>13, <1>14, <1>16, <1>17

\* A sum of natural numbers over a set is one.
LEMMA SumOnSetType ==
  \A f, S : IsFiniteSet(S) /\ (\A y \in S : f[y] \in Nat) => SumFunctionOnSet(f, S) \in Nat
<1> SUFFICES ASSUME NEW f, NEW S, IsFiniteSet(S), \A y \in S : f[y] \in Nat
             PROVE  SumFunctionOnSet(f, S) \in Nat
  OBVIOUS
<1>1. PICK g : g = [y \in S |-> f[y]]
  OBVIOUS
<1>2. SumFunction(g) \in Nat
  BY <1>1, SumType
<1>3. SumFunctionOnSet(g, S) = SumFunctionOnSet(f, S)
  BY <1>1, SumsAgree
<1> QED  BY <1>1, <1>2, <1>3 DEF SumFunction

\* The sum over a set with one more element, of summands kept on the others.
LEMMA SumWithOneMore ==
  \A f, g, S, x, T :
    /\ IsFiniteSet(S) /\ x \notin S /\ T = S \cup {x}
    /\ \A y \in S : f[y] \in Int /\ g[y] = f[y]
    /\ g[x] \in Int
    => SumFunctionOnSet(g, T) = SumFunctionOnSet(f, S) + g[x]
<1> TAKE f, g, S, x, T
<1> HAVE /\ IsFiniteSet(S) /\ x \notin S /\ T = S \cup {x}
         /\ \A y \in S : f[y] \in Int /\ g[y] = f[y]
         /\ g[x] \in Int
<1>1. SumFunctionOnSet(g, S) = SumFunctionOnSet(f, S)
  BY SumsAgree
<1>2. \A y \in S : g[y] \in Int
  OBVIOUS
<1>3. /\ SumFunctionOnSet(g, S \cup {x}) = g[x] + SumFunctionOnSet(g, S)
      /\ SumFunctionOnSet(g, S) \in Int
  BY <1>2, SumStep
<1> QED  BY <1>1, <1>3

\* Sets that m maps one to one have as many elements.
LEMMA AsMany ==
  \A A, m, I :
    /\ IsFiniteSet(A)
    /\ \A z : z \in I <=> \E x \in A : z = m[x]
    /\ \A x, y \in A : m[x] = m[y] => x = y
    => IsFiniteSet(I) /\ Cardinality(I) = Cardinality(A)
<1> SUFFICES ASSUME NEW A, NEW m, NEW I, IsFiniteSet(A),
                    \A z : z \in I <=> \E x \in A : z = m[x],
                    \A x, y \in A : m[x] = m[y] => x = y
             PROVE  IsFiniteSet(I) /\ Cardinality(I) = Cardinality(A)
  OBVIOUS
<1>1. [x \in A |-> m[x]] \in Bijection(A, I)
  BY DEF Bijection, Injection, IsInjective, Surjection
<1>2. ExistsBijection(A, I)
  BY <1>1 DEF ExistsBijection
<1>3. QED
  BY <1>2, FS_Bijection
=============================================================================
