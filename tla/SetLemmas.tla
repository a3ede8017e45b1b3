----------------------------- MODULE SetLemmas -----------------------------
(***************************************************************************)
(* Facts about finite sets and extremal elements that the proofs about     *)
(* several components need.                                                *)
(***************************************************************************)
EXTENDS Integers, FiniteSets, FiniteSetsExt, FiniteSetTheorems, WellFoundedInduction, TLAPS

\* Every nonempty set of naturals has a least element.
LEMMA LeastNatural ==
  ASSUME NEW S \in SUBSET Nat, S # {}
  PROVE  \E x \in S : \A y \in S : x <= y
<1> DEFINE R == OpToRel(<, Nat)
<1>1. \E x \in S : \A y \in S : ~(<<y, x>> \in R)
  BY NatLessThanWellFounded, WFMin
<1>2. \A x, y \in Nat : <<y, x>> \in R <=> y < x
  BY DEF OpToRel
<1> HIDE DEF R
<1>3. \A x, y \in S : ~(<<y, x>> \in R) => x <= y
  BY <1>2
<1> QED BY <1>1, <1>3

\* Min returns it.
LEMMA MinNatural ==
  ASSUME NEW S \in SUBSET Nat, S # {}
  PROVE  Min(S) \in S /\ \A y \in S : Min(S) <= y
BY LeastNatural DEF Min

\* Every nonempty finite set of naturals has a greatest element: a smallest set
\* without one would lose an element and still have none.
LEMMA GreatestNatural ==
  ASSUME NEW S \in SUBSET Nat, S # {}, IsFiniteSet(S)
  PROVE  \E x \in S : \A y \in S : x >= y
<1> DEFINE HasMax(T) == \E x \in T : \A y \in T : x >= y
           Bad == {n \in Nat : \E T \in SUBSET Nat : /\ T # {} /\ IsFiniteSet(T)
                                                      /\ Cardinality(T) = n /\ ~HasMax(T)}
<1>1. SUFFICES ASSUME Bad # {} PROVE FALSE
  <2>1. Cardinality(S) \in Nat
    BY FS_CardinalityType
  <2>2. ASSUME ~HasMax(S) PROVE Cardinality(S) \in Bad
    BY <2>1, <2>2
  <2> QED BY <2>2
<1>2. PICK n \in Bad : \A m \in Bad : n <= m
  <2>1. Bad \in SUBSET Nat
    OBVIOUS
  <2> HIDE DEF Bad
  <2> QED BY <2>1, <1>1, LeastNatural
<1>3. PICK T \in SUBSET Nat : T # {} /\ IsFiniteSet(T) /\ Cardinality(T) = n /\ ~HasMax(T)
  OBVIOUS
<1>4. PICK x \in T : TRUE
  BY <1>3
<1>5. IsFiniteSet(T \ {x}) /\ Cardinality(T \ {x}) = n - 1 /\ n - 1 \in Nat
  <2>1. IsFiniteSet(T \ {x}) /\ Cardinality(T \ {x}) = Cardinality(T) - 1
    BY <1>3, <1>4, FS_RemoveElement
  <2>2. Cardinality(T \ {x}) \in Nat
    BY <2>1, FS_CardinalityType
  <2> QED BY <2>1, <2>2, <1>3
<1>6. T \ {x} # {}
  <2> SUFFICES ASSUME T = {x} PROVE FALSE
    BY <1>4
  <2> QED BY <1>3
<1>7. HasMax(T \ {x})
  <2> SUFFICES ASSUME ~HasMax(T \ {x}) PROVE FALSE
    OBVIOUS
  <2>1. n - 1 \in Bad
    BY <1>5, <1>6
  <2> QED BY <2>1, <1>2
<1>8. PICK m \in T \ {x} : \A y \in T \ {x} : m >= y
  BY <1>7
<1>9. HasMax(T)
  <2>1. CASE m >= x
    BY <2>1, <1>8
  <2>2. CASE ~(m >= x)
    <3>1. \A y \in T : x >= y
      BY <2>2, <1>8
    <3> QED BY <3>1
  <2> QED BY <2>1, <2>2
<1> QED BY <1>3, <1>9

\* Max returns it.
LEMMA MaxNatural ==
  ASSUME NEW S \in SUBSET Nat, S # {}, IsFiniteSet(S)
  PROVE  Max(S) \in S /\ \A y \in S : Max(S) >= y
BY GreatestNatural DEF Max

\* A finite set with two different members has more than one.
LEMMA TwoMembers ==
  ASSUME NEW S, IsFiniteSet(S), NEW x \in S, NEW y \in S, x # y
  PROVE  Cardinality(S) > 1
<1>1. IsFiniteSet({x, y}) /\ Cardinality({x, y}) = 2
  <2>1. {x, y} = {x} \cup {y}
    OBVIOUS
  <2>2. IsFiniteSet({x}) /\ Cardinality({x}) = 1 /\ y \notin {x}
    BY FS_Singleton
  <2>3. IsFiniteSet({x} \cup {y}) /\ Cardinality({x} \cup {y}) = 1 + 1
    BY <2>2, FS_AddElement
  <2> QED BY <2>1, <2>3
<1>2. {x, y} \in SUBSET S
  OBVIOUS
<1>3. Cardinality({x, y}) <= Cardinality(S)
  BY <1>2, FS_Subset
<1> QED BY <1>1, <1>3, FS_CardinalityType

-----------------------------------------------------------------------------
(* Sums of a function over a finite set.                                   *)

Chosen(s) == CHOOSE x \in s : TRUE

IntOn(f, S) == \A x \in S : f[x] \in Int

\* The next value of the sum: of s from the sums of the smaller sets in g.
SumNext(f, g, s) == IF s = {} THEN 0 ELSE f[Chosen(s)] + g[s \ {Chosen(s)}]

\* g holds the sum of every subset of S.
IsSum(f, S, g) == g = [s \in SUBSET S |-> SumNext(f, g, s)]

\* Taking one element out of a finite set.
LEMMA ChosenOut ==
  ASSUME NEW s, IsFiniteSet(s), s # {}
  PROVE  /\ Chosen(s) \in s /\ IsFiniteSet(s \ {Chosen(s)})
         /\ Cardinality(s) \in Nat /\ Cardinality(s \ {Chosen(s)}) \in Nat
         /\ Cardinality(s \ {Chosen(s)}) = Cardinality(s) - 1 /\ Cardinality(s) # 0
<1>1. Chosen(s) \in s
  BY DEF Chosen
<1>2. IsFiniteSet(s \ {Chosen(s)}) /\ Cardinality(s \ {Chosen(s)}) = Cardinality(s) - 1
  BY <1>1, FS_RemoveElement
<1> QED BY <1>1, <1>2, FS_CardinalityType, FS_EmptySet

\* The function that sums over all subsets of a finite set exists: a least size up
\* to which it did not would have a predecessor.
LEMMA SumsExist ==
  ASSUME NEW S, IsFiniteSet(S), NEW f, IntOn(f, S)
  PROVE  \E g : IsSum(f, S, g)
<1>1. \A s \in SUBSET S : IsFiniteSet(s) /\ Cardinality(s) \in Nat /\ Cardinality(s) <= Cardinality(S)
  BY FS_Subset, FS_CardinalityType
<1>2. Cardinality(S) \in Nat
  BY <1>1
<1> DEFINE Small(k) == {s \in SUBSET S : Cardinality(s) <= k}
           Upto(k) == \E g \in [Small(k) -> Int] : \A s \in Small(k) : g[s] = SumNext(f, g, s)
<1>3. ASSUME NEW k \in Nat, NEW s \in Small(k), s # {}
      PROVE  /\ Chosen(s) \in S /\ f[Chosen(s)] \in Int
             /\ k # 0 /\ s \ {Chosen(s)} \in Small(k - 1) /\ s \ {Chosen(s)} \in Small(k)
  <2>1. IsFiniteSet(s) /\ Cardinality(s) <= k
    BY <1>1
  <2>2. /\ Chosen(s) \in s /\ Cardinality(s) \in Nat /\ Cardinality(s \ {Chosen(s)}) \in Nat
        /\ Cardinality(s \ {Chosen(s)}) = Cardinality(s) - 1 /\ Cardinality(s) # 0
    BY <1>3, <2>1, ChosenOut
  <2>3. k # 0 /\ Cardinality(s \ {Chosen(s)}) <= k - 1 /\ Cardinality(s \ {Chosen(s)}) <= k
    BY <2>1, <2>2
  <2>4. s \ {Chosen(s)} \in SUBSET S /\ Chosen(s) \in S
    BY <2>2
  <2> QED BY <2>3, <2>4 DEF IntOn
<1>4. Upto(Cardinality(S))
  <2>1. SUFFICES ASSUME ~Upto(Cardinality(S)) PROVE FALSE
    OBVIOUS
  <2>2. PICK B : B = {k \in Nat : ~Upto(k)}
    OBVIOUS
  <2>3. PICK k \in B : \A y \in B : k <= y
    <3>1. B \in SUBSET Nat /\ B # {}
      BY <1>2, <2>1, <2>2
    <3> QED BY <3>1, LeastNatural
  <2>4. k \in Nat /\ ~Upto(k)
    BY <2>2, <2>3
  <2>5. CASE k = 0
    <3>1. PICK g : g = [s \in Small(0) |-> 0]
      OBVIOUS
    <3>2. g \in [Small(k) -> Int]
      BY <2>5, <3>1
    <3>3. ASSUME NEW s \in Small(k) PROVE g[s] = SumNext(f, g, s)
      <4>1. s = {}
        BY <1>3, <2>5
      <4>2. g[s] = 0
        BY <2>5, <3>1
      <4> QED BY <4>1, <4>2 DEF SumNext
    <3>4. Upto(k)
      BY <3>2, <3>3
    <3> QED BY <2>4, <3>4
  <2>6. CASE k # 0
    <3>1. k - 1 \in Nat /\ ~(k <= k - 1)
      BY <2>4, <2>6
    <3>2. Upto(k - 1)
      BY <2>2, <2>3, <3>1
    <3>3. PICK g \in [Small(k - 1) -> Int] : \A s \in Small(k - 1) : g[s] = SumNext(f, g, s)
      BY <3>2
    <3>4. PICK h : h = [s \in Small(k) |-> SumNext(f, g, s)]
      OBVIOUS
    <3>5. ASSUME NEW s \in Small(k) PROVE SumNext(f, g, s) \in Int
      <4>1. CASE s = {}
        BY <4>1 DEF SumNext
      <4>2. CASE s # {}
        <5>1. f[Chosen(s)] \in Int /\ s \ {Chosen(s)} \in Small(k - 1)
          BY <1>3, <2>4, <4>2
        <5>2. g[s \ {Chosen(s)}] \in Int
          BY <3>3, <5>1
        <5> QED BY <4>2, <5>1, <5>2 DEF SumNext
      <4> QED BY <4>1, <4>2
    <3>6. h \in [Small(k) -> Int]
      BY <3>4, <3>5
    <3>7. ASSUME NEW s \in Small(k) PROVE h[s] = SumNext(f, h, s)
      <4>1. h[s] = SumNext(f, g, s)
        BY <3>4
      <4>2. CASE s = {}
        BY <4>1, <4>2 DEF SumNext
      <4>3. CASE s # {}
        <5>1. PICK t : t = s \ {Chosen(s)} /\ t \in Small(k - 1) /\ t \in Small(k)
          BY <1>3, <2>4, <4>3
        <5>2. h[t] = SumNext(f, g, t) /\ g[t] = SumNext(f, g, t)
          BY <3>3, <3>4, <5>1
        <5> QED BY <4>1, <4>3, <5>1, <5>2 DEF SumNext
      <4> QED BY <4>2, <4>3
    <3>8. Upto(k)
      BY <3>6, <3>7
    <3> QED BY <2>4, <3>8
  <2> QED BY <2>5, <2>6
<1>5. Small(Cardinality(S)) = SUBSET S
  BY <1>1
<1>6. PICK g \in [SUBSET S -> Int] : \A s \in SUBSET S : g[s] = SumNext(f, g, s)
  BY <1>4, <1>5
<1>7. IsSum(f, S, g)
  BY <1>6 DEF IsSum
<1> QED BY <1>7

\* The sum of f over S is the value at S of such a function.
LEMMA SumsFunction ==
  ASSUME NEW S, IsFiniteSet(S), NEW f, IntOn(f, S)
  PROVE  \E g : /\ IsSum(f, S, g)
                /\ SumFunctionOnSet(f, S) = g[S]
<1> DEFINE E(g) == [s \in SUBSET S |-> SumNext(f, g, s)]
<1>1. PICK g : g = CHOOSE h : h = E(h)
  OBVIOUS
<1>2. g = E(g)
  <2>1. \E h : h = E(h)
    <3>1. PICK h : IsSum(f, S, h)
      BY SumsExist
    <3>2. h = E(h)
      BY <3>1 DEF IsSum
    <3> QED BY <3>2
  <2> HIDE DEF E
  <2> QED BY <1>1, <2>1
<1>3. SumFunctionOnSet(f, S) = g[S]
  BY <1>1 DEF SumFunctionOnSet, FoldFunctionOnSet, MapThenFoldSet, SumNext, Chosen
<1> QED BY <1>2, <1>3 DEF IsSum

\* Two such functions agree where both are defined and their weights agree.
LEMMA SumsAgree ==
  ASSUME NEW S, IsFiniteSet(S), NEW T, IsFiniteSet(T), NEW f, NEW e, NEW g, NEW h,
         IsSum(f, S, g), IsSum(e, T, h),
         \A x \in S \cap T : f[x] = e[x]
  PROVE  \A s \in SUBSET (S \cap T) : g[s] = h[s]
<1>1. SUFFICES ASSUME NEW t \in SUBSET (S \cap T), g[t] # h[t] PROVE FALSE
  OBVIOUS
<1>2. PICK B : B = {n \in Nat : \E s \in SUBSET (S \cap T) : Cardinality(s) = n /\ g[s] # h[s]}
  OBVIOUS
<1>3. \A s \in SUBSET (S \cap T) : IsFiniteSet(s) /\ Cardinality(s) \in Nat
  BY FS_Subset, FS_CardinalityType
<1>4. PICK n \in B : \A y \in B : n <= y
  <2>1. B \in SUBSET Nat
    BY <1>2
  <2>2. PICK m \in Nat : m = Cardinality(t)
    BY <1>3
  <2>3. m \in B
    BY <1>1, <1>2, <2>2
  <2> QED BY <2>1, <2>3, LeastNatural
<1>5. PICK s \in SUBSET (S \cap T) : Cardinality(s) = n /\ g[s] # h[s]
  BY <1>2, <1>4
<1>6. g[s] = SumNext(f, g, s) /\ h[s] = SumNext(e, h, s)
  BY <1>5 DEF IsSum
<1>7. s # {}
  BY <1>5, <1>6 DEF SumNext
<1>8. PICK u : /\ u = s \ {Chosen(s)} /\ Chosen(s) \in s /\ Cardinality(u) = Cardinality(s) - 1
               /\ Cardinality(u) \in Nat
  BY <1>3, <1>7, ChosenOut
<1>9. u \in SUBSET (S \cap T) /\ ~(n <= Cardinality(u)) /\ f[Chosen(s)] = e[Chosen(s)]
  BY <1>3, <1>5, <1>8
<1>10. g[u] = h[u]
  BY <1>2, <1>4, <1>8, <1>9
<1> QED BY <1>5, <1>6, <1>7, <1>8, <1>9, <1>10 DEF SumNext

\* The sum over the empty set is 0; otherwise one element is taken out.
LEMMA SumStep ==
  ASSUME NEW S, IsFiniteSet(S), NEW f, IntOn(f, S)
  PROVE  /\ S = {} => SumFunctionOnSet(f, S) = 0
         /\ S # {} => SumFunctionOnSet(f, S)
                        = f[Chosen(S)] + SumFunctionOnSet(f, S \ {Chosen(S)})
<1>1. PICK g : /\ IsSum(f, S, g)
               /\ SumFunctionOnSet(f, S) = g[S]
  BY SumsFunction
<1>2. g[S] = SumNext(f, g, S)
  BY <1>1 DEF IsSum
<1>3. CASE S = {}
  BY <1>1, <1>2, <1>3 DEF SumNext
<1>4. CASE S # {}
  <2>1. PICK T : T = S \ {Chosen(S)} /\ IsFiniteSet(T) /\ T \in SUBSET S
    BY <1>4, ChosenOut
  <2>2. IntOn(f, T)
    BY <2>1 DEF IntOn
  <2>3. PICK h : /\ IsSum(f, T, h)
                 /\ SumFunctionOnSet(f, T) = h[T]
    BY <2>1, <2>2, SumsFunction
  <2>4. \A s \in SUBSET (S \cap T) : g[s] = h[s]
    BY <1>1, <2>1, <2>3, SumsAgree
  <2>5. g[T] = h[T]
    BY <2>1, <2>4
  <2> QED BY <1>1, <1>2, <1>4, <2>1, <2>3, <2>5 DEF SumNext
<1> QED BY <1>3, <1>4

\* The sum only depends on the values on the set.
LEMMA SumCong ==
  ASSUME NEW S, IsFiniteSet(S), NEW f, IntOn(f, S), NEW e, \A x \in S : e[x] = f[x]
  PROVE  SumFunctionOnSet(e, S) = SumFunctionOnSet(f, S)
<1>1. IntOn(e, S)
  BY DEF IntOn
<1>2. PICK g : /\ IsSum(f, S, g)
               /\ SumFunctionOnSet(f, S) = g[S]
  BY SumsFunction
<1>3. PICK h : /\ IsSum(e, S, h)
               /\ SumFunctionOnSet(e, S) = h[S]
  BY <1>1, SumsFunction
<1>4. \A s \in SUBSET (S \cap S) : g[s] = h[s]
  <2>1. \A x \in S \cap S : f[x] = e[x]
    OBVIOUS
  <2> QED BY <1>2, <1>3, <2>1, SumsAgree
<1> QED BY <1>2, <1>3, <1>4

\* Any element may be taken out first, and the sum is an integer: a smallest set
\* where that failed would be one element larger than sets where it holds.
LEMMA SumAny ==
  ASSUME NEW S, IsFiniteSet(S), NEW f, IntOn(f, S)
  PROVE  /\ SumFunctionOnSet(f, S) \in Int
         /\ \A y \in S : SumFunctionOnSet(f, S) = f[y] + SumFunctionOnSet(f, S \ {y})
<1> DEFINE Sound(s) == /\ SumFunctionOnSet(f, s) \in Int
                       /\ \A y \in s : SumFunctionOnSet(f, s) = f[y] + SumFunctionOnSet(f, s \ {y})
<1>1. \A s \in SUBSET S : IsFiniteSet(s) /\ Cardinality(s) \in Nat /\ IntOn(f, s)
  BY FS_Subset, FS_CardinalityType DEF IntOn
<1>2. SUFFICES ASSUME ~Sound(S) PROVE FALSE
  OBVIOUS
<1>3. PICK B : B = {n \in Nat : \E s \in SUBSET S : Cardinality(s) = n /\ ~Sound(s)}
  OBVIOUS
<1>4. PICK n \in B : \A y \in B : n <= y
  <2>1. B \in SUBSET Nat
    BY <1>3
  <2>2. PICK m \in Nat : m = Cardinality(S)
    BY <1>1
  <2>3. m \in B
    BY <1>2, <1>3, <2>2
  <2> QED BY <2>1, <2>3, LeastNatural
<1>5. PICK s \in SUBSET S : Cardinality(s) = n /\ ~Sound(s)
  BY <1>3, <1>4
<1>6. ASSUME NEW y \in s PROVE Sound(s \ {y}) /\ s \ {y} \in SUBSET S
  <2>1. PICK u : u = s \ {y} /\ u \in SUBSET S
    BY <1>5
  <2>2. Cardinality(u) = Cardinality(s) - 1 /\ Cardinality(u) \in Nat /\ n \in Nat
    BY <1>1, <1>5, <2>1, FS_RemoveElement
  <2>3. ~(n <= Cardinality(u))
    BY <1>5, <2>2
  <2>4. Cardinality(u) \notin B
    BY <1>4, <2>3
  <2>5. Sound(u)
    BY <1>3, <2>1, <2>2, <2>4
  <2> QED BY <2>1, <2>5
<1>7. s # {}
  <2>1. SUFFICES ASSUME s = {} PROVE FALSE
    OBVIOUS
  <2>2. SumFunctionOnSet(f, s) = 0
    BY <1>1, <2>1, SumStep
  <2> QED BY <1>5, <2>1, <2>2
<1>8. PICK c : c = Chosen(s) /\ c \in s
  BY <1>7 DEF Chosen
<1>9. SumFunctionOnSet(f, s) = f[c] + SumFunctionOnSet(f, s \ {c})
  BY <1>1, <1>7, <1>8, SumStep
<1>10. \A y \in s : f[y] \in Int
  BY <1>5 DEF IntOn
<1>11. SumFunctionOnSet(f, s \ {c}) \in Int
  BY <1>6, <1>8
<1>12. SumFunctionOnSet(f, s) \in Int
  BY <1>8, <1>9, <1>10, <1>11
<1>13. ASSUME NEW y \in s, y # c
       PROVE  SumFunctionOnSet(f, s) = f[y] + SumFunctionOnSet(f, s \ {y})
  <2>1. y \in s \ {c} /\ c \in s \ {y} /\ (s \ {c}) \ {y} = (s \ {y}) \ {c}
    BY <1>8, <1>13
  <2>2. PICK r : r = (s \ {c}) \ {y}
    OBVIOUS
  <2>3. SumFunctionOnSet(f, s \ {c}) = f[y] + SumFunctionOnSet(f, r)
    BY <1>6, <1>8, <2>1, <2>2
  <2>4. SumFunctionOnSet(f, s \ {y}) = f[c] + SumFunctionOnSet(f, r)
    BY <1>6, <2>1, <2>2
  <2>5. SumFunctionOnSet(f, r) \in Int
    <3>1. r = (s \ {c}) \ {y} /\ r \in SUBSET S
      BY <1>5, <2>2
    <3>2. IsFiniteSet(r) /\ IntOn(f, r)
      BY <1>1, <3>1
    <3>3. PICK u : u = s \ {c} /\ u \in SUBSET S /\ y \in u /\ r = u \ {y} /\ Cardinality(u) = n - 1
      BY <1>1, <1>5, <1>8, <2>1, <2>2, FS_RemoveElement
    <3>4. PICK m \in Nat : m = Cardinality(r) /\ m = Cardinality(u) - 1
      <4>1. Cardinality(u \ {y}) = Cardinality(u) - 1
        BY <1>1, <3>3, FS_RemoveElement
      <4>2. Cardinality(r) \in Nat
        BY <1>1, <3>1
      <4> QED BY <3>3, <4>1, <4>2
    <3>5. ~(n <= m)
      BY <1>1, <1>5, <3>3, <3>4
    <3>6. Sound(r)
      BY <1>3, <1>4, <3>1, <3>4, <3>5
    <3> QED BY <3>6
  <2> HIDE DEF Sound
  <2> QED BY <1>8, <1>9, <1>10, <2>3, <2>4, <2>5
<1> QED BY <1>5, <1>9, <1>12, <1>13

\* A change of f at y changes the sum by the same amount.
LEMMA SumUpdate ==
  ASSUME NEW S, IsFiniteSet(S), NEW f, IntOn(f, S), NEW e, NEW y \in S, e[y] \in Int,
         \A x \in S : x # y => e[x] = f[x]
  PROVE  SumFunctionOnSet(e, S) = SumFunctionOnSet(f, S) - f[y] + e[y]
<1>1. IntOn(e, S) /\ f[y] \in Int
  BY DEF IntOn
<1>2. PICK T : T = S \ {y} /\ IsFiniteSet(T) /\ IntOn(f, T) /\ IntOn(e, T)
  BY <1>1, FS_Subset DEF IntOn
<1>3. SumFunctionOnSet(e, T) = SumFunctionOnSet(f, T) /\ SumFunctionOnSet(f, T) \in Int
  BY <1>2, SumCong, SumAny
<1>4. SumFunctionOnSet(f, S) = f[y] + SumFunctionOnSet(f, T)
  BY <1>2, SumAny
<1>5. SumFunctionOnSet(e, S) = e[y] + SumFunctionOnSet(e, T)
  BY <1>1, <1>2, SumAny
<1> QED BY <1>1, <1>3, <1>4, <1>5

\* A sum over 1..n + 1 is its first value and the sum of the others, shifted down.
LEMMA SumShift ==
  ASSUME NEW n \in Nat, NEW f, IntOn(f, 1..(n + 1)), NEW e, \A i \in 1..n : e[i] = f[i + 1]
  PROVE  SumFunctionOnSet(f, 1..(n + 1)) = f[1] + SumFunctionOnSet(e, 1..n)
<1> DEFINE Shifted(k) == SumFunctionOnSet(f, 1..(k + 1)) = f[1] + SumFunctionOnSet(e, 1..k)
<1>1. SUFFICES ASSUME ~Shifted(n) PROVE FALSE
  OBVIOUS
<1>2. PICK B : B = {k \in 0..n : ~Shifted(k)}
  OBVIOUS
<1>3. PICK k \in B : \A y \in B : k <= y
  <2>1. B \in SUBSET Nat /\ n \in B
    BY <1>1, <1>2
  <2> QED BY <2>1, LeastNatural
<1>4. k \in Nat /\ k <= n /\ ~Shifted(k)
  BY <1>2, <1>3
<1>5. /\ IsFiniteSet(1..(k + 1)) /\ IntOn(f, 1..(k + 1)) /\ f[1] \in Int
      /\ IsFiniteSet(1..k) /\ IntOn(e, 1..k) /\ IntOn(f, 1..k)
  <2>1. \A i \in Int : i \in 1..(k + 1) => i \in 1..(n + 1)
    BY <1>4
  <2>2. \A i \in Int : i \in 1..k => i \in 1..n /\ i + 1 \in 1..(n + 1) /\ i \in 1..(n + 1)
    BY <1>4
  <2>3. IntOn(f, 1..(k + 1)) /\ IntOn(f, 1..k)
    BY <2>1, <2>2 DEF IntOn
  <2>4. IntOn(e, 1..k)
    BY <2>2 DEF IntOn
  <2>5. 1 \in 1..(n + 1)
    OBVIOUS
  <2>6. f[1] \in Int
    BY <2>5 DEF IntOn
  <2>7. IsFiniteSet(1..(k + 1)) /\ IsFiniteSet(1..k)
    <3>1. k \in Int /\ k + 1 \in Int /\ 1 \in Int
      BY <1>4
    <3> QED BY <3>1, FS_Interval
  <2> QED BY <2>3, <2>4, <2>6, <2>7
<1>6. SumFunctionOnSet(f, 1..(k + 1)) = f[k + 1] + SumFunctionOnSet(f, 1..k)
  <2>1. PICK U : U = 1..(k + 1)
    OBVIOUS
  <2>2. PICK j : j = k + 1
    OBVIOUS
  <2>3. j \in U /\ U \ {j} = 1..k
    BY <1>4, <2>1, <2>2
  <2>4. IsFiniteSet(U) /\ IntOn(f, U)
    BY <1>5, <2>1
  <2>5. SumFunctionOnSet(f, U) = f[j] + SumFunctionOnSet(f, U \ {j})
    BY <2>3, <2>4, SumAny
  <2> QED BY <2>1, <2>2, <2>3, <2>5
<1>7. CASE k = 0
  <2>1. 1..k = {}
    BY <1>7
  <2>2. SumFunctionOnSet(f, 1..k) = 0 /\ SumFunctionOnSet(e, 1..k) = 0
    BY <1>5, <2>1, SumStep
  <2> QED BY <1>4, <1>5, <1>6, <1>7, <2>2
<1>8. CASE k # 0
  <2>1. PICK m \in Nat : m + 1 = k /\ m < k /\ m <= n
    <3>1. k - 1 \in Nat /\ k - 1 + 1 = k /\ k - 1 < k /\ k - 1 <= n
      BY <1>4, <1>8
    <3> QED BY <3>1
  <2>2. ~(k <= m) /\ m \in 0..n
    BY <1>4, <2>1
  <2>3. Shifted(m)
    BY <1>2, <1>3, <2>2
  <2>4. SumFunctionOnSet(f, 1..k) = f[1] + SumFunctionOnSet(e, 1..m)
    BY <2>1, <2>3
  <2>5. SumFunctionOnSet(e, 1..k) = e[k] + SumFunctionOnSet(e, 1..m)
    <3>1. PICK U : U = 1..k
      OBVIOUS
    <3>2. k \in U /\ U \ {k} = 1..m
      BY <1>4, <2>1, <3>1
    <3>3. IsFiniteSet(U) /\ IntOn(e, U)
      BY <1>5, <3>1
    <3>4. SumFunctionOnSet(e, U) = e[k] + SumFunctionOnSet(e, U \ {k})
      BY <3>2, <3>3, SumAny
    <3> QED BY <3>1, <3>2, <3>4
  <2>6. e[k] = f[k + 1] /\ e[k] \in Int
    BY <1>4, <1>5, <1>8 DEF IntOn
  <2>7. SumFunctionOnSet(e, 1..m) \in Int
    <3>1. IsFiniteSet(1..m) /\ IntOn(e, 1..m)
      BY <1>4, <1>5, <2>1, FS_Interval DEF IntOn
    <3> QED BY <3>1, SumAny
  <2>8. SumFunctionOnSet(f, 1..(k + 1)) = f[1] + SumFunctionOnSet(e, 1..k)
    BY <1>5, <1>6, <2>4, <2>5, <2>6, <2>7
  <2> QED BY <1>4, <2>8
<1> QED BY <1>7, <1>8

\* A sum of zeros is zero: a smallest set where it is not would lose an element and
\* keep its sum.
LEMMA SumZero ==
  ASSUME NEW S, IsFiniteSet(S), NEW f, \A x \in S : f[x] = 0
  PROVE  SumFunctionOnSet(f, S) = 0
<1>1. SUFFICES ASSUME SumFunctionOnSet(f, S) # 0 PROVE FALSE
  OBVIOUS
<1>2. \A s \in SUBSET S : IsFiniteSet(s) /\ Cardinality(s) \in Nat /\ IntOn(f, s)
  BY FS_Subset, FS_CardinalityType DEF IntOn
<1>3. PICK B : B = {n \in Nat : \E s \in SUBSET S : Cardinality(s) = n /\ SumFunctionOnSet(f, s) # 0}
  OBVIOUS
<1>4. PICK n \in B : \A y \in B : n <= y
  <2>1. B \in SUBSET Nat
    BY <1>3
  <2>2. PICK m \in Nat : m = Cardinality(S)
    BY <1>2
  <2>3. m \in B
    BY <1>1, <1>3, <2>2
  <2> QED BY <2>1, <2>3, LeastNatural
<1>5. PICK s \in SUBSET S : Cardinality(s) = n /\ SumFunctionOnSet(f, s) # 0
  BY <1>3, <1>4
<1>6. s # {}
  BY <1>2, <1>5, SumStep
<1>7. PICK u : /\ u = s \ {Chosen(s)} /\ Chosen(s) \in s /\ u \in SUBSET S
               /\ SumFunctionOnSet(f, s) = f[Chosen(s)] + SumFunctionOnSet(f, u)
  <2>1. Chosen(s) \in s
    BY <1>6 DEF Chosen
  <2> QED BY <1>2, <1>6, <2>1, SumStep
<1>8. Cardinality(u) \in Nat /\ Cardinality(u) = Cardinality(s) - 1 /\ Cardinality(s) \in Nat
  BY <1>2, <1>6, <1>7, ChosenOut
<1>9. ~(n <= Cardinality(u))
  BY <1>5, <1>8
<1>10. SumFunctionOnSet(f, u) = 0
  BY <1>3, <1>4, <1>7, <1>8, <1>9
<1>11. f[Chosen(s)] = 0
  BY <1>5, <1>7
<1> QED BY <1>5, <1>7, <1>10, <1>11
=============================================================================
