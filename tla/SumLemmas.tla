----------------------------- MODULE SumLemmas -----------------------------
(***************************************************************************)
(* Sums over finite sets.  SumFunctionOnSet of the module Functions is a   *)
(* recursive function on the subsets of a set; what the proofs about       *)
(* balances need of it is that any element can be taken out first.  The    *)
(* inductions are by the well-foundedness of < on Nat: the set of the      *)
(* numbers for which a statement holds is all of Nat.  Counting and        *)
(* RemovingElements are also the inductions of the audit trail's proofs.   *)
(***************************************************************************)
EXTENDS Integers, Sequences, FiniteSets, Functions, FiniteSetTheorems, TLAPS

\* Every nonempty set of natural numbers has a least element.
LEMMA LeastNumber ==
  ASSUME NEW T \in SUBSET Nat, T # {}
  PROVE  \E n \in T : \A m \in T : n <= m
<1>1. PICK n \in T : \A m \in T : ~ <<m, n>> \in OpToRel(<, Nat)
  BY NatLessThanWellFounded, WFMin
<1>2. \A m \in T : ~ (m < n)
  BY <1>1 DEF OpToRel
<1> QED BY <1>2

\* Induction: a set with 0 that has n + 1 whenever it has n has every number.
LEMMA Counting ==
  ASSUME NEW P, 0 \in P, \A n \in Nat : n \in P => n + 1 \in P
  PROVE  Nat \subseteq P
<1> SUFFICES ASSUME Nat \ P # {} PROVE FALSE
  OBVIOUS
<1>1. PICK n \in Nat \ P : \A m \in Nat \ P : n <= m
  BY LeastNumber
<1>2. n - 1 \in Nat /\ ~ (n <= n - 1)
  BY <1>1
<1> QED BY <1>1, <1>2

-----------------------------------------------------------------------------
\* The element that a sum over s takes out first, and the sum over s of f, given
\* the sums g over the smaller sets.
First(s) == CHOOSE x \in s : TRUE
SumStep(f, g, s) == IF s = {} THEN 0 ELSE f[First(s)] + g[s \ {First(s)}]

\* The recursive function that SumFunctionOnSet evaluates.
Sums(f, S) == CHOOSE g : g = [s \in SUBSET S |-> SumStep(f, g, s)]

\* SumFunctionOnSet is that recursive function, applied to the whole set.
LEMMA SumBySums ==
  ASSUME NEW f, NEW S
  PROVE  SumFunctionOnSet(f, S) = Sums(f, S)[S]
BY DEF SumFunctionOnSet, FoldFunctionOnSet, MapThenFoldSet, Sums, SumStep, First

\* The element taken out is one of the set.
LEMMA FirstIn == \A s : s # {} => First(s) \in s
BY DEF First

\* The subsets of S with at most n elements.
UpTo(S, n) == {s \in SUBSET S : Cardinality(s) <= n}

\* Without one of its elements a finite set has one element less.
LEMMA SmallerSubset ==
  ASSUME NEW S, IsFiniteSet(S), NEW s \in SUBSET S, NEW x \in s
  PROVE  /\ s \ {x} \in SUBSET S
         /\ IsFiniteSet(s) /\ IsFiniteSet(s \ {x})
         /\ Cardinality(s) \in Nat /\ Cardinality(s \ {x}) \in Nat
         /\ Cardinality(s) = Cardinality(s \ {x}) + 1
<1>1. IsFiniteSet(s) /\ Cardinality(s) \in Nat
  BY FS_Subset, FS_CardinalityType
<1>2. IsFiniteSet(s \ {x}) /\ Cardinality(s \ {x}) = Cardinality(s) - 1
  BY <1>1, FS_RemoveElement
<1>3. Cardinality(s \ {x}) \in Nat
  BY <1>2, FS_CardinalityType
<1> QED BY <1>1, <1>2, <1>3

\* The only subset without elements is the empty set.
LEMMA EmptyUpTo ==
  ASSUME NEW S, IsFiniteSet(S)
  PROVE  UpTo(S, 0) = {{}}
<1>1. \A s \in SUBSET S : IsFiniteSet(s) /\ Cardinality(s) \in Nat
  BY FS_Subset, FS_CardinalityType
<1>2. \A s \in SUBSET S : Cardinality(s) <= 0 <=> s = {}
  BY <1>1, FS_EmptySet
<1> QED BY <1>2 DEF UpTo

\* The recursive function exists: by levels of the number of elements.
LEMMA SumsExist ==
  ASSUME NEW f, NEW S, IsFiniteSet(S)
  PROVE  \E g : g = [s \in SUBSET S |-> SumStep(f, g, s)]
<1> DEFINE P == {n \in Nat : \E g : g = [s \in UpTo(S, n) |-> SumStep(f, g, s)]}
<1>1. 0 \in P
  <2> DEFINE g == [s \in UpTo(S, 0) |-> 0]
  <2>1. \A s \in UpTo(S, 0) : SumStep(f, g, s) = 0
    BY EmptyUpTo DEF SumStep
  <2>2. g = [s \in UpTo(S, 0) |-> SumStep(f, g, s)]
    BY <2>1
  <2> QED BY <2>2
<1>2. ASSUME NEW n \in Nat, n \in P
      PROVE  n + 1 \in P
  <2>1. PICK g : g = [s \in UpTo(S, n) |-> SumStep(f, g, s)]
    BY <1>2
  <2> DEFINE h == [s \in UpTo(S, n + 1) |-> SumStep(f, g, s)]
  <2>2. ASSUME NEW s \in UpTo(S, n + 1)
        PROVE  SumStep(f, g, s) = SumStep(f, h, s)
    <3>1. CASE s = {}
      BY <3>1 DEF SumStep
    <3>2. CASE s # {}
      <4> DEFINE r == s \ {First(s)}
      <4>1. First(s) \in s /\ s \in SUBSET S /\ Cardinality(s) <= n + 1
        BY <3>2, FirstIn DEF UpTo
      <4>2. r \in SUBSET S /\ Cardinality(r) \in Nat /\ Cardinality(r) <= n
        <5>1. /\ Cardinality(s) = Cardinality(r) + 1
              /\ Cardinality(s) \in Nat /\ Cardinality(r) \in Nat
          BY <4>1, SmallerSubset
        <5> QED BY <4>1, <5>1
      <4>3. r \in UpTo(S, n) /\ r \in UpTo(S, n + 1)
        BY <4>2 DEF UpTo
      <4>4. g[r] = SumStep(f, g, r) /\ h[r] = SumStep(f, g, r)
        BY <4>3, <2>1
      <4> QED BY <3>2, <4>4 DEF SumStep
    <3> QED BY <3>1, <3>2
  <2> HIDE DEF h
  <2>3. h = [s \in UpTo(S, n + 1) |-> SumStep(f, h, s)]
    BY <2>2 DEF h
  <2> QED BY <2>3
<1>3. Cardinality(S) \in P
  BY <1>1, <1>2, Counting, FS_CardinalityType
<1>4. UpTo(S, Cardinality(S)) = SUBSET S
  BY FS_Subset DEF UpTo
<1> QED BY <1>3, <1>4

\* The recursive function satisfies its equation.
LEMMA SumsEquation ==
  ASSUME NEW f, NEW S, IsFiniteSet(S), NEW s \in SUBSET S
  PROVE  Sums(f, S)[s] = SumStep(f, Sums(f, S), s)
<1>1. Sums(f, S) = [t \in SUBSET S |-> SumStep(f, Sums(f, S), t)]
  BY SumsExist DEF Sums
<1> QED BY <1>1

\* The sum over s is the same inside any two finite sets that include s.
LEMMA SumsAgree ==
  ASSUME NEW f, NEW S, IsFiniteSet(S), NEW T \in SUBSET S
  PROVE  Sums(f, S)[T] = Sums(f, T)[T]
<1> DEFINE P == {n \in Nat : \A s \in SUBSET T :
                   Cardinality(s) <= n => Sums(f, S)[s] = Sums(f, T)[s]}
<1>0. IsFiniteSet(T) /\ Cardinality(T) \in Nat
  BY FS_Subset, FS_CardinalityType
<1>1. 0 \in P
  <2> SUFFICES ASSUME NEW s \in SUBSET T, Cardinality(s) <= 0
               PROVE  Sums(f, S)[s] = Sums(f, T)[s]
    OBVIOUS
  <2>1. s = {}
    BY <1>0, EmptyUpTo DEF UpTo
  <2> QED BY <2>1, <1>0, SumsEquation DEF SumStep
<1>2. ASSUME NEW n \in Nat, n \in P
      PROVE  n + 1 \in P
  <2> SUFFICES ASSUME NEW s \in SUBSET T, Cardinality(s) <= n + 1
               PROVE  Sums(f, S)[s] = Sums(f, T)[s]
    OBVIOUS
  <2>1. Sums(f, S)[s] = SumStep(f, Sums(f, S), s)
    BY SumsEquation
  <2>2. Sums(f, T)[s] = SumStep(f, Sums(f, T), s)
    BY <1>0, SumsEquation
  <2>3. CASE s = {}
    BY <2>1, <2>2, <2>3 DEF SumStep
  <2>4. CASE s # {}
    <3> DEFINE r == s \ {First(s)}
    <3>1. r \in SUBSET T /\ Cardinality(r) <= n
      BY <1>0, <2>4, FirstIn, SmallerSubset
    <3>2. Sums(f, S)[r] = Sums(f, T)[r]
      BY <1>2, <3>1
    <3> QED BY <2>1, <2>2, <2>4, <3>2 DEF SumStep
  <2> QED BY <2>3, <2>4
<1>3. Cardinality(T) \in P
  BY <1>0, <1>1, <1>2, Counting
<1> QED BY <1>0, <1>3

\* The sum over no element is 0.
LEMMA SumOfNone == \A f : SumFunctionOnSet(f, {}) = 0
<1> SUFFICES ASSUME NEW f PROVE SumFunctionOnSet(f, {}) = 0
  OBVIOUS
<1>1. IsFiniteSet({})
  BY FS_EmptySet
<1> QED BY <1>1, SumBySums, SumsEquation DEF SumStep

\* A sum takes out one element and is the sum of the rest.
LEMMA SumFirst ==
  ASSUME NEW f, NEW S, IsFiniteSet(S), S # {}
  PROVE  SumFunctionOnSet(f, S)
           = f[First(S)] + SumFunctionOnSet(f, S \ {First(S)})
<1>1. Sums(f, S)[S] = f[First(S)] + Sums(f, S)[S \ {First(S)}]
  BY SumsEquation DEF SumStep
<1>2. Sums(f, S)[S \ {First(S)}] = Sums(f, S \ {First(S)})[S \ {First(S)}]
  BY SumsAgree
<1> QED BY <1>1, <1>2, SumBySums

-----------------------------------------------------------------------------
\* Induction over finite sets: what holds of the empty set, and of a set when it
\* holds of the set without any one element, holds of every subset of S.
LEMMA RemovingElements ==
  ASSUME NEW S, IsFiniteSet(S), NEW Q, {} \in Q,
         \A s \in SUBSET S : s # {} /\ (\A x \in s : s \ {x} \in Q) => s \in Q
  PROVE  SUBSET S \subseteq Q
<1> DEFINE P == {n \in Nat : UpTo(S, n) \subseteq Q}
<1>1. 0 \in P
  BY EmptyUpTo
<1>2. ASSUME NEW n \in Nat, n \in P
      PROVE  n + 1 \in P
  <2> SUFFICES ASSUME NEW s \in SUBSET S, Cardinality(s) <= n + 1, s # {}
               PROVE  s \in Q
    BY DEF UpTo
  <2>1. ASSUME NEW x \in s PROVE s \ {x} \in UpTo(S, n)
    <3>1. /\ Cardinality(s) = Cardinality(s \ {x}) + 1
          /\ Cardinality(s) \in Nat /\ Cardinality(s \ {x}) \in Nat
      BY SmallerSubset
    <3> QED BY <3>1 DEF UpTo
  <2> QED BY <1>2, <2>1
<1>3. Cardinality(S) \in P
  BY <1>1, <1>2, Counting, FS_CardinalityType
<1>4. UpTo(S, Cardinality(S)) = SUBSET S
  BY FS_Subset DEF UpTo
<1> QED BY <1>3, <1>4

\* A sum of integers is an integer.
LEMMA SumType ==
  ASSUME NEW f, NEW S, IsFiniteSet(S), \A x \in S : f[x] \in Int
  PROVE  SumFunctionOnSet(f, S) \in Int
<1> DEFINE Q == {s \in SUBSET S : SumFunctionOnSet(f, s) \in Int}
<1>1. {} \in Q
  BY SumOfNone
<1>2. ASSUME NEW s \in SUBSET S, s # {}, \A x \in s : s \ {x} \in Q
      PROVE  s \in Q
  <2>1. First(s) \in s /\ IsFiniteSet(s)
    BY <1>2, FirstIn, FS_Subset
  <2>2. SumFunctionOnSet(f, s) = f[First(s)] + SumFunctionOnSet(f, s \ {First(s)})
    BY <1>2, <2>1, SumFirst
  <2>3. SumFunctionOnSet(f, s \ {First(s)}) \in Int /\ f[First(s)] \in Int
    BY <1>2, <2>1
  <2> QED BY <2>2, <2>3
<1> HIDE DEF Q
<1>3. SUBSET S \subseteq Q
  BY <1>1, <1>2, RemovingElements
<1> QED BY <1>3 DEF Q

\* Any element can be taken out of a sum.
LEMMA SumRemove ==
  ASSUME NEW f, NEW S, IsFiniteSet(S), \A x \in S : f[x] \in Int, NEW e \in S
  PROVE  SumFunctionOnSet(f, S) = f[e] + SumFunctionOnSet(f, S \ {e})
<1> DEFINE Q == {s \in SUBSET S : \A x \in s :
                   SumFunctionOnSet(f, s) = f[x] + SumFunctionOnSet(f, s \ {x})}
<1>1. {} \in Q
  OBVIOUS
<1>2. ASSUME NEW s \in SUBSET S, s # {}, \A x \in s : s \ {x} \in Q
      PROVE  s \in Q
  <2> SUFFICES ASSUME NEW x \in s
               PROVE  SumFunctionOnSet(f, s) = f[x] + SumFunctionOnSet(f, s \ {x})
    OBVIOUS
  <2> DEFINE c == First(s)
  <2>1. c \in s /\ IsFiniteSet(s)
    BY <1>2, FirstIn, FS_Subset
  <2>2. SumFunctionOnSet(f, s) = f[c] + SumFunctionOnSet(f, s \ {c})
    BY <1>2, <2>1, SumFirst
  <2>3. CASE x = c
    BY <2>2, <2>3
  <2>4. CASE x # c
    <3> HIDE DEF c
    <3> DEFINE r == (s \ {c}) \ {x}
    <3>1. SumFunctionOnSet(f, s \ {c}) = f[x] + SumFunctionOnSet(f, r)
      BY <1>2, <2>1, <2>4
    <3>2. r = (s \ {x}) \ {c} /\ c \in s \ {x}
      BY <2>1, <2>4
    <3>3. SumFunctionOnSet(f, s \ {x}) = f[c] + SumFunctionOnSet(f, r)
      BY <1>2, <3>2
    <3>4. f[x] \in Int /\ f[c] \in Int
      BY <2>1
    <3>5. r \in SUBSET S /\ IsFiniteSet(r) /\ \A y \in r : f[y] \in Int
      BY FS_Subset
    <3>6. SumFunctionOnSet(f, r) \in Int
      BY <3>5, SumType
    <3> HIDE DEF r
    <3> QED BY <2>2, <3>1, <3>3, <3>4, <3>6
  <2> QED BY <2>3, <2>4
<1> HIDE DEF Q
<1>3. SUBSET S \subseteq Q
  BY <1>1, <1>2, RemovingElements
<1> QED BY <1>3 DEF Q

\* Functions that agree on S have the same sum over S.
LEMMA SumSame ==
  ASSUME NEW f, NEW g, NEW S, IsFiniteSet(S), \A x \in S : f[x] = g[x]
  PROVE  SumFunctionOnSet(f, S) = SumFunctionOnSet(g, S)
<1> DEFINE Q == {s \in SUBSET S : SumFunctionOnSet(f, s) = SumFunctionOnSet(g, s)}
<1>1. {} \in Q
  BY SumOfNone
<1>2. ASSUME NEW s \in SUBSET S, s # {}, \A x \in s : s \ {x} \in Q
      PROVE  s \in Q
  <2>1. First(s) \in s /\ IsFiniteSet(s)
    BY <1>2, FirstIn, FS_Subset
  <2>2. /\ SumFunctionOnSet(f, s) = f[First(s)] + SumFunctionOnSet(f, s \ {First(s)})
        /\ SumFunctionOnSet(g, s) = g[First(s)] + SumFunctionOnSet(g, s \ {First(s)})
    BY <1>2, <2>1, SumFirst
  <2> QED BY <1>2, <2>1, <2>2
<1> HIDE DEF Q
<1>3. SUBSET S \subseteq Q
  BY <1>1, <1>2, RemovingElements
<1> QED BY <1>3 DEF Q

\* A sum of zeros is 0.
LEMMA SumZero ==
  ASSUME NEW f, NEW S, IsFiniteSet(S), \A x \in S : f[x] = 0
  PROVE  SumFunctionOnSet(f, S) = 0
<1> DEFINE Q == {s \in SUBSET S : SumFunctionOnSet(f, s) = 0}
<1>1. {} \in Q
  BY SumOfNone
<1>2. ASSUME NEW s \in SUBSET S, s # {}, \A x \in s : s \ {x} \in Q
      PROVE  s \in Q
  <2>1. First(s) \in s /\ IsFiniteSet(s)
    BY <1>2, FirstIn, FS_Subset
  <2>2. SumFunctionOnSet(f, s) = f[First(s)] + SumFunctionOnSet(f, s \ {First(s)})
    BY <1>2, <2>1, SumFirst
  <2> QED BY <1>2, <2>1, <2>2
<1> HIDE DEF Q
<1>3. SUBSET S \subseteq Q
  BY <1>1, <1>2, RemovingElements
<1> QED BY <1>3 DEF Q

\* When two functions differ at one element only, so do their sums.
LEMMA SumChange ==
  ASSUME NEW f, NEW g, NEW S, IsFiniteSet(S), NEW e \in S,
         \A x \in S : f[x] \in Int /\ g[x] \in Int,
         \A x \in S : x # e => g[x] = f[x]
  PROVE  SumFunctionOnSet(g, S) = SumFunctionOnSet(f, S) + g[e] - f[e]
<1> DEFINE r == S \ {e}
<1>1. IsFiniteSet(r) /\ \A x \in r : f[x] \in Int /\ g[x] = f[x]
  BY FS_Subset
<1>2. SumFunctionOnSet(f, r) \in Int
  BY <1>1, SumType
<1>3. SumFunctionOnSet(g, r) = SumFunctionOnSet(f, r)
  BY <1>1, SumSame
<1>4. SumFunctionOnSet(f, S) = f[e] + SumFunctionOnSet(f, r)
  BY SumRemove
<1>5. SumFunctionOnSet(g, S) = g[e] + SumFunctionOnSet(g, r)
  BY SumRemove
<1> HIDE DEF r
<1> QED BY <1>2, <1>3, <1>4, <1>5

\* One more number at the end of a sequence is one more number in its sum.
LEMMA SumAppend ==
  ASSUME NEW q \in Seq(Int), NEW x \in Int
  PROVE  SumFunction(Append(q, x)) = SumFunction(q) + x
<1> DEFINE long == Append(q, x)
           S == 1..Len(q)
           T == 1..(Len(q) + 1)
           e == Len(q) + 1
<1>1. IsFiniteSet(S) /\ IsFiniteSet(T)
  BY FS_Interval
<1>2. DOMAIN q = S /\ DOMAIN long = T /\ e \in T /\ T \ {e} = S
  OBVIOUS
<1>3. \A i \in S : long[i] = q[i] /\ q[i] \in Int
  OBVIOUS
<1>4. \A i \in T : long[i] \in Int
  OBVIOUS
<1>5. long[e] = x
  OBVIOUS
<1> HIDE DEF long, S, T, e
<1>6. SumFunctionOnSet(long, T) = long[e] + SumFunctionOnSet(long, S)
  BY <1>1, <1>2, <1>4, SumRemove
<1>7. SumFunctionOnSet(long, S) = SumFunctionOnSet(q, S)
  BY <1>1, <1>3, SumSame
<1>8. SumFunctionOnSet(q, S) \in Int
  BY <1>1, <1>3, SumType
<1>9. SumFunction(long) = SumFunctionOnSet(long, T) /\ SumFunction(q) = SumFunctionOnSet(q, S)
  BY <1>2 DEF SumFunction
<1> QED BY <1>5, <1>6, <1>7, <1>8, <1>9 DEF long

\* The sums of the shortest sequences.
LEMMA SumShort ==
  /\ SumFunction(<<>>) = 0
  /\ \A x \in Int : SumFunction(<<x>>) = x
  /\ \A x, y \in Int : SumFunction(<<x, y>>) = x + y
<1>1. SumFunction(<<>>) = 0
  <2>1. DOMAIN <<>> = {}
    OBVIOUS
  <2> QED BY <2>1, SumOfNone DEF SumFunction
<1>2. ASSUME NEW x \in Int PROVE SumFunction(<<x>>) = x
  <2>1. <<x>> = Append(<<>>, x) /\ <<>> \in Seq(Int)
    OBVIOUS
  <2>2. SumFunction(Append(<<>>, x)) = SumFunction(<<>>) + x
    BY <2>1, SumAppend
  <2> QED BY <1>1, <2>1, <2>2
<1>3. ASSUME NEW x \in Int, NEW y \in Int PROVE SumFunction(<<x, y>>) = x + y
  <2>1. <<x, y>> = Append(<<x>>, y) /\ <<x>> \in Seq(Int)
    OBVIOUS
  <2>2. SumFunction(Append(<<x>>, y)) = SumFunction(<<x>>) + y
    BY <2>1, SumAppend
  <2> QED BY <1>2, <2>1, <2>2
<1> QED BY <1>1, <1>2, <1>3
=============================================================================
