-------------------------- MODULE CollectionLemmas --------------------------
(***************************************************************************)
(* What the models' operators on collections return, for every argument:   *)
(* sums (SumFunctionOnSet), the parts of a list (Pick), and Min and Max.   *)
(*                                                                         *)
(* The library's induction theorems take an operator as a parameter.       *)
(* Induction here is over sets instead: a set of naturals with 0 and with  *)
(* every successor is all of them (CountUp), a family of subsets with the  *)
(* empty one and with every one-larger one has the whole (AddOneByOne).    *)
(* The fold behind a sum is a function chosen to solve its recursive       *)
(* equation, so the first lemmas show that there is one and what it is.    *)
(***************************************************************************)
EXTENDS Integers, Sequences, FiniteSets, Functions, Folds, Collections, FiniteSetsExt,
        WellFoundedInduction, FiniteSetTheorems, TLAPS

\* Induction on the naturals.
LEMMA CountUp ==
    ASSUME NEW S \in SUBSET Nat, 0 \in S, \A n \in S : n + 1 \in S
    PROVE  \A n \in Nat : n \in S
<1> SUFFICES ASSUME NEW n0 \in Nat, n0 \notin S PROVE FALSE
  OBVIOUS
<1> DEFINE T == Nat \ S
<1>1. T \subseteq Nat /\ n0 \in T
  OBVIOUS
<1>2. \E x \in T : \A y \in T : ~(<<y, x>> \in OpToRel(<, Nat))
  <2> HIDE DEF T
  <2> QED
    BY <1>1, NatLessThanWellFounded, WFMin
<1>3. PICK x \in T : \A y \in T : ~(<<y, x>> \in OpToRel(<, Nat))
  BY <1>2
<1>4. x # 0 /\ x - 1 \in Nat /\ x \in Nat
  OBVIOUS
<1>5. x - 1 \in T
  <2>1. x - 1 \in S => (x - 1) + 1 \in S
    OBVIOUS
  <2> QED
    BY <1>4, <2>1
<1>6. <<x - 1, x>> \in OpToRel(<, Nat)
  BY <1>4 DEF OpToRel
<1> QED
  BY <1>3, <1>5, <1>6

-----------------------------------------------------------------------------
\* The equation the fold's function solves.
SumSolves(g, f, S) ==
    g = [s \in SUBSET S |-> IF s = {} THEN 0
                            ELSE f[CHOOSE x \in s : TRUE] + g[s \ {CHOOSE x \in s : TRUE}]]

LEMMA SumIsSolution ==
    ASSUME NEW f, NEW S
    PROVE  SumFunctionOnSet(f, S) = (CHOOSE g : SumSolves(g, f, S))[S]
BY DEF SumFunctionOnSet, FoldFunctionOnSet, MapThenFoldSet, SumSolves

SmallParts(S, n) == {s \in SUBSET S : Cardinality(s) <= n}
SumStep(g, f, s) == f[CHOOSE x \in s : TRUE] + g[s \ {CHOOSE x \in s : TRUE}]

\* A non-empty finite set without one of its members.
LEMMA OneLess ==
    ASSUME NEW s, IsFiniteSet(s), NEW x \in s
    PROVE  /\ IsFiniteSet(s \ {x}) /\ Cardinality(s) \in Nat /\ Cardinality(s \ {x}) \in Nat
           /\ Cardinality(s) = Cardinality(s \ {x}) + 1
<1>1. IsFiniteSet(s \ {x}) /\ Cardinality(s \ {x}) = Cardinality(s) - 1
  BY FS_RemoveElement
<1> QED
  BY <1>1, FS_CardinalityType

LEMMA SolutionUpTo ==
    ASSUME NEW f, NEW S, IsFiniteSet(S), NEW n \in Nat
    PROVE  \E g : \A s \in SmallParts(S, n) : g[s] = IF s = {} THEN 0 ELSE SumStep(g, f, s)
<1> DEFINE P(m, g) == \A s \in SmallParts(S, m) : g[s] = IF s = {} THEN 0 ELSE SumStep(g, f, s)
           N == {m \in Nat : \E g : P(m, g)}
<1>0. \A s \in SUBSET S : IsFiniteSet(s) /\ Cardinality(s) \in Nat
  BY FS_Subset, FS_CardinalityType
<1>1. 0 \in N
  <2>1. P(0, [s \in SUBSET S |-> 0])
    <3> SUFFICES ASSUME NEW s \in SmallParts(S, 0) PROVE s = {}
      BY DEF SmallParts
    <3> QED
      BY <1>0, FS_EmptySet DEF SmallParts
  <2> QED
    BY <2>1
<1>2. ASSUME NEW m \in N PROVE m + 1 \in N
  <2>1. PICK g : P(m, g)
    OBVIOUS
  <2> DEFINE h == [s \in SUBSET S |-> IF s = {} THEN 0 ELSE SumStep(g, f, s)]
  <2>2. \A s \in SmallParts(S, m) : h[s] = g[s]
    BY <2>1 DEF SmallParts
  <2>3. ASSUME NEW s \in SmallParts(S, m + 1), s # {} PROVE h[s] = SumStep(h, f, s)
    <3> DEFINE x == CHOOSE x \in s : TRUE
    <3>1. x \in s
      BY <2>3
    <3>2. s \in SUBSET S /\ IsFiniteSet(s) /\ Cardinality(s) <= m + 1
      BY <1>0 DEF SmallParts
    <3> HIDE DEF x
    <3>3. s \ {x} \in SmallParts(S, m)
      BY <3>1, <3>2, OneLess DEF SmallParts
    <3>4. h[s \ {x}] = g[s \ {x}]
      BY <3>3, <2>2
    <3>5. h[s] = f[x] + g[s \ {x}]
      BY <2>3, <3>2 DEF SumStep, x
    <3>6. SumStep(h, f, s) = f[x] + h[s \ {x}]
      BY DEF SumStep, x
    <3> QED
      BY <3>4, <3>5, <3>6
  <2>4. \A s \in SmallParts(S, m + 1) : s = {} => h[s] = 0
    OBVIOUS
  <2> HIDE DEF h
  <2>5. P(m + 1, h)
    BY <2>3, <2>4
  <2> QED
    BY <2>5
<1> HIDE DEF N
<1>3. n \in N
  <2>1. N \subseteq Nat
    BY DEF N
  <2> QED
    BY <1>1, <1>2, <2>1, CountUp
<1> QED
  BY <1>3 DEF N

LEMMA SolutionExists ==
    ASSUME NEW f, NEW S, IsFiniteSet(S)
    PROVE  \E g : SumSolves(g, f, S)
<1> DEFINE n == Cardinality(S)
<1>1. n \in Nat
  BY FS_CardinalityType
<1>2. PICK g : \A s \in SmallParts(S, n) : g[s] = IF s = {} THEN 0 ELSE SumStep(g, f, s)
  BY <1>1, SolutionUpTo
<1>3. SmallParts(S, n) = SUBSET S
  BY FS_Subset DEF SmallParts
<1> DEFINE h == [s \in SUBSET S |-> g[s]]
<1>4. \A s \in SUBSET S : h[s] = IF s = {} THEN 0 ELSE SumStep(h, f, s)
  <2> SUFFICES ASSUME NEW s \in SUBSET S PROVE h[s] = IF s = {} THEN 0 ELSE SumStep(h, f, s)
    OBVIOUS
  <2>1. s \ {CHOOSE x \in s : TRUE} \in SUBSET S
    OBVIOUS
  <2> QED
    BY <1>2, <1>3, <2>1 DEF SumStep
<1>5. h = [s \in SUBSET S |-> IF s = {} THEN 0 ELSE SumStep(h, f, s)]
  BY <1>4
<1> QED
  BY <1>5 DEF SumSolves, SumStep

\* The function of the fold, at every part of the set.
LEMMA SolutionIsSum ==
    ASSUME NEW f, NEW S, IsFiniteSet(S), NEW g, SumSolves(g, f, S)
    PROVE  \A T \in SUBSET S : g[T] = SumFunctionOnSet(f, T)
<1> DEFINE N == {n \in Nat : \A T \in SUBSET S : \A U \in SUBSET S : \A h :
                    U \subseteq T /\ SumSolves(h, f, T) /\ Cardinality(U) <= n => h[U] = g[U]}
<1>0. \A s \in SUBSET S : IsFiniteSet(s) /\ Cardinality(s) \in Nat
  BY FS_Subset, FS_CardinalityType
<1>1. 0 \in N
  <2> SUFFICES ASSUME NEW T \in SUBSET S, NEW U \in SUBSET S, NEW h,
                      U \subseteq T, SumSolves(h, f, T), Cardinality(U) <= 0
               PROVE  h[U] = g[U]
    OBVIOUS
  <2>1. U = {}
    BY <1>0, FS_EmptySet
  <2> QED
    BY <2>1 DEF SumSolves
<1>2. ASSUME NEW n \in N PROVE n + 1 \in N
  <2> SUFFICES ASSUME NEW T \in SUBSET S, NEW U \in SUBSET S, NEW h,
                      U \subseteq T, SumSolves(h, f, T), Cardinality(U) <= n + 1
               PROVE  h[U] = g[U]
    OBVIOUS
  <2>0. CASE U = {}
    BY <2>0 DEF SumSolves
  <2> SUFFICES ASSUME U # {} PROVE h[U] = g[U]
    BY <2>0
  <2> DEFINE x == CHOOSE x \in U : TRUE
  <2>1. x \in U
    OBVIOUS
  <2> HIDE DEF x
  <2>2. U \ {x} \in SUBSET S /\ U \ {x} \subseteq T /\ Cardinality(U \ {x}) <= n
    BY <1>0, <2>1, OneLess
  <2>3. h[U \ {x}] = g[U \ {x}]
    BY <2>2
  <2>4. h[U] = f[x] + h[U \ {x}] /\ g[U] = f[x] + g[U \ {x}]
    BY <2>1 DEF SumSolves, x
  <2> QED
    BY <2>3, <2>4
<1> HIDE DEF N
<1>3. \A n \in Nat : n \in N
  <2>1. N \subseteq Nat
    BY DEF N
  <2> QED
    BY <1>1, <1>2, <2>1, CountUp
<1> SUFFICES ASSUME NEW T \in SUBSET S PROVE g[T] = SumFunctionOnSet(f, T)
  OBVIOUS
<1>4. SumSolves(CHOOSE h : SumSolves(h, f, T), f, T)
  BY <1>0, SolutionExists
<1> DEFINE h == CHOOSE h : SumSolves(h, f, T)
<1> HIDE DEF h
<1>5. h[T] = g[T]
  <2>1. Cardinality(T) \in N
    BY <1>0, <1>3
  <2> QED
    BY <2>1, <1>0, <1>4 DEF N, h
<1> QED
  BY <1>5, SumIsSolution DEF h

-----------------------------------------------------------------------------
LEMMA SumEmpty == ASSUME NEW f PROVE SumFunctionOnSet(f, {}) = 0
<1>1. IsFiniteSet({})
  BY FS_EmptySet
<1>2. PICK g : SumSolves(g, f, {})
  BY <1>1, SolutionExists
<1>3. g[{}] = SumFunctionOnSet(f, {})
  BY <1>1, <1>2, SolutionIsSum
<1> QED
  BY <1>2, <1>3 DEF SumSolves

LEMMA SumChosen ==
    ASSUME NEW f, NEW S, IsFiniteSet(S), S # {}
    PROVE  \E x \in S : SumFunctionOnSet(f, S) = f[x] + SumFunctionOnSet(f, S \ {x})
<1>1. PICK g : SumSolves(g, f, S)
  BY SolutionExists
<1> DEFINE x == CHOOSE x \in S : TRUE
<1>2. x \in S
  OBVIOUS
<1> HIDE DEF x
<1>3. g[S] = f[x] + g[S \ {x}]
  BY <1>1 DEF SumSolves, x
<1>4. g[S] = SumFunctionOnSet(f, S) /\ g[S \ {x}] = SumFunctionOnSet(f, S \ {x})
  BY <1>1, SolutionIsSum
<1> QED
  BY <1>2, <1>3, <1>4

\* A sum of integers is one, and any member may be taken out of it.
LEMMA SumPeelUpTo ==
    ASSUME NEW f, NEW n \in Nat
    PROVE  \A S : /\ IsFiniteSet(S) /\ Cardinality(S) <= n /\ (\A x \in S : f[x] \in Int)
                  => /\ SumFunctionOnSet(f, S) \in Int
                     /\ \A x \in S : SumFunctionOnSet(f, S) = f[x] + SumFunctionOnSet(f, S \ {x})
<1> DEFINE Fine(S, m) == IsFiniteSet(S) /\ Cardinality(S) <= m /\ (\A x \in S : f[x] \in Int)
           Good(S) == SumFunctionOnSet(f, S) \in Int /\ \A x \in S : SumFunctionOnSet(f, S) = f[x] + SumFunctionOnSet(f, S \ {x})
           N == {m \in Nat : \A S : Fine(S, m) => Good(S)}
<1>1. 0 \in N
  <2> SUFFICES ASSUME NEW S, Fine(S, 0) PROVE Good(S)
    OBVIOUS
  <2>1. S = {}
    BY FS_CardinalityType, FS_EmptySet
  <2> QED
    BY <2>1, SumEmpty
<1>2. ASSUME NEW m \in N PROVE m + 1 \in N
  <2>0. m \in Nat /\ \A S : Fine(S, m) => Good(S)
    OBVIOUS
  <2> SUFFICES ASSUME NEW S, Fine(S, m + 1) PROVE Good(S)
    OBVIOUS
  <2>1. CASE S = {}
    BY <2>1, SumEmpty
  <2>2. CASE S # {}
    <3>1. PICK c \in S : SumFunctionOnSet(f, S) = f[c] + SumFunctionOnSet(f, S \ {c})
      BY <2>2, SumChosen
    <3>2. \A x \in S : Fine(S \ {x}, m)
      <4> SUFFICES ASSUME NEW x \in S PROVE Fine(S \ {x}, m)
        OBVIOUS
      <4>1. IsFiniteSet(S) /\ Cardinality(S) <= m + 1
        OBVIOUS
      <4>2. IsFiniteSet(S \ {x}) /\ Cardinality(S) = Cardinality(S \ {x}) + 1 /\ Cardinality(S \ {x}) \in Nat
        BY <4>1, OneLess
      <4>3. Cardinality(S \ {x}) <= m
        BY <2>0, <4>1, <4>2
      <4> QED
        BY <4>2, <4>3
    <3>3. \A x \in S : Good(S \ {x})
      <4> HIDE DEF Fine, Good
      <4> QED
        BY <2>0, <3>2
    <3>4. SumFunctionOnSet(f, S) \in Int
      BY <3>1, <3>3
    <3>5. ASSUME NEW x \in S, x # c PROVE SumFunctionOnSet(f, S) = f[x] + SumFunctionOnSet(f, S \ {x})
      <4>1. (S \ {x}) \ {c} = (S \ {c}) \ {x} /\ x \in S \ {c} /\ c \in S \ {x}
        BY <3>5
      <4>2. /\ SumFunctionOnSet(f, S \ {c}) = f[x] + SumFunctionOnSet(f, (S \ {c}) \ {x})
            /\ SumFunctionOnSet(f, S \ {x}) = f[c] + SumFunctionOnSet(f, (S \ {x}) \ {c})
        BY <3>3, <4>1
      <4>3. SumFunctionOnSet(f, S \ {c}) \in Int /\ SumFunctionOnSet(f, S \ {x}) \in Int /\ f[x] \in Int /\ f[c] \in Int
        BY <3>3
      <4>4. Fine(S \ {c}, m)
        BY <3>2
      <4>5. Fine((S \ {c}) \ {x}, m)
        <5>1. IsFiniteSet(S \ {c}) /\ Cardinality(S \ {c}) <= m
          BY <4>4
        <5>2. /\ IsFiniteSet((S \ {c}) \ {x}) /\ Cardinality((S \ {c}) \ {x}) \in Nat
              /\ Cardinality(S \ {c}) = Cardinality((S \ {c}) \ {x}) + 1
          BY <4>1, <5>1, OneLess
        <5>3. Cardinality((S \ {c}) \ {x}) <= m
          BY <2>0, <5>1, <5>2
        <5> QED
          BY <4>4, <5>2, <5>3
      <4>6. SumFunctionOnSet(f, (S \ {c}) \ {x}) \in Int
        <5> HIDE DEF Fine
        <5> QED
          BY <2>0, <4>5
      <4> QED
        BY <3>1, <4>1, <4>2, <4>3, <4>6
    <3> QED
      BY <3>1, <3>4, <3>5
  <2> QED
    BY <2>1, <2>2
<1> HIDE DEF N
<1>3. n \in N
  <2>1. N \subseteq Nat
    BY DEF N
  <2> QED
    BY <1>1, <1>2, <2>1, CountUp
<1> QED
  BY <1>3 DEF N

LEMMA SumPeel ==
    ASSUME NEW S, IsFiniteSet(S), NEW f, \A x \in S : f[x] \in Int
    PROVE  /\ SumFunctionOnSet(f, S) \in Int
           /\ \A x \in S : SumFunctionOnSet(f, S) = f[x] + SumFunctionOnSet(f, S \ {x})
<1>1. Cardinality(S) \in Nat
  BY FS_CardinalityType
<1> QED
  BY <1>1, SumPeelUpTo

-----------------------------------------------------------------------------
\* A family of parts of S that has the empty one, and with a part also every
\* part with one more member, has S.
LEMMA AddOneByOne ==
    ASSUME NEW S, IsFiniteSet(S), NEW F, {} \in F,
           \A T \in SUBSET S : \A x \in S \ T : T \in F => T \cup {x} \in F
    PROVE  S \in F
<1> DEFINE N == {n \in Nat : \A T \in SUBSET S : Cardinality(T) <= n => T \in F}
<1>0. \A T \in SUBSET S : IsFiniteSet(T) /\ Cardinality(T) \in Nat
  BY FS_Subset, FS_CardinalityType
<1>1. 0 \in N
  <2> SUFFICES ASSUME NEW T \in SUBSET S, Cardinality(T) <= 0 PROVE T \in F
    OBVIOUS
  <2>1. T = {}
    BY <1>0, FS_EmptySet
  <2> QED
    BY <2>1
<1>2. ASSUME NEW n \in N PROVE n + 1 \in N
  <2> SUFFICES ASSUME NEW T \in SUBSET S, Cardinality(T) <= n + 1 PROVE T \in F
    OBVIOUS
  <2>1. CASE T = {}
    BY <2>1
  <2>2. CASE T # {}
    <3>1. PICK x \in T : TRUE
      BY <2>2
    <3>2. Cardinality(T) = Cardinality(T \ {x}) + 1 /\ Cardinality(T \ {x}) \in Nat
      BY <1>0, OneLess
    <3>3. T \ {x} \in SUBSET S /\ Cardinality(T \ {x}) <= n
      BY <3>2
    <3>4. T \ {x} \in F
      BY <3>3
    <3>5. x \in S \ (T \ {x}) /\ (T \ {x}) \cup {x} = T
      OBVIOUS
    <3> QED
      BY <3>3, <3>4, <3>5
  <2> QED
    BY <2>1, <2>2
<1> HIDE DEF N
<1>3. \A n \in Nat : n \in N
  <2>1. N \subseteq Nat
    BY DEF N
  <2> QED
    BY <1>1, <1>2, <2>1, CountUp
<1>4. Cardinality(S) \in N /\ Cardinality(S) <= Cardinality(S)
  BY <1>0, <1>3
<1> QED
  BY <1>4 DEF N

\* A member more.
LEMMA SumAdd ==
    ASSUME NEW T, IsFiniteSet(T), NEW x, x \notin T, NEW f, \A y \in T \cup {x} : f[y] \in Int
    PROVE  /\ SumFunctionOnSet(f, T) \in Int /\ SumFunctionOnSet(f, T \cup {x}) \in Int /\ f[x] \in Int
           /\ SumFunctionOnSet(f, T \cup {x}) = f[x] + SumFunctionOnSet(f, T)
<1>1. IsFiniteSet(T \cup {x}) /\ (T \cup {x}) \ {x} = T /\ x \in T \cup {x}
  BY FS_AddElement
<1>2. /\ SumFunctionOnSet(f, T \cup {x}) \in Int
      /\ \A y \in T \cup {x} : SumFunctionOnSet(f, T \cup {x}) = f[y] + SumFunctionOnSet(f, (T \cup {x}) \ {y})
  BY <1>1, SumPeel
<1>3. SumFunctionOnSet(f, T) \in Int
  BY SumPeel
<1> QED
  BY <1>1, <1>2, <1>3

\* A sum only depends on what is summed.
LEMMA SumSame ==
    ASSUME NEW S, IsFiniteSet(S), NEW f, NEW g, \A x \in S : f[x] \in Int /\ g[x] = f[x]
    PROVE  SumFunctionOnSet(g, S) = SumFunctionOnSet(f, S)
<1> DEFINE F == {T \in SUBSET S : SumFunctionOnSet(g, T) = SumFunctionOnSet(f, T)}
<1>1. {} \in F
  BY SumEmpty
<1>2. ASSUME NEW T \in SUBSET S, NEW x \in S \ T, T \in F PROVE T \cup {x} \in F
  <2>1. IsFiniteSet(T) /\ x \notin T /\ \A y \in T \cup {x} : f[y] \in Int /\ g[y] \in Int
    BY FS_Subset
  <2>2. SumFunctionOnSet(f, T \cup {x}) = f[x] + SumFunctionOnSet(f, T) /\ SumFunctionOnSet(g, T \cup {x}) = g[x] + SumFunctionOnSet(g, T)
    BY <2>1, SumAdd
  <2> QED
    BY <1>2, <2>2
<1> HIDE DEF F
<1>3. S \in F
  BY <1>1, <1>2, AddOneByOne
<1> QED
  BY <1>3 DEF F

\* The sum of a sum.
LEMMA SumPlus ==
    ASSUME NEW S, IsFiniteSet(S), NEW f, NEW g, NEW h,
           \A x \in S : f[x] \in Int /\ g[x] \in Int /\ h[x] = f[x] + g[x]
    PROVE  SumFunctionOnSet(h, S) = SumFunctionOnSet(f, S) + SumFunctionOnSet(g, S)
<1> DEFINE F == {T \in SUBSET S : SumFunctionOnSet(h, T) = SumFunctionOnSet(f, T) + SumFunctionOnSet(g, T)}
<1>1. {} \in F
  BY SumEmpty
<1>2. ASSUME NEW T \in SUBSET S, NEW x \in S \ T, T \in F PROVE T \cup {x} \in F
  <2>1. IsFiniteSet(T) /\ x \notin T /\ \A y \in T \cup {x} : f[y] \in Int /\ g[y] \in Int /\ h[y] \in Int
    BY FS_Subset
  <2>2. /\ SumFunctionOnSet(f, T \cup {x}) = f[x] + SumFunctionOnSet(f, T) /\ SumFunctionOnSet(f, T) \in Int
        /\ SumFunctionOnSet(g, T \cup {x}) = g[x] + SumFunctionOnSet(g, T) /\ SumFunctionOnSet(g, T) \in Int
        /\ SumFunctionOnSet(h, T \cup {x}) = h[x] + SumFunctionOnSet(h, T)
    BY <2>1, SumAdd
  <2>3. SumFunctionOnSet(h, T) = SumFunctionOnSet(f, T) + SumFunctionOnSet(g, T) /\ h[x] = f[x] + g[x] /\ f[x] \in Int /\ g[x] \in Int
    BY <1>2
  <2> QED
    BY <2>2, <2>3
<1> HIDE DEF F
<1>3. S \in F
  BY <1>1, <1>2, AddOneByOne
<1> QED
  BY <1>3 DEF F

\* The parts of a sum.
LEMMA SumSplit ==
    ASSUME NEW A, IsFiniteSet(A), NEW B, IsFiniteSet(B), A \cap B = {},
           NEW f, \A x \in A \cup B : f[x] \in Int
    PROVE  SumFunctionOnSet(f, A \cup B) = SumFunctionOnSet(f, A) + SumFunctionOnSet(f, B)
<1> DEFINE F == {T \in SUBSET B : SumFunctionOnSet(f, A \cup T) = SumFunctionOnSet(f, A) + SumFunctionOnSet(f, T)}
<1>0. SumFunctionOnSet(f, A) \in Int
  BY SumPeel
<1>1. {} \in F
  <2>1. A \cup {} = A
    OBVIOUS
  <2> QED
    BY <1>0, <2>1, SumEmpty
<1>2. ASSUME NEW T \in SUBSET B, NEW x \in B \ T, T \in F PROVE T \cup {x} \in F
  <2>1. /\ IsFiniteSet(T) /\ IsFiniteSet(A \cup T) /\ x \notin T /\ x \notin A \cup T
        /\ \A y \in T \cup {x} : f[y] \in Int
        /\ \A y \in (A \cup T) \cup {x} : f[y] \in Int
    BY FS_Subset, FS_Union
  <2>2. SumFunctionOnSet(f, T \cup {x}) = f[x] + SumFunctionOnSet(f, T) /\ SumFunctionOnSet(f, T) \in Int /\ f[x] \in Int
    BY <2>1, SumAdd
  <2>3. SumFunctionOnSet(f, (A \cup T) \cup {x}) = f[x] + SumFunctionOnSet(f, A \cup T)
    BY <2>1, SumAdd
  <2>4. SumFunctionOnSet(f, A \cup (T \cup {x})) = SumFunctionOnSet(f, (A \cup T) \cup {x})
    <3>1. A \cup (T \cup {x}) = (A \cup T) \cup {x}
      OBVIOUS
    <3> QED
      BY <3>1, Zenon
  <2>5. SumFunctionOnSet(f, A \cup T) = SumFunctionOnSet(f, A) + SumFunctionOnSet(f, T)
    BY <1>2
  <2>6. SumFunctionOnSet(f, A \cup (T \cup {x})) = SumFunctionOnSet(f, A) + SumFunctionOnSet(f, T \cup {x})
    BY <1>0, <2>2, <2>3, <2>4, <2>5
  <2> QED
    BY <2>6
<1> HIDE DEF F
<1>3. B \in F
  BY <1>1, <1>2, AddOneByOne
<1> QED
  BY <1>3 DEF F

\* Larger summands make no smaller sum.
LEMMA SumMonotone ==
    ASSUME NEW S, IsFiniteSet(S), NEW f, NEW g,
           \A x \in S : f[x] \in Int /\ g[x] \in Int /\ f[x] <= g[x]
    PROVE  SumFunctionOnSet(f, S) <= SumFunctionOnSet(g, S)
<1> DEFINE F == {T \in SUBSET S : SumFunctionOnSet(f, T) <= SumFunctionOnSet(g, T)}
<1>1. {} \in F
  BY SumEmpty
<1>2. ASSUME NEW T \in SUBSET S, NEW x \in S \ T, T \in F PROVE T \cup {x} \in F
  <2>1. IsFiniteSet(T) /\ x \notin T /\ \A y \in T \cup {x} : f[y] \in Int /\ g[y] \in Int
    BY FS_Subset
  <2>2. /\ SumFunctionOnSet(f, T \cup {x}) = f[x] + SumFunctionOnSet(f, T) /\ SumFunctionOnSet(f, T) \in Int
        /\ SumFunctionOnSet(g, T \cup {x}) = g[x] + SumFunctionOnSet(g, T) /\ SumFunctionOnSet(g, T) \in Int
    BY <2>1, SumAdd
  <2>3. SumFunctionOnSet(f, T) <= SumFunctionOnSet(g, T) /\ f[x] \in Int /\ g[x] \in Int /\ f[x] <= g[x]
    BY <1>2
  <2>4. SumFunctionOnSet(f, T \cup {x}) <= SumFunctionOnSet(g, T \cup {x})
    BY <2>2, <2>3
  <2> QED
    BY <2>4
<1> HIDE DEF F
<1>3. S \in F
  BY <1>1, <1>2, AddOneByOne
<1> QED
  BY <1>3 DEF F

\* A sum of nothings.
LEMMA SumZero ==
    ASSUME NEW S, IsFiniteSet(S), NEW f, \A x \in S : f[x] = 0
    PROVE  SumFunctionOnSet(f, S) = 0
<1> DEFINE F == {T \in SUBSET S : SumFunctionOnSet(f, T) = 0}
<1>1. {} \in F
  BY SumEmpty
<1>2. ASSUME NEW T \in SUBSET S, NEW x \in S \ T, T \in F PROVE T \cup {x} \in F
  <2>1. IsFiniteSet(T) /\ x \notin T /\ \A y \in T \cup {x} : f[y] \in Int
    BY FS_Subset
  <2>2. SumFunctionOnSet(f, T \cup {x}) = f[x] + SumFunctionOnSet(f, T)
    BY <2>1, SumAdd
  <2>3. SumFunctionOnSet(f, T) = 0 /\ f[x] = 0
    BY <1>2
  <2> QED
    BY <2>2, <2>3
<1> HIDE DEF F
<1>3. S \in F
  BY <1>1, <1>2, AddOneByOne
<1> QED
  BY <1>3 DEF F

\* Naturals: the sum is one, a part of it is no larger, and neither is a member.
LEMMA SumNat ==
    ASSUME NEW S, IsFiniteSet(S), NEW f, \A x \in S : f[x] \in Nat
    PROVE  /\ SumFunctionOnSet(f, S) \in Nat
           /\ \A T \in SUBSET S : SumFunctionOnSet(f, T) \in Nat /\ SumFunctionOnSet(f, T) <= SumFunctionOnSet(f, S)
           /\ \A x \in S : f[x] <= SumFunctionOnSet(f, S)
<1> DEFINE zero == [x \in S |-> 0]
<1>1. ASSUME NEW T \in SUBSET S PROVE SumFunctionOnSet(f, T) \in Nat
  <2>1. IsFiniteSet(T) /\ \A x \in T : f[x] \in Int /\ zero[x] \in Int /\ zero[x] <= f[x] /\ zero[x] = 0
    BY FS_Subset
  <2> HIDE DEF zero
  <2>2. SumFunctionOnSet(zero, T) <= SumFunctionOnSet(f, T) /\ SumFunctionOnSet(zero, T) = 0 /\ SumFunctionOnSet(f, T) \in Int
    BY <2>1, SumMonotone, SumZero, SumPeel
  <2> QED
    BY <2>2
<1>2. ASSUME NEW T \in SUBSET S PROVE SumFunctionOnSet(f, T) <= SumFunctionOnSet(f, S)
  <2>1. IsFiniteSet(T) /\ IsFiniteSet(S \ T) /\ T \cap (S \ T) = {} /\ T \cup (S \ T) = S
    BY FS_Subset
  <2>2. SumFunctionOnSet(f, S) = SumFunctionOnSet(f, T) + SumFunctionOnSet(f, S \ T)
    <3>1. \A x \in T \cup (S \ T) : f[x] \in Int
      OBVIOUS
    <3>2. SumFunctionOnSet(f, T \cup (S \ T)) = SumFunctionOnSet(f, T) + SumFunctionOnSet(f, S \ T)
      BY <2>1, <3>1, SumSplit
    <3> QED
      BY <2>1, <3>2, Zenon
  <2>3. SumFunctionOnSet(f, T) \in Nat /\ SumFunctionOnSet(f, S \ T) \in Nat
    BY <1>1
  <2> QED
    BY <2>1, <2>2, <2>3
<1>3. ASSUME NEW x \in S PROVE f[x] <= SumFunctionOnSet(f, S)
  <2>1. SumFunctionOnSet(f, S) = f[x] + SumFunctionOnSet(f, S \ {x})
    BY SumPeel
  <2>2. SumFunctionOnSet(f, S \ {x}) \in Nat
    BY <1>1
  <2> QED
    BY <2>1, <2>2
<1> QED
  BY <1>1, <1>2, <1>3

\* What f is over the members of K with key a.
SumOfKey(f, K, key, a) == SumFunctionOnSet(f, {i \in K : key[i] = a})

\* A sum, grouped: h has what f sums up to over each key.
LEMMA SumByKey ==
    ASSUME NEW K, IsFiniteSet(K), NEW A, IsFiniteSet(A), NEW f, NEW key, NEW h,
           \A i \in K : f[i] \in Int /\ key[i] \in A,
           \A a \in A : h[a] = SumOfKey(f, K, key, a)
    PROVE  SumFunctionOnSet(h, A) = SumFunctionOnSet(f, K)
<1> DEFINE with(T) == {i \in K : key[i] \in T}
           of(a) == {i \in K : key[i] = a}
           F == {T \in SUBSET A : SumFunctionOnSet(h, T) = SumFunctionOnSet(f, with(T))}
<1>a. \A a \in A : h[a] = SumFunctionOnSet(f, of(a))
  BY DEF SumOfKey
<1>0. /\ \A T \in SUBSET A : IsFiniteSet(with(T)) /\ SumFunctionOnSet(f, with(T)) \in Int
      /\ \A a \in A : IsFiniteSet(of(a)) /\ h[a] \in Int
  <2>1. \A T \in SUBSET A : IsFiniteSet(with(T)) /\ \A i \in with(T) : f[i] \in Int
    BY FS_Subset
  <2>2. \A a \in A : IsFiniteSet(of(a)) /\ \A i \in of(a) : f[i] \in Int
    BY FS_Subset
  <2> HIDE DEF with
  <2>3. \A T \in SUBSET A : SumFunctionOnSet(f, with(T)) \in Int
    BY <2>1, SumPeel
  <2>4. \A a \in A : SumFunctionOnSet(f, of(a)) \in Int
    <3> HIDE DEF of
    <3> QED
      BY <2>2, SumPeel
  <2> QED
    BY <1>a, <2>1, <2>2, <2>3, <2>4
<1>1. {} \in F
  <2>1. with({}) = {}
    OBVIOUS
  <2>2. SumFunctionOnSet(f, with({})) = 0
    BY <2>1, SumEmpty, Zenon
  <2> QED
    BY <2>2, SumEmpty
<1>2. ASSUME NEW T \in SUBSET A, NEW a \in A \ T, T \in F PROVE T \cup {a} \in F
  <2>1. SumFunctionOnSet(h, T \cup {a}) = h[a] + SumFunctionOnSet(h, T)
    <3>1. IsFiniteSet(T) /\ a \notin T /\ \A y \in T \cup {a} : h[y] \in Int
      BY <1>0, FS_Subset
    <3> QED
      BY <3>1, SumAdd
  <2>2. with(T \cup {a}) = with(T) \cup of(a) /\ with(T) \cap of(a) = {}
    OBVIOUS
  <2>3. IsFiniteSet(with(T)) /\ IsFiniteSet(of(a)) /\ \A i \in with(T) \cup of(a) : f[i] \in Int
    BY <1>0
  <2>4. h[a] = SumFunctionOnSet(f, of(a)) /\ SumFunctionOnSet(h, T) = SumFunctionOnSet(f, with(T))
    BY <1>a, <1>2
  <2>5. h[a] \in Int /\ SumFunctionOnSet(f, with(T)) \in Int
    BY <1>0
  <2>6. SumFunctionOnSet(h, T \cup {a}) = SumFunctionOnSet(f, with(T \cup {a}))
    <3> HIDE DEF with, of
    <3>1. SumFunctionOnSet(f, with(T) \cup of(a)) = SumFunctionOnSet(f, with(T)) + SumFunctionOnSet(f, of(a))
      BY <2>2, <2>3, SumSplit
    <3>2. SumFunctionOnSet(f, with(T \cup {a})) = SumFunctionOnSet(f, with(T) \cup of(a))
      BY <2>2, Zenon
    <3> QED
      BY <2>1, <2>4, <2>5, <3>1, <3>2
  <2> QED
    BY <2>6
<1>3. A \in F
  <2> HIDE DEF F
  <2> QED
    BY <1>1, <1>2, AddOneByOne
<1>4. with(A) = K
  OBVIOUS
<1>5. SumFunctionOnSet(h, A) = SumFunctionOnSet(f, with(A))
  BY <1>3
<1> QED
  BY <1>4, <1>5, Zenon

-----------------------------------------------------------------------------
\* A non-empty set of naturals has a least member, and Min names it.
LEMMA MinIsLeast ==
    ASSUME NEW S \in SUBSET Nat, S # {}
    PROVE  Min(S) \in S /\ \A y \in S : Min(S) <= y
<1>1. \E x \in S : \A y \in S : ~(<<y, x>> \in OpToRel(<, Nat))
  BY NatLessThanWellFounded, WFMin
<1>2. PICK x \in S : \A y \in S : ~(<<y, x>> \in OpToRel(<, Nat))
  BY <1>1
<1>3. ASSUME NEW y \in S PROVE x <= y
  <2>1. x \in Nat /\ y \in Nat
    OBVIOUS
  <2>2. y < x => <<y, x>> \in OpToRel(<, Nat)
    BY <2>1 DEF OpToRel
  <2>3. ~(y < x)
    BY <1>2, <2>2, Zenon
  <2> QED
    BY <2>1, <2>3
<1> QED
  BY <1>3 DEF Min

\* A finite non-empty set of naturals has a greatest member, and Max names it.
LEMMA MaxIsGreatest ==
    ASSUME NEW S \in SUBSET Nat, IsFiniteSet(S), S # {}
    PROVE  Max(S) \in S /\ \A y \in S : y <= Max(S)
<1> DEFINE F == {T \in SUBSET S : T # {} => \E x \in T : \A y \in T : y <= x}
<1>1. {} \in F
  OBVIOUS
<1>2. ASSUME NEW T \in SUBSET S, NEW z \in S \ T, T \in F PROVE T \cup {z} \in F
  <2>1. CASE T = {}
    BY <2>1
  <2>2. CASE T # {}
    <3>1. PICK x \in T : \A y \in T : y <= x
      BY <1>2, <2>2
    <3>2. CASE z <= x
      BY <3>1, <3>2
    <3>3. CASE ~(z <= x)
      <4>1. \A y \in T \cup {z} : y <= z
        BY <3>1, <3>3
      <4> QED
        BY <4>1
    <3> QED
      BY <3>2, <3>3
  <2> QED
    BY <2>1, <2>2
<1> HIDE DEF F
<1>3. S \in F
  BY <1>1, <1>2, AddOneByOne
<1>4. \E x \in S : \A y \in S : y <= x
  BY <1>3 DEF F
<1>5. \E x \in S : \A y \in S : x >= y
  BY <1>4
<1>6. Max(S) \in S /\ \A y \in S : Max(S) >= y
  BY <1>5 DEF Max
<1> QED
  BY <1>6

-----------------------------------------------------------------------------
\* How many of K's members are up to i.
RankIn(K, i) == Cardinality({j \in K : j <= i})

LEMMA RankIncreases ==
    ASSUME NEW K \in SUBSET Nat, IsFiniteSet(K)
    PROVE  /\ Cardinality(K) \in Nat
           /\ \A i \in K : RankIn(K, i) \in 1..Cardinality(K)
           /\ \A i, j \in K : i < j => RankIn(K, i) < RankIn(K, j)
<1> DEFINE upTo(i) == {j \in K : j <= i}
<1>0. Cardinality(K) \in Nat
  BY FS_CardinalityType
<1>1. ASSUME NEW i \in K
      PROVE  /\ IsFiniteSet(upTo(i)) /\ Cardinality(upTo(i)) \in Nat
             /\ Cardinality(upTo(i)) <= Cardinality(K) /\ Cardinality(upTo(i)) # 0
  <2>1. upTo(i) \in SUBSET K /\ i \in upTo(i)
    OBVIOUS
  <2> HIDE DEF upTo
  <2>2. IsFiniteSet(upTo(i)) /\ Cardinality(upTo(i)) <= Cardinality(K)
    BY <2>1, FS_Subset
  <2>3. Cardinality(upTo(i)) \in Nat
    BY <2>2, FS_CardinalityType
  <2>4. Cardinality(upTo(i)) # 0
    BY <2>1, <2>2, FS_EmptySet
  <2> QED
    BY <2>2, <2>3, <2>4
<1>2. ASSUME NEW i \in K, NEW j \in K, i < j
      PROVE  Cardinality(upTo(i)) < Cardinality(upTo(j))
  <2>0. i \in Nat /\ j \in Nat /\ ~(j <= i) /\ \A k \in K : k <= i => k <= j
    BY <1>2
  <2>1. upTo(i) \in SUBSET upTo(j) /\ j \in upTo(j) /\ j \notin upTo(i)
    <3>1. \A k \in upTo(i) : k \in upTo(j)
      BY <2>0
    <3>2. j \in upTo(j) /\ j \notin upTo(i)
      BY <2>0
    <3> QED
      BY <3>1, <3>2
  <2>2. /\ IsFiniteSet(upTo(j)) /\ Cardinality(upTo(j)) \in Nat /\ Cardinality(upTo(i)) \in Nat
    BY <1>1
  <2> HIDE DEF upTo
  <2>3. /\ Cardinality(upTo(i)) <= Cardinality(upTo(j))
        /\ Cardinality(upTo(j)) = Cardinality(upTo(i)) => upTo(j) = upTo(i)
    BY <2>1, <2>2, FS_Subset
  <2> QED
    BY <2>1, <2>2, <2>3
<1>3. \A i \in K : RankIn(K, i) = Cardinality(upTo(i))
  BY DEF RankIn
<1> HIDE DEF upTo
<1> QED
  BY <1>0, <1>1, <1>2, <1>3

\* Ranks number the members, without gaps.
LEMMA RanksNumber ==
    ASSUME NEW K \in SUBSET Nat, IsFiniteSet(K)
    PROVE  /\ \A i, j \in K : RankIn(K, i) = RankIn(K, j) => i = j
           /\ \A n \in 1..Cardinality(K) : \E i \in K : RankIn(K, i) = n
<1> DEFINE N == Cardinality(K)
           rank == [i \in K |-> RankIn(K, i)]
<1>1. /\ N \in Nat
      /\ \A i \in K : RankIn(K, i) \in 1..N
      /\ \A i, j \in K : i < j => RankIn(K, i) < RankIn(K, j)
  BY RankIncreases
<1> HIDE DEF N
<1>2. \A i, j \in K : RankIn(K, i) = RankIn(K, j) => i = j
  BY <1>1
<1>3. \A n \in 1..N : \E i \in K : RankIn(K, i) = n
  <2>1. rank \in Injection(K, 1..N)
    BY <1>1, <1>2 DEF Injection, IsInjective
  <2>2. IsFiniteSet(1..N) /\ Cardinality(1..N) = N
    BY <1>1, FS_Interval
  <2>3. rank \in Surjection(K, 1..N)
    <3> HIDE DEF rank
    <3> QED
      BY <2>1, <2>2, FS_Injection DEF N
  <2> QED
    BY <2>3 DEF Surjection
<1> QED
  BY <1>2, <1>3 DEF N

\* All but the first n members.
LEMMA RanksAbove ==
    ASSUME NEW K \in SUBSET Nat, IsFiniteSet(K), NEW n \in Nat
    PROVE  Cardinality({i \in K : ~(RankIn(K, i) <= n)})
              = IF n <= Cardinality(K) THEN Cardinality(K) - n ELSE 0
<1> DEFINE N == Cardinality(K)
           late == {i \in K : ~(RankIn(K, i) <= n)}
           rank == [i \in late |-> RankIn(K, i)]
           range == (n + 1)..N
<1>1. N \in Nat /\ \A i \in K : RankIn(K, i) \in 1..N
  BY RankIncreases
<1>2. /\ \A i, j \in K : RankIn(K, i) = RankIn(K, j) => i = j
      /\ \A m \in 1..N : \E i \in K : RankIn(K, i) = m
  BY RanksNumber
<1> HIDE DEF N
<1>3. rank \in Bijection(late, range)
  <2>1. \A i \in late : RankIn(K, i) \in range
    BY <1>1
  <2>2. rank \in [late -> range]
    BY <2>1
  <2>3. \A i, j \in late : rank[i] = rank[j] => i = j
    BY <1>2
  <2>4. \A m \in range : \E i \in late : rank[i] = m
    <3> SUFFICES ASSUME NEW m \in range PROVE \E i \in late : rank[i] = m
      OBVIOUS
    <3>1. m \in 1..N /\ ~(m <= n)
      BY <1>1
    <3>2. PICK i \in K : RankIn(K, i) = m
      BY <1>2, <3>1
    <3> QED
      BY <3>1, <3>2
  <2> HIDE DEF late, rank, range
  <2> QED
    BY <2>2, <2>3, <2>4 DEF Bijection, Injection, Surjection, IsInjective
<1>4. IsFiniteSet(late)
  BY FS_Subset
<1>5. Cardinality(late) = Cardinality(range)
  <2> HIDE DEF late, rank, range
  <2>1. ExistsBijection(late, range)
    BY <1>3 DEF ExistsBijection
  <2> QED
    BY <1>4, <2>1, FS_Bijection
<1>6. Cardinality(range) = IF n + 1 > N THEN 0 ELSE N - (n + 1) + 1
  BY <1>1, FS_Interval
<1> HIDE DEF late, range
<1>7. Cardinality(late) = IF n <= N THEN N - n ELSE 0
  BY <1>1, <1>5, <1>6
<1> QED
  BY <1>7 DEF late, N

\* Pick is the elements at the positions K, in order.
PicksAt(s, K, at) ==
    /\ at \in [1..Cardinality(K) -> K]
    /\ \A m, n \in 1..Cardinality(K) : m < n => at[m] < at[n]
    /\ \A i \in K : \E n \in 1..Cardinality(K) : at[n] = i
    /\ Pick(s, K) = [n \in 1..Cardinality(K) |-> s[at[n]]]

LEMMA PickAt ==
    ASSUME NEW s, NEW K \in SUBSET Nat, IsFiniteSet(K)
    PROVE  Cardinality(K) \in Nat /\ \E at : PicksAt(s, K, at)
<1> DEFINE N == Cardinality(K)
           at == [n \in 1..N |-> CHOOSE i \in K : RankIn(K, i) = n]
<1>1. /\ N \in Nat
      /\ \A i \in K : RankIn(K, i) \in 1..N
      /\ \A i, j \in K : i < j => RankIn(K, i) < RankIn(K, j)
  BY RankIncreases
<1> HIDE DEF N
<1>2. \A i, j \in K : RankIn(K, i) = RankIn(K, j) => i = j
  BY RanksNumber
<1>3. \A n \in 1..N : \E i \in K : RankIn(K, i) = n
  BY RanksNumber DEF N
<1>4. \A n \in 1..N : at[n] \in K /\ RankIn(K, at[n]) = n
  BY <1>3
<1>5. Pick(s, K) = [n \in 1..N |-> s[at[n]]]
  BY DEF Pick, RankIn, N
<1> HIDE DEF at
<1>6. at \in [1..N -> K]
  BY <1>4 DEF at
<1>7. \A m, n \in 1..N : m < n => at[m] < at[n]
  <2> SUFFICES ASSUME NEW m \in 1..N, NEW n \in 1..N, m < n, ~(at[m] < at[n]) PROVE FALSE
    OBVIOUS
  <2>1. at[m] \in K /\ at[n] \in K /\ RankIn(K, at[m]) = m /\ RankIn(K, at[n]) = n
    BY <1>4
  <2>2. at[m] = at[n] \/ at[n] < at[m]
    <3>1. at[m] \in Nat /\ at[n] \in Nat
      BY <2>1
    <3> QED
      BY <3>1
  <2>3. at[n] < at[m] => n < m
    BY <1>1, <2>1
  <2> QED
    BY <1>1, <2>1, <2>2, <2>3
<1>8. \A i \in K : \E n \in 1..N : at[n] = i
  BY <1>1, <1>2, <1>4
<1>9. PicksAt(s, K, at)
  BY <1>5, <1>6, <1>7, <1>8 DEF PicksAt, N
<1> QED
  BY <1>1, <1>9 DEF N

\* Picking from a list at some of its positions gives a list of members of it.
LEMMA PickIsPart ==
    ASSUME NEW S, NEW s \in Seq(S), NEW K \in SUBSET (1..Len(s))
    PROVE  /\ Pick(s, K) \in Seq(S)
           /\ Cardinality(K) \in Nat /\ Len(Pick(s, K)) = Cardinality(K)
           /\ \A n \in 1..Len(Pick(s, K)) : \E i \in K : Pick(s, K)[n] = s[i]
           /\ \A i \in K : \E n \in 1..Len(Pick(s, K)) : Pick(s, K)[n] = s[i]
<1>0. Len(s) \in Nat /\ \A i \in 1..Len(s) : i \in Nat /\ s[i] \in S
  OBVIOUS
<1>1. K \in SUBSET Nat /\ IsFiniteSet(K)
  <2>1. IsFiniteSet(1..Len(s))
    BY <1>0, FS_Interval
  <2>2. IsFiniteSet(K)
    BY <2>1, FS_Subset
  <2> QED
    BY <1>0, <2>2
<1> DEFINE N == Cardinality(K)
<1>2. N \in Nat
  BY <1>1, FS_CardinalityType
<1>3a. PICK at : PicksAt(s, K, at)
  BY <1>1, PickAt
<1>3. /\ at \in [1..N -> K]
      /\ \A i \in K : \E n \in 1..N : at[n] = i
      /\ Pick(s, K) = [n \in 1..N |-> s[at[n]]]
  BY <1>3a DEF PicksAt
<1> HIDE DEF N
<1>4. ASSUME NEW n \in 1..N PROVE at[n] \in K /\ s[at[n]] \in S
  <2>1. at[n] \in K
    BY <1>3
  <2> QED
    BY <1>0, <2>1
<1> DEFINE part == [n \in 1..N |-> s[at[n]]]
<1>5. part \in [1..N -> S] /\ \A n \in 1..N : part[n] = s[at[n]]
  BY <1>4
<1> HIDE DEF part
<1>6. part \in Seq(S) /\ Len(part) = N
  BY <1>2, <1>5
<1>7. Pick(s, K) = part
  BY <1>3 DEF part
<1>8. \A n \in 1..N : \E i \in K : part[n] = s[i]
  BY <1>4, <1>5
<1>9. \A i \in K : \E n \in 1..N : part[n] = s[i]
  BY <1>3, <1>5
<1> QED
  BY <1>2, <1>6, <1>7, <1>8, <1>9 DEF N

\* A member that no other exceeds is the Max.
LEMMA MaxIs ==
    ASSUME NEW S \in SUBSET Int, NEW m \in S, \A y \in S : y <= m
    PROVE  Max(S) = m
<1>1. \E x \in S : \A y \in S : x >= y
  OBVIOUS
<1>2. Max(S) \in S /\ \A y \in S : Max(S) >= y
  BY <1>1 DEF Max
<1>3. Max(S) \in Int /\ m \in Int /\ Max(S) <= m /\ Max(S) >= m
  BY <1>2
<1> QED
  BY <1>3

-----------------------------------------------------------------------------
\* The sum over one member.
LEMMA SumOne ==
    ASSUME NEW f, NEW x, f[x] \in Int
    PROVE  SumFunctionOnSet(f, {x}) = f[x]
<1>1. IsFiniteSet({}) /\ x \notin {} /\ \A y \in {} \cup {x} : f[y] \in Int
  BY FS_EmptySet
<1>2. SumFunctionOnSet(f, {} \cup {x}) = f[x] + SumFunctionOnSet(f, {})
  BY <1>1, SumAdd
<1>3. {} \cup {x} = {x}
  OBVIOUS
<1>4. SumFunctionOnSet(f, {x}) = f[x] + SumFunctionOnSet(f, {})
  BY <1>2, <1>3, Zenon
<1>5. SumFunctionOnSet(f, {}) = 0
  BY SumEmpty
<1> QED
  BY <1>4, <1>5

\* Members where f is nothing may be left out.
LEMMA SumOfPart ==
    ASSUME NEW S, IsFiniteSet(S), NEW T \in SUBSET S, NEW f, \A x \in S : f[x] \in Int,
           \A x \in S \ T : f[x] = 0
    PROVE  SumFunctionOnSet(f, S) = SumFunctionOnSet(f, T)
<1> DEFINE rest == S \ T
<1>1. IsFiniteSet(T) /\ IsFiniteSet(rest) /\ T \cap rest = {} /\ T \cup rest = S
  BY FS_Subset
<1>2. \A x \in T \cup rest : f[x] \in Int
  OBVIOUS
<1>3. \A x \in rest : f[x] = 0
  OBVIOUS
<1> HIDE DEF rest
<1>4. SumFunctionOnSet(f, T \cup rest) = SumFunctionOnSet(f, T) + SumFunctionOnSet(f, rest)
  BY <1>1, <1>2, SumSplit
<1>5. SumFunctionOnSet(f, rest) = 0
  BY <1>1, <1>3, SumZero
<1>6. SumFunctionOnSet(f, T) \in Int
  BY <1>1, <1>2, SumPeel
<1>7. SumFunctionOnSet(f, T \cup rest) = SumFunctionOnSet(f, T)
  BY <1>4, <1>5, <1>6
<1> QED
  BY <1>1, <1>7, Zenon

\* A common factor.
LEMMA SumScale ==
    ASSUME NEW S, IsFiniteSet(S), NEW k \in Int, NEW f, NEW h,
           \A x \in S : f[x] \in Int /\ h[x] = k * f[x]
    PROVE  SumFunctionOnSet(h, S) = k * SumFunctionOnSet(f, S)
<1> DEFINE F == {T \in SUBSET S : SumFunctionOnSet(h, T) = k * SumFunctionOnSet(f, T)}
<1>1. {} \in F
  <2>1. SumFunctionOnSet(h, {}) = 0 /\ SumFunctionOnSet(f, {}) = 0
    BY SumEmpty
  <2>2. k * 0 = 0
    OBVIOUS
  <2> QED
    BY <2>1, <2>2
<1>2. ASSUME NEW T \in SUBSET S, NEW x \in S \ T, T \in F PROVE T \cup {x} \in F
  <2>1. IsFiniteSet(T) /\ x \notin T /\ \A y \in T \cup {x} : f[y] \in Int /\ h[y] \in Int
    BY FS_Subset
  <2>2. /\ SumFunctionOnSet(f, T \cup {x}) = f[x] + SumFunctionOnSet(f, T) /\ SumFunctionOnSet(f, T) \in Int
        /\ SumFunctionOnSet(h, T \cup {x}) = h[x] + SumFunctionOnSet(h, T)
    BY <2>1, SumAdd
  <2>3. h[x] = k * f[x] /\ f[x] \in Int /\ SumFunctionOnSet(h, T) = k * SumFunctionOnSet(f, T)
    BY <1>2
  <2>4. \A a, b \in Int : k * a + k * b = k * (a + b)
    OBVIOUS
  <2>5. SumFunctionOnSet(h, T \cup {x}) = k * SumFunctionOnSet(f, T \cup {x})
    BY <2>2, <2>3, <2>4
  <2>6. T \cup {x} \in SUBSET S
    OBVIOUS
  <2> QED
    BY <2>5, <2>6
<1> HIDE DEF F
<1>3. S \in F
  BY <1>1, <1>2, AddOneByOne
<1> QED
  BY <1>3 DEF F

\* The same for every member.
LEMMA SumConstant ==
    ASSUME NEW S, IsFiniteSet(S), NEW k \in Int, NEW f, \A x \in S : f[x] = k
    PROVE  SumFunctionOnSet(f, S) = k * Cardinality(S)
<1> DEFINE F == {T \in SUBSET S : SumFunctionOnSet(f, T) = k * Cardinality(T)}
<1>1. {} \in F
  <2>1. SumFunctionOnSet(f, {}) = 0 /\ Cardinality({}) = 0
    BY SumEmpty, FS_EmptySet
  <2>2. k * 0 = 0
    OBVIOUS
  <2> QED
    BY <2>1, <2>2
<1>2. ASSUME NEW T \in SUBSET S, NEW x \in S \ T, T \in F PROVE T \cup {x} \in F
  <2>1. IsFiniteSet(T) /\ x \notin T /\ \A y \in T \cup {x} : f[y] \in Int
    BY FS_Subset
  <2>2. SumFunctionOnSet(f, T \cup {x}) = f[x] + SumFunctionOnSet(f, T)
    BY <2>1, SumAdd
  <2>3. Cardinality(T) \in Nat /\ Cardinality(T \cup {x}) = Cardinality(T) + 1
    BY <2>1, FS_CardinalityType, FS_AddElement
  <2>4. f[x] = k /\ SumFunctionOnSet(f, T) = k * Cardinality(T)
    BY <1>2
  <2>5. \A n \in Nat : k + k * n = k * (n + 1)
    OBVIOUS
  <2>6. SumFunctionOnSet(f, T \cup {x}) = k * Cardinality(T \cup {x})
    BY <2>2, <2>3, <2>4, <2>5
  <2>7. T \cup {x} \in SUBSET S
    OBVIOUS
  <2> QED
    BY <2>6, <2>7
<1> HIDE DEF F
<1>3. S \in F
  BY <1>1, <1>2, AddOneByOne
<1> QED
  BY <1>3 DEF F

\* One list after another.
LEMMA ConcatAt ==
    ASSUME NEW S, NEW a \in Seq(S), NEW b \in Seq(S)
    PROVE  /\ a \o b \in Seq(S) /\ Len(a) \in Nat /\ Len(b) \in Nat /\ Len(a \o b) = Len(a) + Len(b)
           /\ \A i \in 1..Len(a \o b) :
                 \/ i \in 1..Len(a) /\ (a \o b)[i] = a[i]
                 \/ i - Len(a) \in 1..Len(b) /\ (a \o b)[i] = b[i - Len(a)]
  OBVIOUS

\* One member changed.
LEMMA SumUpdate ==
    ASSUME NEW S, IsFiniteSet(S), NEW f, NEW g, NEW x \in S, g[x] \in Int,
           \A y \in S : f[y] \in Int, \A y \in S \ {x} : g[y] = f[y]
    PROVE  SumFunctionOnSet(g, S) = SumFunctionOnSet(f, S) + g[x] - f[x]
<1>1. \A y \in S : g[y] \in Int
  OBVIOUS
<1> DEFINE T == S \ {x}
<1>2. IsFiniteSet(T) /\ \A y \in T : f[y] \in Int /\ g[y] = f[y]
  BY FS_Subset
<1>3. SumFunctionOnSet(f, S) = f[x] + SumFunctionOnSet(f, T) /\ SumFunctionOnSet(g, S) = g[x] + SumFunctionOnSet(g, T)
  BY <1>1, SumPeel
<1> HIDE DEF T
<1>4. SumFunctionOnSet(g, T) = SumFunctionOnSet(f, T) /\ SumFunctionOnSet(f, T) \in Int
  BY <1>2, SumSame, SumPeel
<1>5. f[x] \in Int /\ g[x] \in Int
  OBVIOUS
<1> QED
  BY <1>3, <1>4, <1>5
=============================================================================
