---------------------------- MODULE SumTheorems ----------------------------
(***************************************************************************)
(* Sums of integers over finite sets, as SumFunctionOnSet of the community *)
(* modules defines them: by a recursive table over the subsets.            *)
(*                                                                         *)
(* An induction is by a least counterexample: a set of naturals that is    *)
(* not empty has a least element.                                          *)
(***************************************************************************)
EXTENDS Functions, FiniteSetTheorems, WellFoundedInduction, TLAPS

\* A set of naturals that is not empty has a least element.
LEMMA Least ==
    ASSUME NEW T, T \subseteq Nat, T # {}
    PROVE  \E x \in T : \A y \in T : x <= y
<1>1. PICK x \in T : \A y \in T : ~(<<y, x>> \in OpToRel(<, Nat))
  BY WFMin, NatLessThanWellFounded
<1>2. \A y \in T : ~(y < x)
  BY <1>1 DEF OpToRel
<1> QED BY <1>2

\* A set that has 0 and with each number the next has all of them.
LEMMA Reaches ==
    ASSUME NEW T, 0 \in T, \A n \in Nat : n \in T => n + 1 \in T
    PROVE  Nat \subseteq T
<1> DEFINE U == {n \in Nat : n \notin T}
<1> SUFFICES ASSUME U # {} PROVE FALSE
  OBVIOUS
<1>1. PICK m \in U : \A n \in U : m <= n
  <2> HIDE DEF U
  <2>1. U \subseteq Nat
    BY DEF U
  <2> QED BY <2>1, Least
<1>2. m \in Nat /\ m # 0 /\ m - 1 \in Nat
  OBVIOUS
<1>3. m - 1 \notin U
  <2>1. ~(m <= m - 1)
    BY <1>2
  <2> QED BY <1>1, <2>1
<1>4. m - 1 + 1 \in T
  BY <1>2, <1>3
<1> QED BY <1>2, <1>4

-----------------------------------------------------------------------------
(* The table. *)

\* The element that a fold takes first, the row of a table of sums, and a table:
\* the function of the subsets of S that has each of them as its row says.
Pick(s) == CHOOSE x \in s : TRUE

Row(f, s, g) == IF s = {} THEN 0 ELSE f[Pick(s)] + g[s \ {Pick(s)}]

IsTable(f, S, g) == g = [s \in SUBSET S |-> Row(f, s, g)]

\* A sum is the last entry of the table it chooses.
LEMMA SumIsTable ==
    ASSUME NEW f, NEW S
    PROVE  SumFunctionOnSet(f, S) = (CHOOSE g : IsTable(f, S, g))[S]
  BY DEF SumFunctionOnSet, FoldFunctionOnSet, MapThenFoldSet, IsTable, Row, Pick

\* The subsets of at most n elements
Small(S, n) == {s \in SUBSET S : Cardinality(s) <= n}

\* What is left of a set without the element taken first is smaller by one.
LEMMA SmallerRest ==
    ASSUME NEW S, IsFiniteSet(S), NEW s \in SUBSET S, s # {}
    PROVE  /\ Pick(s) \in s /\ s \ {Pick(s)} \in SUBSET S
           /\ IsFiniteSet(s) /\ Cardinality(s) \in Nat
           /\ Cardinality(s \ {Pick(s)}) = Cardinality(s) - 1
<1>1. Pick(s) \in s
  BY DEF Pick
<1>2. IsFiniteSet(s) /\ Cardinality(s) \in Nat
  BY FS_Subset, FS_CardinalityType
<1> QED BY <1>1, <1>2, FS_RemoveElement

\* Up to any size there is a table.
LEMMA TableUpTo ==
    ASSUME NEW f, NEW S, IsFiniteSet(S), NEW k \in Nat
    PROVE  \E g : \A s \in Small(S, k) : g[s] = Row(f, s, g)
<1> DEFINE Fits(g, n) == \A s \in Small(S, n) : g[s] = Row(f, s, g)
           T == {n \in Nat : \E g : Fits(g, n)}
<1>1. 0 \in T
  <2> DEFINE g == [s \in SUBSET S |-> 0]
  <2>1. ASSUME NEW s \in Small(S, 0)
        PROVE  s = {} /\ s \in SUBSET S
    <3>1. IsFiniteSet(s) /\ Cardinality(s) \in Nat /\ Cardinality(s) <= 0
      BY FS_Subset, FS_CardinalityType DEF Small
    <3> QED BY <3>1, FS_EmptySet DEF Small
  <2>2. Fits(g, 0)
    BY <2>1 DEF Row
  <2> QED BY <2>2
<1>2. ASSUME NEW n \in Nat, n \in T
      PROVE  n + 1 \in T
  <2>1. PICK g : Fits(g, n)
    BY <1>2
  <2> DEFINE h == [s \in SUBSET S |-> Row(f, s, g)]
  <2>2. ASSUME NEW s \in Small(S, n + 1)
        PROVE  h[s] = Row(f, s, h)
    <3>1. s \in SUBSET S
      BY DEF Small
    <3>2. CASE s = {}
      BY <3>1, <3>2 DEF Row
    <3>3. CASE s # {}
      <4> DEFINE t == s \ {Pick(s)}
      <4>1. t \in Small(S, n) /\ t \in SUBSET S
        BY <3>1, <3>3, SmallerRest DEF Small
      <4>2. g[t] = h[t]
        BY <2>1, <4>1
      <4> QED BY <3>1, <3>3, <4>2 DEF Row
    <3> QED BY <3>2, <3>3
  <2>3. Fits(h, n + 1)
    BY <2>2
  <2>4. \E j : Fits(j, n + 1)
    <3> HIDE DEF h
    <3> QED BY <2>3
  <2> QED BY <2>4
<1>3. Nat \subseteq T
  <2> HIDE DEF T
  <2> QED BY <1>1, <1>2, Reaches
<1> QED BY <1>3

\* A finite set has a table, so the one chosen is a table.
LEMMA TableExists ==
    ASSUME NEW f, NEW S, IsFiniteSet(S)
    PROVE  IsTable(f, S, CHOOSE g : IsTable(f, S, g))
<1>1. Cardinality(S) \in Nat
  BY FS_CardinalityType
<1>2. PICK g : \A s \in Small(S, Cardinality(S)) : g[s] = Row(f, s, g)
  BY <1>1, TableUpTo
<1>3. \A s \in SUBSET S : s \in Small(S, Cardinality(S))
  BY FS_Subset DEF Small
<1> DEFINE h == [s \in SUBSET S |-> g[s]]
<1>4. \A s \in SUBSET S : Row(f, s, h) = Row(f, s, g)
  <2> SUFFICES ASSUME NEW s \in SUBSET S PROVE Row(f, s, h) = Row(f, s, g)
    OBVIOUS
  <2>1. s \ {Pick(s)} \in SUBSET S
    OBVIOUS
  <2> QED BY <2>1 DEF Row
<1>5. h = [s \in SUBSET S |-> Row(f, s, h)]
  BY <1>2, <1>3, <1>4
<1> QED BY <1>5 DEF IsTable

\* Two tables agree where the functions and both their domains do.
LEMMA TablesAgree ==
    ASSUME NEW f, NEW g, NEW S, NEW T, IsFiniteSet(S), T \subseteq S, \A x \in T : f[x] = g[x],
           NEW a, NEW b, IsTable(f, S, a), IsTable(g, T, b)
    PROVE  a[T] = b[T]
<1> DEFINE N == {n \in Nat : \A s \in Small(T, n) : a[s] = b[s]}
<1>0. IsFiniteSet(T) /\ Cardinality(T) \in Nat
  BY FS_Subset, FS_CardinalityType
<1>1. \A s \in SUBSET T : a[s] = Row(f, s, a) /\ b[s] = Row(g, s, b)
  BY DEF IsTable
<1>2. 0 \in N
  <2>1. ASSUME NEW s \in Small(T, 0)
        PROVE  s = {} /\ s \in SUBSET T
    <3>1. IsFiniteSet(s) /\ Cardinality(s) \in Nat /\ Cardinality(s) <= 0
      BY <1>0, FS_Subset, FS_CardinalityType DEF Small
    <3> QED BY <3>1, FS_EmptySet DEF Small
  <2> QED BY <1>1, <2>1 DEF Row
<1>3. ASSUME NEW n \in Nat, n \in N
      PROVE  n + 1 \in N
  <2>1. ASSUME NEW s \in Small(T, n + 1), s # {}
        PROVE  a[s] = b[s]
    <3>1. s \in SUBSET T
      BY DEF Small
    <3>2. /\ Pick(s) \in T
          /\ s \ {Pick(s)} \in Small(T, n)
      BY <1>0, <2>1, <3>1, SmallerRest DEF Small
    <3>3. a[s \ {Pick(s)}] = b[s \ {Pick(s)}]
      BY <1>3, <3>2
    <3> QED BY <1>1, <2>1, <3>1, <3>2, <3>3 DEF Row
  <2>2. a[{}] = b[{}]
    BY <1>1 DEF Row
  <2> QED BY <2>1, <2>2
<1>4. Nat \subseteq N
  <2> HIDE DEF N
  <2> QED BY <1>2, <1>3, Reaches
<1>5. Cardinality(T) \in N /\ T \in Small(T, Cardinality(T))
  BY <1>0, <1>4 DEF Small
<1> QED BY <1>5

-----------------------------------------------------------------------------
(* Sums. *)

\* A sum is over what the function is on the set.
THEOREM SumSame ==
    ASSUME NEW f, NEW g, NEW S, IsFiniteSet(S), \A x \in S : f[x] = g[x]
    PROVE  SumFunctionOnSet(f, S) = SumFunctionOnSet(g, S)
  BY TablesAgree, TableExists, SumIsTable

\* The recursive equation of a sum: the element taken first, and the rest
LEMMA SumUnrolled ==
    ASSUME NEW f, NEW S, IsFiniteSet(S)
    PROVE  SumFunctionOnSet(f, S) =
               IF S = {} THEN 0 ELSE f[Pick(S)] + SumFunctionOnSet(f, S \ {Pick(S)})
<1> DEFINE T == S \ {Pick(S)}
           a == CHOOSE g : IsTable(f, S, g)
           b == CHOOSE g : IsTable(f, T, g)
<1>1. IsFiniteSet(T)
  BY FS_Subset
<1>2. IsTable(f, S, a) /\ IsTable(f, T, b)
  BY <1>1, TableExists
<1>3. a[S] = Row(f, S, a)
  BY <1>2 DEF IsTable
<1>4. a[T] = b[T]
  BY <1>2, TablesAgree
<1>5. SumFunctionOnSet(f, S) = a[S] /\ SumFunctionOnSet(f, T) = b[T]
  BY SumIsTable
<1> HIDE DEF a, b
<1> QED BY <1>3, <1>4, <1>5 DEF Row

\* The sum over no element
LEMMA SumEmpty == ASSUME NEW f PROVE SumFunctionOnSet(f, {}) = 0
  BY SumUnrolled, FS_EmptySet

\* A sum of integers is one.
THEOREM SumType ==
    ASSUME NEW f, NEW S, IsFiniteSet(S), \A x \in S : f[x] \in Int
    PROVE  SumFunctionOnSet(f, S) \in Int
<1> DEFINE N == {n \in Nat : \A s \in Small(S, n) : SumFunctionOnSet(f, s) \in Int}
<1>1. 0 \in N
  <2> SUFFICES ASSUME NEW s \in Small(S, 0) PROVE SumFunctionOnSet(f, s) \in Int
    OBVIOUS
  <2>1. s = {}
    <3>1. IsFiniteSet(s) /\ Cardinality(s) \in Nat /\ Cardinality(s) <= 0
      BY FS_Subset, FS_CardinalityType DEF Small
    <3> QED BY <3>1, FS_EmptySet
  <2> QED BY <2>1, SumEmpty
<1>2. ASSUME NEW n \in Nat, n \in N
      PROVE  n + 1 \in N
  <2> SUFFICES ASSUME NEW s \in Small(S, n + 1) PROVE SumFunctionOnSet(f, s) \in Int
    OBVIOUS
  <2>1. s \in SUBSET S
    BY DEF Small
  <2>2. CASE s = {}
    BY <2>2, SumEmpty
  <2>3. CASE s # {}
    <3>1. Pick(s) \in S /\ s \ {Pick(s)} \in Small(S, n) /\ IsFiniteSet(s)
      BY <2>1, <2>3, SmallerRest DEF Small
    <3>2. SumFunctionOnSet(f, s \ {Pick(s)}) \in Int
      BY <1>2, <3>1
    <3> QED BY <2>3, <3>1, <3>2, SumUnrolled
  <2> QED BY <2>2, <2>3
<1>3. Nat \subseteq N
  <2> HIDE DEF N
  <2> QED BY <1>1, <1>2, Reaches
<1>4. Cardinality(S) \in N /\ S \in Small(S, Cardinality(S))
  BY <1>3, FS_CardinalityType DEF Small
<1> QED BY <1>4

\* Any element may be added last.
THEOREM SumSplits ==
    ASSUME NEW f, NEW S, IsFiniteSet(S), \A x \in S : f[x] \in Int, NEW y \in S
    PROVE  SumFunctionOnSet(f, S) = f[y] + SumFunctionOnSet(f, S \ {y})
<1> DEFINE Sum(s) == SumFunctionOnSet(f, s)
           N == {n \in Nat : \A s \in Small(S, n) : \A x \in s : Sum(s) = f[x] + Sum(s \ {x})}
<1>0. \A s \in SUBSET S : IsFiniteSet(s) /\ Cardinality(s) \in Nat /\ Sum(s) \in Int
  BY FS_Subset, FS_CardinalityType, SumType
<1>1. 0 \in N
  <2>1. ASSUME NEW s \in Small(S, 0) PROVE s = {}
    <3>1. IsFiniteSet(s) /\ Cardinality(s) \in Nat /\ Cardinality(s) <= 0
      BY <1>0 DEF Small
    <3> QED BY <3>1, FS_EmptySet
  <2> QED BY <2>1
<1>2. ASSUME NEW n \in Nat, n \in N
      PROVE  n + 1 \in N
  <2> SUFFICES ASSUME NEW s \in Small(S, n + 1), NEW x \in s
               PROVE  Sum(s) = f[x] + Sum(s \ {x})
    OBVIOUS
  <2> DEFINE p == Pick(s)
  <2>1. /\ s \in SUBSET S /\ s # {} /\ p \in s
        /\ s \ {p} \in Small(S, n) /\ s \ {x} \in Small(S, n)
    <3>1. s \in SUBSET S
      BY DEF Small
    <3>2. Cardinality(s \ {x}) = Cardinality(s) - 1
      BY <1>0, <3>1, FS_RemoveElement
    <3> QED BY <1>0, <3>1, <3>2, SmallerRest DEF Small
  <2>2. Sum(s) = f[p] + Sum(s \ {p})
    BY <1>0, <2>1, SumUnrolled
  <2>3. CASE x = p
    BY <2>2, <2>3
  <2>4. CASE x # p
    <3>1. Sum(s \ {p}) = f[x] + Sum((s \ {p}) \ {x})
      BY <1>2, <2>1, <2>4
    <3>2. Sum(s \ {x}) = f[p] + Sum((s \ {x}) \ {p})
      BY <1>2, <2>1, <2>4
    <3>3. (s \ {p}) \ {x} = (s \ {x}) \ {p}
      OBVIOUS
    <3>4. f[x] \in Int /\ f[p] \in Int /\ Sum((s \ {x}) \ {p}) \in Int
      <4>1. (s \ {x}) \ {p} \in SUBSET S
        BY <2>1
      <4> HIDE DEF p, Sum
      <4> QED BY <1>0, <2>1, <4>1
    <3> DEFINE d == Sum((s \ {x}) \ {p})
    <3>5. Sum(s \ {p}) = f[x] + d /\ Sum(s \ {x}) = f[p] + d /\ d \in Int
      BY <3>1, <3>2, <3>3, <3>4
    <3> HIDE DEF p, Sum, d
    <3> QED BY <2>2, <3>4, <3>5
  <2> QED BY <2>3, <2>4
<1>3. Nat \subseteq N
  <2> HIDE DEF N
  <2> QED BY <1>1, <1>2, Reaches
<1>4. Cardinality(S) \in N /\ S \in Small(S, Cardinality(S))
  BY <1>0, <1>3 DEF Small
<1> QED BY <1>4

\* A sum of which one term changes
THEOREM SumChanges ==
    ASSUME NEW f, NEW g, NEW S, IsFiniteSet(S), \A x \in S : f[x] \in Int /\ g[x] \in Int,
           NEW y \in S, \A x \in S \ {y} : g[x] = f[x]
    PROVE  SumFunctionOnSet(g, S) = SumFunctionOnSet(f, S) + (g[y] - f[y])
<1>1. IsFiniteSet(S \ {y})
  BY FS_RemoveElement
<1>2. SumFunctionOnSet(g, S \ {y}) = SumFunctionOnSet(f, S \ {y})
  BY <1>1, SumSame
<1>3. /\ SumFunctionOnSet(g, S) = g[y] + SumFunctionOnSet(g, S \ {y})
      /\ SumFunctionOnSet(f, S) = f[y] + SumFunctionOnSet(f, S \ {y})
  BY SumSplits
<1>4. SumFunctionOnSet(f, S \ {y}) \in Int
  BY <1>1, SumType
<1> QED BY <1>2, <1>3, <1>4

\* A set that gains an element
THEOREM SumGains ==
    ASSUME NEW f, NEW S, IsFiniteSet(S), NEW y, y \notin S, \A x \in S \cup {y} : f[x] \in Int
    PROVE  SumFunctionOnSet(f, S \cup {y}) = f[y] + SumFunctionOnSet(f, S)
<1>1. IsFiniteSet(S \cup {y}) /\ (S \cup {y}) \ {y} = S
  BY FS_AddElement
<1> QED BY <1>1, SumSplits

\* Equal terms
THEOREM SumConstant ==
    ASSUME NEW f, NEW S, IsFiniteSet(S), NEW a \in Int, \A x \in S : f[x] = a
    PROVE  SumFunctionOnSet(f, S) = a * Cardinality(S)
<1> DEFINE N == {n \in Nat : \A s \in Small(S, n) :
                                SumFunctionOnSet(f, s) = a * Cardinality(s)}
<1>0. \A s \in SUBSET S : IsFiniteSet(s) /\ Cardinality(s) \in Nat
  BY FS_Subset, FS_CardinalityType
<1>1. 0 \in N
  <2> SUFFICES ASSUME NEW s \in Small(S, 0)
               PROVE  SumFunctionOnSet(f, s) = a * Cardinality(s)
    OBVIOUS
  <2>1. s = {} /\ Cardinality(s) = 0
    <3>1. IsFiniteSet(s) /\ Cardinality(s) \in Nat /\ Cardinality(s) <= 0
      BY <1>0 DEF Small
    <3> QED BY <3>1, FS_EmptySet
  <2>2. SumFunctionOnSet(f, s) = 0
    BY <2>1, SumEmpty
  <2> QED BY <2>1, <2>2
<1>2. ASSUME NEW n \in Nat, n \in N
      PROVE  n + 1 \in N
  <2> SUFFICES ASSUME NEW s \in Small(S, n + 1)
               PROVE  SumFunctionOnSet(f, s) = a * Cardinality(s)
    OBVIOUS
  <2>1. s \in SUBSET S
    BY DEF Small
  <2>2. CASE s = {}
    <3>1. SumFunctionOnSet(f, s) = 0 /\ Cardinality(s) = 0
      BY <2>2, SumEmpty, FS_EmptySet
    <3> QED BY <3>1
  <2>3. CASE s # {}
    <3> DEFINE c == Cardinality(s)
               t == s \ {Pick(s)}
    <3>1. /\ Pick(s) \in S /\ t \in Small(S, n)
          /\ c \in Nat /\ Cardinality(t) = c - 1
      BY <2>1, <2>3, SmallerRest DEF Small
    <3>2. SumFunctionOnSet(f, t) = a * (c - 1)
      BY <1>2, <3>1
    <3>3. SumFunctionOnSet(f, s) = a + SumFunctionOnSet(f, t)
      BY <1>0, <2>1, <2>3, <3>1, SumUnrolled
    <3>4. a + a * (c - 1) = a * c
      <4> HIDE DEF c, t
      <4> QED BY <3>1
    <3> QED BY <3>2, <3>3, <3>4
  <2> QED BY <2>2, <2>3
<1>3. Nat \subseteq N
  <2> HIDE DEF N
  <2> QED BY <1>1, <1>2, Reaches
<1>4. Cardinality(S) \in N /\ S \in Small(S, Cardinality(S))
  BY <1>0, <1>3 DEF Small
<1> QED BY <1>4

\* Terms that are zero do not count.
THEOREM SumSkipsZeros ==
    ASSUME NEW f, NEW S, IsFiniteSet(S), NEW T \in SUBSET S, \A x \in S : f[x] \in Int,
           \A x \in S \ T : f[x] = 0
    PROVE  SumFunctionOnSet(f, S) = SumFunctionOnSet(f, T)
<1> DEFINE Keeps(s) == SumFunctionOnSet(f, T \cup s) = SumFunctionOnSet(f, T)
           N == {n \in Nat : \A s \in Small(S \ T, n) : Keeps(s)}
<1>0. /\ IsFiniteSet(T) /\ IsFiniteSet(S \ T)
      /\ \A s \in SUBSET (S \ T) : IsFiniteSet(s) /\ Cardinality(s) \in Nat
  BY FS_Subset, FS_CardinalityType
<1>1. 0 \in N
  <2>1. ASSUME NEW s \in Small(S \ T, 0)
        PROVE  T \cup s = T
    <3>1. IsFiniteSet(s) /\ Cardinality(s) \in Nat /\ Cardinality(s) <= 0
      BY <1>0 DEF Small
    <3> QED BY <3>1, FS_EmptySet
  <2> QED BY <2>1
<1>2. ASSUME NEW n \in Nat, n \in N
      PROVE  n + 1 \in N
  <2>1. ASSUME NEW s \in Small(S \ T, n + 1), s # {}
        PROVE  SumFunctionOnSet(f, T \cup s) = SumFunctionOnSet(f, T)
    <3> DEFINE p == Pick(s)
               t == s \ {p}
    <3>1. s \in SUBSET (S \ T)
      BY DEF Small
    <3>2. p \in S \ T /\ p \in s /\ t \in Small(S \ T, n)
      BY <1>0, <2>1, <3>1, SmallerRest DEF Small
    <3>3. SumFunctionOnSet(f, T \cup t) = SumFunctionOnSet(f, T)
      BY <1>2, <3>2
    <3>4. /\ T \cup s = (T \cup t) \cup {p} /\ p \notin T \cup t
          /\ T \cup t \in SUBSET S
      BY <3>1, <3>2
    <3>5. SumFunctionOnSet(f, T \cup s) = f[p] + SumFunctionOnSet(f, T \cup t)
      <4>1. IsFiniteSet(T \cup t) /\ \A x \in (T \cup t) \cup {p} : f[x] \in Int
        BY <3>2, <3>4, FS_Subset
      <4> HIDE DEF p, t
      <4> QED BY <3>4, <4>1, SumGains
    <3>6. SumFunctionOnSet(f, T) \in Int
      BY <1>0, SumType
    <3> QED BY <3>2, <3>3, <3>5, <3>6
  <2>2. T \cup {} = T
    OBVIOUS
  <2>3. \A s \in Small(S \ T, n + 1) : Keeps(s)
    BY <2>1, <2>2
  <2>4. n + 1 \in Nat
    OBVIOUS
  <2> HIDE DEF Keeps
  <2> QED BY <2>3, <2>4, Zenon
<1>3. Nat \subseteq N
  <2> HIDE DEF N
  <2> QED BY <1>1, <1>2, Reaches
<1>4. Cardinality(S \ T) \in N /\ S \ T \in Small(S \ T, Cardinality(S \ T))
  BY <1>0, <1>3, FS_CardinalityType DEF Small
<1>5. T \cup (S \ T) = S
  OBVIOUS
<1>6. SumFunctionOnSet(f, T \cup (S \ T)) = SumFunctionOnSet(f, T)
  BY <1>4
<1> QED BY <1>5, <1>6
=============================================================================
