---------------------------- MODULE FoldTheorems -----------------------------
(***************************************************************************)
(* Induction and folds, for the proofs about the components.               *)
(*                                                                         *)
(* Every lemma here takes sets and functions where the libraries' theorems *)
(* take operators: a property of numbers is the set of numbers that have   *)
(* it, the step of a recursion is a function.                              *)
(***************************************************************************)
EXTENDS Integers, Sequences, SequencesExt, FiniteSetsExt, Functions,
        FiniteSetTheorems, NaturalsInduction, TLAPS

(***************************************************************************)
(* Induction.                                                              *)
(***************************************************************************)
LEMMA LeastNumber ==
  ASSUME NEW T \in SUBSET Nat, T # {}
  PROVE  \E x \in T : \A y \in T : x <= y
<1>1. PICK x \in T : \A y \in T : <<y, x>> \notin OpToRel(<, Nat)
  BY NatLessThanWellFounded, WFMin
<1>2. \A y \in T : ~(y < x)
  BY <1>1 DEF OpToRel
<1> QED BY <1>2

\* A set of numbers that holds 0 and the successor of each of its members.
LEMMA AllNumbers ==
  ASSUME NEW T \in SUBSET Nat, 0 \in T, \A n \in T : n + 1 \in T
  PROVE  T = Nat
<1> SUFFICES ASSUME Nat \ T # {} PROVE FALSE
  OBVIOUS
<1>1. PICK x \in Nat \ T : \A y \in Nat \ T : x <= y
  BY LeastNumber
<1>2. x # 0 /\ x - 1 \in Nat /\ ~(x <= x - 1)
  BY <1>1
<1>3. x - 1 \in T
  BY <1>1, <1>2
<1>4. (x - 1) + 1 \in T /\ (x - 1) + 1 = x
  BY <1>1, <1>3
<1> QED BY <1>1, <1>4

\* The same, up to a bound.
LEMMA AllNumbersUpTo ==
  ASSUME NEW n \in Nat, NEW T, 0 \in T, \A k \in 0 .. n - 1 : k \in T => k + 1 \in T
  PROVE  0 .. n \subseteq T
<1> DEFINE U == {k \in Nat : k \in T \/ k > n}
<1>1. 0 \in U
  OBVIOUS
<1>2. ASSUME NEW k \in U PROVE k + 1 \in U
  <2>1. CASE k > n
    BY <2>1
  <2>2. CASE k <= n /\ k = n
    BY <2>2
  <2>3. CASE k <= n /\ k # n
    <3>1. k \in 0 .. n - 1 /\ k \in T
      BY <2>3
    <3> QED BY <3>1
  <2> QED BY <2>1, <2>2, <2>3
<1>3. U \in SUBSET Nat
  OBVIOUS
<1> HIDE DEF U
<1>4. U = Nat
  BY <1>1, <1>2, <1>3, AllNumbers
<1> QED BY <1>4 DEF U

\* The finite sets of a collection that holds the empty set and, with a set, every
\* set of one element more.
LEMMA AllFiniteSubsets ==
  ASSUME NEW S, IsFiniteSet(S), NEW C, {} \in C,
         \A s \in SUBSET S : s \in C => \A x \in S \ s : s \cup {x} \in C
  PROVE  \A s \in SUBSET S : s \in C
<1> DEFINE T == {n \in Nat : \A s \in SUBSET S : Cardinality(s) = n => s \in C}
<1>0. \A s \in SUBSET S : IsFiniteSet(s) /\ Cardinality(s) \in Nat
  BY FS_Subset, FS_CardinalityType
<1>1. 0 \in T
  BY <1>0, FS_EmptySet
<1>2. ASSUME NEW n \in T PROVE n + 1 \in T
  <2> SUFFICES ASSUME NEW s \in SUBSET S, Cardinality(s) = n + 1 PROVE s \in C
    OBVIOUS
  <2>1. s # {}
    <3>1. n + 1 # 0
      OBVIOUS
    <3> QED BY <3>1, FS_EmptySet
  <2>2. PICK x \in s : TRUE
    BY <2>1
  <2>3. Cardinality(s \ {x}) = n
    BY <1>0, FS_RemoveElement
  <2>4. s \ {x} \in C
    BY <2>3
  <2>5. (s \ {x}) \cup {x} = s /\ x \in S \ (s \ {x}) /\ s \ {x} \in SUBSET S
    OBVIOUS
  <2> QED BY <2>4, <2>5
<1>3. T \in SUBSET Nat
  OBVIOUS
<1> HIDE DEF T
<1>4. T = Nat
  BY <1>1, <1>2, <1>3, AllNumbers
<1> QED BY <1>0, <1>4 DEF T
-----------------------------------------------------------------------------
(***************************************************************************)
(* Recursion over the subsets of a finite set, as MapThenFoldSet defines   *)
(* every fold: there is a function that satisfies its equation.            *)
(***************************************************************************)
Picks(pick, S) == \A s \in SUBSET S : s # {} => pick[s] \in s
Recursion(S, base, step, pick, f) ==
  \A s \in SUBSET S : f[s] = IF s = {} THEN base ELSE step[f[s \ {pick[s]}]][pick[s]]

LEMMA SubsetRecursion ==
  ASSUME NEW S, IsFiniteSet(S), NEW V, NEW base \in V, NEW step \in [V -> [S -> V]],
         NEW pick, Picks(pick, S)
  PROVE  \E f \in [SUBSET S -> V] : Recursion(S, base, step, pick, f)
<1> USE DEF Picks, Recursion
<1> DEFINE Solves(f, s) == f[s] = IF s = {} THEN base ELSE step[f[s \ {pick[s]}]][pick[s]]
           T == {n \in Nat : \E f \in [SUBSET S -> V] :
                               \A s \in SUBSET S : Cardinality(s) <= n => Solves(f, s)}
<1>0. \A s \in SUBSET S : IsFiniteSet(s) /\ Cardinality(s) \in Nat
  BY FS_Subset, FS_CardinalityType
<1>1. 0 \in T
  <2> DEFINE f == [s \in SUBSET S |-> base]
  <2>1. f \in [SUBSET S -> V]
    OBVIOUS
  <2>2. ASSUME NEW s \in SUBSET S, Cardinality(s) <= 0 PROVE Solves(f, s)
    <3>1. s = {}
      BY <1>0, <2>2, FS_EmptySet
    <3> QED BY <3>1
  <2> QED BY <2>1, <2>2
<1>2. ASSUME NEW n \in T PROVE n + 1 \in T
  <2>1. PICK f \in [SUBSET S -> V] : \A s \in SUBSET S : Cardinality(s) <= n => Solves(f, s)
    OBVIOUS
  <2> DEFINE next(s) == IF s = {} THEN base ELSE step[f[s \ {pick[s]}]][pick[s]]
             g == [s \in SUBSET S |-> IF Cardinality(s) <= n THEN f[s] ELSE next(s)]
  <2>2. ASSUME NEW s \in SUBSET S PROVE next(s) \in V
    <3>1. CASE s # {}
      <4>1. pick[s] \in S /\ f[s \ {pick[s]}] \in V
        BY <3>1
      <4>2. step[f[s \ {pick[s]}]] \in [S -> V]
        BY <4>1
      <4>3. step[f[s \ {pick[s]}]][pick[s]] \in V
        BY <4>1, <4>2
      <4> QED BY <3>1, <4>3
    <3> QED BY <3>1
  <2>3. g \in [SUBSET S -> V]
    BY <2>2
  <2>4. ASSUME NEW s \in SUBSET S PROVE g[s] = IF s = {} THEN base ELSE next(s)
    <3>1. CASE Cardinality(s) <= n
      BY <2>1, <3>1
    <3> QED BY <3>1
  <2>5. ASSUME NEW s \in SUBSET S, s # {}, Cardinality(s) <= n + 1
        PROVE  g[s \ {pick[s]}] = f[s \ {pick[s]}]
    <3>1. Cardinality(s \ {pick[s]}) = Cardinality(s) - 1 /\ Cardinality(s) \in Nat
      BY <1>0, <2>5, FS_RemoveElement
    <3>2. Cardinality(s \ {pick[s]}) <= n
      BY <2>5, <3>1
    <3> QED BY <3>2
  <2>6. ASSUME NEW s \in SUBSET S, Cardinality(s) <= n + 1 PROVE Solves(g, s)
    <3>1. CASE s = {}
      BY <2>4, <3>1
    <3>2. CASE s # {}
      <4>1. g[s] = step[f[s \ {pick[s]}]][pick[s]]
        BY <2>4, <3>2
      <4> HIDE DEF g
      <4> QED BY <2>5, <2>6, <3>2, <4>1
    <3> QED BY <3>1, <3>2
  <2> HIDE DEF g, Solves
  <2>7. n + 1 \in Nat /\ \A s \in SUBSET S : Cardinality(s) <= n + 1 => Solves(g, s)
    BY <2>6
  <2> QED BY <2>3, <2>7
<1>3. T \in SUBSET Nat
  OBVIOUS
<1> HIDE DEF T
<1>4. T = Nat
  BY <1>1, <1>2, <1>3, AllNumbers
<1>5. Cardinality(S) \in T
  BY <1>0, <1>4
<1>6. PICK f \in [SUBSET S -> V] :
        \A s \in SUBSET S : Cardinality(s) <= Cardinality(S) => Solves(f, s)
  BY <1>5 DEF T
<1>7. \A s \in SUBSET S : Cardinality(s) <= Cardinality(S)
  BY FS_Subset
<1> QED BY <1>6, <1>7
-----------------------------------------------------------------------------
(***************************************************************************)
(* Sums over a finite set.  A table of the sums of f over the subsets of   *)
(* D, whatever element each begins with.                                   *)
(***************************************************************************)
SumOf(f) == FoldFunction(+, 0, f)

SumTable(D, f, table) ==
  /\ table[{}] = 0
  /\ \A s \in SUBSET D :
       table[s] \in Int /\ \A x \in s : table[s] = table[s \ {x}] + f[x]

\* The equation of a sum that begins with the element `pick` gives.
SumEquation(f, pick, table) ==
  \A s \in SUBSET DOMAIN f :
    /\ s = {} => table[s] = 0
    /\ s # {} => pick[s] \in s /\ table[s] = f[pick[s]] + table[s \ {pick[s]}]

\* A sum of integers is an integer.
LEMMA SumTyped ==
  ASSUME NEW D, IsFiniteSet(D), NEW f \in [D -> Int], NEW table, NEW pick,
         SumEquation(f, pick, table)
  PROVE  \A s \in SUBSET D : table[s] \in Int
<1> DEFINE T == {n \in Nat : \A s \in SUBSET D : Cardinality(s) = n => table[s] \in Int}
<1>0. \A s \in SUBSET D : IsFiniteSet(s) /\ Cardinality(s) \in Nat
  BY FS_Subset, FS_CardinalityType
<1>1. 0 \in T
  <2> SUFFICES ASSUME NEW s \in SUBSET D, Cardinality(s) = 0 PROVE table[s] \in Int
    OBVIOUS
  <2>1. s = {}
    BY <1>0, FS_EmptySet
  <2>2. table[s] = 0
    BY <2>1 DEF SumEquation
  <2> QED BY <2>2
<1>2. ASSUME NEW n \in T PROVE n + 1 \in T
  <2> SUFFICES ASSUME NEW s \in SUBSET D, Cardinality(s) = n + 1 PROVE table[s] \in Int
    OBVIOUS
  <2>1. n \in Nat /\ s # {}
    <3>1. n \in Nat /\ n + 1 # 0
      OBVIOUS
    <3> QED BY <3>1, FS_EmptySet
  <2>2. pick[s] \in s /\ table[s] = f[pick[s]] + table[s \ {pick[s]}]
    BY <2>1 DEF SumEquation
  <2>3. s \ {pick[s]} \in SUBSET D /\ Cardinality(s \ {pick[s]}) = n
    BY <1>0, <2>1, <2>2, FS_RemoveElement
  <2>4. table[s \ {pick[s]}] \in Int
    BY <2>3
  <2>5. f[pick[s]] \in Int
    BY <2>2
  <2> QED BY <2>2, <2>4, <2>5
<1>3. T \in SUBSET Nat
  OBVIOUS
<1> HIDE DEF T
<1>4. T = Nat
  BY <1>1, <1>2, <1>3, AllNumbers
<1> QED BY <1>0, <1>4 DEF T

\* Whichever element a sum begins with, it comes to the same.
LEMMA AnyOrder ==
  ASSUME NEW D, IsFiniteSet(D), NEW f \in [D -> Int], NEW table, NEW pick,
         SumEquation(f, pick, table)
  PROVE  SumTable(D, f, table)
<1> DEFINE Free(s) == \A x \in s : table[s] = table[s \ {x}] + f[x]
           T == {n \in Nat : \A s \in SUBSET D : Cardinality(s) = n => Free(s)}
<1>0. \A s \in SUBSET D : IsFiniteSet(s) /\ Cardinality(s) \in Nat
  BY FS_Subset, FS_CardinalityType
<1>10. \A s \in SUBSET D : table[s] \in Int
  BY SumTyped
<1>1. 0 \in T
  <2> SUFFICES ASSUME NEW s \in SUBSET D, Cardinality(s) = 0 PROVE Free(s)
    OBVIOUS
  <2>1. s = {}
    BY <1>0, FS_EmptySet
  <2> QED BY <2>1
<1>2. ASSUME NEW n \in T PROVE n + 1 \in T
  <2> SUFFICES ASSUME NEW s \in SUBSET D, Cardinality(s) = n + 1, NEW x \in s
               PROVE  table[s] = table[s \ {x}] + f[x]
    OBVIOUS
  <2> DEFINE c == pick[s]
  <2>1. c \in s /\ table[s] = f[c] + table[s \ {c}]
    BY DEF SumEquation
  <2> HIDE DEF c
  <2>2. f[c] \in Int /\ f[x] \in Int /\ n \in Nat
    BY <2>1
  <2>3. CASE x = c
    <3>1. table[s \ {c}] \in Int
      BY <1>10
    <3> QED BY <2>1, <2>2, <2>3, <3>1
  <2>4. CASE x # c
    <3>1. x \in s \ {c} /\ c \in s \ {x}
      BY <2>1, <2>4
    <3>2. Cardinality(s \ {c}) = n /\ Cardinality(s \ {x}) = n
      <4>1. \A y \in s : Cardinality(s \ {y}) = Cardinality(s) - 1
        BY <1>0, FS_RemoveElement
      <4> QED BY <2>1, <2>2, <4>1
    <3>3. Free(s \ {c}) /\ Free(s \ {x})
      BY <3>2
    <3>4. table[s \ {c}] = table[(s \ {c}) \ {x}] + f[x]
      BY <3>1, <3>3
    <3>5. table[s \ {x}] = table[(s \ {x}) \ {c}] + f[c]
      BY <3>1, <3>3
    <3>6. (s \ {c}) \ {x} = (s \ {x}) \ {c} /\ (s \ {c}) \ {x} \in SUBSET D
      OBVIOUS
    <3>7. table[(s \ {c}) \ {x}] \in Int
      BY <1>10, <3>6
    <3>8. table[s] = f[c] + (table[(s \ {c}) \ {x}] + f[x])
      BY <2>1, <3>4
    <3>9. table[s \ {x}] = table[(s \ {c}) \ {x}] + f[c]
      BY <3>5, <3>6
    <3> QED BY <2>2, <3>7, <3>8, <3>9
  <2> QED BY <2>3, <2>4
<1>3. T \in SUBSET Nat
  OBVIOUS
<1> HIDE DEF T
<1>4. T = Nat
  BY <1>1, <1>2, <1>3, AllNumbers
<1>5. \A s \in SUBSET D : Free(s)
  BY <1>0, <1>4 DEF T
<1>6. table[{}] = 0
  BY DEF SumEquation
<1> QED BY <1>5, <1>6, <1>10 DEF SumTable

\* The fold adds up such a table.
LEMMA SumsExist ==
  ASSUME NEW D, IsFiniteSet(D), NEW f \in [D -> Int]
  PROVE  \E table : SumTable(D, f, table) /\ SumOf(f) = table[D]
<1> DEFINE Solves(table) ==
             table = [s \in SUBSET D |->
                        IF s = {} THEN 0
                        ELSE LET x == CHOOSE x \in s : TRUE IN f[x] + table[s \ {x}]]
           table == CHOOSE table : Solves(table)
           pick == [s \in SUBSET D |-> CHOOSE x \in s : TRUE]
           step == [v \in Int |-> [x \in D |-> f[x] + v]]
<1>1. SumOf(f) = table[D]
  <2>1. DOMAIN f = D
    OBVIOUS
  <2> QED BY <2>1 DEF SumOf, FoldFunction, FoldFunctionOnSet, MapThenFoldSet
<1>2. Picks(pick, D)
  BY DEF Picks
<1>3. step \in [Int -> [D -> Int]]
  OBVIOUS
<1>4. PICK g \in [SUBSET D -> Int] : Recursion(D, 0, step, pick, g)
  <2> DEFINE V == Int
  <2>1. step \in [V -> [D -> V]] /\ 0 \in V
    BY <1>3
  <2> HIDE DEF pick, step, V
  <2>2. \E g \in [SUBSET D -> V] : Recursion(D, 0, step, pick, g)
    BY <1>2, <2>1, SubsetRecursion
  <2> QED BY <2>2 DEF V
<1>5. ASSUME NEW s \in SUBSET D, s # {}
      PROVE  step[g[s \ {pick[s]}]][pick[s]] = f[CHOOSE x \in s : TRUE] + g[s \ {CHOOSE x \in s : TRUE}]
  BY <1>2, <1>4, <1>5 DEF Picks
<1>6. Solves(g)
  BY <1>4, <1>5 DEF Recursion
<1>7. Solves(table)
  <2> HIDE DEF Solves
  <2> QED BY <1>6
<1> HIDE DEF table
<1>8. SumEquation(f, pick, table)
  BY <1>2, <1>7 DEF SumEquation, Picks
<1> HIDE DEF pick
<1>9. SumTable(D, f, table)
  BY <1>8, AnyOrder
<1> QED BY <1>1, <1>9

\* Two functions that agree on a set have the same sum over it.
LEMMA SumsAgree ==
  ASSUME NEW D, NEW f, NEW ft, SumTable(D, f, ft), NEW E, NEW g, NEW gt, SumTable(E, g, gt),
         NEW S, IsFiniteSet(S), S \subseteq D, S \subseteq E,
         \A x \in S : f[x] = g[x]
  PROVE  ft[S] = gt[S]
<1> DEFINE C == {s \in SUBSET S : ft[s] = gt[s]}
<1>1. {} \in C
  BY DEF SumTable
<1>2. ASSUME NEW s \in SUBSET S, s \in C, NEW x \in S \ s
      PROVE  s \cup {x} \in C
  <2> DEFINE u == s \cup {x}
  <2>1. u \ {x} = s /\ x \in u /\ u \in SUBSET D /\ u \in SUBSET E /\ u \in SUBSET S
    OBVIOUS
  <2> HIDE DEF u
  <2>2. ft[u] = ft[s] + f[x] /\ gt[u] = gt[s] + g[x]
    BY <2>1 DEF SumTable
  <2>3. ft[s] = gt[s] /\ f[x] = g[x]
    BY <1>2
  <2>4. ft[u] = gt[u]
    BY <2>2, <2>3
  <2> QED BY <2>1, <2>4 DEF u
<1> HIDE DEF C
<1>3. S \in C
  BY <1>1, <1>2, AllFiniteSubsets
<1> QED BY <1>3 DEF C

LEMMA SumInt ==
  ASSUME NEW D, IsFiniteSet(D), NEW f \in [D -> Int]
  PROVE  SumOf(f) \in Int
<1>1. PICK table : SumTable(D, f, table) /\ SumOf(f) = table[D]
  BY SumsExist
<1> QED BY <1>1 DEF SumTable

LEMMA SumNone ==
  ASSUME NEW f, f \in [{} -> Int]
  PROVE  SumOf(f) = 0
<1>1. IsFiniteSet({})
  BY FS_EmptySet
<1>2. PICK table : SumTable({}, f, table) /\ SumOf(f) = table[{}]
  BY <1>1, SumsExist
<1> QED BY <1>2 DEF SumTable

\* One element more.
LEMMA SumWith ==
  ASSUME NEW D, IsFiniteSet(D), NEW f \in [D -> Int], NEW x, x \notin D,
         NEW E, E = D \cup {x}, NEW g \in [E -> Int], \A y \in D : g[y] = f[y]
  PROVE  SumOf(g) = SumOf(f) + g[x]
<1>1. IsFiniteSet(E) /\ D \subseteq E /\ E \ {x} = D /\ x \in E
  BY FS_AddElement
<1>2. PICK ft : SumTable(D, f, ft) /\ SumOf(f) = ft[D]
  BY SumsExist
<1>3. PICK gt : SumTable(E, g, gt) /\ SumOf(g) = gt[E]
  BY <1>1, SumsExist
<1>4. ft[D] = gt[D]
  BY <1>1, <1>2, <1>3, SumsAgree
<1>5. gt[E] = gt[D] + g[x]
  <2>1. \A s \in SUBSET E : \A y \in s : gt[s] = gt[s \ {y}] + g[y]
    BY <1>3 DEF SumTable
  <2>2. E \in SUBSET E
    OBVIOUS
  <2>3. gt[E] = gt[E \ {x}] + g[x]
    BY <1>1, <2>1, <2>2
  <2> QED BY <1>1, <2>3
<1> QED BY <1>2, <1>3, <1>4, <1>5

\* One element less.
LEMMA SumWithout ==
  ASSUME NEW E, IsFiniteSet(E), NEW g \in [E -> Int], NEW x \in E,
         NEW D, D = E \ {x}, NEW f \in [D -> Int], \A y \in D : g[y] = f[y]
  PROVE  SumOf(g) = SumOf(f) + g[x]
<1>1. IsFiniteSet(D) /\ E = D \cup {x} /\ x \notin D
  BY FS_Subset
<1> QED BY <1>1, SumWith

\* One element changed.
LEMMA SumChanged ==
  ASSUME NEW D, IsFiniteSet(D), NEW f \in [D -> Int], NEW g \in [D -> Int], NEW x \in D,
         \A y \in D : y # x => g[y] = f[y]
  PROVE  SumOf(g) = SumOf(f) + (g[x] - f[x])
<1> DEFINE R == D \ {x}
           r == [y \in R |-> f[y]]
<1>1. IsFiniteSet(R) /\ D = R \cup {x} /\ x \notin R
  BY FS_Subset
<1>2. r \in [R -> Int] /\ (\A y \in R : f[y] = r[y]) /\ (\A y \in R : g[y] = r[y])
  OBVIOUS
<1> HIDE DEF R, r
<1>3. SumOf(f) = SumOf(r) + f[x]
  BY <1>1, <1>2, SumWith
<1>4. SumOf(g) = SumOf(r) + g[x]
  BY <1>1, <1>2, SumWith
<1>5. SumOf(r) \in Int
  BY <1>1, <1>2, SumInt
<1>6. f[x] \in Int /\ g[x] \in Int
  OBVIOUS
<1> QED BY <1>3, <1>4, <1>5, <1>6

LEMMA SumNat ==
  ASSUME NEW D, IsFiniteSet(D), NEW f \in [D -> Nat]
  PROVE  SumOf(f) \in Nat
<1>1. f \in [D -> Int]
  OBVIOUS
<1>2. PICK table : SumTable(D, f, table) /\ SumOf(f) = table[D]
  BY <1>1, SumsExist
<1> DEFINE C == {s \in SUBSET D : table[s] \in Nat}
<1>3. {} \in C
  BY <1>2 DEF SumTable
<1>4. ASSUME NEW s \in SUBSET D, s \in C, NEW x \in D \ s
      PROVE  s \cup {x} \in C
  <2>1. (s \cup {x}) \ {x} = s /\ s \cup {x} \in SUBSET D
    OBVIOUS
  <2>2. table[s \cup {x}] = table[s] + f[x]
    BY <1>2, <2>1 DEF SumTable
  <2> QED BY <1>4, <2>1, <2>2
<1> HIDE DEF C
<1>5. D \in C
  BY <1>3, <1>4, AllFiniteSubsets
<1> QED BY <1>2, <1>5 DEF C

\* Fewer addends, none of them negative.
LEMMA SumSmaller ==
  ASSUME NEW D, IsFiniteSet(D), NEW f \in [D -> Nat], NEW A \in SUBSET D, NEW g \in [A -> Nat],
         \A y \in A : g[y] = f[y]
  PROVE  SumOf(g) <= SumOf(f)
<1>1. f \in [D -> Int] /\ g \in [A -> Int] /\ IsFiniteSet(A) /\ IsFiniteSet(D \ A)
  BY FS_Subset
<1>2. PICK ft : SumTable(D, f, ft) /\ SumOf(f) = ft[D]
  BY <1>1, SumsExist
<1>3. PICK gt : SumTable(A, g, gt) /\ SumOf(g) = gt[A]
  BY <1>1, SumsExist
<1>4. gt[A] = ft[A]
  BY <1>1, <1>2, <1>3, SumsAgree
<1> DEFINE R == D \ A
           C == {s \in SUBSET R : ft[A] <= ft[A \cup s]}
<1>5. \A s \in SUBSET D : ft[s] \in Int /\ \A x \in s : ft[s] = ft[s \ {x}] + f[x]
  BY <1>2 DEF SumTable
<1>6. {} \in C
  <2>1. A \cup {} = A /\ ft[A] \in Int
    BY <1>5
  <2> QED BY <2>1
<1>7. ASSUME NEW s \in SUBSET R, s \in C, NEW x \in R \ s
      PROVE  s \cup {x} \in C
  <2>1. (A \cup (s \cup {x})) \ {x} = A \cup s /\ A \cup (s \cup {x}) \in SUBSET D
        /\ A \cup s \in SUBSET D
    OBVIOUS
  <2>2. ft[A \cup (s \cup {x})] = ft[A \cup s] + f[x]
    BY <1>5, <2>1
  <2>3. ft[A] \in Int /\ ft[A \cup s] \in Int /\ f[x] \in Nat
    BY <1>5, <2>1
  <2> QED BY <1>7, <2>2, <2>3
<1>8. IsFiniteSet(R) /\ A \cup R = D
  BY <1>1
<1> HIDE DEF C, R
<1>9. R \in C
  BY <1>8, <1>6, <1>7, AllFiniteSubsets
<1> QED BY <1>2, <1>3, <1>4, <1>8, <1>9 DEF C

LEMMA SumOnes ==
  ASSUME NEW n \in Nat, NEW f \in [1 .. n -> {1}]
  PROVE  SumOf(f) = n
<1>1. f \in [1 .. n -> Int] /\ IsFiniteSet(1 .. n)
  BY FS_Interval
<1>2. PICK ft : SumTable(1 .. n, f, ft) /\ SumOf(f) = ft[1 .. n]
  BY <1>1, SumsExist
<1> DEFINE T == {k \in 0 .. n : ft[1 .. k] = k}
<1>3. 0 \in T
  <2>1. 1 .. 0 = {} /\ ft[{}] = 0
    BY <1>2 DEF SumTable
  <2> QED BY <2>1
<1>4. ASSUME NEW k \in 0 .. n - 1, k \in T
      PROVE  k + 1 \in T
  <2>1. k + 1 \in 1 .. k + 1 /\ 1 .. k + 1 \in SUBSET (1 .. n) /\ (1 .. k + 1) \ {k + 1} = 1 .. k
    OBVIOUS
  <2>2. ft[1 .. k + 1] = ft[1 .. k] + f[k + 1]
    BY <1>2, <2>1 DEF SumTable
  <2>3. f[k + 1] = 1 /\ k + 1 \in 0 .. n
    BY <2>1
  <2> QED BY <1>4, <2>2, <2>3
<1> HIDE DEF T
<1>5. 0 .. n \subseteq T
  BY <1>3, <1>4, AllNumbersUpTo
<1>6. n \in T
  BY <1>5
<1> QED BY <1>2, <1>6 DEF T
-----------------------------------------------------------------------------
(***************************************************************************)
(* Folds of a sequence.  FoldLeft is a fold of the set of its indexes that *)
(* begins with the largest, so that the initial segments are what matters. *)
(***************************************************************************)
LEMMA SegmentMax ==
  ASSUME NEW n \in Nat, NEW k \in 1 .. n
  PROVE  /\ 1 .. k \in SUBSET (1 .. n) /\ 1 .. k # {}
         /\ Max(1 .. k) = k
         /\ (1 .. k) \ {k} = 1 .. k - 1
<1>1. k \in 1 .. k /\ (\A y \in 1 .. k : k >= y) /\ 1 .. k \in SUBSET (1 .. n)
  OBVIOUS
<1>2. \A x \in 1 .. k : (\A y \in 1 .. k : x >= y) => x = k
  BY <1>1
<1>3. Max(1 .. k) = k
  BY <1>1, <1>2 DEF Max
<1>4. (1 .. k) \ {k} = 1 .. k - 1
  OBVIOUS
<1> QED BY <1>1, <1>3, <1>4

LEMMA LargestNumber ==
  ASSUME NEW n \in Nat, NEW s \in SUBSET (1 .. n), s # {}
  PROVE  Max(s) \in s
<1> DEFINE T == {n - x : x \in s}
<1>1. T \in SUBSET Nat /\ T # {}
  <2>1. \A x \in s : x \in 1 .. n /\ n - x \in Nat
    OBVIOUS
  <2>2. T \in SUBSET Nat
    BY <2>1
  <2> QED BY <2>2
<1>2. PICK y \in T : \A z \in T : y <= z
  <2> HIDE DEF T
  <2> QED BY <1>1, LeastNumber
<1>3. PICK x \in s : y = n - x
  BY <1>2
<1>4. \A z \in s : x >= z
  <2> SUFFICES ASSUME NEW z \in s PROVE x >= z
    OBVIOUS
  <2>1. n - x <= n - z
    BY <1>2, <1>3
  <2> QED BY <2>1
<1> QED BY <1>3, <1>4 DEF Max

\* The equation of a fold over n elements has a solution.
LastFirst(n) == [s \in SUBSET (1 .. n) |-> Max(s)]

LEMMA SequenceRecursion ==
  ASSUME NEW n \in Nat, NEW V, NEW base \in V, NEW step \in [V -> [1 .. n -> V]]
  PROVE  \E f \in [SUBSET (1 .. n) -> V] : Recursion(1 .. n, base, step, LastFirst(n), f)
<1>1. Picks(LastFirst(n), 1 .. n)
  BY LargestNumber DEF Picks, LastFirst
<1>2. IsFiniteSet(1 .. n)
  BY FS_Interval
<1> QED BY <1>1, <1>2, SubsetRecursion

\* What a solution comes to over the initial segments.
LEMMA SegmentsOf ==
  ASSUME NEW n \in Nat, NEW V, NEW base \in V, NEW step, NEW f,
         \A v \in V : \A i \in 1 .. n : step[v][i] \in V,
         Recursion(1 .. n, base, step, LastFirst(n), f)
  PROVE  /\ f[1 .. 0] = base
         /\ \A k \in 1 .. n : f[1 .. k] = step[f[1 .. k - 1]][k]
         /\ \A k \in 0 .. n : f[1 .. k] \in V
<1>1. f[1 .. 0] = base
  <2>1. 1 .. 0 = {} /\ {} \in SUBSET (1 .. n)
    OBVIOUS
  <2> QED BY <2>1 DEF Recursion
<1>2. ASSUME NEW k \in 1 .. n
      PROVE  f[1 .. k] = step[f[1 .. k - 1]][k]
  <2>1. 1 .. k \in SUBSET (1 .. n) /\ Max(1 .. k) = k
    BY SegmentMax
  <2>2. 1 .. k # {} /\ LastFirst(n)[1 .. k] = k /\ (1 .. k) \ {k} = 1 .. k - 1
    BY <2>1, SegmentMax DEF LastFirst
  <2> QED BY <2>1, <2>2 DEF Recursion
<1>3. 0 .. n \subseteq {k \in 0 .. n : f[1 .. k] \in V}
  <2> DEFINE T == {k \in 0 .. n : f[1 .. k] \in V}
  <2>1. 0 \in T
    BY <1>1
  <2>2. ASSUME NEW k \in 0 .. n - 1, k \in T
        PROVE  k + 1 \in T
    <3>1. k + 1 \in 1 .. n /\ (k + 1) - 1 = k /\ k + 1 \in 0 .. n
      OBVIOUS
    <3>2. f[1 .. k + 1] = step[f[1 .. k]][k + 1]
      BY <1>2, <3>1
    <3> QED BY <2>2, <3>1, <3>2
  <2> HIDE DEF T
  <2>3. 0 .. n \subseteq T
    BY <2>1, <2>2, AllNumbersUpTo
  <2> QED BY <2>3 DEF T
<1> QED BY <1>1, <1>2, <1>3

(***************************************************************************)
(* Keeping the elements of a sequence that are in a set.                   *)
(***************************************************************************)
Kept(seq, S) == FoldLeft(LAMBDA kept, x : IF x \in S THEN Append(kept, x) ELSE kept, <<>>, seq)

LEMMA KeptSegments ==
  ASSUME NEW X, NEW seq \in Seq(X), NEW S
  PROVE  \E h :
           /\ h[0] = <<>> /\ h[Len(seq)] = Kept(seq, S)
           /\ \A k \in 0 .. Len(seq) : h[k] \in Seq(X)
           /\ \A k \in 1 .. Len(seq) :
                h[k] = IF seq[k] \in S THEN Append(h[k - 1], seq[k]) ELSE h[k - 1]
<1> DEFINE n == Len(seq)
           V == Seq(X)
           step == [v \in V |-> [i \in 1 .. n |-> IF seq[i] \in S THEN Append(v, seq[i]) ELSE v]]
           Solves(it) ==
             it = [s \in SUBSET (1 .. n) |->
                     IF s = {} THEN <<>>
                     ELSE LET i == Max(s)
                          IN  IF seq[i] \in S THEN Append(it[s \ {i}], seq[i]) ELSE it[s \ {i}]]
           it == CHOOSE it : Solves(it)
<1>0. n \in Nat /\ DOMAIN seq = 1 .. n /\ \A i \in 1 .. n : seq[i] \in X
  OBVIOUS
<1>1. Kept(seq, S) = it[1 .. n]
  BY <1>0 DEF Kept, FoldLeft, MapThenFoldSet
<1>2. step \in [V -> [1 .. n -> V]] /\ <<>> \in V
  BY <1>0
<1>3. PICK f \in [SUBSET (1 .. n) -> V] : Recursion(1 .. n, <<>>, step, LastFirst(n), f)
  <2> HIDE DEF step, V, n
  <2> QED BY <1>0, <1>2, SequenceRecursion
<1>4. Solves(f)
  <2>1. ASSUME NEW s \in SUBSET (1 .. n)
        PROVE  f[s] = IF s = {} THEN <<>>
                      ELSE LET i == Max(s)
                           IN  IF seq[i] \in S THEN Append(f[s \ {i}], seq[i]) ELSE f[s \ {i}]
    <3>1. CASE s = {}
      BY <1>3, <3>1 DEF Recursion
    <3>2. CASE s # {}
      <4>1. Max(s) \in 1 .. n /\ LastFirst(n)[s] = Max(s) /\ f[s \ {Max(s)}] \in V
        BY <1>0, <1>3, <3>2, LargestNumber DEF LastFirst
      <4>2. f[s] = step[f[s \ {Max(s)}]][Max(s)]
        BY <1>3, <3>2, <4>1 DEF Recursion
      <4> QED BY <3>2, <4>1, <4>2
    <3> QED BY <3>1, <3>2
  <2> QED BY <1>3, <2>1
<1>5. Solves(it)
  <2> HIDE DEF Solves
  <2> QED BY <1>4
<1> HIDE DEF it
<1>6. it[1 .. 0] = <<>>
  BY <1>5
<1>7. ASSUME NEW k \in 1 .. n
      PROVE  it[1 .. k] = IF seq[k] \in S THEN Append(it[1 .. k - 1], seq[k]) ELSE it[1 .. k - 1]
  <2>1. 1 .. k \in SUBSET (1 .. n) /\ 1 .. k # {} /\ Max(1 .. k) = k /\ (1 .. k) \ {k} = 1 .. k - 1
    <3> HIDE DEF n
    <3> QED BY <1>0, SegmentMax
  <2> QED BY <1>5, <2>1
<1> DEFINE h == [k \in 0 .. n |-> it[1 .. k]]
<1>8. h[0] = <<>> /\ h[n] = Kept(seq, S)
  BY <1>0, <1>1, <1>6
<1>9. ASSUME NEW k \in 1 .. n
      PROVE  h[k] = IF seq[k] \in S THEN Append(h[k - 1], seq[k]) ELSE h[k - 1]
  BY <1>0, <1>7
<1> HIDE DEF h
<1>10. \A k \in 0 .. n : h[k] \in Seq(X)
  <2> DEFINE T == {k \in 0 .. n : h[k] \in Seq(X)}
  <2>1. 0 \in T
    <3>1. h[0] \in Seq(X) /\ 0 \in 0 .. n
      BY <1>0, <1>8
    <3> QED BY <3>1
  <2>2. ASSUME NEW k \in 0 .. n - 1, k \in T
        PROVE  k + 1 \in T
    <3>1. k + 1 \in 1 .. n /\ (k + 1) - 1 = k /\ k + 1 \in 0 .. n
      OBVIOUS
    <3>2. h[k + 1] = IF seq[k + 1] \in S THEN Append(h[k], seq[k + 1]) ELSE h[k]
      BY <1>9, <3>1
    <3>3. seq[k + 1] \in X /\ h[k] \in Seq(X)
      BY <1>0, <2>2, <3>1
    <3>4. h[k + 1] \in Seq(X)
      BY <3>2, <3>3
    <3> QED BY <3>1, <3>4
  <2> HIDE DEF T
  <2>3. 0 .. n \subseteq T
    BY <1>0, <2>1, <2>2, AllNumbersUpTo
  <2> QED BY <2>3 DEF T
<1> QED BY <1>8, <1>9, <1>10

LEMMA AppendSet ==
  ASSUME NEW X, NEW seq \in Seq(X), NEW x \in X
  PROVE  ToSet(Append(seq, x)) = ToSet(seq) \cup {x}
<1> DEFINE n == Len(seq)
           more == Append(seq, x)
<1>1. n \in Nat /\ DOMAIN seq = 1 .. n /\ DOMAIN more = 1 .. n + 1 /\ more[n + 1] = x
  OBVIOUS
<1>2. \A i \in 1 .. n : more[i] = seq[i]
  OBVIOUS
<1>3. 1 .. n + 1 = (1 .. n) \cup {n + 1}
  BY <1>1
<1> HIDE DEF n, more
<1>4. ToSet(more) = ToSet(seq) \cup {x}
  BY <1>1, <1>2, <1>3 DEF ToSet
<1> QED BY <1>4 DEF more

\* What is kept: the elements in the set, all of the sequence if they all are.
LEMMA KeptFacts ==
  ASSUME NEW X, NEW seq \in Seq(X), NEW S
  PROVE  /\ Kept(seq, S) \in Seq(X)
         /\ ToSet(Kept(seq, S)) = ToSet(seq) \cap S
         /\ (\A i \in DOMAIN seq : seq[i] \in S) => Kept(seq, S) = seq
<1> DEFINE n == Len(seq)
<1>0. n \in Nat /\ DOMAIN seq = 1 .. n /\ \A i \in 1 .. n : seq[i] \in X
  OBVIOUS
<1>1. PICK h :
        /\ h[0] = <<>> /\ h[n] = Kept(seq, S)
        /\ \A k \in 0 .. n : h[k] \in Seq(X)
        /\ \A k \in 1 .. n : h[k] = IF seq[k] \in S THEN Append(h[k - 1], seq[k]) ELSE h[k - 1]
  BY KeptSegments
<1> HIDE DEF n
<1>2. ASSUME NEW k \in 0 .. n - 1
      PROVE  /\ k + 1 \in 1 .. n /\ k \in 0 .. n /\ k + 1 \in 0 .. n
             /\ h[k + 1] = IF seq[k + 1] \in S THEN Append(h[k], seq[k + 1]) ELSE h[k]
  <2>1. k + 1 \in 1 .. n /\ k \in 0 .. n /\ k + 1 \in 0 .. n /\ (k + 1) - 1 = k
    BY <1>0
  <2> QED BY <1>1, <2>1
<1>3. ToSet(h[n]) = {seq[i] : i \in 1 .. n} \cap S
  <2> DEFINE T == {k \in 0 .. n : ToSet(h[k]) = {seq[i] : i \in 1 .. k} \cap S}
  <2>1. 0 \in T
    <3>1. ToSet(h[0]) = {} /\ 1 .. 0 = {} /\ 0 \in 0 .. n
      BY <1>0, <1>1 DEF ToSet
    <3> QED BY <3>1
  <2>2. ASSUME NEW k \in 0 .. n - 1, k \in T
        PROVE  k + 1 \in T
    <3>1. 1 .. k + 1 = (1 .. k) \cup {k + 1}
      BY <1>0
    <3>2. {seq[i] : i \in 1 .. k + 1} = {seq[i] : i \in 1 .. k} \cup {seq[k + 1]}
      BY <3>1
    <3>3. ToSet(h[k]) = {seq[i] : i \in 1 .. k} \cap S
      BY <2>2
    <3>4. CASE seq[k + 1] \in S
      <4>1. h[k + 1] = Append(h[k], seq[k + 1]) /\ h[k] \in Seq(X) /\ seq[k + 1] \in X
        BY <1>0, <1>1, <1>2, <3>4
      <4>2. ToSet(h[k + 1]) = ToSet(h[k]) \cup {seq[k + 1]}
        BY <4>1, AppendSet
      <4> QED BY <1>2, <3>2, <3>3, <3>4, <4>2
    <3>5. CASE seq[k + 1] \notin S
      <4>1. h[k + 1] = h[k]
        BY <1>2, <3>5
      <4> QED BY <1>2, <3>2, <3>3, <3>5, <4>1
    <3> QED BY <3>4, <3>5
  <2> HIDE DEF T
  <2>3. 0 .. n \subseteq T /\ n \in 0 .. n
    BY <1>0, <2>1, <2>2, AllNumbersUpTo
  <2> QED BY <2>3 DEF T
<1>4. ASSUME \A i \in 1 .. n : seq[i] \in S
      PROVE  h[n] = seq
  <2> DEFINE T == {k \in 0 .. n : Len(h[k]) = k /\ \A i \in 1 .. k : h[k][i] = seq[i]}
  <2>1. 0 \in T
    BY <1>0, <1>1
  <2>2. ASSUME NEW k \in 0 .. n - 1, k \in T
        PROVE  k + 1 \in T
    <3>1. h[k + 1] = Append(h[k], seq[k + 1]) /\ h[k] \in Seq(X) /\ seq[k + 1] \in X
      BY <1>0, <1>1, <1>2, <1>4
    <3>2. Len(h[k]) = k /\ k \in Nat /\ \A i \in 1 .. k : h[k][i] = seq[i]
      BY <2>2, <1>0
    <3>3. Len(h[k + 1]) = k + 1
      BY <3>1, <3>2
    <3>4. ASSUME NEW i \in 1 .. k + 1
          PROVE  h[k + 1][i] = seq[i]
      <4>1. CASE i = k + 1
        BY <3>1, <3>2, <4>1
      <4>2. CASE i \in 1 .. k
        BY <3>1, <3>2, <4>2
      <4> QED BY <3>2, <4>1, <4>2
    <3> QED BY <1>2, <3>3, <3>4
  <2> HIDE DEF T
  <2>3. 0 .. n \subseteq T /\ n \in 0 .. n
    BY <1>0, <2>1, <2>2, AllNumbersUpTo
  <2>4. Len(h[n]) = n /\ h[n] \in Seq(X) /\ \A i \in 1 .. n : h[n][i] = seq[i]
    BY <1>1, <2>3 DEF T
  <2> QED BY <1>0, <2>4 DEF n
<1>5. ToSet(seq) = {seq[i] : i \in 1 .. n}
  BY <1>0 DEF ToSet
<1>6. Kept(seq, S) \in Seq(X)
  BY <1>0, <1>1
<1> QED BY <1>0, <1>1, <1>3, <1>4, <1>5, <1>6

(***************************************************************************)
(* Adding up the weights of the elements of a sequence.                    *)
(***************************************************************************)
Weighed(weight, seq) == FoldLeft(LAMBDA sum, x : sum + weight[x], 0, seq)

LEMMA WeighedNat ==
  ASSUME NEW X, NEW seq \in Seq(X), NEW weight \in [X -> Nat]
  PROVE  Weighed(weight, seq) \in Nat
<1> DEFINE n == Len(seq)
           V == Nat
           step == [v \in V |-> [i \in 1 .. n |-> v + weight[seq[i]]]]
           Solves(it) ==
             it = [s \in SUBSET (1 .. n) |->
                     IF s = {} THEN 0 ELSE LET i == Max(s) IN it[s \ {i}] + weight[seq[i]]]
           it == CHOOSE it : Solves(it)
<1>0. n \in Nat /\ DOMAIN seq = 1 .. n /\ \A i \in 1 .. n : weight[seq[i]] \in Nat
  OBVIOUS
<1>1. Weighed(weight, seq) = it[1 .. n]
  BY <1>0 DEF Weighed, FoldLeft, MapThenFoldSet
<1>2. step \in [V -> [1 .. n -> V]] /\ 0 \in V
  BY <1>0
<1>3. PICK f \in [SUBSET (1 .. n) -> V] : Recursion(1 .. n, 0, step, LastFirst(n), f)
  <2> HIDE DEF step, V, n
  <2> QED BY <1>0, <1>2, SequenceRecursion
<1>4. Solves(f)
  <2>1. ASSUME NEW s \in SUBSET (1 .. n)
        PROVE  f[s] = IF s = {} THEN 0 ELSE LET i == Max(s) IN f[s \ {i}] + weight[seq[i]]
    <3>1. CASE s = {}
      BY <1>3, <3>1 DEF Recursion
    <3>2. CASE s # {}
      <4>1. Max(s) \in 1 .. n /\ LastFirst(n)[s] = Max(s) /\ f[s \ {Max(s)}] \in V
        BY <1>0, <1>3, <3>2, LargestNumber DEF LastFirst
      <4>2. f[s] = step[f[s \ {Max(s)}]][Max(s)]
        BY <1>3, <3>2, <4>1 DEF Recursion
      <4> QED BY <3>2, <4>1, <4>2
    <3> QED BY <3>1, <3>2
  <2> QED BY <1>3, <2>1
<1>5. Solves(it)
  <2> HIDE DEF Solves
  <2> QED BY <1>4
<1> HIDE DEF it
<1>6. it[1 .. 0] = 0
  BY <1>5
<1>7. ASSUME NEW k \in 1 .. n
      PROVE  it[1 .. k] = it[1 .. k - 1] + weight[seq[k]]
  <2>1. 1 .. k \in SUBSET (1 .. n) /\ 1 .. k # {} /\ Max(1 .. k) = k /\ (1 .. k) \ {k} = 1 .. k - 1
    <3> HIDE DEF n
    <3> QED BY <1>0, SegmentMax
  <2> QED BY <1>5, <2>1
<1> DEFINE T == {k \in 0 .. n : it[1 .. k] \in Nat}
<1>8. 0 \in T
  BY <1>0, <1>6
<1>9. ASSUME NEW k \in 0 .. n - 1, k \in T
      PROVE  k + 1 \in T
  <2>1. k + 1 \in 1 .. n /\ (k + 1) - 1 = k /\ k + 1 \in 0 .. n /\ it[1 .. k] \in Nat
    BY <1>0, <1>9
  <2>2. it[1 .. k + 1] = it[1 .. k] + weight[seq[k + 1]]
    BY <1>7, <2>1
  <2> QED BY <1>0, <2>1, <2>2
<1> HIDE DEF T, n
<1>10. 0 .. n \subseteq T /\ n \in 0 .. n
  <2>1. n \in Nat /\ n \in 0 .. n
    BY <1>0
  <2>2. \A k \in 0 .. n - 1 : k \in T => k + 1 \in T
    BY <1>9
  <2> QED BY <1>8, <2>1, <2>2, AllNumbersUpTo
<1> QED BY <1>1, <1>10 DEF T
=============================================================================
