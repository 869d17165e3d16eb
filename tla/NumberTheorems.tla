--------------------------- MODULE NumberTheorems ---------------------------
(***************************************************************************)
(* What the proofs of several modules need of numbers, beside the library.  *)
(***************************************************************************)
EXTENDS TLAPS, WellFoundedInduction, NaturalsInduction, Functions, FiniteSetTheorems

\* The least-number principle, for a set.
LEMMA LeastNumber ==
    ASSUME NEW T \in SUBSET Nat, T # {}
    PROVE  \E n \in T : \A m \in T : n <= m
<1>1. \E R : IsWellFoundedOn(R, Nat) /\ \A m, n \in Nat : <<m, n>> \in R <=> m < n
    <2>. DEFINE Less == OpToRel(<, Nat)
    <2>1. IsWellFoundedOn(Less, Nat)
        BY NatLessThanWellFounded
    <2>2. \A m, n \in Nat : <<m, n>> \in Less <=> m < n
        BY DEF OpToRel
    <2>. HIDE DEF Less
    <2>. QED BY <2>1, <2>2, Zenon
<1>2. PICK R : IsWellFoundedOn(R, Nat) /\ \A m, n \in Nat : <<m, n>> \in R <=> m < n
    BY <1>1
<1>3. PICK n \in T : \A m \in T : ~ (<<m, n>> \in R)
    <2>1. T \subseteq Nat
        OBVIOUS
    <2>2. IsWellFoundedOn(R, Nat)
        BY <1>2
    <2>. QED BY <2>1, <2>2, WFMin, Zenon
<1>4. \A m \in T : m \in Nat /\ ~(m < n)
    BY <1>2, <1>3
<1>. QED BY <1>3, <1>4

-----------------------------------------------------------------------------
(* Sums of a function over a finite set (SumFunctionOnSet).                *)

\* g is the sum of f over each of the sets F, as SumFunctionOnSet unfolds it.
Summing(g, f, F) ==
    \A s \in F : g[s] = IF s = {} THEN 0
                        ELSE f[CHOOSE x \in s : TRUE] + g[s \ {CHOOSE x \in s : TRUE}]

\* The sets of at most k elements have such a sum, whatever k.
LEMMA SumExists ==
    ASSUME NEW S, IsFiniteSet(S), NEW f, \A x \in S : f[x] \in Nat
    PROVE  \E g \in [SUBSET S -> Nat] : Summing(g, f, SUBSET S)
<1>. DEFINE Small(k) == {s \in SUBSET S : Cardinality(s) <= k}
            Bad == {k \in Nat : ~ \E g \in [Small(k) -> Nat] : Summing(g, f, Small(k))}
<1>1. \A s \in SUBSET S : IsFiniteSet(s) /\ Cardinality(s) \in Nat /\ (Cardinality(s) = 0 <=> s = {})
    BY FS_Subset, FS_CardinalityType, FS_EmptySet
<1>2. ASSUME NEW s \in SUBSET S, s # {}
      PROVE  /\ (CHOOSE x \in s : TRUE) \in s
             /\ Cardinality(s \ {CHOOSE x \in s : TRUE}) = Cardinality(s) - 1
    <2>1. (CHOOSE x \in s : TRUE) \in s
        BY <1>2
    <2>. QED BY <1>1, <2>1, FS_RemoveElement
<1>3. Bad = {}
    <2>. SUFFICES ASSUME Bad # {} PROVE FALSE
        OBVIOUS
    <2>1. PICK k \in Bad : \A j \in Bad : k <= j
        <3>. HIDE DEF Small
        <3>. QED BY LeastNumber
    <2>2. k # 0
        <3>. SUFFICES ASSUME k = 0 PROVE FALSE
            OBVIOUS
        <3>1. \A s \in Small(k) : s = {}
            BY <1>1
        <3>2. [s \in Small(k) |-> 0] \in [Small(k) -> Nat]
            OBVIOUS
        <3>3. Summing([s \in Small(k) |-> 0], f, Small(k))
            BY <3>1 DEF Summing
        <3>. HIDE DEF Small
        <3>. QED BY <2>1, <3>2, <3>3
    <2>3. k - 1 \in Nat /\ ~(k <= k - 1)
        BY <2>1, <2>2
    <2>4. PICK g \in [Small(k - 1) -> Nat] : Summing(g, f, Small(k - 1))
        <3>. HIDE DEF Small
        <3>. QED BY <2>1, <2>3
    <2>. DEFINE h == [s \in Small(k) |-> IF s = {} THEN 0
                        ELSE f[CHOOSE x \in s : TRUE] + g[s \ {CHOOSE x \in s : TRUE}]]
    <2>5. ASSUME NEW s \in Small(k), s # {}
          PROVE  /\ f[CHOOSE x \in s : TRUE] \in Nat
                 /\ s \ {CHOOSE x \in s : TRUE} \in Small(k - 1)
                 /\ s \ {CHOOSE x \in s : TRUE} \in Small(k)
        <3>1. Cardinality(s) <= k /\ Cardinality(s) \in Nat /\ k \in Nat
            BY <1>1, <2>1
        <3>2. Cardinality(s \ {CHOOSE x \in s : TRUE}) <= k - 1
              /\ Cardinality(s \ {CHOOSE x \in s : TRUE}) <= k
            BY <1>2, <2>5, <3>1
        <3>. QED BY <1>2, <2>5, <3>2
    <2>6. h \in [Small(k) -> Nat]
        <3>1. ASSUME NEW s \in Small(k) PROVE h[s] \in Nat
            <4>1. s # {} => g[s \ {CHOOSE x \in s : TRUE}] \in Nat
                BY <2>5
            <4>. HIDE DEF Small
            <4>. QED BY <4>1, <2>5
        <3>. HIDE DEF Small
        <3>. QED BY <3>1
    <2>7. \A s \in Small(k - 1) : s \in Small(k) /\ h[s] = g[s]
        <3>1. ASSUME NEW s \in Small(k - 1) PROVE s \in Small(k)
            BY <1>1, <2>1
        <3>. HIDE DEF Small
        <3>. QED BY <2>4, <3>1 DEF Summing
    <2>8. Summing(h, f, Small(k))
        <3>. SUFFICES ASSUME NEW s \in Small(k)
                      PROVE  h[s] = IF s = {} THEN 0
                                ELSE f[CHOOSE x \in s : TRUE] + h[s \ {CHOOSE x \in s : TRUE}]
            BY DEF Summing
        <3>1. s # {} => h[s \ {CHOOSE x \in s : TRUE}] = g[s \ {CHOOSE x \in s : TRUE}]
            BY <2>5, <2>7
        <3>. HIDE DEF Small
        <3>. QED BY <3>1
    <2>. HIDE DEF Small, h
    <2>. QED BY <2>1, <2>6, <2>8
<1>4. Small(Cardinality(S)) = SUBSET S
    BY <1>1, FS_Subset
<1>5. Cardinality(S) \in Nat
    BY FS_CardinalityType
<1>. HIDE DEF Small
<1>6. \E g \in [Small(Cardinality(S)) -> Nat] : Summing(g, f, Small(Cardinality(S)))
    BY <1>3, <1>5
<1>. QED BY <1>4, <1>6

\* There is only one.
LEMMA SumUnique ==
    ASSUME NEW S, IsFiniteSet(S), NEW f, NEW e, \A x \in S : f[x] = e[x],
           NEW g, Summing(g, f, SUBSET S), NEW h, Summing(h, e, SUBSET S)
    PROVE  \A s \in SUBSET S : g[s] = h[s]
<1>. DEFINE Bad == {k \in Nat : \E s \in SUBSET S : Cardinality(s) = k /\ g[s] # h[s]}
<1>1. \A s \in SUBSET S : IsFiniteSet(s) /\ Cardinality(s) \in Nat
    BY FS_Subset, FS_CardinalityType
<1>2. Bad = {}
    <2>. SUFFICES ASSUME Bad # {} PROVE FALSE
        OBVIOUS
    <2>1. PICK k \in Bad : \A j \in Bad : k <= j
        BY LeastNumber
    <2>2. PICK s \in SUBSET S : Cardinality(s) = k /\ g[s] # h[s]
        OBVIOUS
    <2>3. s # {}
        BY <2>2 DEF Summing
    <2>4. PICK c : c = CHOOSE x \in s : TRUE
        OBVIOUS
    <2>5. c \in s
        BY <2>3, <2>4
    <2>6. g[s] = f[c] + g[s \ {c}] /\ h[s] = f[c] + h[s \ {c}]
        <3>1. f[c] = e[c]
            BY <2>5
        <3>. QED BY <2>3, <2>4, <3>1 DEF Summing
    <2>7. Cardinality(s \ {c}) = k - 1 /\ Cardinality(s \ {c}) \in Nat /\ s \ {c} \in SUBSET S
        BY <1>1, <2>2, <2>5, FS_RemoveElement
    <2>8. g[s \ {c}] = h[s \ {c}]
        <3>1. k - 1 \notin Bad
            BY <2>1, <2>7
        <3>. QED BY <2>7, <3>1
    <2>. QED BY <2>2, <2>6, <2>8
<1>. QED BY <1>1, <1>2

\* SumFunctionOnSet is the sum of all.
LEMMA SumIsSumming ==
    ASSUME NEW S, IsFiniteSet(S), NEW f, \A x \in S : f[x] \in Nat
    PROVE  \E g \in [SUBSET S -> Nat] : Summing(g, f, SUBSET S) /\ SumFunctionOnSet(f, S) = g[S]
<1>. DEFINE Step(g) == [s \in SUBSET S |-> IF s = {} THEN 0
                        ELSE f[CHOOSE x \in s : TRUE] + g[s \ {CHOOSE x \in s : TRUE}]]
            iter == CHOOSE g : g = Step(g)
<1>1. PICK g \in [SUBSET S -> Nat] : Summing(g, f, SUBSET S)
    BY SumExists
<1>2. g = Step(g)
    BY <1>1 DEF Summing
<1>3. iter = Step(iter)
    BY <1>2
<1>4. SumFunctionOnSet(f, S) = iter[S]
    BY DEF SumFunctionOnSet, FoldFunctionOnSet, MapThenFoldSet
<1>. HIDE DEF iter
<1>5. Summing(iter, f, SUBSET S)
    BY <1>3 DEF Summing
<1>6. g[S] = iter[S]
    BY <1>1, <1>5, SumUnique
<1>. QED BY <1>1, <1>4, <1>6

\* Any element may be taken out first.
LEMMA SumTakes ==
    ASSUME NEW S, IsFiniteSet(S), NEW f, \A x \in S : f[x] \in Nat,
           NEW g \in [SUBSET S -> Nat], Summing(g, f, SUBSET S)
    PROVE  \A s \in SUBSET S : \A x \in s : g[s] = f[x] + g[s \ {x}]
<1>. DEFINE Bad == {k \in Nat : \E s \in SUBSET S : \E x \in s :
                                    Cardinality(s) = k /\ g[s] # f[x] + g[s \ {x}]}
<1>1. \A s \in SUBSET S : IsFiniteSet(s) /\ Cardinality(s) \in Nat
    BY FS_Subset, FS_CardinalityType
<1>2. Bad = {}
    <2>. SUFFICES ASSUME Bad # {} PROVE FALSE
        OBVIOUS
    <2>1. PICK k \in Bad : \A j \in Bad : k <= j
        BY LeastNumber
    <2>2a. PICK s \in SUBSET S : \E x \in s : Cardinality(s) = k /\ g[s] # f[x] + g[s \ {x}]
        OBVIOUS
    <2>2. PICK x \in s : Cardinality(s) = k /\ g[s] # f[x] + g[s \ {x}]
        BY <2>2a
    <2>3. PICK c : c = CHOOSE y \in s : TRUE
        OBVIOUS
    <2>4. c \in s
        BY <2>3
    <2>5. g[s] = f[c] + g[s \ {c}]
        BY <2>3, <2>4 DEF Summing
    <2>6. c # x
        BY <2>2, <2>5
    <2>7. /\ Cardinality(s \ {c}) = k - 1 /\ Cardinality(s \ {x}) = k - 1 /\ k - 1 \in Nat
          /\ s \ {c} \in SUBSET S /\ s \ {x} \in SUBSET S
        <3>1. s \ {c} \in SUBSET S /\ s \ {x} \in SUBSET S
            OBVIOUS
        <3>2. Cardinality(s \ {c}) = Cardinality(s) - 1 /\ Cardinality(s \ {x}) = Cardinality(s) - 1
            BY <1>1, <2>2, <2>4, FS_RemoveElement
        <3>3. Cardinality(s \ {c}) \in Nat
            BY <1>1, <3>1
        <3>. QED BY <2>2, <3>1, <3>2, <3>3
    <2>8. k - 1 \notin Bad
        <3>1. ~(k <= k - 1)
            BY <2>1
        <3>. HIDE DEF Bad
        <3>. QED BY <2>1, <3>1
    <2>9. g[s \ {c}] = f[x] + g[(s \ {c}) \ {x}] /\ g[s \ {x}] = f[c] + g[(s \ {x}) \ {c}]
        <3>1. x \in s \ {c} /\ c \in s \ {x}
            BY <2>2, <2>4, <2>6
        <3>. QED BY <2>7, <2>8, <3>1
    <2>10. (s \ {c}) \ {x} = (s \ {x}) \ {c}
        OBVIOUS
    <2>11. PICK r : r = g[(s \ {c}) \ {x}] /\ r \in Nat
        OBVIOUS
    <2>12. f[c] \in Nat /\ f[x] \in Nat
        BY <2>2, <2>4
    <2>13. g[s] = f[c] + (f[x] + r) /\ g[s \ {x}] = f[c] + r
        BY <2>5, <2>9, <2>10, <2>11
    <2>14. f[x] + g[s \ {x}] = f[x] + (f[c] + r)
        BY <2>13
    <2>15. f[c] + (f[x] + r) = f[x] + (f[c] + r)
        BY <2>11, <2>12
    <2>. QED BY <2>2, <2>13, <2>14, <2>15
<1>. QED BY <1>1, <1>2

\* SumFunctionOnSet is a number, and the sum without an element plus that element's.
LEMMA SumOnSet ==
    ASSUME NEW S, IsFiniteSet(S), NEW f, \A x \in S : f[x] \in Nat
    PROVE  /\ SumFunctionOnSet(f, S) \in Nat
           /\ S = {} => SumFunctionOnSet(f, S) = 0
           /\ \A x \in S : SumFunctionOnSet(f, S) = f[x] + SumFunctionOnSet(f, S \ {x})
<1>1. PICK g \in [SUBSET S -> Nat] : Summing(g, f, SUBSET S) /\ SumFunctionOnSet(f, S) = g[S]
    BY SumIsSumming
<1>2. S \in SUBSET S
    OBVIOUS
<1>3. S = {} => SumFunctionOnSet(f, S) = 0
    BY <1>1, <1>2 DEF Summing
<1>4. ASSUME NEW x \in S
      PROVE  SumFunctionOnSet(f, S) = f[x] + SumFunctionOnSet(f, S \ {x})
    <2>. DEFINE R == S \ {x}
    <2>1. IsFiniteSet(R) /\ \A y \in R : f[y] \in Nat
        BY FS_Subset
    <2>2. R \in SUBSET S /\ R \in SUBSET R /\ SUBSET R \subseteq SUBSET S
        OBVIOUS
    <2>. HIDE DEF R
    <2>3. PICK h \in [SUBSET R -> Nat] : Summing(h, f, SUBSET R) /\ SumFunctionOnSet(f, R) = h[R]
        BY <2>1, SumIsSumming
    <2>4. Summing(g, f, SUBSET R)
        BY <1>1, <2>2 DEF Summing
    <2>5. g[R] = h[R]
        BY <2>1, <2>2, <2>3, <2>4, SumUnique
    <2>6. g[S] = f[x] + g[R]
        BY <1>1, SumTakes DEF R
    <2>7. SumFunctionOnSet(f, S) = f[x] + SumFunctionOnSet(f, R)
        BY <1>1, <2>3, <2>5, <2>6
    <2>. QED BY <2>7 DEF R
<1>. QED BY <1>1, <1>2, <1>3, <1>4

\* It goes by the values on the set alone.
LEMMA SumAgrees ==
    ASSUME NEW S, IsFiniteSet(S), NEW f, NEW e, \A x \in S : f[x] \in Nat /\ f[x] = e[x]
    PROVE  SumFunctionOnSet(f, S) = SumFunctionOnSet(e, S)
<1>1. PICK g \in [SUBSET S -> Nat] : Summing(g, f, SUBSET S) /\ SumFunctionOnSet(f, S) = g[S]
    BY SumIsSumming
<1>2. \A x \in S : e[x] \in Nat
    OBVIOUS
<1>3. PICK h \in [SUBSET S -> Nat] : Summing(h, e, SUBSET S) /\ SumFunctionOnSet(e, S) = h[S]
    BY <1>2, SumIsSumming
<1>4. \A s \in SUBSET S : g[s] = h[s]
    BY <1>1, <1>3, SumUnique
<1>. QED BY <1>1, <1>3, <1>4

\* The sizes of sets that are apart sum up to the size of their union.
LEMMA SumOfCardinalities ==
    ASSUME NEW S, IsFiniteSet(S), NEW U, IsFiniteSet(U), NEW B \in [S -> SUBSET U],
           NEW f, \A x \in S : f[x] = Cardinality(B[x]),
           \A x, y \in S : x # y => B[x] \cap B[y] = {}
    PROVE  SumFunctionOnSet(f, S) = Cardinality(UNION {B[x] : x \in S})
           /\ SumFunctionOnSet(f, S) <= Cardinality(U)
<1>. DEFINE All(s) == UNION {B[x] : x \in s}
            Bad == {k \in Nat : \E s \in SUBSET S :
                        Cardinality(s) = k /\ SumFunctionOnSet(f, s) # Cardinality(All(s))}
<1>1. \A s \in SUBSET S : IsFiniteSet(s) /\ Cardinality(s) \in Nat /\ All(s) \in SUBSET U
    BY FS_Subset, FS_CardinalityType
<1>2. \A s \in SUBSET U : IsFiniteSet(s) /\ Cardinality(s) \in Nat /\ Cardinality(s) <= Cardinality(U)
    BY FS_Subset, FS_CardinalityType
<1>3. \A x \in S : f[x] \in Nat
    BY <1>2
<1>4. Bad = {}
    <2>. SUFFICES ASSUME Bad # {} PROVE FALSE
        OBVIOUS
    <2>1. PICK k \in Bad : \A j \in Bad : k <= j
        <3>. HIDE DEF All
        <3>. QED BY LeastNumber
    <2>2. PICK s \in SUBSET S : Cardinality(s) = k /\ SumFunctionOnSet(f, s) # Cardinality(All(s))
        <3>. HIDE DEF All
        <3>. QED OBVIOUS
    <2>3. s # {}
        <3>. SUFFICES ASSUME s = {} PROVE FALSE
            OBVIOUS
        <3>1. All(s) = {}
            OBVIOUS
        <3>2. SumFunctionOnSet(f, s) = 0
            BY <1>1, <1>3, SumOnSet
        <3>. QED BY <2>2, <3>1, <3>2, FS_EmptySet
    <2>4. PICK x \in s : TRUE
        BY <2>3
    <2>. DEFINE R == s \ {x}
    <2>5. Cardinality(R) = k - 1 /\ k - 1 \in Nat /\ R \in SUBSET S
        <3>1. R \in SUBSET S
            OBVIOUS
        <3>2. Cardinality(R) = Cardinality(s) - 1
            BY <1>1, <2>4, FS_RemoveElement
        <3>3. Cardinality(R) \in Nat
            BY <1>1, <3>1
        <3>. QED BY <2>2, <3>1, <3>2, <3>3
    <2>6. SumFunctionOnSet(f, R) = Cardinality(All(R))
        <3>1. k - 1 \notin Bad
            <4>. HIDE DEF All
            <4>. QED BY <2>1, <2>5
        <3>. HIDE DEF All, R
        <3>. QED BY <2>5, <3>1
    <2>7. All(s) = B[x] \cup All(R) /\ B[x] \cap All(R) = {}
        BY <2>2, <2>4
    <2>8. Cardinality(All(s)) = Cardinality(B[x]) + Cardinality(All(R))
        <3>. HIDE DEF All, R
        <3>1. All(R) \in SUBSET U /\ B[x] \in SUBSET U
            BY <1>1, <2>5, <2>4
        <3>2. Cardinality(B[x] \cup All(R))
                = Cardinality(B[x]) + Cardinality(All(R)) - Cardinality(B[x] \cap All(R))
            BY <1>2, <3>1, FS_Union
        <3>3. Cardinality(B[x] \cap All(R)) = 0
            BY <2>7, FS_EmptySet
        <3>. QED BY <1>2, <2>7, <3>1, <3>2, <3>3
    <2>9. SumFunctionOnSet(f, s) = f[x] + SumFunctionOnSet(f, R)
        <3>1. IsFiniteSet(s) /\ \A y \in s : f[y] \in Nat
            BY <1>1, <1>3
        <3>. QED BY <2>4, <3>1, SumOnSet
    <2>. HIDE DEF All, R
    <2>. QED BY <2>2, <2>6, <2>8, <2>9
<1>5. SumFunctionOnSet(f, S) = Cardinality(All(S))
    <2>. HIDE DEF All
    <2>. QED BY <1>1, <1>4
<1>6. All(S) \in SUBSET U
    OBVIOUS
<1>. QED BY <1>2, <1>5, <1>6

\* A sum of which one term changes.
LEMMA SumWithChange ==
    ASSUME NEW S, IsFiniteSet(S), NEW x \in S, NEW f, NEW e,
           \A y \in S : f[y] \in Nat /\ e[y] \in Nat /\ (y # x => e[y] = f[y])
    PROVE  SumFunctionOnSet(e, S) + f[x] = SumFunctionOnSet(f, S) + e[x]
<1>1. IsFiniteSet(S \ {x})
    BY FS_Subset
<1>2. PICK rest : rest = SumFunctionOnSet(f, S \ {x}) /\ rest \in Nat
    BY <1>1, SumOnSet
<1>3. SumFunctionOnSet(e, S \ {x}) = rest
    BY <1>1, <1>2, SumAgrees
<1>4. SumFunctionOnSet(f, S) = f[x] + rest
    BY <1>2, SumOnSet
<1>5. SumFunctionOnSet(e, S) = e[x] + rest
    BY <1>3, SumOnSet
<1>6. f[x] \in Nat /\ e[x] \in Nat
    OBVIOUS
<1>. QED BY <1>2, <1>4, <1>5, <1>6

\* A sum of nothing but zeros.
LEMMA SumOfNothing ==
    ASSUME NEW S, IsFiniteSet(S), NEW f, \A x \in S : f[x] = 0
    PROVE  SumFunctionOnSet(f, S) = 0
<1>. DEFINE B == [x \in S |-> {}]
<1>1. IsFiniteSet({}) /\ Cardinality({}) = 0
    BY FS_EmptySet
<1>2. B \in [S -> SUBSET {}] /\ \A x \in S : f[x] = Cardinality(B[x])
    BY <1>1
<1>3. \A x, y \in S : x # y => B[x] \cap B[y] = {}
    OBVIOUS
<1>4. UNION {B[x] : x \in S} = {}
    OBVIOUS
<1>. HIDE DEF B
<1>. QED BY <1>1, <1>2, <1>3, <1>4, SumOfCardinalities

\* A sum of greater terms is greater, unless all are equal.
LEMMA SumBounded ==
    ASSUME NEW S, IsFiniteSet(S), NEW f, NEW e,
           \A x \in S : f[x] \in Nat /\ e[x] \in Nat /\ f[x] <= e[x]
    PROVE  /\ SumFunctionOnSet(f, S) <= SumFunctionOnSet(e, S)
           /\ SumFunctionOnSet(f, S) = SumFunctionOnSet(e, S) => \A x \in S : f[x] = e[x]
<1>. DEFINE Exceeds(s) == ~(SumFunctionOnSet(f, s) <= SumFunctionOnSet(e, s))
            Bad == {k \in Nat : \E s \in SUBSET S : Cardinality(s) = k /\ Exceeds(s)}
<1>1. \A s \in SUBSET S : IsFiniteSet(s) /\ Cardinality(s) \in Nat
    BY FS_Subset, FS_CardinalityType
<1>2. \A s \in SUBSET S : /\ SumFunctionOnSet(f, s) \in Nat /\ SumFunctionOnSet(e, s) \in Nat
                          /\ s = {} => SumFunctionOnSet(f, s) = 0
    <2>. TAKE s \in SUBSET S
    <2>1. \A x \in s : f[x] \in Nat /\ e[x] \in Nat
        OBVIOUS
    <2>. QED BY <1>1, <2>1, SumOnSet
<1>3. \A s \in SUBSET S : \A x \in s :
        /\ SumFunctionOnSet(f, s) = f[x] + SumFunctionOnSet(f, s \ {x})
        /\ SumFunctionOnSet(e, s) = e[x] + SumFunctionOnSet(e, s \ {x})
        /\ s \ {x} \in SUBSET S /\ Cardinality(s \ {x}) = Cardinality(s) - 1
    <2>. TAKE s \in SUBSET S
    <2>. TAKE x \in s
    <2>1. \A y \in s : f[y] \in Nat /\ e[y] \in Nat
        OBVIOUS
    <2>2. SumFunctionOnSet(f, s) = f[x] + SumFunctionOnSet(f, s \ {x})
        BY <1>1, <2>1, SumOnSet
    <2>3. SumFunctionOnSet(e, s) = e[x] + SumFunctionOnSet(e, s \ {x})
        BY <1>1, <2>1, SumOnSet
    <2>4. Cardinality(s \ {x}) = Cardinality(s) - 1
        BY <1>1, FS_RemoveElement
    <2>. QED BY <2>2, <2>3, <2>4
<1>4. \A s \in SUBSET S : SumFunctionOnSet(f, s) <= SumFunctionOnSet(e, s)
    <2>1. SUFFICES ASSUME Bad # {} PROVE FALSE
        BY <1>1
    <2>2. PICK k \in Bad : \A j \in Bad : k <= j
        <3>1. Bad \in SUBSET Nat
            OBVIOUS
        <3>. HIDE DEF Bad
        <3>. QED BY <2>1, <3>1, LeastNumber
    <2>3. PICK s \in SUBSET S : Cardinality(s) = k /\ Exceeds(s)
        OBVIOUS
    <2>4. s # {}
        BY <1>2, <2>3
    <2>5. PICK x \in s : TRUE
        BY <2>4
    <2>6. PICK r : r = s \ {x}
        OBVIOUS
    <2>7. /\ SumFunctionOnSet(f, s) = f[x] + SumFunctionOnSet(f, r)
          /\ SumFunctionOnSet(e, s) = e[x] + SumFunctionOnSet(e, r)
          /\ r \in SUBSET S /\ Cardinality(r) = k - 1
        BY <1>3, <2>3, <2>5, <2>6
    <2>8. Cardinality(r) \in Nat /\ k \in Nat
        BY <1>1, <2>7
    <2>9. ~Exceeds(r)
        <3>1. ~(k <= k - 1)
            BY <2>8
        <3>. QED BY <2>2, <2>7, <2>8, <3>1
    <2>10. /\ f[x] \in Nat /\ e[x] \in Nat /\ f[x] <= e[x]
           /\ SumFunctionOnSet(f, r) \in Nat /\ SumFunctionOnSet(e, r) \in Nat
        BY <1>2, <2>5, <2>7
    <2>. QED BY <2>3, <2>7, <2>9, <2>10
<1>5. ASSUME SumFunctionOnSet(f, S) = SumFunctionOnSet(e, S), NEW x \in S PROVE f[x] = e[x]
    <2>1. PICK r : r = S \ {x}
        OBVIOUS
    <2>2. /\ SumFunctionOnSet(f, S) = f[x] + SumFunctionOnSet(f, r)
          /\ SumFunctionOnSet(e, S) = e[x] + SumFunctionOnSet(e, r)
          /\ r \in SUBSET S
        BY <1>3, <2>1
    <2>3. SumFunctionOnSet(f, r) <= SumFunctionOnSet(e, r)
        BY <1>4, <2>2
    <2>4. SumFunctionOnSet(f, r) \in Nat /\ SumFunctionOnSet(e, r) \in Nat
        BY <1>2, <2>2
    <2>5. f[x] \in Nat /\ e[x] \in Nat /\ f[x] <= e[x]
        OBVIOUS
    <2>6. PICK i \in Nat, j \in Nat : i = f[x] /\ j = e[x]
        BY <2>5
    <2>7. PICK k \in Nat, l \in Nat : k = SumFunctionOnSet(f, r) /\ l = SumFunctionOnSet(e, r)
        BY <2>4
    <2>8. i + k = j + l /\ i <= j /\ k <= l
        BY <1>5, <2>2, <2>3, <2>5, <2>6, <2>7
    <2>9. i = j
        BY <2>8
    <2>. QED BY <2>6, <2>9
<1>. QED BY <1>4, <1>5

\* A finite set of numbers has a greatest.
LEMMA GreatestNumber ==
    ASSUME NEW S \in SUBSET Nat, IsFiniteSet(S), S # {}
    PROVE  \E n \in S : \A m \in S : m <= n
<1>. DEFINE id == [x \in S |-> x]
            Bounds == {n \in Nat : \A m \in S : m <= n}
<1>1. \A x \in S : x <= SumFunctionOnSet(id, S) /\ SumFunctionOnSet(id, S) \in Nat
    <2>. TAKE x \in S
    <2>1. \A y \in S : id[y] \in Nat /\ id[y] = y
        OBVIOUS
    <2>. HIDE DEF id
    <2>2. SumFunctionOnSet(id, S) = id[x] + SumFunctionOnSet(id, S \ {x})
        BY <2>1, SumOnSet
    <2>3. SumFunctionOnSet(id, S \ {x}) \in Nat
        <3>1. IsFiniteSet(S \ {x}) /\ \A y \in S \ {x} : id[y] \in Nat
            BY <2>1, FS_Subset
        <3>. QED BY <3>1, SumOnSet
    <2>4. id[x] = x /\ x \in Nat
        BY <2>1
    <2>. QED BY <2>2, <2>3, <2>4
<1>2. Bounds # {} /\ Bounds \in SUBSET Nat
    BY <1>1
<1>3. PICK n \in Bounds : \A m \in Bounds : n <= m
    <2>. HIDE DEF Bounds
    <2>. QED BY <1>2, LeastNumber
<1>4. n \in Nat /\ \A m \in S : m \in Nat /\ m <= n
    OBVIOUS
<1>5. n \in S
    <2>1. SUFFICES ASSUME n \notin S PROVE FALSE
        OBVIOUS
    <2>2. \A m \in S : m < n
        BY <1>4, <2>1
    <2>3. n - 1 \in Nat
        <3>1. PICK m \in S : m \in Nat /\ m < n
            BY <1>4, <2>2
        <3>. QED BY <1>4, <3>1
    <2>4. \A m \in S : m <= n - 1
        <3>1. \A i, j \in Nat : i < j => i <= j - 1
            OBVIOUS
        <3>. QED BY <1>4, <2>2, <3>1
    <2>5. n <= n - 1
        BY <1>3, <2>3, <2>4
    <2>. QED BY <1>4, <2>5
<1>. QED BY <1>4, <1>5

\* A sum is no more than its number of terms times a bound of theirs.
LEMMA SumAtMost ==
    ASSUME NEW S, IsFiniteSet(S), NEW f, NEW c \in Nat, \A x \in S : f[x] \in Nat /\ f[x] <= c
    PROVE  SumFunctionOnSet(f, S) <= c * Cardinality(S)
<1>. DEFINE Exceeds(s) == ~(SumFunctionOnSet(f, s) <= c * Cardinality(s))
            Bad == {k \in Nat : \E s \in SUBSET S : Cardinality(s) = k /\ Exceeds(s)}
<1>1. \A s \in SUBSET S : IsFiniteSet(s) /\ Cardinality(s) \in Nat
    BY FS_Subset, FS_CardinalityType
<1>2. SUFFICES ASSUME Bad # {} PROVE FALSE
    BY <1>1
<1>3. PICK k \in Bad : \A j \in Bad : k <= j
    <2>1. Bad \in SUBSET Nat
        OBVIOUS
    <2>. HIDE DEF Bad
    <2>. QED BY <1>2, <2>1, LeastNumber
<1>4. PICK s \in SUBSET S : Cardinality(s) = k /\ Exceeds(s)
    OBVIOUS
<1>5. IsFiniteSet(s) /\ k \in Nat /\ \A y \in s : f[y] \in Nat
    BY <1>1, <1>4
<1>6. s # {}
    <2>1. SUFFICES ASSUME s = {} PROVE FALSE
        OBVIOUS
    <2>2. SumFunctionOnSet(f, s) = 0
        BY <1>5, <2>1, SumOnSet
    <2>3. c * Cardinality(s) >= 0
        BY <1>4, <2>1, FS_EmptySet
    <2>. QED BY <1>4, <2>2, <2>3
<1>7. PICK x \in s : TRUE
    BY <1>6
<1>8. PICK r : r = s \ {x}
    OBVIOUS
<1>9. SumFunctionOnSet(f, s) = f[x] + SumFunctionOnSet(f, r)
    BY <1>5, <1>8, SumOnSet
<1>10. Cardinality(r) = k - 1 /\ r \in SUBSET S
    BY <1>4, <1>5, <1>7, <1>8, FS_RemoveElement
<1>11. Cardinality(r) \in Nat
    BY <1>1, <1>10
<1>12. SumFunctionOnSet(f, r) <= c * (k - 1)
    <2>1. ~(k <= k - 1)
        BY <1>5
    <2>. QED BY <1>3, <1>10, <1>11, <2>1
<1>13. SumFunctionOnSet(f, r) \in Nat
    <2>1. IsFiniteSet(r) /\ \A y \in r : f[y] \in Nat
        BY <1>1, <1>5, <1>8, <1>10
    <2>. QED BY <2>1, SumOnSet
<1>14. c * (k - 1) + c = c * k /\ c * (k - 1) \in Int /\ c * k \in Int
    BY <1>5
<1>15. f[x] \in Nat /\ f[x] <= c
    BY <1>5
<1>16. SumFunctionOnSet(f, s) <= c * k
    <2>. PICK a \in Int, b \in Int : a = c * (k - 1) /\ b = c * k
        BY <1>14
    <2>. QED BY <1>9, <1>12, <1>13, <1>14, <1>15
<1>. QED BY <1>4, <1>16

\* A sum of which one term is one less and another one more.
LEMMA SumOfMoved ==
    ASSUME NEW S, IsFiniteSet(S), NEW x \in S, NEW y \in S, x # y, NEW f, NEW e,
           \A z \in S : f[z] \in Nat /\ e[z] \in Nat,
           \A z \in S \ {x, y} : e[z] = f[z],
           e[x] + 1 = f[x], e[y] = f[y] + 1
    PROVE  SumFunctionOnSet(e, S) = SumFunctionOnSet(f, S)
<1>1. PICK h : h = [z \in S |-> IF z = x THEN e[x] ELSE f[z]]
    OBVIOUS
<1>2. h[x] = e[x] /\ h[y] = f[y]
    BY <1>1
<1>3. \A z \in S : f[z] \in Nat /\ h[z] \in Nat /\ (z # x => h[z] = f[z])
    BY <1>1
<1>4. \A z \in S : h[z] \in Nat /\ e[z] \in Nat /\ (z # y => e[z] = h[z])
    BY <1>1
<1>5. SumFunctionOnSet(h, S) + f[x] = SumFunctionOnSet(f, S) + h[x]
    BY <1>3, SumWithChange
<1>6. SumFunctionOnSet(e, S) + h[y] = SumFunctionOnSet(h, S) + e[y]
    BY <1>4, SumWithChange
<1>7. /\ SumFunctionOnSet(h, S) \in Nat /\ SumFunctionOnSet(f, S) \in Nat
      /\ SumFunctionOnSet(e, S) \in Nat
    BY <1>3, <1>4, SumOnSet
<1>8. PICK i \in Nat, j \in Nat : i = e[x] /\ j = f[y]
    OBVIOUS
<1>9. PICK a \in Nat, b \in Nat, c \in Nat :
        a = SumFunctionOnSet(h, S) /\ b = SumFunctionOnSet(f, S) /\ c = SumFunctionOnSet(e, S)
    BY <1>7
<1>10. a + (i + 1) = b + i /\ c + j = a + (j + 1)
    BY <1>2, <1>5, <1>6, <1>8, <1>9
<1>11. c = b
    BY <1>10
<1>. QED BY <1>9, <1>11
=============================================================================
