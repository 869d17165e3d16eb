---------------------- MODULE PartitionMemory_proofs ----------------------
(***************************************************************************)
(* The broker's cache with dynamic partitions, for any size of the memory, *)
(* any payloads, publishers and replays: the partitions tile the memory,   *)
(* they keep their payloads through compactions and consolidations, the    *)
(* victim is the one the policy names and goes when there is no room, and  *)
(* the cache implements MessageCache.                                      *)
(***************************************************************************)
EXTENDS PartitionMemory, TLAPS, SequenceTheorems, FiniteSetTheorems, NumberTheorems

-----------------------------------------------------------------------------
(* Operators on lists and on numbers.                                      *)

\* The numbers of a finite set have an ascending order, and it has them all.
LEMMA InOrderDefined ==
    ASSUME NEW S \in SUBSET Nat, IsFiniteSet(S)
    PROVE  /\ InOrder(S) \in [1..Cardinality(S) -> S]
           /\ \A i, j \in 1..Cardinality(S) : i < j => InOrder(S)[i] < InOrder(S)[j]
           /\ \A x \in S : \E i \in 1..Cardinality(S) : InOrder(S)[i] = x
<1>. DEFINE Ascends(f) == \A i, j \in DOMAIN f : i < j => f[i] < f[j]
            Bad == {k \in Nat : \E s \in SUBSET S :
                        Cardinality(s) = k /\ ~ \E f \in [1..k -> s] : Ascends(f)}
<1>1. \A s \in SUBSET S : IsFiniteSet(s) /\ Cardinality(s) \in Nat
    BY FS_Subset, FS_CardinalityType
<1>2. Bad = {}
    <2>. SUFFICES ASSUME Bad # {} PROVE FALSE
        OBVIOUS
    <2>1. PICK k \in Bad : \A j \in Bad : k <= j
        <3>. HIDE DEF Ascends
        <3>. QED BY LeastNumber
    <2>2. PICK s \in SUBSET S : Cardinality(s) = k /\ ~ \E f \in [1..k -> s] : Ascends(f)
        <3>. HIDE DEF Ascends
        <3>. QED OBVIOUS
    <2>3. s # {}
        <3>. SUFFICES ASSUME s = {} PROVE FALSE
            OBVIOUS
        <3>1. k = 0
            BY <2>2, FS_EmptySet
        <3>2. [i \in 1..k |-> 0] \in [1..k -> s] /\ Ascends([i \in 1..k |-> 0])
            BY <3>1
        <3>. HIDE DEF Ascends
        <3>. QED BY <2>2, <3>2
    <2>4. PICK x \in s : \A y \in s : x <= y
        <3>1. s \in SUBSET Nat
            OBVIOUS
        <3>. QED BY <2>3, <3>1, LeastNumber
    <2>. DEFINE R == s \ {x}
    <2>5. Cardinality(R) = k - 1 /\ k - 1 \in Nat /\ R \in SUBSET S
        <3>1. R \in SUBSET S
            OBVIOUS
        <3>2. Cardinality(R) = Cardinality(s) - 1
            BY <1>1, <2>4, FS_RemoveElement
        <3>3. Cardinality(R) \in Nat
            BY <1>1, <3>1
        <3>. QED BY <2>2, <3>1, <3>2, <3>3
    <2>6. PICK f \in [1..(k - 1) -> R] : Ascends(f)
        <3>1. k - 1 \notin Bad
            <4>1. ~(k <= k - 1)
                BY <2>1
            <4>. HIDE DEF Bad
            <4>. QED BY <2>1, <4>1
        <3>. HIDE DEF Ascends, R
        <3>. QED BY <2>5, <3>1
    <2>. DEFINE g == [i \in 1..k |-> IF i = 1 THEN x ELSE f[i - 1]]
    <2>7. g \in [1..k -> s]
        <3>1. \A i \in 1..k : i # 1 => i - 1 \in 1..(k - 1)
            BY <2>5
        <3>. QED BY <3>1, <2>4, <2>6
    <2>8. Ascends(g)
        <3>. SUFFICES ASSUME NEW i \in 1..k, NEW j \in 1..k, i < j PROVE g[i] < g[j]
            OBVIOUS
        <3>1. j - 1 \in 1..(k - 1) /\ f[j - 1] \in R /\ g[j] = f[j - 1]
            BY <2>5, <2>6
        <3>2. CASE i = 1
            <4>1. x \in Nat /\ f[j - 1] \in Nat /\ x <= f[j - 1] /\ x # f[j - 1]
                BY <2>4, <3>1
            <4>. QED BY <3>1, <3>2, <4>1
        <3>3. CASE i # 1
            <4>1. i - 1 \in 1..(k - 1) /\ i - 1 < j - 1 /\ g[i] = f[i - 1]
                BY <2>5, <3>3
            <4>. QED BY <2>6, <3>1, <4>1
        <3>. QED BY <3>2, <3>3
    <2>. HIDE DEF g, Ascends
    <2>. QED BY <2>2, <2>7, <2>8
<1>. DEFINE n == Cardinality(S)
            order == InOrder(S)
<1>3. n \in Nat
    BY <1>1
<1>4. \E f \in [1..n -> S] : Ascends(f)
    <2>1. n \notin Bad /\ S \in SUBSET S
        BY <1>2
    <2>. HIDE DEF Ascends
    <2>. QED BY <1>3, <2>1
<1>5. order \in [1..n -> S] /\ Ascends(order)
    BY <1>4 DEF InOrder
<1>. HIDE DEF order
<1>6. \A i, j \in 1..n : i < j => order[i] < order[j]
    BY <1>5
<1>7. order \in Injection(1..n, S)
    <2>1. ASSUME NEW i \in 1..n, NEW j \in 1..n, i # j PROVE order[i] # order[j]
        <3>1. order[i] \in Nat /\ order[j] \in Nat
            BY <1>5
        <3>2. i < j \/ j < i
            BY <2>1, <1>3
        <3>. QED BY <1>6, <3>1, <3>2
    <2>. QED BY <1>5, <2>1 DEF Injection, IsInjective
<1>8. order \in Surjection(1..n, S)
    <2>1. Cardinality(1..n) = n
        BY <1>3, FS_Interval
    <2>. QED BY <1>7, <2>1, FS_Injection
<1>9. \A x \in S : \E i \in 1..n : order[i] = x
    BY <1>8 DEF Surjection
<1>. QED BY <1>5, <1>6, <1>9 DEF order

\* The least index of a set of numbers that is not empty.
LEMMA FirstIsLeast ==
    ASSUME NEW S \in SUBSET Nat, S # {}
    PROVE  First(S) \in S /\ \A j \in S : First(S) <= j
<1>1. \E i \in S : \A j \in S : i <= j
    BY LeastNumber
<1>. QED BY <1>1 DEF First

\* A list without its element at i: those behind it move up by one.
LEMMA RemoveAtProperties ==
    ASSUME NEW S, NEW s \in Seq(S), NEW i \in DOMAIN s
    PROVE  /\ RemoveAt(s, i) \in Seq(S) /\ Len(RemoveAt(s, i)) = Len(s) - 1
           /\ DOMAIN RemoveAt(s, i) = 1..(Len(s) - 1)
           /\ \A j \in 1..(Len(s) - 1) :
                RemoveAt(s, i)[j] = IF j < i THEN s[j] ELSE s[j + 1]
<1>. DEFINE a == SubSeq(s, 1, i - 1)
            b == SubSeq(s, i + 1, Len(s))
            r == a \o b
<1>1. Len(s) \in Nat /\ DOMAIN s = 1..Len(s) /\ i \in 1..Len(s)
    BY LenProperties
<1>2. /\ a \in Seq(S) /\ Len(a) = i - 1
      /\ \A j \in 1..(i - 1) : a[j] = s[j]
    <2>1. \A j \in 1..(i - 1) : s[j] \in S
        BY <1>1, ElementOfSeq
    <2>. QED BY <1>1, <2>1, SubSeqProperties
<1>3. /\ b \in Seq(S) /\ Len(b) = Len(s) - i
      /\ \A j \in 1..(Len(s) - i) : b[j] = s[j + i]
    <2>1. \A j \in (i + 1)..Len(s) : s[j] \in S
        BY <1>1, ElementOfSeq
    <2>. QED BY <1>1, <2>1, SubSeqProperties
<1>. HIDE DEF a, b
<1>4. /\ r \in Seq(S) /\ Len(r) = Len(a) + Len(b)
      /\ \A j \in 1..(Len(a) + Len(b)) : r[j] = IF j <= Len(a) THEN a[j] ELSE b[j - Len(a)]
    BY <1>2, <1>3, ConcatProperties
<1>5. RemoveAt(s, i) = r
    BY DEF RemoveAt, a, b
<1>. HIDE DEF r
<1>6. Len(r) = Len(s) - 1 /\ DOMAIN r = 1..(Len(s) - 1)
    BY <1>1, <1>2, <1>3, <1>4, LenProperties
<1>7. \A j \in 1..(Len(s) - 1) : r[j] = IF j < i THEN s[j] ELSE s[j + 1]
    <2>. TAKE j \in 1..(Len(s) - 1)
    <2>1. CASE j < i
        BY <1>1, <1>2, <1>3, <1>4, <2>1
    <2>2. CASE ~(j < i)
        <3>1. j - (i - 1) \in 1..(Len(s) - i) /\ j - (i - 1) + i = j + 1 /\ ~(j <= i - 1)
            BY <1>1, <2>2
        <3>2. r[j] = b[j - (i - 1)]
            <4>0. /\ Len(s) \in Nat /\ i \in 1..Len(s) /\ Len(a) = i - 1 /\ Len(b) = Len(s) - i
                  /\ j \in 1..(Len(s) - 1)
                BY <1>1, <1>2, <1>3
            <4>1. j \in 1..(Len(a) + Len(b)) /\ ~(j <= Len(a))
                <5>1. Len(a) + Len(b) = Len(s) - 1
                    BY <4>0
                <5>. QED BY <2>2, <4>0, <5>1, SMTT(30)
            <4>2. r[j] = b[j - Len(a)]
                BY <1>4, <4>1
            <4>. QED BY <1>2, <4>2
        <3>3. b[j - (i - 1)] = s[j + 1]
            BY <1>3, <3>1
        <3>. QED BY <2>2, <3>2, <3>3
    <2>. QED BY <2>1, <2>2
<1>. QED BY <1>4, <1>5, <1>6, <1>7

-----------------------------------------------------------------------------
(* Lists of partitions.                                                    *)

Part == [id : Nat, begin : Nat, partition_size : Nat, status : {"FREE", "OCCUPIED"},
         content_size : 0..TAMANO_MEMORIA, occupied_timestamp : Nat, lru_timestamp : Nat]

OccupiedIn(ps) == {i \in DOMAIN ps : IsOccupied(ps[i])}

\* The partitions are apart, within the memory, and cover it.
Tiles(ps) ==
    /\ \A i \in DOMAIN ps : End(ps[i]) <= TAMANO_MEMORIA
    /\ \A i, j \in DOMAIN ps : i # j => End(ps[i]) <= ps[j].begin \/ End(ps[j]) <= ps[i].begin
    /\ \A b \in Bytes : \E i \in DOMAIN ps : ps[i].begin <= b /\ b < End(ps[i])

\* Each partition begins where the one before it in the list ends, and only the
\* last one may be empty.
InAddressOrder(ps) ==
    /\ Len(ps) >= 1
    /\ ps[1].begin = 0 /\ End(ps[Len(ps)]) = TAMANO_MEMORIA
    /\ \A i \in 1..(Len(ps) - 1) : ps[i].partition_size >= 1 /\ ps[i + 1].begin = End(ps[i])

\* Ids are not given out twice, and of two occupied partitions the one that was
\* made first comes first.
InIdOrder(ps) ==
    /\ \A i, j \in DOMAIN ps : ps[i].id = ps[j].id => i = j
    /\ \A i, j \in OccupiedIn(ps) : i < j =>
            ps[i].id < ps[j].id /\ ps[i].occupied_timestamp <= ps[j].occupied_timestamp

\* qs is ps with some FREE partitions grown and others gone; no other changed
\* or changed places.
Condenses(qs, ps) ==
    \E h \in [DOMAIN qs -> DOMAIN ps] :
        /\ \A k, l \in DOMAIN qs : k < l => h[k] < h[l]
        /\ \A k \in DOMAIN qs :
            /\ qs[k].id = ps[h[k]].id /\ qs[k].partition_size >= ps[h[k]].partition_size
            /\ qs[k].status = ps[h[k]].status
            /\ qs[k].occupied_timestamp = ps[h[k]].occupied_timestamp
            /\ qs[k].lru_timestamp = ps[h[k]].lru_timestamp
            /\ IsOccupied(qs[k]) => qs[k] = ps[h[k]]
        /\ \A l \in OccupiedIn(ps) : \E k \in DOMAIN qs : h[k] = l

\* The fields of a partition of a list are numbers.
LEMMA PartFields ==
    ASSUME NEW ps \in Seq(Part)
    PROVE  /\ Len(ps) \in Nat /\ DOMAIN ps = 1..Len(ps)
           /\ \A i \in DOMAIN ps :
                /\ ps[i] \in Part /\ ps[i].id \in Nat /\ ps[i].begin \in Nat
                /\ ps[i].partition_size \in Nat /\ ps[i].occupied_timestamp \in Nat
                /\ ps[i].lru_timestamp \in Nat /\ ps[i].status \in {"FREE", "OCCUPIED"}
                /\ End(ps[i]) = ps[i].begin + ps[i].partition_size /\ End(ps[i]) \in Nat
<1>1. Len(ps) \in Nat /\ DOMAIN ps = 1..Len(ps)
    BY LenProperties
<1>2. \A i \in DOMAIN ps : ps[i] \in Part
    BY <1>1, ElementOfSeq
<1>. QED BY <1>1, <1>2, SMTT(30) DEF Part, End

\* A list in the order of addresses tiles the memory.
LEMMA OrderedTiles ==
    ASSUME NEW ps \in Seq(Part), InAddressOrder(ps)
    PROVE  /\ Tiles(ps)
           /\ \A i, j \in DOMAIN ps : i < j => End(ps[i]) <= ps[j].begin
<1>1. /\ Len(ps) \in Nat /\ DOMAIN ps = 1..Len(ps) /\ Len(ps) >= 1
      /\ \A i \in DOMAIN ps : /\ ps[i].begin \in Nat /\ ps[i].partition_size \in Nat
                              /\ End(ps[i]) = ps[i].begin + ps[i].partition_size
                              /\ End(ps[i]) \in Nat
    BY PartFields DEF InAddressOrder
<1>2. TAMANO_MEMORIA \in Nat
    BY Configured
<1>3. ASSUME NEW i \in DOMAIN ps, NEW j \in DOMAIN ps, i < j
      PROVE  End(ps[i]) <= ps[j].begin
    <2>. DEFINE Bad == {k \in 1..Len(ps) : i < k /\ ~(End(ps[i]) <= ps[k].begin)}
    <2>. SUFFICES ASSUME Bad # {} PROVE FALSE
        BY <1>1, <1>3
    <2>1. PICK k \in Bad : \A l \in Bad : k <= l
        <3>1. Bad \in SUBSET Nat
            OBVIOUS
        <3>. QED BY <3>1, LeastNumber
    <2>2. /\ k - 1 \in 1..(Len(ps) - 1) /\ k - 1 \in DOMAIN ps /\ k \in DOMAIN ps /\ i <= k - 1
          /\ k - 1 + 1 = k /\ ~(k <= k - 1)
        BY <1>1
    <2>3. ps[k].begin = End(ps[k - 1])
        BY <2>2 DEF InAddressOrder
    <2>4. End(ps[i]) <= End(ps[k - 1])
        <3>1. CASE i = k - 1
            BY <1>1, <3>1
        <3>2. CASE i < k - 1
            <4>1. k - 1 \notin Bad
                BY <2>1, <2>2
            <4>2. End(ps[i]) <= ps[k - 1].begin
                BY <1>1, <2>2, <3>2, <4>1
            <4>3. PICK l : l = k - 1 /\ l \in DOMAIN ps
                BY <2>2
            <4>4. ps[l].begin \in Nat /\ End(ps[l]) \in Nat /\ ps[l].begin <= End(ps[l])
                <5>1. /\ ps[l].begin \in Nat /\ ps[l].partition_size \in Nat /\ End(ps[l]) \in Nat
                      /\ End(ps[l]) = ps[l].begin + ps[l].partition_size
                    BY <1>1, <4>3, Zenon
                <5>. QED BY <5>1
            <4>5. End(ps[i]) \in Nat
                BY <1>1
            <4>. QED BY <4>2, <4>3, <4>4, <4>5
        <3>. QED BY <1>1, <2>2, <3>1, <3>2
    <2>. QED BY <2>1, <2>3, <2>4
<1>4. \A i \in DOMAIN ps : End(ps[i]) <= TAMANO_MEMORIA
    <2>. TAKE i \in DOMAIN ps
    <2>1. Len(ps) \in DOMAIN ps /\ End(ps[Len(ps)]) = TAMANO_MEMORIA
        BY <1>1 DEF InAddressOrder
    <2>2. CASE i = Len(ps)
        BY <1>2, <2>1, <2>2
    <2>3. CASE i < Len(ps)
        <3>1. End(ps[i]) <= ps[Len(ps)].begin
            BY <1>3, <2>1, <2>3
        <3>. QED BY <1>1, <1>2, <2>1, <3>1
    <2>. QED BY <1>1, <2>2, <2>3
<1>5. ASSUME NEW b \in Bytes
      PROVE  \E i \in DOMAIN ps : ps[i].begin <= b /\ b < End(ps[i])
    <2>. DEFINE Beyond == {i \in 1..Len(ps) : b < End(ps[i])}
    <2>0. b \in Nat /\ b < TAMANO_MEMORIA
        BY <1>2 DEF Bytes
    <2>1. Len(ps) \in Beyond
        BY <1>1, <2>0 DEF InAddressOrder
    <2>2. PICK i \in Beyond : \A j \in Beyond : i <= j
        <3>1. Beyond \in SUBSET Nat /\ Beyond # {}
            BY <2>1
        <3>. HIDE DEF Beyond
        <3>. QED BY <3>1, LeastNumber
    <2>3. CASE i = 1
        BY <1>1, <2>0, <2>2, <2>3 DEF InAddressOrder
    <2>4. CASE i # 1
        <3>1. i - 1 \in 1..(Len(ps) - 1) /\ i - 1 \in 1..Len(ps) /\ i - 1 + 1 = i /\ ~(i <= i - 1)
            BY <1>1, <2>4
        <3>2. ps[i].begin = End(ps[i - 1])
            BY <3>1 DEF InAddressOrder
        <3>3. ~(b < End(ps[i - 1]))
            BY <2>2, <3>1
        <3>4. ps[i].begin <= b
            BY <1>1, <2>0, <3>1, <3>2, <3>3
        <3>. QED BY <1>1, <2>2, <3>4
    <2>. QED BY <2>3, <2>4
<1>6. \A i, j \in DOMAIN ps : i # j => End(ps[i]) <= ps[j].begin \/ End(ps[j]) <= ps[i].begin
    <2>. TAKE i, j \in DOMAIN ps
    <2>1. i # j => i < j \/ j < i
        BY <1>1
    <2>. QED BY <1>3, <2>1
<1>. QED BY <1>3, <1>4, <1>5, <1>6 DEF Tiles

\* A list condenses itself.
LEMMA CondensesItself ==
    ASSUME NEW ps \in Seq(Part)
    PROVE  Condenses(ps, ps)
<1>. DEFINE h == [k \in DOMAIN ps |-> k]
<1>1. h \in [DOMAIN ps -> DOMAIN ps] /\ \A k \in DOMAIN ps : h[k] = k
    OBVIOUS
<1>. HIDE DEF h
<1>2. \A l \in OccupiedIn(ps) : l \in DOMAIN ps
    BY DEF OccupiedIn
<1>3. \A k \in DOMAIN ps : ps[k].partition_size >= ps[k].partition_size
    <2>1. \A k \in DOMAIN ps : ps[k].partition_size \in Nat
        BY PartFields
    <2>. QED BY <2>1
<1>. QED BY <1>1, <1>2, <1>3 DEF Condenses

\* Condensing twice is condensing.
LEMMA CondensesTwice ==
    ASSUME NEW ps \in Seq(Part), NEW qs \in Seq(Part), NEW rs \in Seq(Part),
           Condenses(qs, ps), Condenses(rs, qs)
    PROVE  Condenses(rs, ps)
<1>1. /\ \A i \in DOMAIN ps : ps[i].partition_size \in Nat
      /\ \A i \in DOMAIN qs : qs[i].partition_size \in Nat
      /\ \A i \in DOMAIN rs : rs[i].partition_size \in Nat
    BY PartFields
<1>2. PICK h \in [DOMAIN qs -> DOMAIN ps] :
        /\ \A k, l \in DOMAIN qs : k < l => h[k] < h[l]
        /\ \A k \in DOMAIN qs :
            /\ qs[k].id = ps[h[k]].id /\ qs[k].partition_size >= ps[h[k]].partition_size
            /\ qs[k].status = ps[h[k]].status
            /\ qs[k].occupied_timestamp = ps[h[k]].occupied_timestamp
            /\ qs[k].lru_timestamp = ps[h[k]].lru_timestamp
            /\ IsOccupied(qs[k]) => qs[k] = ps[h[k]]
        /\ \A l \in OccupiedIn(ps) : \E k \in DOMAIN qs : h[k] = l
    BY DEF Condenses
<1>3. PICK g \in [DOMAIN rs -> DOMAIN qs] :
        /\ \A k, l \in DOMAIN rs : k < l => g[k] < g[l]
        /\ \A k \in DOMAIN rs :
            /\ rs[k].id = qs[g[k]].id /\ rs[k].partition_size >= qs[g[k]].partition_size
            /\ rs[k].status = qs[g[k]].status
            /\ rs[k].occupied_timestamp = qs[g[k]].occupied_timestamp
            /\ rs[k].lru_timestamp = qs[g[k]].lru_timestamp
            /\ IsOccupied(rs[k]) => rs[k] = qs[g[k]]
        /\ \A l \in OccupiedIn(qs) : \E k \in DOMAIN rs : g[k] = l
    BY DEF Condenses
<1>. DEFINE f == [k \in DOMAIN rs |-> h[g[k]]]
<1>4. f \in [DOMAIN rs -> DOMAIN ps]
    BY <1>2, <1>3
<1>5. \A k, l \in DOMAIN rs : k < l => f[k] < f[l]
    BY <1>2, <1>3
<1>6. ASSUME NEW k \in DOMAIN rs
      PROVE  /\ rs[k].id = ps[f[k]].id /\ rs[k].partition_size >= ps[f[k]].partition_size
             /\ rs[k].status = ps[f[k]].status
             /\ rs[k].occupied_timestamp = ps[f[k]].occupied_timestamp
             /\ rs[k].lru_timestamp = ps[f[k]].lru_timestamp
             /\ IsOccupied(rs[k]) => rs[k] = ps[f[k]]
    <2>1. PICK l : l = g[k] /\ l \in DOMAIN qs /\ f[k] = h[l] /\ h[l] \in DOMAIN ps
        BY <1>2, <1>3
    <2>2. rs[k].partition_size >= qs[l].partition_size /\ qs[l].partition_size >= ps[h[l]].partition_size
        BY <1>2, <1>3, <2>1
    <2>3. rs[k].partition_size >= ps[h[l]].partition_size
        BY <1>1, <2>1, <2>2
    <2>4. IsOccupied(rs[k]) => IsOccupied(qs[l])
        BY <1>3, <2>1 DEF IsOccupied
    <2>. QED BY <1>2, <1>3, <2>1, <2>3, <2>4
<1>7. ASSUME NEW l \in OccupiedIn(ps)
      PROVE  \E k \in DOMAIN rs : f[k] = l
    <2>1. PICK j \in DOMAIN qs : h[j] = l
        BY <1>2
    <2>2. j \in OccupiedIn(qs)
        BY <1>2, <2>1 DEF OccupiedIn, IsOccupied
    <2>. QED BY <1>3, <2>1, <2>2
<1>. HIDE DEF f
<1>. QED BY <1>4, <1>5, <1>6, <1>7 DEF Condenses

\* Condensing keeps the order of the ids.
LEMMA CondensesInIdOrder ==
    ASSUME NEW ps \in Seq(Part), NEW qs \in Seq(Part), Condenses(qs, ps), InIdOrder(ps)
    PROVE  InIdOrder(qs)
<1>1. PICK h \in [DOMAIN qs -> DOMAIN ps] :
        /\ \A k, l \in DOMAIN qs : k < l => h[k] < h[l]
        /\ \A k \in DOMAIN qs :
            /\ qs[k].id = ps[h[k]].id /\ qs[k].partition_size >= ps[h[k]].partition_size
            /\ qs[k].status = ps[h[k]].status
            /\ qs[k].occupied_timestamp = ps[h[k]].occupied_timestamp
            /\ qs[k].lru_timestamp = ps[h[k]].lru_timestamp
            /\ IsOccupied(qs[k]) => qs[k] = ps[h[k]]
        /\ \A l \in OccupiedIn(ps) : \E k \in DOMAIN qs : h[k] = l
    BY DEF Condenses
<1>2. DOMAIN qs \subseteq Nat /\ DOMAIN ps \subseteq Nat
    BY PartFields
<1>3. ASSUME NEW i \in DOMAIN qs, NEW j \in DOMAIN qs, qs[i].id = qs[j].id PROVE i = j
    <2>1. h[i] = h[j]
        BY <1>1, <1>3 DEF InIdOrder
    <2>2. ~(i < j) /\ ~(j < i)
        <3>1. h[i] \in Nat /\ h[j] \in Nat
            BY <1>1, <1>2
        <3>. QED BY <1>1, <2>1, <3>1
    <2>. QED BY <1>2, <2>2
<1>4. ASSUME NEW i \in OccupiedIn(qs), NEW j \in OccupiedIn(qs), i < j
      PROVE  qs[i].id < qs[j].id /\ qs[i].occupied_timestamp <= qs[j].occupied_timestamp
    <2>1. i \in DOMAIN qs /\ j \in DOMAIN qs /\ qs[i] = ps[h[i]] /\ qs[j] = ps[h[j]] /\ h[i] < h[j]
        BY <1>1, <1>4 DEF OccupiedIn
    <2>2. h[i] \in OccupiedIn(ps) /\ h[j] \in OccupiedIn(ps)
        BY <1>1, <1>4, <2>1 DEF OccupiedIn
    <2>. QED BY <2>1, <2>2 DEF InIdOrder
<1>. QED BY <1>3, <1>4 DEF InIdOrder

\* A FREE partition that takes in the FREE one behind it leaves the list in the
\* order of addresses.
LEMMA JoinNeighbours ==
    ASSUME NEW ps \in Seq(Part), InAddressOrder(ps), NEW i \in 1..(Len(ps) - 1),
           ps[i].status = "FREE", ps[i + 1].status = "FREE"
    PROVE  /\ Join(ps, i, i + 1) \in Seq(Part) /\ InAddressOrder(Join(ps, i, i + 1))
           /\ Condenses(Join(ps, i, i + 1), ps)
           /\ i \in DOMAIN Join(ps, i, i + 1)
           /\ Join(ps, i, i + 1)[i].status = "FREE" /\ Join(ps, i, i + 1)[i].begin = ps[i].begin
           /\ End(Join(ps, i, i + 1)[i]) = End(ps[i + 1])
<1>1. /\ Len(ps) \in Nat /\ DOMAIN ps = 1..Len(ps) /\ Len(ps) >= 1
      /\ i \in DOMAIN ps /\ i + 1 \in DOMAIN ps
      /\ \A k \in DOMAIN ps : /\ ps[k] \in Part /\ ps[k].begin \in Nat /\ ps[k].partition_size \in Nat
                              /\ End(ps[k]) = ps[k].begin + ps[k].partition_size
                              /\ End(ps[k]) \in Nat
    BY PartFields DEF InAddressOrder
<1>. DEFINE es == [ps EXCEPT ![i].partition_size = @ + ps[i + 1].partition_size]
            q == es[i]
<1>2. /\ q \in Part /\ q.id = ps[i].id /\ q.status = "FREE" /\ q.begin = ps[i].begin
      /\ q.occupied_timestamp = ps[i].occupied_timestamp /\ q.lru_timestamp = ps[i].lru_timestamp
      /\ q.partition_size = ps[i].partition_size + ps[i + 1].partition_size
      /\ End(q) = q.begin + q.partition_size
    <2>1. q = [ps[i] EXCEPT !.partition_size = ps[i].partition_size + ps[i + 1].partition_size]
        BY <1>1
    <2>2. PICK n : n = ps[i].partition_size + ps[i + 1].partition_size /\ n \in Nat
        BY <1>1
    <2>3. PICK r : r = ps[i] /\ r \in Part
        BY <1>1
    <2>4. q = [r EXCEPT !.partition_size = n]
        BY <2>1, <2>2, <2>3
    <2>. HIDE DEF q
    <2>5. /\ q \in Part /\ q.id = r.id /\ q.status = r.status /\ q.begin = r.begin
          /\ q.occupied_timestamp = r.occupied_timestamp /\ q.lru_timestamp = r.lru_timestamp
          /\ q.partition_size = n
        BY <2>2, <2>3, <2>4 DEF Part
    <2>. QED BY <2>2, <2>3, <2>5 DEF End
<1>3. es \in Seq(Part) /\ Len(es) = Len(ps) /\ DOMAIN es = DOMAIN ps
      /\ \A k \in DOMAIN ps : es[k] = IF k = i THEN q ELSE ps[k]
    <2>1. es = [k \in 1..Len(ps) |-> IF k = i THEN q ELSE ps[k]]
        BY <1>1
    <2>. HIDE DEF es, q
    <2>2. \A k \in 1..Len(ps) : (IF k = i THEN q ELSE ps[k]) \in Part
        BY <1>1, <1>2
    <2>3. es \in [1..Len(ps) -> Part]
        BY <2>1, <2>2
    <2>4. es \in Seq(Part)
        <3>1. PICK n : n = Len(ps) /\ n \in Nat
            BY <1>1
        <3>2. es \in [1..n -> Part]
            BY <2>3, <3>1
        <3>. QED BY <3>1, <3>2, SeqDef, Zenon
    <2>5. Len(es) = Len(ps)
        BY <1>1, <2>1, <2>4, LenProperties
    <2>. QED BY <1>1, <2>1, <2>4, <2>5
<1>. HIDE DEF es, q
<1>. DEFINE qs == RemoveAt(es, i + 1)
            old(k) == IF k <= i THEN k ELSE k + 1
<1>4. /\ qs \in Seq(Part) /\ Len(qs) = Len(ps) - 1 /\ DOMAIN qs = 1..(Len(ps) - 1)
      /\ \A k \in 1..(Len(ps) - 1) : qs[k] = IF k < i + 1 THEN es[k] ELSE es[k + 1]
    <2>1. i + 1 \in DOMAIN es
        BY <1>1, <1>3
    <2>2. /\ RemoveAt(es, i + 1) \in Seq(Part) /\ Len(RemoveAt(es, i + 1)) = Len(es) - 1
          /\ DOMAIN RemoveAt(es, i + 1) = 1..(Len(es) - 1)
          /\ \A k \in 1..(Len(es) - 1) :
                RemoveAt(es, i + 1)[k] = IF k < i + 1 THEN es[k] ELSE es[k + 1]
        BY <1>3, <2>1, RemoveAtProperties
    <2>. QED BY <1>3, <2>2
<1>5. Join(ps, i, i + 1) = qs
    BY DEF Join, es
<1>. HIDE DEF qs
<1>6. \A k \in 1..(Len(ps) - 1) :
        /\ k < i => qs[k] = ps[k]
        /\ k = i => qs[k] = q
        /\ k > i => qs[k] = ps[k + 1]
    <2>. TAKE k \in 1..(Len(ps) - 1)
    <2>1. k \in DOMAIN ps /\ k + 1 \in DOMAIN ps
        BY <1>1
    <2>2. k < i => qs[k] = ps[k]
        BY <1>3, <1>4, <2>1
    <2>3. k = i => qs[k] = q
        BY <1>3, <1>4, <2>1
    <2>4. k > i => qs[k] = ps[k + 1]
        BY <1>3, <1>4, <2>1
    <2>. QED BY <2>2, <2>3, <2>4
<1>7. End(q) = End(ps[i + 1])
    <2>1. ps[i + 1].begin = End(ps[i])
        BY DEF InAddressOrder
    <2>. QED BY <1>1, <1>2, <2>1
<1>8. InAddressOrder(qs)
    <2>1. Len(qs) >= 1
        BY <1>1, <1>4
    <2>2. qs[1].begin = 0
        <3>1. 1 \in 1..(Len(ps) - 1)
            BY <1>1
        <3>2. CASE i = 1
            BY <1>2, <1>6, <3>1, <3>2 DEF InAddressOrder
        <3>3. CASE i > 1
            BY <1>6, <3>1, <3>3 DEF InAddressOrder
        <3>. QED BY <3>2, <3>3
    <2>3. End(qs[Len(qs)]) = TAMANO_MEMORIA
        <3>1. Len(ps) - 1 \in 1..(Len(ps) - 1) /\ Len(ps) - 1 + 1 = Len(ps)
            BY <1>1
        <3>0. End(ps[Len(ps)]) = TAMANO_MEMORIA /\ Len(qs) = Len(ps) - 1
            BY <1>4 DEF InAddressOrder
        <3>2. CASE i = Len(ps) - 1
            <4>1. qs[Len(qs)] = q /\ End(q) = End(ps[Len(ps)])
                BY <1>6, <1>7, <3>0, <3>1, <3>2
            <4>. QED BY <3>0, <4>1
        <3>3. CASE i < Len(ps) - 1
            <4>1. qs[Len(qs)] = ps[Len(ps)]
                BY <1>6, <3>0, <3>1, <3>3
            <4>. QED BY <3>0, <4>1
        <3>4. i = Len(ps) - 1 \/ i < Len(ps) - 1
            <4>1. Len(ps) \in Nat
                BY <1>1
            <4>. QED BY <4>1
        <3>. QED BY <3>2, <3>3, <3>4, Zenon
    <2>4. ASSUME NEW k \in 1..(Len(qs) - 1)
          PROVE  qs[k].partition_size >= 1 /\ qs[k + 1].begin = End(qs[k])
        <3>1. /\ k \in 1..(Len(ps) - 1) /\ k + 1 \in 1..(Len(ps) - 1) /\ k \in DOMAIN ps
              /\ k + 1 \in DOMAIN ps /\ k + 1 + 1 \in DOMAIN ps
            BY <1>1, <1>4
        <3>2. /\ ps[k].partition_size >= 1 /\ ps[k + 1].begin = End(ps[k])
              /\ ps[k + 1].partition_size >= 1 /\ ps[k + 1 + 1].begin = End(ps[k + 1])
            BY <3>1 DEF InAddressOrder
        <3>3. CASE k < i
            <4>1. qs[k] = ps[k]
                BY <1>6, <3>1, <3>3
            <4>2. qs[k + 1].begin = ps[k + 1].begin
                <5>1. CASE k + 1 < i
                    BY <1>6, <3>1, <5>1
                <5>2. CASE k + 1 = i
                    BY <1>2, <1>6, <3>1, <5>2
                <5>. QED BY <1>1, <3>1, <3>3, <5>1, <5>2
            <4>. QED BY <3>2, <4>1, <4>2
        <3>4. CASE k = i
            <4>1. qs[k] = q /\ qs[k + 1] = ps[k + 1 + 1]
                BY <1>6, <3>1, <3>4
            <4>2. q.partition_size >= 1
                BY <1>1, <1>2, <3>1, <3>2, <3>4
            <4>. QED BY <1>7, <3>2, <3>4, <4>1, <4>2
        <3>5. CASE k > i
            <4>1. qs[k] = ps[k + 1]
                BY <1>6, <3>1, <3>5
            <4>2. PICK l : l = k + 1 /\ l \in 1..(Len(ps) - 1) /\ l > i
                BY <3>1, <3>5
            <4>3. qs[l] = ps[l + 1]
                BY <1>6, <4>2
            <4>. QED BY <3>2, <4>1, <4>2, <4>3
        <3>. QED BY <3>1, <3>3, <3>4, <3>5
    <2>. QED BY <2>1, <2>2, <2>3, <2>4 DEF InAddressOrder
<1>9. Condenses(qs, ps)
    <2>. DEFINE h == [k \in DOMAIN qs |-> old(k)]
    <2>1. h \in [DOMAIN qs -> DOMAIN ps]
        BY <1>1, <1>4
    <2>2. \A k, l \in DOMAIN qs : k < l => h[k] < h[l]
        BY <1>1, <1>4
    <2>3. ASSUME NEW k \in DOMAIN qs
          PROVE  /\ qs[k].id = ps[h[k]].id /\ qs[k].partition_size >= ps[h[k]].partition_size
                 /\ qs[k].status = ps[h[k]].status
                 /\ qs[k].occupied_timestamp = ps[h[k]].occupied_timestamp
                 /\ qs[k].lru_timestamp = ps[h[k]].lru_timestamp
                 /\ IsOccupied(qs[k]) => qs[k] = ps[h[k]]
        <3>1. k \in 1..(Len(ps) - 1) /\ k \in DOMAIN ps /\ k + 1 \in DOMAIN ps
            BY <1>1, <1>4
        <3>2. CASE k < i
            <4>1. h[k] = k /\ qs[k] = ps[k]
                BY <1>6, <3>1, <3>2
            <4>. HIDE DEF h
            <4>. QED BY <1>1, <3>1, <4>1
        <3>3. CASE k = i
            <4>1. h[k] = i /\ qs[k] = q
                BY <1>6, <3>1, <3>3
            <4>2. q.partition_size >= ps[i].partition_size
                BY <1>1, <1>2
            <4>3. ~ IsOccupied(q)
                BY <1>2 DEF IsOccupied
            <4>. HIDE DEF h
            <4>. QED BY <1>2, <4>1, <4>2, <4>3
        <3>4. CASE k > i
            <4>1. h[k] = k + 1 /\ qs[k] = ps[k + 1]
                BY <1>6, <3>1, <3>4
            <4>. HIDE DEF h
            <4>. QED BY <1>1, <3>1, <4>1
        <3>. QED BY <3>1, <3>2, <3>3, <3>4
    <2>4. ASSUME NEW l \in OccupiedIn(ps)
          PROVE  \E k \in DOMAIN qs : h[k] = l
        <3>1. l \in DOMAIN ps /\ l # i /\ l # i + 1
            BY DEF OccupiedIn, IsOccupied
        <3>2. CASE l < i
            <4>1. l \in DOMAIN qs /\ h[l] = l
                BY <1>1, <1>4, <3>1, <3>2
            <4>. QED BY <4>1
        <3>3. CASE l > i
            <4>1. l - 1 \in DOMAIN qs /\ h[l - 1] = l
                BY <1>1, <1>4, <3>1, <3>3
            <4>. QED BY <4>1
        <3>. QED BY <1>1, <3>1, <3>2, <3>3
    <2>. HIDE DEF h
    <2>. QED BY <2>1, <2>2, <2>3, <2>4 DEF Condenses
<1>10. i \in DOMAIN qs /\ qs[i] = q
    BY <1>4, <1>6
<1>. QED BY <1>2, <1>4, <1>5, <1>7, <1>8, <1>9, <1>10

\* The first loop of consolidate, on a list in the order of addresses: it joins
\* neighbours or nothing, and what begins at the old place is FREE.
LEMMA JoinPreviousOrdered ==
    ASSUME NEW ps \in Seq(Part), InAddressOrder(ps), InIdOrder(ps),
           NEW a \in DOMAIN ps, ps[a].status = "FREE", ps[a].partition_size >= 1
    PROVE  /\ JoinPrevious(ps, ps[a].id) \in Seq(Part)
           /\ InAddressOrder(JoinPrevious(ps, ps[a].id))
           /\ Condenses(JoinPrevious(ps, ps[a].id), ps)
           /\ \E i \in DOMAIN JoinPrevious(ps, ps[a].id) :
                /\ JoinPrevious(ps, ps[a].id)[i].status = "FREE"
                /\ JoinPrevious(ps, ps[a].id)[i].begin <= ps[a].begin
                /\ ps[a].begin < End(JoinPrevious(ps, ps[a].id)[i])
<1>1. /\ Len(ps) \in Nat /\ DOMAIN ps = 1..Len(ps)
      /\ \A k \in DOMAIN ps : /\ ps[k].begin \in Nat /\ ps[k].partition_size \in Nat
                              /\ End(ps[k]) = ps[k].begin + ps[k].partition_size
                              /\ End(ps[k]) \in Nat
    BY PartFields
<1>2. IndexOfId(ps, ps[a].id) = a
    BY DEF IndexOfId, InIdOrder
<1>. DEFINE before == {i \in DOMAIN ps : ps[i].status = "FREE" /\ End(ps[i]) = ps[a].begin}
<1>3. JoinPrevious(ps, ps[a].id) = IF before = {} THEN ps ELSE Join(ps, First(before), a)
    BY <1>2 DEF JoinPrevious
<1>4. \A i \in before : i + 1 = a
    <2>. TAKE i \in before
    <2>1. i \in DOMAIN ps /\ a \in DOMAIN ps /\ End(ps[i]) = ps[a].begin
        OBVIOUS
    <2>2. \A k, l \in DOMAIN ps : k < l => End(ps[k]) <= ps[l].begin
        BY OrderedTiles
    <2>3. ps[a].begin < End(ps[a])
        <3>1. /\ ps[a].begin \in Nat /\ ps[a].partition_size \in Nat
              /\ End(ps[a]) = ps[a].begin + ps[a].partition_size
            BY <1>1, Zenon
        <3>. QED BY <3>1
    <2>4. i < a
        <3>1. i # a
            BY <2>1, <2>3, <1>1
        <3>2. ~(a < i)
            <4>. SUFFICES ASSUME a < i PROVE FALSE
                OBVIOUS
            <4>1. End(ps[a]) <= ps[i].begin
                BY <2>1, <2>2, Zenon
            <4>2. /\ ps[i].begin \in Nat /\ ps[i].partition_size \in Nat
                  /\ End(ps[i]) = ps[i].begin + ps[i].partition_size
                  /\ End(ps[a]) \in Nat /\ ps[a].begin \in Nat
                BY <1>1, <2>1, Zenon
            <4>. QED BY <2>1, <2>3, <4>1, <4>2
        <3>3. i \in Nat /\ a \in Nat
            BY <1>1, <2>1
        <3>. QED BY <3>1, <3>2, <3>3
    <2>5. ~(i + 1 < a)
        <3>. SUFFICES ASSUME i + 1 < a PROVE FALSE
            OBVIOUS
        <3>0. Len(ps) \in Nat /\ i \in 1..Len(ps) /\ a \in 1..Len(ps)
            BY <1>1, <2>1
        <3>1. i + 1 \in DOMAIN ps /\ i \in 1..(Len(ps) - 1) /\ i + 1 \in 1..(Len(ps) - 1)
            BY <1>1, <3>0
        <3>2. ps[i + 1].partition_size >= 1 /\ ps[i + 1].begin = End(ps[i])
            BY <3>1 DEF InAddressOrder
        <3>3. End(ps[i + 1]) <= ps[a].begin
            BY <2>1, <2>2, <3>1, Zenon
        <3>4. /\ ps[i + 1].begin \in Nat /\ ps[i + 1].partition_size \in Nat
              /\ End(ps[i + 1]) = ps[i + 1].begin + ps[i + 1].partition_size
              /\ ps[a].begin \in Nat
            BY <1>1, <2>1, <3>1, Zenon
        <3>. QED BY <2>1, <3>2, <3>3, <3>4
    <2>6. i \in Nat /\ a \in Nat
        BY <1>1, <2>1
    <2>. QED BY <2>4, <2>5, <2>6
<1>5. CASE before = {}
    <2>1. Condenses(ps, ps)
        BY CondensesItself
    <2>2. JoinPrevious(ps, ps[a].id) = ps
        BY <1>3, <1>5
    <2>3. ps[a].begin <= ps[a].begin /\ ps[a].begin < End(ps[a])
        <3>1. /\ ps[a].begin \in Nat /\ ps[a].partition_size \in Nat
              /\ End(ps[a]) = ps[a].begin + ps[a].partition_size
            BY <1>1, Zenon
        <3>. QED BY <3>1
    <2>. QED BY <2>1, <2>2, <2>3, Zenon
<1>6. CASE before # {}
    <2>1. PICK i \in before : i + 1 = a
        BY <1>4, <1>6
    <2>2. i \in DOMAIN ps /\ ps[i].status = "FREE" /\ End(ps[i]) = ps[a].begin
        OBVIOUS
    <2>3. First(before) = i
        <3>1. before \in SUBSET Nat
            BY <1>1
        <3>2. First(before) \in before
            BY <1>6, <3>1, FirstIsLeast
        <3>3. First(before) \in Nat /\ i \in Nat /\ First(before) + 1 = i + 1
            BY <1>4, <2>1, <3>1, <3>2
        <3>. HIDE DEF before
        <3>. QED BY <3>3
    <2>4. JoinPrevious(ps, ps[a].id) = Join(ps, i, i + 1)
        BY <1>3, <1>6, <2>1, <2>3
    <2>5. i \in 1..(Len(ps) - 1)
        <3>1. Len(ps) \in Nat /\ i \in 1..Len(ps) /\ a \in 1..Len(ps)
            BY <1>1, <2>2
        <3>. QED BY <2>1, <3>1
    <2>. DEFINE qs == Join(ps, i, i + 1)
    <2>6. /\ qs \in Seq(Part) /\ InAddressOrder(qs) /\ Condenses(qs, ps) /\ i \in DOMAIN qs
          /\ qs[i].status = "FREE" /\ qs[i].begin = ps[i].begin /\ End(qs[i]) = End(ps[a])
        BY <2>1, <2>2, <2>5, JoinNeighbours
    <2>. HIDE DEF qs
    <2>7. qs[i].begin <= ps[a].begin /\ ps[a].begin < End(qs[i])
        <3>1. /\ ps[a].begin \in Nat /\ ps[a].partition_size \in Nat
              /\ End(ps[a]) = ps[a].begin + ps[a].partition_size
              /\ ps[i].begin \in Nat /\ ps[i].partition_size \in Nat
              /\ End(ps[i]) = ps[i].begin + ps[i].partition_size
            BY <1>1, <2>2, Zenon
        <3>. QED BY <2>2, <2>6, <3>1
    <2>8. JoinPrevious(ps, ps[a].id) = qs
        BY <2>4 DEF qs
    <2>. QED BY <2>6, <2>7, <2>8, Zenon
<1>. QED BY <1>5, <1>6

\* The second loop, likewise.
LEMMA JoinNextOrdered ==
    ASSUME NEW ps \in Seq(Part), InAddressOrder(ps), NEW x \in Nat,
           NEW a \in DOMAIN ps, ps[a].status = "FREE", ps[a].begin <= x, x < End(ps[a])
    PROVE  /\ JoinNext(ps, x) \in Seq(Part) /\ InAddressOrder(JoinNext(ps, x))
           /\ Condenses(JoinNext(ps, x), ps)
<1>1. /\ Len(ps) \in Nat /\ DOMAIN ps = 1..Len(ps)
      /\ \A k \in DOMAIN ps : /\ ps[k].begin \in Nat /\ ps[k].partition_size \in Nat
                              /\ End(ps[k]) = ps[k].begin + ps[k].partition_size
                              /\ End(ps[k]) \in Nat
    BY PartFields
<1>2. \A k, l \in DOMAIN ps : k < l => End(ps[k]) <= ps[l].begin
    BY OrderedTiles
<1>. DEFINE at == CHOOSE i \in DOMAIN ps : ps[i].begin <= x /\ x < End(ps[i])
            after == {i \in DOMAIN ps : ps[i].status = "FREE" /\ ps[i].begin = End(ps[a])}
<1>3. at = a
    <2>1. at \in DOMAIN ps /\ ps[at].begin <= x /\ x < End(ps[at])
        OBVIOUS
    <2>. HIDE DEF at
    <2>2. /\ ps[a].begin \in Nat /\ End(ps[a]) \in Nat /\ ps[at].begin \in Nat /\ End(ps[at]) \in Nat
        BY <1>1, <2>1, Zenon
    <2>3. ~(a < at)
        <3>1. a < at => End(ps[a]) <= ps[at].begin
            BY <1>2, <2>1
        <3>. QED BY <2>1, <2>2, <3>1
    <2>4. ~(at < a)
        <3>1. at < a => End(ps[at]) <= ps[a].begin
            BY <1>2, <2>1
        <3>. QED BY <2>1, <2>2, <3>1
    <2>5. at \in Nat /\ a \in Nat
        BY <1>1, <2>1
    <2>. QED BY <2>3, <2>4, <2>5
<1>4. JoinNext(ps, x) = IF after = {} THEN ps ELSE Join(ps, a, First(after))
    BY <1>3 DEF JoinNext
<1>. HIDE DEF at
<1>5. \A i \in after : i = a + 1
    <2>. TAKE i \in after
    <2>1. i \in DOMAIN ps /\ a \in DOMAIN ps /\ ps[i].begin = End(ps[a])
        OBVIOUS
    <2>2. ps[a].begin < End(ps[a]) /\ ps[a].begin \in Nat /\ End(ps[a]) \in Nat
        BY <1>1
    <2>3. a < i
        <3>1. i # a
            BY <2>1, <2>2
        <3>2. ~(i < a)
            <4>. SUFFICES ASSUME i < a PROVE FALSE
                OBVIOUS
            <4>1. End(ps[i]) <= ps[a].begin
                BY <1>2, <2>1, Zenon
            <4>2. /\ ps[i].begin \in Nat /\ ps[i].partition_size \in Nat
                  /\ End(ps[i]) = ps[i].begin + ps[i].partition_size
                BY <1>1, <2>1, Zenon
            <4>. QED BY <2>1, <2>2, <4>1, <4>2
        <3>3. i \in Nat /\ a \in Nat
            BY <1>1, <2>1
        <3>. QED BY <3>1, <3>2, <3>3
    <2>4. ~(a + 1 < i)
        <3>. SUFFICES ASSUME a + 1 < i PROVE FALSE
            OBVIOUS
        <3>0. Len(ps) \in Nat /\ i \in 1..Len(ps) /\ a \in 1..Len(ps)
            BY <1>1, <2>1
        <3>1. a + 1 \in DOMAIN ps /\ a \in 1..(Len(ps) - 1) /\ a + 1 \in 1..(Len(ps) - 1)
            BY <1>1, <3>0
        <3>2. ps[a + 1].partition_size >= 1 /\ ps[a + 1].begin = End(ps[a])
            BY <3>1 DEF InAddressOrder
        <3>3. End(ps[a + 1]) <= ps[i].begin
            BY <1>2, <2>1, <3>1, Zenon
        <3>4. /\ ps[a + 1].begin \in Nat /\ ps[a + 1].partition_size \in Nat
              /\ End(ps[a + 1]) = ps[a + 1].begin + ps[a + 1].partition_size
            BY <1>1, <3>1, Zenon
        <3>. QED BY <2>1, <3>2, <3>3, <3>4
    <2>5. i \in Nat /\ a \in Nat
        BY <1>1, <2>1
    <2>. QED BY <2>3, <2>4, <2>5
<1>6. CASE after = {}
    <2>1. Condenses(ps, ps)
        BY CondensesItself
    <2>. QED BY <1>4, <1>6, <2>1
<1>7. CASE after # {}
    <2>1. First(after) = a + 1 /\ ps[a + 1].status = "FREE" /\ a + 1 \in DOMAIN ps
        <3>1. after \in SUBSET Nat
            BY <1>1
        <3>2. First(after) \in after
            BY <1>7, <3>1, FirstIsLeast
        <3>. QED BY <1>5, <3>2
    <2>2. JoinNext(ps, x) = Join(ps, a, a + 1)
        BY <1>4, <1>7, <2>1
    <2>3. a \in 1..(Len(ps) - 1)
        <3>1. Len(ps) \in Nat /\ a + 1 \in 1..Len(ps) /\ a \in 1..Len(ps)
            BY <1>1, <2>1
        <3>. QED BY <3>1
    <2>. QED BY <2>1, <2>2, <2>3, JoinNeighbours
<1>. QED BY <1>6, <1>7

\* consolidate, as a whole.
LEMMA ConsolidatedOrdered ==
    ASSUME NEW ps \in Seq(Part), InAddressOrder(ps), InIdOrder(ps),
           NEW a \in DOMAIN ps, ps[a].status = "FREE", ps[a].partition_size >= 1,
           NEW qs \in Consolidated(ps, ps[a].id)
    PROVE  qs \in Seq(Part) /\ InAddressOrder(qs) /\ Condenses(qs, ps)
<1>1. IndexOfId(ps, ps[a].id) = a
    BY DEF IndexOfId, InIdOrder
<1>. DEFINE rs == JoinPrevious(ps, ps[a].id)
<1>2. qs = JoinNext(rs, ps[a].begin)
    BY <1>1 DEF Consolidated
<1>3. /\ rs \in Seq(Part) /\ InAddressOrder(rs) /\ Condenses(rs, ps)
      /\ \E i \in DOMAIN rs : /\ rs[i].status = "FREE" /\ rs[i].begin <= ps[a].begin
                              /\ ps[a].begin < End(rs[i])
    BY JoinPreviousOrdered
<1>. HIDE DEF rs
<1>4. ps[a].begin \in Nat
    BY PartFields
<1>5. qs \in Seq(Part) /\ InAddressOrder(qs) /\ Condenses(qs, rs)
    BY <1>2, <1>3, <1>4, JoinNextOrdered
<1>. QED BY <1>3, <1>5, CondensesTwice

-----------------------------------------------------------------------------
(* perform_compaction.                                                     *)

\* SizeBefore adds up.
LEMMA SizeBeforeAdds ==
    ASSUME NEW ps \in Seq(Part)
    PROVE  /\ SizeBefore(ps, 1) = 0
           /\ \A i \in 1..(Len(ps) + 1) : SizeBefore(ps, i) \in Nat
           /\ \A i \in 1..Len(ps) : SizeBefore(ps, i + 1) = SizeBefore(ps, i) + ps[i].partition_size
<1>. DEFINE size == [j \in DOMAIN ps |-> ps[j].partition_size]
<1>1. /\ Len(ps) \in Nat /\ DOMAIN ps = 1..Len(ps)
      /\ \A k \in DOMAIN ps : ps[k].partition_size \in Nat
    BY PartFields
<1>2. \A i : SizeBefore(ps, i) = SumFunctionOnSet(size, 1..(i - 1))
    BY DEF SizeBefore
<1>3. \A k \in DOMAIN ps : size[k] = ps[k].partition_size /\ size[k] \in Nat
    BY <1>1
<1>. HIDE DEF size
<1>4. ASSUME NEW i \in 1..(Len(ps) + 1)
      PROVE  IsFiniteSet(1..(i - 1)) /\ \A x \in 1..(i - 1) : size[x] \in Nat
    <2>1. i - 1 \in Int /\ 1 \in Int /\ \A x \in 1..(i - 1) : x \in DOMAIN ps
        BY <1>1
    <2>. QED BY <1>3, <2>1, FS_Interval
<1>5. SizeBefore(ps, 1) = 0
    <2>1. 1 \in 1..(Len(ps) + 1) /\ 1..(1 - 1) = {}
        BY <1>1
    <2>2. SumFunctionOnSet(size, 1..(1 - 1)) = 0
        BY <1>4, <2>1, SumOnSet
    <2>. QED BY <1>2, <2>2
<1>6. \A i \in 1..(Len(ps) + 1) : SizeBefore(ps, i) \in Nat
    <2>. TAKE i \in 1..(Len(ps) + 1)
    <2>1. PICK S : S = 1..(i - 1)
        OBVIOUS
    <2>2. IsFiniteSet(S) /\ \A x \in S : size[x] \in Nat
        BY <1>4, <2>1
    <2>3. SumFunctionOnSet(size, S) \in Nat
        BY <2>2, SumOnSet
    <2>. QED BY <1>2, <2>1, <2>3
<1>7. ASSUME NEW i \in 1..Len(ps)
      PROVE  SizeBefore(ps, i + 1) = SizeBefore(ps, i) + ps[i].partition_size
    <2>1. i + 1 \in 1..(Len(ps) + 1) /\ i \in 1..(i + 1 - 1) /\ (1..(i + 1 - 1)) \ {i} = 1..(i - 1)
        BY <1>1
    <2>2. PICK j : j = i + 1 /\ j \in 1..(Len(ps) + 1)
        BY <2>1
    <2>. DEFINE S == 1..(j - 1)
    <2>. HIDE DEF S
    <2>3. SizeBefore(ps, i + 1) = size[i] + SizeBefore(ps, i)
        <3>1. IsFiniteSet(S) /\ \A x \in S : size[x] \in Nat
            BY <1>4, <2>2 DEF S
        <3>2. i \in S /\ S \ {i} = 1..(i - 1)
            BY <2>1, <2>2 DEF S
        <3>3. SumFunctionOnSet(size, S) = size[i] + SumFunctionOnSet(size, S \ {i})
            BY <3>1, <3>2, SumOnSet
        <3>4. SizeBefore(ps, i + 1) = SumFunctionOnSet(size, S)
            BY <1>2, <2>2 DEF S
        <3>5. SizeBefore(ps, i) = SumFunctionOnSet(size, S \ {i})
            BY <1>2, <3>2
        <3>. QED BY <3>3, <3>4, <3>5
    <2>4. size[i] = ps[i].partition_size /\ size[i] \in Nat /\ SizeBefore(ps, i) \in Nat
        BY <1>1, <1>3, <1>6
    <2>. QED BY <2>3, <2>4
<1>. QED BY <1>5, <1>6, <1>7

\* Partitions that are apart and within the memory are not larger than it in all.
LEMMA SizesFit ==
    ASSUME NEW ps \in Seq(Part),
           \A i \in DOMAIN ps : End(ps[i]) <= TAMANO_MEMORIA,
           \A i, j \in DOMAIN ps : i # j => End(ps[i]) <= ps[j].begin \/ End(ps[j]) <= ps[i].begin
    PROVE  SizeBefore(ps, Len(ps) + 1) <= TAMANO_MEMORIA
<1>. DEFINE size == [j \in DOMAIN ps |-> ps[j].partition_size]
            bytes == [j \in DOMAIN ps |-> ps[j].begin .. (End(ps[j]) - 1)]
<1>1. /\ Len(ps) \in Nat /\ DOMAIN ps = 1..Len(ps)
      /\ \A k \in DOMAIN ps : /\ ps[k].begin \in Nat /\ ps[k].partition_size \in Nat
                              /\ End(ps[k]) = ps[k].begin + ps[k].partition_size
                              /\ End(ps[k]) \in Nat
    BY PartFields
<1>2. TAMANO_MEMORIA \in Nat
    BY Configured
<1>3. SizeBefore(ps, Len(ps) + 1) = SumFunctionOnSet(size, DOMAIN ps)
    <2>1. 1..(Len(ps) + 1 - 1) = DOMAIN ps
        BY <1>1
    <2>. QED BY <2>1 DEF SizeBefore
<1>4. IsFiniteSet(DOMAIN ps)
    BY <1>1, FS_Interval
<1>5. IsFiniteSet(Bytes) /\ Cardinality(Bytes) = TAMANO_MEMORIA
    <2>1. 0 \in Int /\ TAMANO_MEMORIA - 1 \in Int
        BY <1>2
    <2>2. IsFiniteSet(Bytes) /\ Cardinality(Bytes)
            = IF 0 > TAMANO_MEMORIA - 1 THEN 0 ELSE TAMANO_MEMORIA - 1 - 0 + 1
        BY <2>1, FS_Interval DEF Bytes
    <2>. QED BY <1>2, <2>2
<1>6. bytes \in [DOMAIN ps -> SUBSET Bytes]
    <2>1. ASSUME NEW k \in DOMAIN ps PROVE ps[k].begin .. (End(ps[k]) - 1) \in SUBSET Bytes
        <3>1. ps[k].begin \in Nat /\ End(ps[k]) \in Nat /\ End(ps[k]) <= TAMANO_MEMORIA
            BY <1>1
        <3>. QED BY <1>2, <3>1 DEF Bytes
    <2>. QED BY <2>1
<1>7. \A x \in DOMAIN ps : size[x] = Cardinality(bytes[x])
    <2>. TAKE x \in DOMAIN ps
    <2>1. /\ ps[x].begin \in Nat /\ ps[x].partition_size \in Nat
          /\ End(ps[x]) = ps[x].begin + ps[x].partition_size
        BY <1>1
    <2>2. ps[x].begin \in Int /\ End(ps[x]) - 1 \in Int
        BY <2>1
    <2>3. Cardinality(ps[x].begin .. (End(ps[x]) - 1))
            = IF ps[x].begin > End(ps[x]) - 1 THEN 0 ELSE End(ps[x]) - 1 - ps[x].begin + 1
        BY <2>2, FS_Interval
    <2>4. Cardinality(ps[x].begin .. (End(ps[x]) - 1)) = ps[x].partition_size
        BY <2>1, <2>3
    <2>. QED BY <2>4
<1>8. \A x, y \in DOMAIN ps : x # y => bytes[x] \cap bytes[y] = {}
    <2>. SUFFICES ASSUME NEW x \in DOMAIN ps, NEW y \in DOMAIN ps, x # y
                  PROVE  bytes[x] \cap bytes[y] = {}
        OBVIOUS
    <2>1. End(ps[x]) <= ps[y].begin \/ End(ps[y]) <= ps[x].begin
        OBVIOUS
    <2>2. /\ ps[x].begin \in Nat /\ End(ps[x]) \in Nat /\ ps[y].begin \in Nat /\ End(ps[y]) \in Nat
        BY <1>1
    <2>3. bytes[x] = ps[x].begin .. (End(ps[x]) - 1) /\ bytes[y] = ps[y].begin .. (End(ps[y]) - 1)
        OBVIOUS
    <2>. HIDE DEF bytes
    <2>. QED BY <2>1, <2>2, <2>3
<1>. HIDE DEF size, bytes
<1>9. SumFunctionOnSet(size, DOMAIN ps) <= Cardinality(Bytes)
    BY <1>4, <1>5, <1>6, <1>7, <1>8, SumOfCardinalities
<1>. QED BY <1>3, <1>5, <1>9

\* The packed list, with the rest of the memory behind it, is in the order of
\* addresses.
LEMMA PackedOrdered ==
    ASSUME NEW os \in Seq(Part), \A i \in DOMAIN os : os[i].partition_size >= 1,
           NEW r \in Part, r.begin = SizeBefore(os, Len(os) + 1), End(r) = TAMANO_MEMORIA
    PROVE  /\ Append(Packed(os), r) \in Seq(Part) /\ InAddressOrder(Append(Packed(os), r))
           /\ Len(Append(Packed(os), r)) = Len(os) + 1
           /\ \A k \in 1..Len(os) : Append(Packed(os), r)[k] = [os[k] EXCEPT !.begin = SizeBefore(os, k)]
           /\ Append(Packed(os), r)[Len(os) + 1] = r
           /\ Len(Packed(os)) = Len(os) /\ DOMAIN Packed(os) = DOMAIN os
           /\ \A k \in 1..Len(os) : Packed(os)[k] = [os[k] EXCEPT !.begin = SizeBefore(os, k)]
<1>1. /\ Len(os) \in Nat /\ DOMAIN os = 1..Len(os)
      /\ \A k \in DOMAIN os : os[k] \in Part /\ os[k].partition_size \in Nat
    BY PartFields
<1>2. /\ SizeBefore(os, 1) = 0
      /\ \A i \in 1..(Len(os) + 1) : SizeBefore(os, i) \in Nat
      /\ \A i \in 1..Len(os) : SizeBefore(os, i + 1) = SizeBefore(os, i) + os[i].partition_size
    BY SizeBeforeAdds
<1>. DEFINE ks == Packed(os)
            moved(k) == [os[k] EXCEPT !.begin = SizeBefore(os, k)]
<1>3. ks = [k \in 1..Len(os) |-> moved(k)]
    BY <1>1 DEF Packed
<1>4. \A k \in 1..Len(os) :
        /\ moved(k) \in Part /\ moved(k).begin = SizeBefore(os, k)
        /\ moved(k).partition_size = os[k].partition_size
        /\ End(moved(k)) = SizeBefore(os, k + 1)
    <2>. TAKE k \in 1..Len(os)
    <2>1. SizeBefore(os, k) \in Nat /\ SizeBefore(os, k + 1) = SizeBefore(os, k) + os[k].partition_size
        BY <1>1, <1>2
    <2>2. PICK q : q = os[k] /\ q \in Part
        BY <1>1
    <2>3. PICK n : n = SizeBefore(os, k) /\ n \in Nat
        BY <2>1
    <2>4. PICK v : v = [q EXCEPT !.begin = n]
        OBVIOUS
    <2>5. v \in Part /\ v.begin = n /\ v.partition_size = q.partition_size
        BY <2>2, <2>3, <2>4 DEF Part
    <2>6. moved(k) = v
        BY <2>2, <2>3, <2>4
    <2>. HIDE DEF moved
    <2>. QED BY <2>1, <2>2, <2>3, <2>5, <2>6 DEF End
<1>. HIDE DEF moved, ks
<1>5. ks \in Seq(Part) /\ Len(ks) = Len(os) /\ DOMAIN ks = 1..Len(os)
    <2>1. ks \in [1..Len(os) -> Part]
        BY <1>3, <1>4
    <2>2. ks \in Seq(Part)
        BY <1>1, <2>1, SeqDef
    <2>. QED BY <1>1, <1>3, <2>2, LenProperties
<1>. DEFINE qs == Append(ks, r)
<1>6. /\ qs \in Seq(Part) /\ Len(qs) = Len(os) + 1
      /\ \A k \in 1..Len(os) : qs[k] = moved(k)
      /\ qs[Len(os) + 1] = r
    <2>1. /\ qs \in Seq(Part) /\ Len(qs) = Len(ks) + 1
          /\ \A k \in 1..Len(ks) : qs[k] = ks[k]
          /\ qs[Len(ks) + 1] = r
        BY <1>5, AppendProperties
    <2>. HIDE DEF qs
    <2>. QED BY <1>3, <1>5, <2>1
<1>. HIDE DEF qs
<1>7. InAddressOrder(qs)
    <2>1. Len(qs) >= 1
        BY <1>1, <1>6
    <2>2. qs[1].begin = 0
        <3>1. CASE Len(os) = 0
            BY <1>2, <1>6, <3>1
        <3>2. CASE Len(os) # 0
            <4>1. 1 \in 1..Len(os)
                BY <1>1, <3>2
            <4>. QED BY <1>2, <1>4, <1>6, <4>1
        <3>. QED BY <3>1, <3>2
    <2>3. End(qs[Len(qs)]) = TAMANO_MEMORIA
        BY <1>6
    <2>4. ASSUME NEW i \in 1..(Len(qs) - 1)
          PROVE  qs[i].partition_size >= 1 /\ qs[i + 1].begin = End(qs[i])
        <3>1. i \in 1..Len(os) /\ i \in DOMAIN os
            BY <1>1, <1>6
        <3>2. qs[i].partition_size >= 1 /\ End(qs[i]) = SizeBefore(os, i + 1)
            BY <1>4, <1>6, <3>1
        <3>3. CASE i = Len(os)
            BY <1>6, <3>2, <3>3
        <3>4. CASE i # Len(os)
            <4>1. i + 1 \in 1..Len(os)
                BY <1>1, <3>1, <3>4
            <4>. QED BY <1>4, <1>6, <3>2, <4>1
        <3>. QED BY <3>3, <3>4
    <2>. QED BY <2>1, <2>2, <2>3, <2>4 DEF InAddressOrder
<1>8. \A k \in 1..Len(os) : ks[k] = moved(k)
    BY <1>3
<1>. QED BY <1>1, <1>5, <1>6, <1>7, <1>8 DEF moved, ks, qs

\* The bytes of a partition move with it.
LEMMA MovedKeeps ==
    ASSUME NEW os \in Seq(Part), memory \in [Bytes -> 0..MaxMessages],
           \A i \in DOMAIN os : os[i].partition_size >= 1 /\ End(os[i]) <= TAMANO_MEMORIA,
           SizeBefore(os, Len(os) + 1) <= TAMANO_MEMORIA
    PROVE  /\ Moved(os, Packed(os), SizeBefore(os, Len(os) + 1)) \in [Bytes -> 0..MaxMessages]
           /\ \A k \in 1..Len(os) : \A d \in 0..(os[k].partition_size - 1) :
                Moved(os, Packed(os), SizeBefore(os, Len(os) + 1))[SizeBefore(os, k) + d]
                    = memory[os[k].begin + d]
<1>. DEFINE offset == SizeBefore(os, Len(os) + 1)
            ks == Packed(os)
            r == Partition(0, offset, TAMANO_MEMORIA - offset, "FREE", 0, 0)
            qs == Append(ks, r)
<1>1. /\ Len(os) \in Nat /\ DOMAIN os = 1..Len(os)
      /\ \A k \in DOMAIN os : /\ os[k] \in Part /\ os[k].begin \in Nat /\ os[k].partition_size \in Nat
                              /\ End(os[k]) = os[k].begin + os[k].partition_size
                              /\ End(os[k]) \in Nat
    BY PartFields
<1>2. TAMANO_MEMORIA \in Nat /\ MaxMessages \in Nat
    BY Configured
<1>3. offset \in Nat /\ offset <= TAMANO_MEMORIA
    <2>1. Len(os) + 1 \in 1..(Len(os) + 1)
        BY <1>1
    <2>. QED BY <2>1, SizeBeforeAdds
<1>4. r \in Part /\ r.begin = offset /\ r.partition_size = TAMANO_MEMORIA - offset
      /\ End(r) = TAMANO_MEMORIA
    BY <1>2, <1>3 DEF Partition, Part, End
<1>. HIDE DEF r
<1>5. /\ qs \in Seq(Part) /\ InAddressOrder(qs) /\ Len(qs) = Len(os) + 1
      /\ \A k \in 1..Len(os) : qs[k] = [os[k] EXCEPT !.begin = SizeBefore(os, k)]
      /\ qs[Len(os) + 1] = r
      /\ DOMAIN ks = 1..Len(os)
      /\ \A k \in 1..Len(os) : ks[k] = [os[k] EXCEPT !.begin = SizeBefore(os, k)]
    BY <1>1, <1>4, PackedOrdered
<1>. HIDE DEF offset, ks, qs
<1>6. /\ \A i, j \in 1..Len(os) : i # j => End(ks[i]) <= ks[j].begin \/ End(ks[j]) <= ks[i].begin
      /\ \A b \in Bytes : b < offset =>
            \E i \in 1..Len(os) : ks[i].begin <= b /\ b < End(ks[i])
    <2>1. Tiles(qs)
        BY <1>5, OrderedTiles
    <2>2. DOMAIN qs = 1..(Len(os) + 1) /\ \A k \in 1..Len(os) : k \in DOMAIN qs /\ qs[k] = ks[k]
        BY <1>1, <1>5, LenProperties
    <2>3. ASSUME NEW i \in 1..Len(os), NEW j \in 1..Len(os), i # j
          PROVE  End(ks[i]) <= ks[j].begin \/ End(ks[j]) <= ks[i].begin
        BY <2>1, <2>2, <2>3 DEF Tiles
    <2>4. ASSUME NEW b \in Bytes, b < offset
          PROVE  \E i \in 1..Len(os) : ks[i].begin <= b /\ b < End(ks[i])
        <3>1. PICK i \in DOMAIN qs : qs[i].begin <= b /\ b < End(qs[i])
            BY <2>1 DEF Tiles
        <3>2. i # Len(os) + 1
            <4>1. b \in Nat
                BY <1>2 DEF Bytes
            <4>. QED BY <1>3, <1>4, <1>5, <2>4, <3>1, <4>1
        <3>3. i \in 1..Len(os)
            BY <1>1, <2>2, <3>2
        <3>. QED BY <2>2, <3>1, <3>3
    <2>. QED BY <2>3, <2>4
<1>7. \A k \in 1..Len(os) :
        /\ ks[k].begin \in Nat /\ ks[k].begin = SizeBefore(os, k)
        /\ End(ks[k]) = ks[k].begin + os[k].partition_size
        /\ End(ks[k]) <= offset /\ End(ks[k]) \in Nat
    <2>. TAKE k \in 1..Len(os)
    <2>1. k \in 1..(Len(os) + 1) /\ SizeBefore(os, k) \in Nat
        BY <1>1, SizeBeforeAdds
    <2>2. PICK q : q = os[k] /\ q \in Part
        BY <1>1
    <2>3. PICK n : n = SizeBefore(os, k) /\ n \in Nat
        BY <2>1
    <2>4. PICK v : v = [q EXCEPT !.begin = n]
        OBVIOUS
    <2>5. v.begin = n /\ v.partition_size = q.partition_size
        BY <2>2, <2>3, <2>4 DEF Part
    <2>6. ks[k] = v
        BY <1>5, <2>2, <2>3, <2>4
    <2>7. End(ks[k]) <= offset
        <3>1. \A i, j \in DOMAIN qs : i < j => End(qs[i]) <= qs[j].begin
            BY <1>5, OrderedTiles
        <3>2. k \in DOMAIN qs /\ Len(os) + 1 \in DOMAIN qs /\ k < Len(os) + 1
            BY <1>1, <1>5, LenProperties
        <3>3. End(qs[k]) <= qs[Len(os) + 1].begin
            BY <3>1, <3>2
        <3>. QED BY <1>4, <1>5, <3>3
    <2>8. q.partition_size \in Nat
        BY <2>2 DEF Part
    <2>. QED BY <2>2, <2>3, <2>5, <2>6, <2>7, <2>8 DEF End
<1>. DEFINE In(b) == {j \in DOMAIN ks : b \in ks[j].begin .. (End(ks[j]) - 1)}
            Source(b) == {os[i].begin + (b - ks[i].begin) : i \in In(b)}
            moved == Moved(os, ks, offset)
<1>8. moved = [b \in Bytes |-> IF b < offset THEN memory[CHOOSE a \in Source(b) : TRUE] ELSE 0]
    BY DEF Moved
<1>9. ASSUME NEW k \in 1..Len(os), NEW d \in 0..(os[k].partition_size - 1)
      PROVE  /\ SizeBefore(os, k) + d \in Bytes /\ SizeBefore(os, k) + d < offset
             /\ Source(SizeBefore(os, k) + d) = {os[k].begin + d}
             /\ os[k].begin + d \in Bytes
    <2>1. /\ ks[k].begin \in Nat /\ End(ks[k]) = ks[k].begin + os[k].partition_size
          /\ End(ks[k]) <= offset /\ ks[k].begin = SizeBefore(os, k)
          /\ os[k].partition_size \in Nat /\ os[k].begin \in Nat
          /\ os[k].begin + os[k].partition_size <= TAMANO_MEMORIA
        BY <1>1, <1>7
    <2>2. PICK b : b = SizeBefore(os, k) + d
        OBVIOUS
    <2>d. d \in Nat /\ d < os[k].partition_size
        BY <2>1
    <2>. HIDE DEF In, Source, moved
    <2>3. /\ b \in Nat /\ b < offset /\ b \in Bytes /\ b - ks[k].begin = d
          /\ ks[k].begin <= b /\ b < End(ks[k])
        <3>1. b = ks[k].begin + d
            BY <2>1, <2>2
        <3>2. b \in Nat /\ b - ks[k].begin = d /\ ks[k].begin <= b
            BY <2>1, <2>d, <3>1
        <3>3. b < End(ks[k])
            BY <2>1, <2>d, <3>1
        <3>4. b < offset /\ b < TAMANO_MEMORIA
            <4>1. End(ks[k]) \in Nat
                BY <2>1
            <4>. QED BY <1>2, <1>3, <2>1, <3>2, <3>3, <4>1, SMTT(20)
        <3>5. b \in Bytes
            BY <1>2, <3>2, <3>4 DEF Bytes
        <3>. QED BY <3>2, <3>3, <3>4, <3>5
    <2>4. In(b) = {k}
        <3>1. k \in In(b)
            BY <1>5, <2>1, <2>3 DEF In
        <3>2. ASSUME NEW j \in In(b), j # k PROVE FALSE
            <4>1. j \in 1..Len(os) /\ b \in ks[j].begin .. (End(ks[j]) - 1)
                BY <1>5 DEF In
            <4>2. /\ ks[j].begin \in Nat /\ End(ks[j]) = ks[j].begin + os[j].partition_size
                  /\ os[j].partition_size \in Nat
                BY <1>1, <1>7, <4>1
            <4>3. ks[j].begin <= b /\ b < End(ks[j])
                BY <2>3, <4>1, <4>2
            <4>4. End(ks[j]) <= ks[k].begin \/ End(ks[k]) <= ks[j].begin
                BY <1>6, <3>2, <4>1
            <4>5. End(ks[j]) \in Nat /\ End(ks[k]) \in Nat
                BY <1>7, <4>1
            <4>6. ~(End(ks[j]) <= ks[k].begin)
                <5>1. /\ b \in Nat /\ ks[k].begin \in Nat /\ ks[k].begin <= b /\ b < End(ks[j])
                    BY <2>1, <2>3, <4>3
                <5>. QED BY <4>5, <5>1
            <4>7. ~(End(ks[k]) <= ks[j].begin)
                <5>1. /\ b \in Nat /\ ks[j].begin \in Nat /\ ks[j].begin <= b /\ b < End(ks[k])
                    BY <2>3, <4>2, <4>3
                <5>. QED BY <4>5, <5>1
            <4>. QED BY <4>4, <4>6, <4>7, Zenon
        <3>. QED BY <3>1, <3>2
    <2>5. Source(b) = {os[k].begin + d}
        BY <2>3, <2>4 DEF Source
    <2>6. os[k].begin + d \in Bytes
        <3>1. PICK a : a = os[k].begin
            OBVIOUS
        <3>2. PICK n : n = os[k].partition_size
            OBVIOUS
        <3>3. a \in Nat /\ n \in Nat /\ a + n <= TAMANO_MEMORIA
            BY <2>1, <3>1, <3>2
        <3>4. d \in Nat /\ d < n
            BY <2>d, <3>2
        <3>5. a + d \in Nat /\ a + d < TAMANO_MEMORIA
            <4>1. TAMANO_MEMORIA \in Nat
                BY <1>2
            <4>. QED BY <3>3, <3>4, <4>1
        <3>6. a + d \in Bytes
            BY <1>2, <3>5 DEF Bytes
        <3>. QED BY <3>1, <3>6
    <2>. QED BY <2>2, <2>3, <2>5, <2>6
<1>. HIDE DEF moved, Source
<1>10. \A k \in 1..Len(os) : \A d \in 0..(os[k].partition_size - 1) :
            moved[SizeBefore(os, k) + d] = memory[os[k].begin + d]
    <2>. TAKE k \in 1..Len(os)
    <2>. TAKE d \in 0..(os[k].partition_size - 1)
    <2>1. PICK b : b = SizeBefore(os, k) + d
        OBVIOUS
    <2>2. b \in Bytes /\ b < offset /\ Source(b) = {os[k].begin + d}
        BY <1>9, <2>1
    <2>3. (CHOOSE a \in Source(b) : TRUE) = os[k].begin + d
        BY <2>2
    <2>. QED BY <1>8, <2>1, <2>2, <2>3
<1>11. ASSUME NEW b \in Bytes PROVE moved[b] \in 0..MaxMessages
    <2>1. CASE b < offset
        <3>1. PICK i \in 1..Len(os) : ks[i].begin <= b /\ b < End(ks[i])
            BY <1>6, <2>1
        <3>2. /\ ks[i].begin \in Nat /\ End(ks[i]) = ks[i].begin + os[i].partition_size
              /\ ks[i].begin = SizeBefore(os, i) /\ os[i].partition_size \in Nat
            BY <1>1, <1>7
        <3>3. b \in Nat
            BY <1>2 DEF Bytes
        <3>4. PICK d : d = b - ks[i].begin
            OBVIOUS
        <3>5. d \in 0..(os[i].partition_size - 1) /\ SizeBefore(os, i) + d = b
            BY <3>1, <3>2, <3>3, <3>4
        <3>6. moved[b] = memory[os[i].begin + d] /\ os[i].begin + d \in Bytes
            BY <1>9, <1>10, <3>5
        <3>. QED BY <3>6
    <2>2. CASE ~(b < offset)
        BY <1>2, <1>8, <2>2
    <2>. QED BY <2>1, <2>2
<1>12. moved \in [Bytes -> 0..MaxMessages]
    BY <1>8, <1>11
<1>. QED BY <1>10, <1>12 DEF moved, offset, ks

\* OccupiedPartitions is the occupied ones, in their order.
LEMMA OccupiedPartitionsAre ==
    ASSUME memory_partitions \in Seq(Part)
    PROVE  /\ OccupiedPartitions \in Seq(Part)
           /\ \E h \in [1..Len(OccupiedPartitions) -> Occupied] :
                /\ \A k, l \in 1..Len(OccupiedPartitions) : k < l => h[k] < h[l]
                /\ \A i \in Occupied : \E k \in 1..Len(OccupiedPartitions) : h[k] = i
                /\ \A k \in 1..Len(OccupiedPartitions) :
                        OccupiedPartitions[k] = memory_partitions[h[k]]
<1>1. /\ Len(memory_partitions) \in Nat /\ DOMAIN memory_partitions = 1..Len(memory_partitions)
      /\ \A k \in DOMAIN memory_partitions : memory_partitions[k] \in Part
    BY PartFields
<1>2. Occupied \in SUBSET Nat /\ Occupied \in SUBSET DOMAIN memory_partitions
    BY <1>1 DEF Occupied
<1>3. IsFiniteSet(Occupied) /\ Cardinality(Occupied) \in Nat
    <2>1. IsFiniteSet(1..Len(memory_partitions))
        BY <1>1, FS_Interval
    <2>. QED BY <1>1, <1>2, <2>1, FS_Subset, FS_CardinalityType
<1>. DEFINE n == Cardinality(Occupied)
            order == InOrder(Occupied)
<1>4. /\ order \in [1..n -> Occupied]
      /\ \A i, j \in 1..n : i < j => order[i] < order[j]
      /\ \A x \in Occupied : \E i \in 1..n : order[i] = x
    BY <1>2, <1>3, InOrderDefined
<1>5. OccupiedPartitions = [k \in 1..n |-> memory_partitions[order[k]]]
    BY DEF OccupiedPartitions
<1>. HIDE DEF n, order
<1>6. OccupiedPartitions \in [1..n -> Part]
    BY <1>1, <1>2, <1>4, <1>5
<1>7. n \in Nat
    BY <1>3 DEF n
<1>8. OccupiedPartitions \in Seq(Part) /\ Len(OccupiedPartitions) = n
    <2>1. OccupiedPartitions \in Seq(Part)
        BY <1>6, <1>7, SeqDef
    <2>. QED BY <1>5, <1>7, <2>1, LenProperties
<1>. QED BY <1>4, <1>5, <1>8

-----------------------------------------------------------------------------
(* The inductive invariant.                                                *)

Storing == {"compact", "find", "delete", "place"}

\* The memory and the list have their types; no id or timestamp is from the future.
ListOK ==
    /\ memory \in [Bytes -> 0..MaxMessages]
    /\ memory_partitions \in Seq(Part)
    /\ \A i \in DOMAIN memory_partitions :
            /\ memory_partitions[i].id \in 1..partition_count
            /\ memory_partitions[i].occupied_timestamp <= now
            /\ memory_partitions[i].lru_timestamp <= now

\* What a thread's program counter says of its message and of the mutex.
ThreadFits(p) ==
    /\ pub[p].pc \in Storing <=> (mutex_memory_partitions = p /\ ~crashed)
    /\ pub[p].pc = "dead" <=> crashed
    /\ pub[p].pc = "idle" => pub[p].id = 0
    /\ pub[p].pc \notin {"idle", "dead"} => pub[p].id \in 1..message_count
    /\ pub[p].pc \in Storing \cup {"lock"} =>
            partition_of[pub[p].id] = 0 /\ size_of[pub[p].id] \in Sizes
    /\ mutex_memory_partitions = p =>
            pub[p].id \in 1..message_count /\ partition_of[pub[p].id] = 0
    /\ pub[p].pc = "enqueue" => partition_of[pub[p].id] # 0 /\ pub[p].id \notin queued
    /\ pub[p].pc = "delete" => pub[p].search_count >= 1

\* No message is two threads'.
OwnMessages ==
    \A p, q \in Publishers : (p # q /\ pub[p].id = pub[q].id) => pub[p].id = 0

\* Messages name different partitions, and only stored ones name one or are queued.
Named ==
    /\ \A m \in queued : partition_of[m] # 0
    /\ \A m \in Messages : m > message_count => partition_of[m] = 0
    /\ \A m, n \in Messages : (partition_of[m] = partition_of[n] /\ partition_of[m] # 0) => m = n

Threads == (\A p \in Publishers : ThreadFits(p)) /\ OwnMessages /\ Named

\* A byte for byte copy of a message in each occupied partition, and its size
\* rounded up.
HoldsPayloads ==
    \A i \in Occupied : \E m \in Messages :
        /\ partition_of[m] = memory_partitions[i].id
        /\ size_of[m] \in 1..memory_partitions[i].partition_size
        /\ memory_partitions[i].content_size = ContentSize(size_of[m])
        /\ \A b \in 0..(size_of[m] - 1) : memory[memory_partitions[i].begin + b] = m

\* Between a compaction and the copy the list is in the order of addresses.  A
\* partition that a message names is not empty: consolidate would find another
\* one at its address.
Compacted ==
    (\E p \in Publishers : pub[p].pc \in {"find", "delete"}) =>
        /\ InAddressOrder(memory_partitions)
        /\ \A i \in DOMAIN memory_partitions, m \in Messages :
                partition_of[m] = memory_partitions[i].id
                    => memory_partitions[i].partition_size >= 1

\* What the search found, and what a compaction before each eviction leaves.
SearchFits(p) ==
    /\ pub[p].pc = "place" => Fitting(size_of[pub[p].id]) # {}
    /\ (config.frecuencia = 1 /\ pub[p].pc \in {"find", "delete"}) =>
            Occupied = 1..(Len(memory_partitions) - 1)
    /\ (config.frecuencia = 1 /\ pub[p].pc = "delete") => Fitting(size_of[pub[p].id]) = {}

\* The ids of the occupied partitions.
KeptIds == {memory_partitions[i].id : i \in Occupied}

\* A message that is queued, or about to be, has its payload or lost it early.
KeptOrEarly ==
    \A m \in Messages :
        (m \in queued \/ \E p \in Publishers : pub[p].pc = "enqueue" /\ pub[p].id = m)
            => (partition_of[m] \in KeptIds \/ m \in early)

\* The history agrees with the timestamps LRU goes by.
AgesAgree ==
    config.reemplazo = "LRU" =>
        \A m \in Messages, i \in Occupied :
            memory_partitions[i].id = partition_of[m] => age[m] = memory_partitions[i].lru_timestamp

\* What is said of the list and of the payloads.
Contents ==
    /\ ListOK /\ Tiles(memory_partitions) /\ InIdOrder(memory_partitions) /\ HoldsPayloads
    /\ Compacted /\ \A p \in Publishers : SearchFits(p)
    /\ KeptOrEarly /\ AgesAgree

Inv == ThreadsOK /\ Threads /\ Contents

ReadableIffKept == \A m \in Messages : Readable(m) <=> partition_of[m] \in KeptIds

-----------------------------------------------------------------------------
(* The threads.                                                            *)

\* The constants are numbers.
LEMMA Numbers ==
    /\ TAMANO_MEMORIA \in Nat /\ TAMANO_MINIMO_PARTICION \in Nat /\ TAMANO_MINIMO_PARTICION >= 1
    /\ TAMANO_MINIMO_PARTICION <= TAMANO_MEMORIA /\ MaxMessages \in Nat /\ MaxTime \in Nat
    /\ NoOne \notin Publishers
    /\ \A size \in Sizes : /\ size \in Nat /\ size >= 1 /\ size <= TAMANO_MEMORIA
                           /\ AtLeastMinimum(size) \in Nat /\ AtLeastMinimum(size) >= 1
                           /\ AtLeastMinimum(size) >= size
                           /\ AtLeastMinimum(size) <= TAMANO_MEMORIA
    /\ \A f \in Frequencies : f \in Nat /\ f # 0
BY Configured DEF AtLeastMinimum

\* A step of one thread, seen from the others: theirs is as before.
LEMMA OneThread ==
    ASSUME NEW p \in Publishers, NEW t, pub \in [Publishers -> ThreadState],
           pub' = [pub EXCEPT ![p] = t]
    PROVE  pub'[p] = t /\ \A q \in Publishers : q # p => pub'[q] = pub[q]
OBVIOUS

\* A function with another value at one place.
LEMMA ExceptTyped ==
    ASSUME NEW S, NEW T, NEW f \in [S -> T], NEW x, NEW v \in T
    PROVE  [f EXCEPT ![x] = v] \in [S -> T]
OBVIOUS

\* Every step keeps the types of the threads' variables.
LEMMA ThreadsOKStep ==
    ASSUME ThreadsOK, Threads, [Next]_vars
    PROVE  ThreadsOK'
<1>. USE DEF ThreadsOK, ThreadState
<1>0. /\ Messages \subseteq Nat /\ MaxMessages \in Nat /\ MaxTime \in Nat
      /\ partition_count \in Nat /\ partition_count + 1 \in Nat /\ now \in Nat
    BY Numbers DEF Messages
<1>1. ASSUME NEW p \in Publishers, Lock(p) PROVE ThreadsOK'
    BY <1>1 DEF Lock, messageVars
<1>2. ASSUME NEW p \in Publishers, Compact(p) PROVE ThreadsOK'
    <2>1. partition_of \in [Messages -> 0..(partition_count + 1)]
        BY <1>0
    <2>2. pub' \in [Publishers -> ThreadState]
        BY <1>2 DEF Compact
    <2>. QED BY <1>0, <1>2, <2>1, <2>2 DEF Compact, messageVars
<1>3. ASSUME NEW p \in Publishers, FindAgain(p) PROVE ThreadsOK'
    BY <1>3 DEF FindAgain, messageVars, memoryVars
<1>4. ASSUME NEW i, FreePartition(i), UNCHANGED now
      PROVE  queued' \subseteq Messages /\ age' \in [Messages -> 0..now'] /\ early' \subseteq Messages
    <2>1. queued' \subseteq Messages
        BY <1>4 DEF FreePartition
    <2>2. PICK lost : /\ lost \subseteq Messages /\ early' = early \cup (lost \ queued)
                      /\ age' = [m \in Messages |-> IF m \in lost THEN 0 ELSE age[m]]
        BY <1>4 DEF FreePartition, Forget
    <2>3. age' \in [Messages -> 0..now]
        BY <1>0, <2>2
    <2>. QED BY <1>4, <2>1, <2>2, <2>3
<1>5. ASSUME NEW p \in Publishers, DeletePartition(p) PROVE ThreadsOK'
    <2>1. pub' \in [Publishers -> ThreadState]
        BY <1>5 DEF DeletePartition, AfterDelete
    <2>2. queued' \subseteq Messages /\ age' \in [Messages -> 0..now'] /\ early' \subseteq Messages
        BY <1>4, <1>5 DEF DeletePartition, messageVars
    <2>. QED BY <1>5, <2>1, <2>2 DEF DeletePartition, messageVars
<1>6. ASSUME NEW p \in Publishers, DeleteUndefined(p) PROVE ThreadsOK'
    <2>1. CASE /\ \E i \in DOMAIN memory_partitions : FreePartition(i)
               /\ pub' = [pub EXCEPT ![p].pc = AfterDelete(pub[p])]
               /\ UNCHANGED crashed
        <3>1. pub' \in [Publishers -> ThreadState]
            BY <2>1 DEF AfterDelete
        <3>2. queued' \subseteq Messages /\ age' \in [Messages -> 0..now'] /\ early' \subseteq Messages
            BY <1>4, <1>6, <2>1 DEF DeleteUndefined, messageVars
        <3>. QED BY <1>6, <2>1, <3>1, <3>2 DEF DeleteUndefined, messageVars
    <2>2. CASE Crash /\ UNCHANGED <<memory_partitions, queued, age, early>>
        <3>1. pub' \in [Publishers -> ThreadState]
            BY <2>2 DEF Crash
        <3>. QED BY <1>6, <2>2, <3>1 DEF DeleteUndefined, Crash, messageVars
    <2>. QED BY <1>6, <2>1, <2>2 DEF DeleteUndefined
<1>7. ASSUME NEW p \in Publishers, Place(p) PROVE ThreadsOK'
    <2>1. /\ partition_count' = partition_count + 1
          /\ partition_of' = [partition_of EXCEPT ![pub[p].id] = partition_count + 1]
          /\ age' = [age EXCEPT ![pub[p].id] = now]
          /\ pub' = [pub EXCEPT ![p].pc = "enqueue"]
          /\ mutex_memory_partitions' = NoOne
          /\ UNCHANGED <<messageVars, queued, crashed, early>>
        BY <1>7 DEF Place, CopyPayload
    <2>2. partition_of' \in [Messages -> 0..(partition_count + 1)]
        <3>1. /\ partition_of \in [Messages -> 0..(partition_count + 1)]
              /\ partition_count + 1 \in 0..(partition_count + 1)
            BY <1>0
        <3>. QED BY <2>1, <3>1, ExceptTyped
    <2>3. age' \in [Messages -> 0..now]
        <3>1. now \in 0..now
            BY <1>0
        <3>. QED BY <2>1, <3>1, ExceptTyped
    <2>4. pub' \in [Publishers -> ThreadState]
        BY <2>1
    <2>. QED BY <1>0, <2>1, <2>2, <2>3, <2>4 DEF messageVars
<1>8. ASSUME NEW p \in Publishers, Enqueue(p) PROVE ThreadsOK'
    <2>1. pub' \in [Publishers -> ThreadState]
        <3>1. IdleThread \in ThreadState
            BY <1>0 DEF IdleThread
        <3>. QED BY <1>8, <3>1, ExceptTyped DEF Enqueue
    <2>2. pub[p].id \in Messages
        BY <1>8 DEF Enqueue, Threads, ThreadFits, Messages
    <2>. QED BY <1>8, <2>1, <2>2 DEF Enqueue, memoryVars, messageVars
<1>9. ASSUME NEW p \in Publishers, NEW size \in Sizes, Receive(p, size) PROVE ThreadsOK'
    <2>1. message_count + 1 \in Messages /\ message_count + 1 \in 0..MaxMessages
        BY <1>0, <1>9 DEF Receive, Messages
    <2>2. pub' \in [Publishers -> ThreadState]
        BY <1>9, <2>1 DEF Receive
    <2>3. size_of' \in [Messages -> {0} \cup Sizes]
        BY <1>9, <2>1 DEF Receive
    <2>. QED BY <1>9, <2>1, <2>2, <2>3 DEF Receive, memoryVars
<1>10. ASSUME NEW m \in Messages, PickMessage(m) PROVE ThreadsOK'
    BY <1>0, <1>10 DEF PickMessage, memoryVars, Messages
<1>11. CASE LookUp
    <2>1. age' \in [Messages -> 0..now]
        BY <1>0, <1>11 DEF LookUp
    <2>. QED BY <1>0, <1>11, <2>1 DEF LookUp
<1>12. CASE Tick
    <2>1. now + 1 \in 1..MaxTime /\ age \in [Messages -> 0..(now + 1)]
        BY <1>0, <1>12 DEF Tick
    <2>. QED BY <1>12, <2>1 DEF Tick, memoryVars
<1>13. CASE UNCHANGED vars
    BY <1>13 DEF vars, memoryVars, messageVars
<1>. QED BY <1>1, <1>2, <1>3, <1>5, <1>6, <1>7, <1>8, <1>9, <1>10, <1>11, <1>12, <1>13
         DEF Next, StoreStep, Finished

\* A step that leaves all but one thread alone keeps what is said of the others,
\* if the mutex is no other's and their messages are as before.
LEMMA OthersFit ==
    ASSUME NEW q \in Publishers, ThreadFits(q), pub'[q] = pub[q], UNCHANGED crashed,
           mutex_memory_partitions' = q <=> mutex_memory_partitions = q,
           message_count \in Nat, message_count' \in Nat, message_count <= message_count',
           pub[q].id # 0 => /\ partition_of'[pub[q].id] = partition_of[pub[q].id]
                            /\ size_of'[pub[q].id] = size_of[pub[q].id]
                            /\ pub[q].id \in queued' => pub[q].id \in queued
    PROVE  ThreadFits(q)'
BY DEF ThreadFits, Storing

\* Every step keeps the threads in order.
LEMMA ThreadsStep ==
    ASSUME ThreadsOK, ThreadsOK', Threads, [Next]_vars
    PROVE  Threads'
<1>0. /\ Messages \subseteq Nat /\ NoOne \notin Publishers /\ message_count \in Nat
      /\ partition_count \in Nat /\ 0 \notin Messages
      /\ pub \in [Publishers -> ThreadState] /\ pub' \in [Publishers -> ThreadState]
      /\ mutex_memory_partitions \in Publishers \cup {NoOne}
      /\ partition_of \in [Messages -> 0..partition_count] /\ queued \subseteq Messages
      /\ \A m \in Messages : partition_of[m] \in Nat /\ partition_of[m] <= partition_count
    <2>1. /\ Messages \subseteq Nat /\ NoOne \notin Publishers /\ message_count \in Nat
          /\ partition_count \in Nat /\ 0 \notin Messages
        BY Numbers DEF Messages, ThreadsOK
    <2>2. /\ pub \in [Publishers -> ThreadState] /\ pub' \in [Publishers -> ThreadState]
          /\ mutex_memory_partitions \in Publishers \cup {NoOne}
          /\ partition_of \in [Messages -> 0..partition_count] /\ queued \subseteq Messages
        BY DEF ThreadsOK
    <2>3. \A m \in Messages : partition_of[m] \in Nat /\ partition_of[m] <= partition_count
        <3>1. \A m \in Messages : partition_of[m] \in 0..partition_count
            BY <2>2
        <3>. QED BY <2>1, <3>1
    <2>. QED BY <2>1, <2>2, <2>3
<1>01. \A q \in Publishers : ThreadFits(q)
    BY DEF Threads
<1>02. \A q \in Publishers : pub[q].pc \notin {"idle", "dead"} =>
            pub[q].id \in 1..message_count /\ pub[q].id \in Messages /\ pub[q].id # 0
    <2>. TAKE q \in Publishers
    <2>1. ThreadFits(q)
        BY <1>01
    <2>2. message_count <= MaxMessages /\ MaxMessages \in Nat
        BY Numbers DEF ThreadsOK
    <2>. QED BY <1>0, <2>1, <2>2 DEF ThreadFits, Messages
<1>03. \A p, q \in Publishers : p # q /\ pub[p].id = pub[q].id => pub[p].id = 0
    BY DEF Threads, OwnMessages
<1>1. ASSUME NEW p \in Publishers, Lock(p) PROVE Threads'
    <2>1. /\ pub[p].pc = "lock" /\ mutex_memory_partitions = NoOne /\ mutex_memory_partitions' = p
          /\ pub'[p].pc \in {"place", "compact"} /\ pub'[p].id = pub[p].id
          /\ \A q \in Publishers : q # p => pub'[q] = pub[q]
          /\ UNCHANGED <<partition_of, queued, crashed, message_count, size_of>>
        BY <1>0, <1>1 DEF Lock, messageVars, ThreadState
    <2>2. ThreadFits(p)'
        <3>1. ThreadFits(p)
            BY <1>01
        <3>. QED BY <2>1, <3>1 DEF ThreadFits, Storing
    <2>3. ASSUME NEW q \in Publishers, q # p PROVE ThreadFits(q)'
        BY <1>0, <1>01, <2>1, <2>3, OthersFit
    <2>4. OwnMessages'
        BY <1>03, <2>1 DEF OwnMessages
    <2>. QED BY <2>1, <2>2, <2>3, <2>4 DEF Threads, Named
<1>2. ASSUME NEW p \in Publishers, Compact(p) PROVE Threads'
    <2>1. /\ pub[p].pc = "compact" /\ pub'[p].pc = "find" /\ pub'[p].id = pub[p].id
          /\ \A q \in Publishers : q # p => pub'[q] = pub[q]
          /\ UNCHANGED <<mutex_memory_partitions, partition_of, queued, crashed, message_count, size_of>>
        BY <1>0, <1>2 DEF Compact, messageVars, ThreadState
    <2>2. ThreadFits(p)'
        <3>1. ThreadFits(p)
            BY <1>01
        <3>. QED BY <2>1, <3>1 DEF ThreadFits, Storing
    <2>3. ASSUME NEW q \in Publishers, q # p PROVE ThreadFits(q)'
        BY <1>0, <1>01, <2>1, <2>3, OthersFit
    <2>4. OwnMessages'
        BY <1>03, <2>1 DEF OwnMessages
    <2>. QED BY <2>1, <2>2, <2>3, <2>4 DEF Threads, Named
<1>3. ASSUME NEW p \in Publishers, FindAgain(p) PROVE Threads'
    <2>1. /\ pub[p].pc = "find" /\ pub'[p].pc \in {"place", "delete"} /\ pub'[p].id = pub[p].id
          /\ pub'[p].search_count = pub[p].search_count + 1 /\ pub[p].search_count \in Nat
          /\ \A q \in Publishers : q # p => pub'[q] = pub[q]
          /\ UNCHANGED <<mutex_memory_partitions, partition_of, queued, crashed, message_count, size_of>>
        BY <1>0, <1>3 DEF FindAgain, memoryVars, messageVars, ThreadState
    <2>2. ThreadFits(p)'
        <3>1. ThreadFits(p)
            BY <1>01
        <3>. QED BY <2>1, <3>1 DEF ThreadFits, Storing
    <2>3. ASSUME NEW q \in Publishers, q # p PROVE ThreadFits(q)'
        BY <1>0, <1>01, <2>1, <2>3, OthersFit
    <2>4. OwnMessages'
        BY <1>03, <2>1 DEF OwnMessages
    <2>. QED BY <2>1, <2>2, <2>3, <2>4 DEF Threads, Named
<1>4. ASSUME NEW p \in Publishers, NEW i, pub[p].pc = "delete", FreePartition(i),
             pub' = [pub EXCEPT ![p].pc = AfterDelete(pub[p])],
             UNCHANGED <<partition_count, mutex_memory_partitions, messageVars, partition_of, crashed>>
      PROVE  Threads'
    <2>1. /\ pub'[p].pc \in {"find", "compact"} /\ pub'[p].id = pub[p].id
          /\ \A q \in Publishers : q # p => pub'[q] = pub[q]
          /\ UNCHANGED <<mutex_memory_partitions, partition_of, crashed, message_count, size_of>>
          /\ queued' \subseteq queued
        BY <1>0, <1>4 DEF AfterDelete, FreePartition, messageVars, ThreadState
    <2>2. ThreadFits(p)'
        <3>1. ThreadFits(p)
            BY <1>01
        <3>. QED BY <1>4, <2>1, <3>1 DEF ThreadFits, Storing
    <2>3. ASSUME NEW q \in Publishers, q # p PROVE ThreadFits(q)'
        <3>1. pub[q].id \in queued' => pub[q].id \in queued
            BY <2>1
        <3>. QED BY <1>0, <1>01, <2>1, <2>3, <3>1, OthersFit
    <2>4. OwnMessages'
        BY <1>03, <2>1 DEF OwnMessages
    <2>. QED BY <2>1, <2>2, <2>3, <2>4 DEF Threads, Named
<1>5. ASSUME NEW p \in Publishers, DeletePartition(p) PROVE Threads'
    BY <1>4, <1>5 DEF DeletePartition
<1>6. ASSUME NEW p \in Publishers, DeleteUndefined(p) PROVE Threads'
    <2>1. CASE Crash /\ UNCHANGED <<memory_partitions, queued, age, early>>
        <3>1. /\ crashed' /\ \A q \in Publishers : pub'[q].pc = "dead" /\ pub'[q].id = pub[q].id
              /\ UNCHANGED <<mutex_memory_partitions, partition_of, queued, message_count, size_of>>
            BY <1>0, <1>6, <2>1 DEF DeleteUndefined, Crash, messageVars, ThreadState
        <3>2. ASSUME NEW q \in Publishers PROVE ThreadFits(q)'
            <4>1. ThreadFits(q)
                BY <1>01
            <4>. QED BY <3>1, <4>1 DEF ThreadFits, Storing
        <3>3. OwnMessages'
            BY <1>03, <3>1 DEF OwnMessages
        <3>. QED BY <3>1, <3>2, <3>3 DEF Threads, Named
    <2>. QED BY <1>4, <1>6, <2>1 DEF DeleteUndefined
<1>7. ASSUME NEW p \in Publishers, Place(p) PROVE Threads'
    <2>0. PICK m : m = pub[p].id
        OBVIOUS
    <2>1. /\ pub[p].pc = "place" /\ pub'[p].pc = "enqueue" /\ pub'[p].id = pub[p].id
          /\ mutex_memory_partitions' = NoOne
          /\ \A q \in Publishers : q # p => pub'[q] = pub[q]
          /\ partition_of' = [partition_of EXCEPT ![m] = partition_count + 1]
          /\ UNCHANGED <<queued, crashed, message_count, size_of>>
        BY <1>0, <1>7, <2>0 DEF Place, CopyPayload, messageVars, ThreadState
    <2>2. m \in 1..message_count /\ m \in Messages /\ m # 0
        BY <1>02, <2>0, <2>1
    <2>3. ThreadFits(p) /\ partition_of[m] = 0 /\ mutex_memory_partitions = p
        BY <1>01, <2>0, <2>1 DEF ThreadFits, Storing
    <2>4. m \notin queued
        BY <2>3 DEF Threads, Named
    <2>5. /\ partition_of'[m] = partition_count + 1 /\ partition_count + 1 # 0
          /\ \A n \in Messages : n # m => partition_of'[n] = partition_of[n]
        BY <1>0, <2>1, <2>2
    <2>6. ThreadFits(p)'
        BY <1>0, <2>0, <2>1, <2>3, <2>4, <2>5 DEF ThreadFits, Storing
    <2>7. ASSUME NEW q \in Publishers, q # p PROVE ThreadFits(q)'
        <3>1. pub[q].id # 0 => pub[q].id # m
            BY <1>03, <2>0, <2>7
        <3>2. pub[q].id # 0 => pub[q].id \in Messages
            BY <1>0 DEF ThreadState, Messages
        <3>3. ThreadFits(q)
            BY <1>01
        <3>. QED BY <1>0, <2>1, <2>3, <2>5, <2>7, <3>1, <3>2, <3>3, OthersFit
    <2>8. OwnMessages'
        BY <1>03, <2>1 DEF OwnMessages
    <2>9. Named'
        <3>1. Named
            BY DEF Threads
        <3>2. ASSUME NEW n \in queued PROVE partition_of'[n] # 0
            BY <1>0, <2>5, <3>1, <3>2 DEF Named
        <3>3. ASSUME NEW n \in Messages, n > message_count PROVE partition_of'[n] = 0
            <4>1. n # m
                BY <1>0, <2>2, <3>3
            <4>. QED BY <2>5, <3>1, <3>3, <4>1 DEF Named
        <3>4. ASSUME NEW a \in Messages, NEW b \in Messages,
                     partition_of'[a] = partition_of'[b], partition_of'[a] # 0
              PROVE  a = b
            <4>1. \A n \in Messages : partition_of[n] # partition_count + 1
                BY <1>0
            <4>. QED BY <2>5, <3>1, <3>4, <4>1 DEF Named
        <3>. QED BY <2>1, <3>2, <3>3, <3>4 DEF Named
    <2>. QED BY <2>6, <2>7, <2>8, <2>9 DEF Threads
<1>8. ASSUME NEW p \in Publishers, Enqueue(p) PROVE Threads'
    <2>1. /\ pub[p].pc = "enqueue" /\ pub'[p].pc = "idle" /\ pub'[p].id = 0
          /\ \A q \in Publishers : q # p => pub'[q] = pub[q]
          /\ queued' = queued \cup {pub[p].id}
          /\ UNCHANGED <<mutex_memory_partitions, partition_of, crashed, message_count, size_of>>
        BY <1>0, <1>8 DEF Enqueue, IdleThread, memoryVars, messageVars
    <2>2. ThreadFits(p)'
        <3>1. ThreadFits(p)
            BY <1>01
        <3>. QED BY <2>1, <3>1 DEF ThreadFits, Storing
    <2>3. ASSUME NEW q \in Publishers, q # p PROVE ThreadFits(q)'
        <3>1. pub[q].id # 0 => pub[q].id # pub[p].id
            BY <1>03, <2>3
        <3>. QED BY <1>0, <1>01, <2>1, <2>3, <3>1, OthersFit
    <2>4. OwnMessages'
        BY <1>03, <2>1 DEF OwnMessages
    <2>5. Named'
        <3>1. Named /\ partition_of[pub[p].id] # 0
            BY <1>01, <2>1 DEF Threads, ThreadFits
        <3>. QED BY <2>1, <3>1 DEF Named
    <2>. QED BY <2>2, <2>3, <2>4, <2>5 DEF Threads
<1>9. ASSUME NEW p \in Publishers, NEW size \in Sizes, Receive(p, size) PROVE Threads'
    <2>0. PICK m : m = message_count + 1
        OBVIOUS
    <2>1. /\ pub[p].pc = "idle" /\ pub'[p].pc = "lock" /\ pub'[p].id = m
          /\ \A q \in Publishers : q # p => pub'[q] = pub[q]
          /\ message_count < MaxMessages /\ message_count' = m
          /\ size_of' = [size_of EXCEPT ![m] = size]
          /\ UNCHANGED <<mutex_memory_partitions, partition_of, queued, crashed>>
        BY <1>0, <1>9, <2>0 DEF Receive, memoryVars, ThreadState
    <2>2. /\ m \in Messages /\ m \in 1..m /\ m \in Nat /\ m # 0 /\ message_count <= m
          /\ \A n \in 1..message_count : n # m /\ n \in 1..m
        BY <1>0, <2>0, <2>1, Numbers DEF Messages
    <2>3. size_of'[m] = size /\ \A n : n # m => size_of'[n] = size_of[n]
        BY <2>1, <2>2 DEF ThreadsOK
    <2>4. partition_of[m] = 0
        BY <1>0, <2>0, <2>2 DEF Threads, Named
    <2>5. ThreadFits(p)'
        <3>1. ThreadFits(p) /\ mutex_memory_partitions # p
            BY <1>01, <2>1 DEF ThreadFits, Storing
        <3>. QED BY <2>1, <2>2, <2>3, <2>4, <3>1 DEF ThreadFits, Storing
    <2>6. \A q \in Publishers : pub[q].id # m
        <3>. TAKE q \in Publishers
        <3>1. ~crashed
            BY <1>01, <2>1 DEF ThreadFits
        <3>2. pub[q].id = 0 \/ pub[q].id \in 1..message_count
            BY <1>01, <3>1 DEF ThreadFits
        <3>. QED BY <2>2, <3>2
    <2>7. ASSUME NEW q \in Publishers, q # p PROVE ThreadFits(q)'
        BY <1>0, <1>01, <2>1, <2>2, <2>3, <2>6, <2>7, OthersFit
    <2>8. OwnMessages'
        BY <1>03, <2>1, <2>6 DEF OwnMessages
    <2>9. Named'
        BY <1>0, <2>1, <2>2 DEF Threads, Named
    <2>. QED BY <2>5, <2>7, <2>8, <2>9 DEF Threads
<1>10. ASSUME UNCHANGED <<mutex_memory_partitions, pub, crashed, message_count, partition_of, size_of, queued>>
       PROVE  Threads'
    BY <1>10 DEF Threads, ThreadFits, OwnMessages, Named
<1>11. ASSUME NEW m \in Messages, PickMessage(m) PROVE Threads'
    BY <1>10, <1>11 DEF PickMessage, memoryVars
<1>12. CASE LookUp
    BY <1>10, <1>12 DEF LookUp
<1>13. CASE Tick
    BY <1>10, <1>13 DEF Tick, memoryVars
<1>14. CASE UNCHANGED vars
    BY <1>10, <1>14 DEF vars, memoryVars, messageVars
<1>. QED BY <1>1, <1>2, <1>3, <1>5, <1>6, <1>7, <1>8, <1>9, <1>11, <1>12, <1>13, <1>14
         DEF Next, StoreStep, Finished

-----------------------------------------------------------------------------
(* A partition is freed and consolidated.                                  *)

\* The list with one partition free: all else is as it was.
LEMMA FreedProperties ==
    ASSUME memory_partitions \in Seq(Part), NEW i \in DOMAIN memory_partitions
    PROVE  /\ Freed(i) \in Seq(Part) /\ Len(Freed(i)) = Len(memory_partitions)
           /\ DOMAIN Freed(i) = DOMAIN memory_partitions
           /\ Freed(i)[i].id = memory_partitions[i].id
           /\ Freed(i)[i].begin = memory_partitions[i].begin
           /\ Freed(i)[i].partition_size = memory_partitions[i].partition_size
           /\ Freed(i)[i].status = "FREE"
           /\ Freed(i)[i].occupied_timestamp = 0 /\ Freed(i)[i].lru_timestamp = 0
           /\ \A k \in DOMAIN memory_partitions : k # i => Freed(i)[k] = memory_partitions[k]
<1>1. /\ Len(memory_partitions) \in Nat /\ DOMAIN memory_partitions = 1..Len(memory_partitions)
      /\ \A k \in DOMAIN memory_partitions : memory_partitions[k] \in Part
    BY PartFields
<1>2. PICK r : r = memory_partitions[i] /\ r \in Part
    BY <1>1
<1>3. PICK q : q = [r EXCEPT !.status = "FREE", !.content_size = 0,
                            !.occupied_timestamp = 0, !.lru_timestamp = 0]
    OBVIOUS
<1>4. /\ q \in Part /\ q.id = r.id /\ q.begin = r.begin /\ q.partition_size = r.partition_size
      /\ q.status = "FREE" /\ q.occupied_timestamp = 0 /\ q.lru_timestamp = 0
    <2>1. 0 \in 0..TAMANO_MEMORIA
        BY Numbers
    <2>. QED BY ONLY <2>1, <1>2, <1>3 DEF Part
<1>5. Freed(i) = [memory_partitions EXCEPT ![i] = q]
    BY <1>2, <1>3 DEF Freed
<1>6. Freed(i) = [k \in 1..Len(memory_partitions) |-> IF k = i THEN q ELSE memory_partitions[k]]
    BY <1>1, <1>5
<1>7. Freed(i) \in [1..Len(memory_partitions) -> Part]
    BY <1>1, <1>4, <1>6
<1>8. Freed(i) \in Seq(Part) /\ DOMAIN Freed(i) = 1..Len(memory_partitions)
    BY <1>1, <1>7, SeqDef
<1>9. Len(Freed(i)) = Len(memory_partitions)
    BY <1>1, <1>8, LenProperties
<1>. QED BY <1>1, <1>2, <1>4, <1>6, <1>8, <1>9

\* It keeps both orders.
LEMMA FreedOrdered ==
    ASSUME memory_partitions \in Seq(Part), NEW i \in DOMAIN memory_partitions
    PROVE  /\ InAddressOrder(memory_partitions) => InAddressOrder(Freed(i))
           /\ InIdOrder(memory_partitions) => InIdOrder(Freed(i))
<1>1. /\ DOMAIN Freed(i) = DOMAIN memory_partitions /\ Len(Freed(i)) = Len(memory_partitions)
      /\ \A k \in DOMAIN memory_partitions :
            /\ Freed(i)[k].id = memory_partitions[k].id /\ Freed(i)[k].begin = memory_partitions[k].begin
            /\ Freed(i)[k].partition_size = memory_partitions[k].partition_size
            /\ End(Freed(i)[k]) = End(memory_partitions[k])
            /\ IsOccupied(Freed(i)[k]) => Freed(i)[k] = memory_partitions[k]
    <2>1. DOMAIN Freed(i) = DOMAIN memory_partitions /\ Len(Freed(i)) = Len(memory_partitions)
        BY FreedProperties
    <2>2. ASSUME NEW k \in DOMAIN memory_partitions
          PROVE  /\ Freed(i)[k].id = memory_partitions[k].id
                 /\ Freed(i)[k].begin = memory_partitions[k].begin
                 /\ Freed(i)[k].partition_size = memory_partitions[k].partition_size
                 /\ IsOccupied(Freed(i)[k]) => Freed(i)[k] = memory_partitions[k]
        <3>1. CASE k = i
            BY <3>1, FreedProperties DEF IsOccupied
        <3>2. CASE k # i
            BY <3>2, FreedProperties
        <3>. QED BY <3>1, <3>2
    <2>. QED BY <2>1, <2>2 DEF End
<1>2. ASSUME InAddressOrder(memory_partitions) PROVE InAddressOrder(Freed(i))
    <2>1. /\ Len(memory_partitions) \in Nat /\ Len(memory_partitions) >= 1
          /\ DOMAIN memory_partitions = 1..Len(memory_partitions)
        BY <1>2, PartFields DEF InAddressOrder
    <2>2. /\ 1 \in DOMAIN memory_partitions /\ Len(memory_partitions) \in DOMAIN memory_partitions
          /\ \A k \in 1..(Len(memory_partitions) - 1) :
                k \in DOMAIN memory_partitions /\ k + 1 \in DOMAIN memory_partitions
        BY <2>1
    <2>. QED BY <1>1, <1>2, <2>1, <2>2 DEF InAddressOrder
<1>3. ASSUME InIdOrder(memory_partitions) PROVE InIdOrder(Freed(i))
    <2>1. \A k \in OccupiedIn(Freed(i)) :
            k \in OccupiedIn(memory_partitions) /\ Freed(i)[k] = memory_partitions[k]
        BY <1>1 DEF OccupiedIn
    <2>. QED BY <1>1, <1>3, <2>1 DEF InIdOrder
<1>. QED BY <1>2, <1>3

\* delete_and_consolidate leaves the list in both orders; of the partitions none
\* but the freed one is lost to a message.
LEMMA FreePartitionList ==
    ASSUME memory_partitions \in Seq(Part), InAddressOrder(memory_partitions),
           InIdOrder(memory_partitions), queued \subseteq Messages,
           \A i \in DOMAIN memory_partitions, m \in Messages :
                partition_of[m] = memory_partitions[i].id
                    => memory_partitions[i].partition_size >= 1,
           NEW i \in DOMAIN memory_partitions, FreePartition(i)
    PROVE  /\ memory_partitions' \in Seq(Part) /\ InAddressOrder(memory_partitions')
           /\ InIdOrder(memory_partitions') /\ Condenses(memory_partitions', Freed(i))
<1>1. Freed(i) \in Seq(Part) /\ InAddressOrder(Freed(i)) /\ InIdOrder(Freed(i))
    BY FreedProperties, FreedOrdered
<1>2. CASE MessagesIn(memory_partitions[i].id) = {}
    <2>1. memory_partitions' = Freed(i)
        BY <1>2 DEF FreePartition
    <2>. QED BY <1>1, <2>1, CondensesItself
<1>3. CASE MessagesIn(memory_partitions[i].id) # {}
    <2>1. memory_partitions' \in Consolidated(Freed(i), Freed(i)[i].id)
        BY <1>3, FreedProperties DEF FreePartition
    <2>2. memory_partitions[i].partition_size >= 1
        BY <1>3 DEF MessagesIn
    <2>3. /\ i \in DOMAIN Freed(i) /\ Freed(i)[i].status = "FREE"
          /\ Freed(i)[i].partition_size >= 1
        BY <2>2, FreedProperties
    <2>4. /\ memory_partitions' \in Seq(Part) /\ InAddressOrder(memory_partitions')
          /\ Condenses(memory_partitions', Freed(i))
        BY <1>1, <2>1, <2>3, ConsolidatedOrdered
    <2>. QED BY <1>1, <2>4, CondensesInIdOrder
<1>. QED BY <1>2, <1>3

\* So the occupied partitions are the ones there were, but for the freed one,
\* and the others kept their ids, their room and their timestamps.
LEMMA FreePartitionKeeps ==
    ASSUME memory_partitions \in Seq(Part), InAddressOrder(memory_partitions),
           InIdOrder(memory_partitions), queued \subseteq Messages,
           \A i \in DOMAIN memory_partitions, m \in Messages :
                partition_of[m] = memory_partitions[i].id
                    => memory_partitions[i].partition_size >= 1,
           NEW i \in DOMAIN memory_partitions, FreePartition(i)
    PROVE  /\ \A k \in DOMAIN memory_partitions' : \E j \in DOMAIN memory_partitions :
                /\ memory_partitions'[k].id = memory_partitions[j].id
                /\ memory_partitions'[k].partition_size >= memory_partitions[j].partition_size
                /\ memory_partitions'[k].occupied_timestamp \in {0, memory_partitions[j].occupied_timestamp}
                /\ memory_partitions'[k].lru_timestamp \in {0, memory_partitions[j].lru_timestamp}
                /\ IsOccupied(memory_partitions'[k]) =>
                        j # i /\ memory_partitions'[k] = memory_partitions[j]
           /\ \A j \in Occupied : j # i =>
                \E k \in Occupied' : memory_partitions'[k] = memory_partitions[j]
<1>1. Freed(i) \in Seq(Part) /\ memory_partitions' \in Seq(Part) /\ Condenses(memory_partitions', Freed(i))
    BY FreePartitionList, FreedProperties
<1>2. PICK h \in [DOMAIN memory_partitions' -> DOMAIN Freed(i)] :
        /\ \A k \in DOMAIN memory_partitions' :
            /\ memory_partitions'[k].id = Freed(i)[h[k]].id
            /\ memory_partitions'[k].partition_size >= Freed(i)[h[k]].partition_size
            /\ memory_partitions'[k].status = Freed(i)[h[k]].status
            /\ memory_partitions'[k].occupied_timestamp = Freed(i)[h[k]].occupied_timestamp
            /\ memory_partitions'[k].lru_timestamp = Freed(i)[h[k]].lru_timestamp
            /\ IsOccupied(memory_partitions'[k]) => memory_partitions'[k] = Freed(i)[h[k]]
        /\ \A l \in OccupiedIn(Freed(i)) : \E k \in DOMAIN memory_partitions' : h[k] = l
    BY <1>1 DEF Condenses
<1>3. ASSUME NEW k \in DOMAIN memory_partitions'
      PROVE  \E j \in DOMAIN memory_partitions :
                /\ memory_partitions'[k].id = memory_partitions[j].id
                /\ memory_partitions'[k].partition_size >= memory_partitions[j].partition_size
                /\ memory_partitions'[k].occupied_timestamp \in {0, memory_partitions[j].occupied_timestamp}
                /\ memory_partitions'[k].lru_timestamp \in {0, memory_partitions[j].lru_timestamp}
                /\ IsOccupied(memory_partitions'[k]) =>
                        j # i /\ memory_partitions'[k] = memory_partitions[j]
    <2>1. PICK j : j = h[k] /\ j \in DOMAIN memory_partitions
        BY <1>2, FreedProperties
    <2>2. CASE j = i
        <3>1. ~ IsOccupied(memory_partitions'[k])
            <4>1. memory_partitions'[k].status = Freed(i)[h[k]].status
                BY <1>2, <1>3
            <4>2. Freed(i)[i].status = "FREE" /\ h[k] = i
                BY <2>1, <2>2, FreedProperties
            <4>. QED BY <4>1, <4>2 DEF IsOccupied
        <3>. QED BY <1>2, <2>1, <2>2, <3>1, FreedProperties
    <2>3. CASE j # i
        <3>1. Freed(i)[j] = memory_partitions[j]
            BY <2>1, <2>3, FreedProperties
        <3>. QED BY <1>2, <2>1, <2>3, <3>1
    <2>. QED BY <2>2, <2>3
<1>4. ASSUME NEW j \in Occupied, j # i
      PROVE  \E k \in Occupied' : memory_partitions'[k] = memory_partitions[j]
    <2>1. j \in DOMAIN memory_partitions /\ Freed(i)[j] = memory_partitions[j]
        BY <1>4, FreedProperties DEF Occupied
    <2>2. j \in OccupiedIn(Freed(i))
        BY <2>1, FreedProperties DEF Occupied, OccupiedIn
    <2>3. PICK k \in DOMAIN memory_partitions' : h[k] = j
        BY <1>2, <2>2
    <2>4. IsOccupied(memory_partitions'[k])
        BY <1>2, <2>1, <2>3 DEF IsOccupied, Occupied
    <2>5. memory_partitions'[k] = memory_partitions[j]
        BY <1>2, <2>1, <2>3, <2>4
    <2>. QED BY <2>4, <2>5 DEF Occupied
<1>. QED BY <1>3, <1>4

-----------------------------------------------------------------------------
(* A compaction.                                                           *)

\* perform_compaction moves every occupied partition with its bytes and leaves
\* one FREE partition behind them, under a new id.
LEMMA CompactList ==
    ASSUME memory \in [Bytes -> 0..MaxMessages], memory_partitions \in Seq(Part),
           partition_count \in Nat,
           \A i \in DOMAIN memory_partitions : memory_partitions[i].id <= partition_count,
           Tiles(memory_partitions), InIdOrder(memory_partitions),
           \A i \in Occupied : memory_partitions[i].partition_size >= 1,
           NEW p, Compact(p)
    PROVE  /\ memory' \in [Bytes -> 0..MaxMessages]
           /\ memory_partitions' \in Seq(Part) /\ InAddressOrder(memory_partitions')
           /\ InIdOrder(memory_partitions')
           /\ Occupied' = 1..(Len(memory_partitions') - 1)
           /\ \A k \in DOMAIN memory_partitions' :
                \/ k \in Occupied'
                \/ /\ memory_partitions'[k].id = partition_count + 1
                   /\ memory_partitions'[k].occupied_timestamp = 0
                   /\ memory_partitions'[k].lru_timestamp = 0
           /\ \A k \in Occupied' : \E j \in Occupied :
                /\ memory_partitions'[k].id = memory_partitions[j].id
                /\ memory_partitions'[k].partition_size = memory_partitions[j].partition_size
                /\ memory_partitions'[k].content_size = memory_partitions[j].content_size
                /\ memory_partitions'[k].occupied_timestamp = memory_partitions[j].occupied_timestamp
                /\ memory_partitions'[k].lru_timestamp = memory_partitions[j].lru_timestamp
                /\ \A d \in 0..(memory_partitions[j].partition_size - 1) :
                        memory'[memory_partitions'[k].begin + d] = memory[memory_partitions[j].begin + d]
           /\ \A j \in Occupied : \E k \in Occupied' :
                memory_partitions'[k].id = memory_partitions[j].id
<1>1. PICK os : os = OccupiedPartitions
    OBVIOUS
<1>2. /\ os \in Seq(Part)
      /\ \E h \in [1..Len(os) -> Occupied] :
            /\ \A k, l \in 1..Len(os) : k < l => h[k] < h[l]
            /\ \A i \in Occupied : \E k \in 1..Len(os) : h[k] = i
            /\ \A k \in 1..Len(os) : os[k] = memory_partitions[h[k]]
    BY <1>1, OccupiedPartitionsAre
<1>3. PICK h \in [1..Len(os) -> Occupied] :
            /\ \A k, l \in 1..Len(os) : k < l => h[k] < h[l]
            /\ \A i \in Occupied : \E k \in 1..Len(os) : h[k] = i
            /\ \A k \in 1..Len(os) : os[k] = memory_partitions[h[k]]
    BY <1>2
<1>4. /\ Len(os) \in Nat /\ DOMAIN os = 1..Len(os)
      /\ \A k \in DOMAIN os : os[k] \in Part
      /\ \A k \in DOMAIN memory_partitions :
            /\ memory_partitions[k].id \in Nat /\ memory_partitions[k].begin \in Nat
            /\ memory_partitions[k].partition_size \in Nat
            /\ End(memory_partitions[k]) = memory_partitions[k].begin + memory_partitions[k].partition_size
      /\ DOMAIN memory_partitions = 1..Len(memory_partitions) /\ Len(memory_partitions) \in Nat
      /\ TAMANO_MEMORIA \in Nat
    BY <1>2, PartFields, Numbers
<1>5. \A k \in DOMAIN os :
        /\ h[k] \in Occupied /\ h[k] \in DOMAIN memory_partitions /\ h[k] \in Nat
        /\ os[k] = memory_partitions[h[k]]
        /\ os[k].partition_size >= 1 /\ End(os[k]) <= TAMANO_MEMORIA
        /\ os[k].status = "OCCUPIED"
    <2>. TAKE k \in DOMAIN os
    <2>1. h[k] \in Occupied /\ os[k] = memory_partitions[h[k]]
        BY <1>3, <1>4
    <2>2. h[k] \in DOMAIN memory_partitions /\ h[k] \in Nat /\ IsOccupied(memory_partitions[h[k]])
        BY <1>4, <2>1 DEF Occupied
    <2>3. End(memory_partitions[h[k]]) <= TAMANO_MEMORIA
        BY <2>2 DEF Tiles
    <2>. QED BY <2>1, <2>2, <2>3 DEF IsOccupied
<1>6. \A k, l \in DOMAIN os : k # l => End(os[k]) <= os[l].begin \/ End(os[l]) <= os[k].begin
    <2>. SUFFICES ASSUME NEW k \in DOMAIN os, NEW l \in DOMAIN os, k # l
                  PROVE  End(os[k]) <= os[l].begin \/ End(os[l]) <= os[k].begin
        OBVIOUS
    <2>1. k < l \/ l < k
        BY <1>4
    <2>2. h[k] # h[l]
        <3>1. h[k] < h[l] \/ h[l] < h[k]
            BY <1>3, <1>4, <2>1
        <3>2. h[k] \in Nat /\ h[l] \in Nat
            BY <1>5
        <3>. QED BY <3>1, <3>2
    <2>. QED BY <1>5, <2>2 DEF Tiles
<1>7. PICK offset : offset = SizeBefore(os, Len(os) + 1)
    OBVIOUS
<1>8. offset \in Nat /\ offset <= TAMANO_MEMORIA
    <2>1. Len(os) + 1 \in 1..(Len(os) + 1)
        BY <1>4
    <2>2. SizeBefore(os, Len(os) + 1) \in Nat
        BY <1>2, <2>1, SizeBeforeAdds
    <2>3. SizeBefore(os, Len(os) + 1) <= TAMANO_MEMORIA
        BY <1>2, <1>5, <1>6, SizesFit
    <2>. QED BY <1>7, <2>2, <2>3
<1>9. PICK r : r = Partition(partition_count + 1, offset, TAMANO_MEMORIA - offset, "FREE", 0, 0)
    OBVIOUS
<1>10. /\ r \in Part /\ r.begin = offset /\ End(r) = TAMANO_MEMORIA /\ r.id = partition_count + 1
       /\ r.status = "FREE" /\ r.occupied_timestamp = 0 /\ r.lru_timestamp = 0
    BY <1>4, <1>8, <1>9 DEF Partition, Part, End
<1>11. PICK qs : qs = Append(Packed(os), r)
    OBVIOUS
<1>12. memory_partitions' = qs /\ memory' = Moved(os, Packed(os), offset)
    BY <1>1, <1>7, <1>9, <1>11 DEF Compact
<1>13. /\ qs \in Seq(Part) /\ InAddressOrder(qs) /\ Len(qs) = Len(os) + 1
       /\ \A k \in 1..Len(os) : qs[k] = [os[k] EXCEPT !.begin = SizeBefore(os, k)]
       /\ qs[Len(os) + 1] = r
    <2>1. r.begin = SizeBefore(os, Len(os) + 1) /\ \A k \in DOMAIN os : os[k].partition_size >= 1
        BY <1>5, <1>7, <1>10
    <2>2. /\ Append(Packed(os), r) \in Seq(Part) /\ InAddressOrder(Append(Packed(os), r))
          /\ Len(Append(Packed(os), r)) = Len(os) + 1
          /\ \A k \in 1..Len(os) : Append(Packed(os), r)[k] = [os[k] EXCEPT !.begin = SizeBefore(os, k)]
          /\ Append(Packed(os), r)[Len(os) + 1] = r
        BY <1>2, <1>10, <2>1, PackedOrdered, ZenonT(60)
    <2>. QED BY <1>11, <2>2
<1>14. /\ DOMAIN qs = 1..(Len(os) + 1)
       /\ \A k \in DOMAIN qs : k \in DOMAIN os \/ k = Len(os) + 1
       /\ \A k \in DOMAIN os : k \in DOMAIN qs /\ k # Len(os) + 1 /\ k \in Nat
       /\ \A k \in DOMAIN qs : k \in Nat
    <2>1. DOMAIN qs = 1..(Len(os) + 1)
        BY <1>4, <1>13, LenProperties
    <2>. QED BY <1>4, <2>1
<1>15. \A k \in DOMAIN os :
        /\ qs[k].id = os[k].id /\ qs[k].partition_size = os[k].partition_size
        /\ qs[k].status = "OCCUPIED" /\ qs[k].content_size = os[k].content_size
        /\ qs[k].occupied_timestamp = os[k].occupied_timestamp
        /\ qs[k].lru_timestamp = os[k].lru_timestamp /\ qs[k].begin = SizeBefore(os, k)
    <2>. TAKE k \in DOMAIN os
    <2>1. PICK o : o = os[k] /\ o \in Part
        BY <1>4
    <2>2. PICK n : n = SizeBefore(os, k)
        OBVIOUS
    <2>3. qs[k] = [o EXCEPT !.begin = n]
        BY <1>4, <1>13, <2>1, <2>2
    <2>4. /\ [o EXCEPT !.begin = n].id = o.id /\ [o EXCEPT !.begin = n].partition_size = o.partition_size
          /\ [o EXCEPT !.begin = n].status = o.status
          /\ [o EXCEPT !.begin = n].content_size = o.content_size
          /\ [o EXCEPT !.begin = n].occupied_timestamp = o.occupied_timestamp
          /\ [o EXCEPT !.begin = n].lru_timestamp = o.lru_timestamp /\ [o EXCEPT !.begin = n].begin = n
        BY <2>1 DEF Part
    <2>5. o.status = "OCCUPIED"
        BY <1>5, <2>1
    <2>. QED BY <2>1, <2>2, <2>3, <2>4, <2>5
<1>16. OccupiedIn(qs) = DOMAIN os
    <2>1. ASSUME NEW k \in DOMAIN qs, IsOccupied(qs[k]) PROVE k \in DOMAIN os
        BY <1>10, <1>13, <1>14, <2>1 DEF IsOccupied
    <2>2. ASSUME NEW k \in DOMAIN os PROVE k \in DOMAIN qs /\ IsOccupied(qs[k])
        BY <1>14, <1>15 DEF IsOccupied
    <2>. QED BY <2>1, <2>2 DEF OccupiedIn
<1>17. InIdOrder(qs)
    <2>1. ASSUME NEW k \in DOMAIN qs, NEW l \in DOMAIN qs, qs[k].id = qs[l].id
          PROVE  k = l
        <3>1. \A j \in DOMAIN os : qs[j].id # r.id
            <4>. TAKE j \in DOMAIN os
            <4>1. qs[j].id = memory_partitions[h[j]].id /\ h[j] \in DOMAIN memory_partitions
                BY <1>5, <1>15
            <4>2. memory_partitions[h[j]].id \in Nat /\ memory_partitions[h[j]].id <= partition_count
                BY <1>4, <4>1
            <4>. QED BY <1>10, <4>1, <4>2
        <3>2. ASSUME k \in DOMAIN os, l \in DOMAIN os PROVE k = l
            <4>1. h[k] = h[l]
                <5>1. memory_partitions[h[k]].id = memory_partitions[h[l]].id
                    BY <1>5, <1>15, <2>1, <3>2
                <5>. QED BY <1>5, <3>2, <5>1 DEF InIdOrder
            <4>2. ~(h[k] < h[l]) /\ ~(h[l] < h[k])
                BY <1>5, <3>2, <4>1
            <4>3. ~(k < l) /\ ~(l < k)
                BY <1>3, <1>4, <3>2, <4>2
            <4>. QED BY <1>14, <4>3
        <3>. QED BY <1>13, <1>14, <2>1, <3>1, <3>2
    <2>2. ASSUME NEW k \in OccupiedIn(qs), NEW l \in OccupiedIn(qs), k < l
          PROVE  qs[k].id < qs[l].id /\ qs[k].occupied_timestamp <= qs[l].occupied_timestamp
        <3>1. k \in DOMAIN os /\ l \in DOMAIN os
            BY <1>16
        <3>2. h[k] < h[l]
            BY <1>3, <1>4, <2>2, <3>1
        <3>3. h[k] \in OccupiedIn(memory_partitions) /\ h[l] \in OccupiedIn(memory_partitions)
            BY <1>5, <3>1 DEF OccupiedIn, Occupied
        <3>4. /\ memory_partitions[h[k]].id < memory_partitions[h[l]].id
              /\ memory_partitions[h[k]].occupied_timestamp <= memory_partitions[h[l]].occupied_timestamp
            BY <3>2, <3>3 DEF InIdOrder
        <3>. QED BY <1>5, <1>15, <3>1, <3>4
    <2>. QED BY <2>1, <2>2 DEF InIdOrder
<1>18. /\ Moved(os, Packed(os), offset) \in [Bytes -> 0..MaxMessages]
       /\ \A k \in 1..Len(os) : \A d \in 0..(os[k].partition_size - 1) :
            Moved(os, Packed(os), offset)[SizeBefore(os, k) + d] = memory[os[k].begin + d]
    BY <1>2, <1>5, <1>7, <1>8, MovedKeeps
<1>19. Occupied' = OccupiedIn(qs)
    BY <1>12 DEF Occupied, OccupiedIn
<1>20. DOMAIN os = 1..(Len(qs) - 1)
    BY <1>4, <1>13
<1>21. ASSUME NEW k \in DOMAIN qs
       PROVE  \/ k \in OccupiedIn(qs)
              \/ qs[k].id = partition_count + 1 /\ qs[k].occupied_timestamp = 0 /\ qs[k].lru_timestamp = 0
    BY <1>10, <1>13, <1>14, <1>16
<1>22. ASSUME NEW k \in OccupiedIn(qs)
       PROVE  \E j \in Occupied :
                /\ qs[k].id = memory_partitions[j].id
                /\ qs[k].partition_size = memory_partitions[j].partition_size
                /\ qs[k].content_size = memory_partitions[j].content_size
                /\ qs[k].occupied_timestamp = memory_partitions[j].occupied_timestamp
                /\ qs[k].lru_timestamp = memory_partitions[j].lru_timestamp
                /\ \A d \in 0..(memory_partitions[j].partition_size - 1) :
                        memory'[qs[k].begin + d] = memory[memory_partitions[j].begin + d]
    <2>1. k \in DOMAIN os /\ k \in 1..Len(os)
        BY <1>4, <1>16
    <2>2. PICK j : j = h[k] /\ j \in Occupied /\ os[k] = memory_partitions[j]
        BY <1>5, <2>1
    <2>3. \A d \in 0..(memory_partitions[j].partition_size - 1) :
            memory'[qs[k].begin + d] = memory[memory_partitions[j].begin + d]
        BY <1>12, <1>15, <1>18, <2>1, <2>2
    <2>. QED BY <1>15, <2>1, <2>2, <2>3
<1>23. ASSUME NEW j \in Occupied PROVE \E k \in OccupiedIn(qs) : qs[k].id = memory_partitions[j].id
    <2>1. PICK k \in 1..Len(os) : h[k] = j
        BY <1>3
    <2>. QED BY <1>4, <1>5, <1>15, <1>16, <2>1
<1>. QED BY <1>12, <1>13, <1>16, <1>17, <1>18, <1>19, <1>20, <1>21, <1>22, <1>23

-----------------------------------------------------------------------------
(* A payload is placed, and looked up.                                     *)

\* A partition that is cut in two, the first part appended to the list.
LEMMA CutTiles ==
    ASSUME NEW ps \in Seq(Part), Tiles(ps), NEW i \in DOMAIN ps, NEW s \in Nat,
           s <= ps[i].partition_size,
           NEW v, v.begin = ps[i].begin + s, End(v) = End(ps[i]),
           NEW r, r.begin = ps[i].begin, End(r) = ps[i].begin + s,
           NEW qs, DOMAIN qs = 1..(Len(ps) + 1), qs[i] = v, qs[Len(ps) + 1] = r,
           \A k \in DOMAIN ps : k # i => qs[k] = ps[k]
    PROVE  Tiles(qs)
<1>1. /\ Len(ps) \in Nat /\ DOMAIN ps = 1..Len(ps)
      /\ \A k \in DOMAIN ps : /\ ps[k].begin \in Nat /\ ps[k].partition_size \in Nat
                              /\ End(ps[k]) = ps[k].begin + ps[k].partition_size
                              /\ End(ps[k]) \in Nat
    BY PartFields
<1>2. /\ v.begin \in Nat /\ End(v) \in Nat /\ r.begin \in Nat /\ End(r) \in Nat
      /\ ps[i].begin <= v.begin /\ ps[i].begin <= r.begin
      /\ End(v) <= End(ps[i]) /\ End(r) <= End(ps[i]) /\ End(r) = v.begin
      /\ ps[i].begin \in Nat /\ End(ps[i]) \in Nat /\ TAMANO_MEMORIA \in Nat
    <2>1. /\ ps[i].begin \in Nat /\ ps[i].partition_size \in Nat /\ TAMANO_MEMORIA \in Nat
          /\ End(ps[i]) = ps[i].begin + ps[i].partition_size
        BY <1>1, Numbers
    <2>. QED BY <2>1
<1>3. \A k \in DOMAIN qs : k = i \/ k = Len(ps) + 1 \/ (k \in DOMAIN ps /\ k # i /\ qs[k] = ps[k])
    BY <1>1
<1>4. /\ \A k \in DOMAIN ps : End(ps[k]) <= TAMANO_MEMORIA
      /\ \A k \in DOMAIN ps : k # i => End(ps[i]) <= ps[k].begin \/ End(ps[k]) <= ps[i].begin
      /\ \A k, l \in DOMAIN ps : k # l => End(ps[k]) <= ps[l].begin \/ End(ps[l]) <= ps[k].begin
    BY DEF Tiles
<1>5. End(v) <= TAMANO_MEMORIA /\ End(r) <= TAMANO_MEMORIA
    <2>1. End(ps[i]) <= TAMANO_MEMORIA
        BY <1>4
    <2>. QED BY <1>2, <2>1
<1>6. \A k \in DOMAIN qs : End(qs[k]) <= TAMANO_MEMORIA
    BY <1>3, <1>4, <1>5
<1>7. ASSUME NEW k \in DOMAIN ps, k # i
      PROVE  /\ End(v) <= ps[k].begin \/ End(ps[k]) <= v.begin
             /\ End(r) <= ps[k].begin \/ End(ps[k]) <= r.begin
    <2>1. End(ps[i]) <= ps[k].begin \/ End(ps[k]) <= ps[i].begin
        BY <1>4, <1>7
    <2>2. ps[k].begin \in Nat /\ End(ps[k]) \in Nat
        BY <1>1
    <2>. QED BY <1>2, <2>1, <2>2
<1>8. End(r) <= v.begin
    BY <1>2
<1>9. ASSUME NEW k \in DOMAIN qs, NEW l \in DOMAIN qs, k # l
      PROVE  End(qs[k]) <= qs[l].begin \/ End(qs[l]) <= qs[k].begin
    BY <1>3, <1>4, <1>7, <1>8, <1>9
<1>10. ASSUME NEW b \in Bytes
       PROVE  \E k \in DOMAIN qs : qs[k].begin <= b /\ b < End(qs[k])
    <2>1. PICK k \in DOMAIN ps : ps[k].begin <= b /\ b < End(ps[k])
        BY DEF Tiles
    <2>2. i \in DOMAIN qs /\ Len(ps) + 1 \in DOMAIN qs /\ k \in DOMAIN qs
        BY <1>1
    <2>3. CASE k # i
        BY <2>1, <2>2, <2>3
    <2>4. CASE k = i
        <3>1. b \in Nat
            BY <1>2 DEF Bytes
        <3>2. b < v.begin \/ v.begin <= b
            BY <1>2, <3>1
        <3>3. CASE b < v.begin
            BY <1>2, <2>1, <2>2, <2>4, <3>3
        <3>4. CASE v.begin <= b
            BY <2>1, <2>2, <2>4, <3>4
        <3>. QED BY <3>2, <3>3, <3>4
    <2>. QED BY <2>3, <2>4
<1>. QED BY <1>6, <1>9, <1>10 DEF Tiles

\* store_payload_particiones copies the payload into a partition of its own and
\* leaves every occupied partition and its bytes alone.
LEMMA PlaceList ==
    ASSUME memory \in [Bytes -> 0..MaxMessages], memory_partitions \in Seq(Part),
           partition_count \in Nat, now \in Nat,
           \A i \in DOMAIN memory_partitions :
                /\ memory_partitions[i].id <= partition_count
                /\ memory_partitions[i].occupied_timestamp <= now,
           Tiles(memory_partitions), InIdOrder(memory_partitions),
           NEW p, NEW m \in Messages, m = pub[p].id, size_of[m] \in Sizes,
           Fitting(size_of[m]) # {}, Place(p)
    PROVE  /\ memory' \in [Bytes -> 0..MaxMessages]
           /\ memory_partitions' \in Seq(Part) /\ Tiles(memory_partitions')
           /\ InIdOrder(memory_partitions')
           /\ Occupied' = Occupied \cup {Len(memory_partitions) + 1}
           /\ \A k \in DOMAIN memory_partitions' :
                k \in DOMAIN memory_partitions \/ k = Len(memory_partitions) + 1
           /\ \A k \in DOMAIN memory_partitions :
                /\ memory_partitions'[k].id = memory_partitions[k].id
                /\ memory_partitions'[k].occupied_timestamp = memory_partitions[k].occupied_timestamp
                /\ memory_partitions'[k].lru_timestamp = memory_partitions[k].lru_timestamp
           /\ \A k \in Occupied :
                /\ memory_partitions'[k] = memory_partitions[k]
                /\ \A d \in 0..(memory_partitions[k].partition_size - 1) :
                        memory'[memory_partitions[k].begin + d] = memory[memory_partitions[k].begin + d]
           /\ LET new == memory_partitions'[Len(memory_partitions) + 1]
              IN  /\ new.id = partition_count + 1 /\ size_of[m] \in 1..new.partition_size
                  /\ new.content_size = ContentSize(size_of[m])
                  /\ new.occupied_timestamp = now /\ new.lru_timestamp = now
                  /\ \A d \in 0..(size_of[m] - 1) : memory'[new.begin + d] = m
<1>0. /\ Len(memory_partitions) \in Nat /\ DOMAIN memory_partitions = 1..Len(memory_partitions)
      /\ \A k \in DOMAIN memory_partitions :
            /\ memory_partitions[k] \in Part /\ memory_partitions[k].id \in Nat
            /\ memory_partitions[k].begin \in Nat /\ memory_partitions[k].partition_size \in Nat
            /\ End(memory_partitions[k]) = memory_partitions[k].begin + memory_partitions[k].partition_size
            /\ memory_partitions[k].occupied_timestamp \in Nat
      /\ TAMANO_MEMORIA \in Nat
    BY PartFields, Numbers
<1>1. PICK size : size = size_of[m] /\ size \in Nat /\ size >= 1
    BY Numbers
<1>2. PICK s : s = AtLeastMinimum(size_of[m]) /\ s \in Nat /\ s >= 1 /\ size <= s
    <2>1. AtLeastMinimum(size_of[m]) \in Nat /\ AtLeastMinimum(size_of[m]) >= 1
          /\ AtLeastMinimum(size_of[m]) >= size_of[m]
        BY Numbers
    <2>. QED BY <1>1, <2>1
<1>3. PICK i : i = First(Fitting(size_of[m]))
    OBVIOUS
<1>4. i \in DOMAIN memory_partitions /\ memory_partitions[i].status = "FREE"
      /\ s <= memory_partitions[i].partition_size
    <2>1. Fitting(size_of[m]) \in SUBSET Nat
        BY <1>0 DEF Fitting
    <2>2. i \in Fitting(size_of[m])
        BY <1>3, <2>1, FirstIsLeast
    <2>3. /\ i \in DOMAIN memory_partitions /\ memory_partitions[i].status = "FREE"
          /\ memory_partitions[i].partition_size >= s
        BY <1>2, <2>2 DEF Fitting
    <2>4. memory_partitions[i].partition_size \in Nat
        BY <1>0, <2>3
    <2>. QED BY <1>2, <2>3, <2>4
<1>5. PICK free : free = memory_partitions[i] /\ free \in Part
    BY <1>0, <1>4
<1>6. /\ free.begin \in Nat /\ free.partition_size \in Nat /\ s <= free.partition_size
      /\ End(free) = free.begin + free.partition_size /\ End(free) <= TAMANO_MEMORIA
    BY <1>0, <1>4, <1>5 DEF Tiles
<1>7. PICK a, b : a = free.begin + s /\ b = free.partition_size - s /\ a \in Nat /\ b \in Nat
    BY <1>2, <1>6
<1>8. PICK v : v = [[free EXCEPT !.begin = a] EXCEPT !.partition_size = b]
    OBVIOUS
<1>9. /\ v \in Part /\ v.begin = a /\ v.partition_size = b /\ v.id = free.id /\ v.status = "FREE"
      /\ v.occupied_timestamp = free.occupied_timestamp /\ v.lru_timestamp = free.lru_timestamp
    BY <1>4, <1>5, <1>7, <1>8 DEF Part
<1>10. PICK r : r = Partition(partition_count + 1, free.begin, s, "OCCUPIED",
                              ContentSize(size_of[m]), now)
    OBVIOUS
<1>11. /\ r \in Part /\ r.id = partition_count + 1 /\ r.begin = free.begin /\ r.partition_size = s
       /\ r.status = "OCCUPIED" /\ r.content_size = ContentSize(size_of[m])
       /\ r.occupied_timestamp = now /\ r.lru_timestamp = now
    <2>1. ContentSize(size_of[m]) \in 0..TAMANO_MEMORIA
        BY Numbers DEF ContentSize
    <2>. QED BY <1>2, <1>6, <1>10, <2>1 DEF Partition, Part
<1>12. PICK es : es = [memory_partitions EXCEPT ![i] = v]
    OBVIOUS
<1>13. /\ memory_partitions' = Append(es, r)
       /\ memory' = [x \in Bytes |-> IF x \in free.begin .. (free.begin + size - 1)
                                     THEN m ELSE memory[x]]
    <2>1. es = [memory_partitions EXCEPT ![i].begin = @ + s, ![i].partition_size = @ - s]
        BY <1>0, <1>4, <1>5, <1>7, <1>8, <1>12 DEF Part
    <2>. QED BY <1>1, <1>2, <1>3, <1>5, <1>10, <2>1 DEF Place, CopyPayload
<1>14. /\ es \in Seq(Part) /\ Len(es) = Len(memory_partitions)
       /\ es[i] = v /\ \A k \in DOMAIN memory_partitions : k # i => es[k] = memory_partitions[k]
    <2>1. es = [k \in 1..Len(memory_partitions) |-> IF k = i THEN v ELSE memory_partitions[k]]
        BY <1>0, <1>12
    <2>2. es \in [1..Len(memory_partitions) -> Part]
        BY <1>0, <1>9, <2>1
    <2>3. es \in Seq(Part) /\ DOMAIN es = 1..Len(memory_partitions)
        <3>1. PICK n : n = Len(memory_partitions) /\ n \in Nat
            BY <1>0
        <3>2. es \in [1..n -> Part]
            BY <2>2, <3>1
        <3>. QED BY <3>1, <3>2, SeqDef
    <2>4. Len(es) = Len(memory_partitions)
        BY <1>0, <2>3, LenProperties
    <2>. QED BY <1>0, <1>4, <2>1, <2>3, <2>4
<1>15. PICK qs : qs = Append(es, r)
    OBVIOUS
<1>16. PICK n : n = Len(memory_partitions) + 1
    OBVIOUS
<1>17. /\ qs \in Seq(Part) /\ DOMAIN qs = 1..n /\ qs[i] = v /\ qs[n] = r
       /\ \A k \in DOMAIN memory_partitions : k # i => qs[k] = memory_partitions[k]
       /\ n \notin DOMAIN memory_partitions /\ n \in 1..n
       /\ \A k \in 1..n : k \in DOMAIN memory_partitions \/ k = n
       /\ \A k \in DOMAIN memory_partitions : k \in 1..n /\ k # n
    <2>1. /\ qs \in Seq(Part) /\ Len(qs) = Len(es) + 1
          /\ \A k \in 1..Len(es) : qs[k] = es[k]
          /\ qs[Len(es) + 1] = r
        BY <1>11, <1>14, <1>15, AppendProperties
    <2>2. DOMAIN qs = 1..n /\ qs[n] = r
        BY <1>14, <1>16, <2>1, LenProperties
    <2>3. /\ n \notin DOMAIN memory_partitions /\ n \in 1..n
          /\ \A k \in 1..n : k \in DOMAIN memory_partitions \/ k = n
          /\ \A k \in DOMAIN memory_partitions : k \in 1..n /\ k # n /\ k \in 1..Len(es)
        BY <1>0, <1>14, <1>16
    <2>. QED BY <1>4, <1>14, <2>1, <2>2, <2>3
<1>18. memory_partitions' = qs
    BY <1>13, <1>15
<1>19. Tiles(qs)
    <2>1. v.begin = memory_partitions[i].begin + s /\ r.begin = memory_partitions[i].begin
        BY <1>5, <1>7, <1>9, <1>11
    <2>2. End(v) = End(memory_partitions[i]) /\ End(r) = memory_partitions[i].begin + s
        <3>1. End(v) = a + b /\ End(r) = free.begin + s
            BY <1>9, <1>11 DEF End
        <3>2. a + b = End(free)
            BY <1>2, <1>6, <1>7
        <3>. QED BY <1>5, <3>1, <3>2
    <2>. QED BY <1>2, <1>4, <1>16, <1>17, <2>1, <2>2, CutTiles
<1>20. \A k \in DOMAIN memory_partitions :
        /\ qs[k].id = memory_partitions[k].id /\ qs[k].status = memory_partitions[k].status
        /\ qs[k].occupied_timestamp = memory_partitions[k].occupied_timestamp
        /\ qs[k].lru_timestamp = memory_partitions[k].lru_timestamp
        /\ IsOccupied(memory_partitions[k]) => k # i /\ qs[k] = memory_partitions[k]
    <2>. TAKE k \in DOMAIN memory_partitions
    <2>1. CASE k = i
        <3>1. ~ IsOccupied(memory_partitions[i]) /\ v.status = memory_partitions[i].status
            BY <1>4, <1>9 DEF IsOccupied
        <3>. QED BY <1>5, <1>9, <1>17, <2>1, <3>1
    <2>2. CASE k # i
        BY <1>17, <2>2
    <2>. QED BY <2>1, <2>2
<1>21. OccupiedIn(qs) = Occupied \cup {n}
    <2>1. IsOccupied(qs[n])
        BY <1>11, <1>17 DEF IsOccupied
    <2>2. \A k \in DOMAIN memory_partitions : IsOccupied(qs[k]) <=> IsOccupied(memory_partitions[k])
        BY <1>20 DEF IsOccupied
    <2>. QED BY <1>17, <2>1, <2>2 DEF OccupiedIn, Occupied
<1>22. InIdOrder(qs)
    <2>1. ASSUME NEW k \in DOMAIN qs, NEW l \in DOMAIN qs, qs[k].id = qs[l].id PROVE k = l
        <3>1. \A j \in DOMAIN memory_partitions : qs[j].id # qs[n].id
            <4>. TAKE j \in DOMAIN memory_partitions
            <4>1. /\ qs[j].id = memory_partitions[j].id /\ memory_partitions[j].id \in Nat
                  /\ memory_partitions[j].id <= partition_count /\ qs[n].id = partition_count + 1
                BY <1>0, <1>11, <1>17, <1>20
            <4>. QED BY <4>1
        <3>2. CASE k \in DOMAIN memory_partitions /\ l \in DOMAIN memory_partitions
            BY <1>20, <2>1, <3>2 DEF InIdOrder
        <3>. QED BY <1>17, <2>1, <3>1, <3>2
    <2>2. ASSUME NEW k \in OccupiedIn(qs), NEW l \in OccupiedIn(qs), k < l
          PROVE  qs[k].id < qs[l].id /\ qs[k].occupied_timestamp <= qs[l].occupied_timestamp
        <3>1. k # n
            <4>1. l \in 1..n /\ n \in Nat
                BY <1>0, <1>16, <1>17 DEF OccupiedIn
            <4>. QED BY <2>2, <4>1
        <3>2. k \in DOMAIN memory_partitions /\ k \in OccupiedIn(memory_partitions)
            BY <1>21, <3>1 DEF OccupiedIn, Occupied
        <3>3. CASE l = n
            <4>1. /\ qs[k].id = memory_partitions[k].id /\ memory_partitions[k].id \in Nat
                  /\ memory_partitions[k].id <= partition_count /\ qs[l].id = partition_count + 1
                  /\ qs[k].occupied_timestamp = memory_partitions[k].occupied_timestamp
                  /\ memory_partitions[k].occupied_timestamp <= now
                  /\ qs[l].occupied_timestamp = now
                BY <1>0, <1>11, <1>17, <1>20, <3>2, <3>3
            <4>2. qs[k].id < qs[l].id
                BY <4>1
            <4>. QED BY <4>1, <4>2
        <3>4. CASE l # n
            <4>1. l \in DOMAIN memory_partitions /\ l \in OccupiedIn(memory_partitions)
                BY <1>21, <3>4 DEF OccupiedIn, Occupied
            <4>. QED BY <1>20, <2>2, <3>2, <4>1 DEF InIdOrder
        <3>. QED BY <3>3, <3>4
    <2>. QED BY <2>1, <2>2 DEF InIdOrder
<1>23. memory' \in [Bytes -> 0..MaxMessages]
    <2>1. m \in 0..MaxMessages
        BY Numbers DEF Messages
    <2>. QED BY <1>13, <2>1
<1>24. ASSUME NEW k \in Occupied
       PROVE  /\ qs[k] = memory_partitions[k]
              /\ \A d \in 0..(memory_partitions[k].partition_size - 1) :
                    memory'[memory_partitions[k].begin + d] = memory[memory_partitions[k].begin + d]
    <2>1. k \in DOMAIN memory_partitions /\ k # i /\ qs[k] = memory_partitions[k]
        BY <1>20 DEF Occupied
    <2>2. ASSUME NEW d \in 0..(memory_partitions[k].partition_size - 1)
          PROVE  memory'[memory_partitions[k].begin + d] = memory[memory_partitions[k].begin + d]
        <3>1. PICK x : x = memory_partitions[k].begin + d
            OBVIOUS
        <3>2. /\ End(memory_partitions[k]) <= TAMANO_MEMORIA
              /\ End(memory_partitions[k]) <= free.begin \/ End(free) <= memory_partitions[k].begin
            BY <1>4, <1>5, <2>1 DEF Tiles
        <3>3. /\ memory_partitions[k].begin \in Nat /\ memory_partitions[k].partition_size \in Nat
              /\ End(memory_partitions[k]) = memory_partitions[k].begin + memory_partitions[k].partition_size
            BY <1>0, <2>1
        <3>4. x \in Bytes /\ ~(x \in free.begin .. (free.begin + size - 1))
            <4>0. PICK kb, ks, kn : /\ kb = memory_partitions[k].begin /\ kb \in Nat
                                    /\ ks = memory_partitions[k].partition_size /\ ks \in Nat
                                    /\ kn = End(memory_partitions[k])
                BY <3>3
            <4>1. x \in Nat /\ kn \in Nat /\ kb \in Nat /\ kb <= x /\ x < kn
                <5>1. d \in 0..(ks - 1) /\ x = kb + d /\ kn = kb + ks
                    BY <2>2, <3>1, <3>3, <4>0, Zenon
                <5>2. kb \in Nat /\ ks \in Nat
                    BY <4>0
                <5>3. d \in Nat /\ d < ks
                    BY <5>1, <5>2
                <5>4. kb + d \in Nat /\ kb + ks \in Nat /\ kb <= kb + d /\ kb + d < kb + ks
                    BY <5>2, <5>3
                <5>. QED BY <5>1, <5>2, <5>4, Zenon
            <4>2. PICK fb, fn : fb = free.begin /\ fn = End(free) /\ fb \in Nat /\ fn \in Nat
                BY <1>6
            <4>3. kn <= TAMANO_MEMORIA /\ (kn <= fb \/ fn <= kb) /\ TAMANO_MEMORIA \in Nat
                BY <1>0, <3>2, <4>0, <4>2
            <4>4. fb + size <= fn
                <5>1. PICK z : z = free.partition_size /\ z \in Nat /\ s <= z /\ fn = fb + z
                    BY <1>6, <4>2
                <5>2. fb \in Nat /\ s \in Nat /\ size \in Nat /\ size <= s
                    BY <1>1, <1>2, <4>2
                <5>. QED BY <5>1, <5>2, SMTT(30)
            <4>5. x \in 0..(TAMANO_MEMORIA - 1)
                BY <4>1, <4>3
            <4>6. ~(fb <= x /\ x <= fb + size - 1)
                <5>1. kn <= fb => ~(fb <= x)
                    BY <4>1, <4>2
                <5>2. size \in Nat /\ size >= 1
                    BY <1>1
                <5>3. fn <= kb => ~(x <= fb + size - 1)
                    BY <4>1, <4>2, <4>4, <5>2
                <5>. QED BY <4>3, <5>1, <5>3, Zenon
            <4>7. ~(x \in fb .. (fb + size - 1))
                BY <1>1, <4>1, <4>2, <4>6
            <4>. QED BY <4>2, <4>5, <4>7 DEF Bytes
        <3>5. memory'[x] = memory[x]
            BY <1>13, <3>4
        <3>. QED BY <3>1, <3>5
    <2>. QED BY <2>1, <2>2
<1>25. /\ r.id = partition_count + 1 /\ size_of[m] \in 1..r.partition_size
       /\ r.content_size = ContentSize(size_of[m])
       /\ r.occupied_timestamp = now /\ r.lru_timestamp = now
       /\ \A d \in 0..(size_of[m] - 1) : memory'[r.begin + d] = m
    <2>1. size_of[m] \in 1..r.partition_size
        BY <1>1, <1>2, <1>11
    <2>2. ASSUME NEW d \in 0..(size_of[m] - 1) PROVE memory'[r.begin + d] = m
        <3>1. PICK x : x = r.begin + d
            OBVIOUS
        <3>2. x \in Bytes /\ x \in free.begin .. (free.begin + size - 1)
            <4>1. d \in 0..(size - 1) /\ x = free.begin + d /\ TAMANO_MEMORIA \in Nat
                BY <1>0, <1>1, <1>11, <3>1
            <4>2. PICK fb, fn : /\ fb = free.begin /\ fn = free.partition_size
                                /\ fb \in Nat /\ fn \in Nat /\ s <= fn /\ fb + fn <= TAMANO_MEMORIA
                BY <1>6
            <4>3. x \in 0..(TAMANO_MEMORIA - 1) /\ x \in fb .. (fb + size - 1)
                <5>1. x = fb + d /\ d \in Nat /\ d < size
                    BY <1>1, <4>1, <4>2
                <5>2. size \in Nat /\ s \in Nat /\ size <= s
                    BY <1>1, <1>2
                <5>3. /\ fb \in Nat /\ fn \in Nat /\ TAMANO_MEMORIA \in Nat
                      /\ s <= fn /\ fb + fn <= TAMANO_MEMORIA
                    BY <4>1, <4>2
                <5>. QED BY <5>1, <5>2, <5>3
            <4>. QED BY <4>2, <4>3 DEF Bytes
        <3>. QED BY <1>13, <3>1, <3>2
    <2>. QED BY <1>11, <2>1, <2>2
<1>26. Occupied' = OccupiedIn(qs)
    BY <1>18 DEF Occupied, OccupiedIn
<1>. QED BY <1>16, <1>17, <1>18, <1>19, <1>20, <1>21, <1>22, <1>23, <1>24, <1>25, <1>26

\* The look-up changes nothing but the last use of the partition that is sent.
LEMMA LookUpList ==
    ASSUME memory_partitions \in Seq(Part), now \in Nat, LookUp
    PROVE  /\ memory_partitions' \in Seq(Part) /\ DOMAIN memory_partitions' = DOMAIN memory_partitions
           /\ Occupied' = Occupied
           /\ \A k \in DOMAIN memory_partitions :
                /\ memory_partitions'[k].id = memory_partitions[k].id
                /\ memory_partitions'[k].begin = memory_partitions[k].begin
                /\ memory_partitions'[k].partition_size = memory_partitions[k].partition_size
                /\ memory_partitions'[k].content_size = memory_partitions[k].content_size
                /\ memory_partitions'[k].occupied_timestamp = memory_partitions[k].occupied_timestamp
                /\ memory_partitions'[k].lru_timestamp =
                        IF memory_partitions[k].id = partition_of[reading]
                        THEN now ELSE memory_partitions[k].lru_timestamp
           /\ Tiles(memory_partitions) => Tiles(memory_partitions')
           /\ InIdOrder(memory_partitions) => InIdOrder(memory_partitions')
<1>1. /\ Len(memory_partitions) \in Nat /\ DOMAIN memory_partitions = 1..Len(memory_partitions)
      /\ \A k \in DOMAIN memory_partitions : memory_partitions[k] \in Part
    BY PartFields
<1>2. PICK qs : qs = [i \in DOMAIN memory_partitions |->
                        IF i \in PartitionOf(reading)
                        THEN Touched(memory_partitions[i]) ELSE memory_partitions[i]]
    OBVIOUS
<1>3. memory_partitions' = qs /\ DOMAIN qs = DOMAIN memory_partitions
    BY <1>2 DEF LookUp
<1>4. ASSUME NEW k \in DOMAIN memory_partitions
      PROVE  /\ qs[k] \in Part /\ qs[k].id = memory_partitions[k].id
             /\ qs[k].begin = memory_partitions[k].begin
             /\ qs[k].partition_size = memory_partitions[k].partition_size
             /\ qs[k].content_size = memory_partitions[k].content_size
             /\ qs[k].status = memory_partitions[k].status
             /\ qs[k].occupied_timestamp = memory_partitions[k].occupied_timestamp
             /\ qs[k].lru_timestamp = IF memory_partitions[k].id = partition_of[reading]
                                      THEN now ELSE memory_partitions[k].lru_timestamp
    <2>1. PICK r : r = memory_partitions[k] /\ r \in Part
        BY <1>1
    <2>2. PICK t : t = Touched(r)
        OBVIOUS
    <2>3. /\ t \in Part /\ t.id = r.id /\ t.begin = r.begin /\ t.partition_size = r.partition_size
          /\ t.status = r.status /\ t.content_size = r.content_size
          /\ t.occupied_timestamp = r.occupied_timestamp /\ t.lru_timestamp = now
        BY <2>1, <2>2 DEF Touched, Part
    <2>4. qs[k] = IF r.id = partition_of[reading] THEN t ELSE r
        BY <1>2, <2>1, <2>2 DEF PartitionOf
    <2>. QED BY <2>1, <2>3, <2>4
<1>5. qs \in Seq(Part)
    <2>1. qs = [k \in 1..Len(memory_partitions) |-> qs[k]]
        BY <1>1, <1>2
    <2>2. qs \in [1..Len(memory_partitions) -> Part]
        BY <1>1, <1>4, <2>1
    <2>. QED BY <1>1, <2>2, SeqDef
<1>6. OccupiedIn(qs) = OccupiedIn(memory_partitions)
    BY <1>3, <1>4 DEF OccupiedIn, IsOccupied
<1>7. ASSUME Tiles(memory_partitions) PROVE Tiles(qs)
    <2>1. \A k \in DOMAIN memory_partitions : End(qs[k]) = End(memory_partitions[k])
        BY <1>4 DEF End
    <2>. QED BY <1>3, <1>4, <1>7, <2>1 DEF Tiles
<1>8. ASSUME InIdOrder(memory_partitions) PROVE InIdOrder(qs)
    <2>1. \A k \in OccupiedIn(qs) : k \in DOMAIN memory_partitions
        BY <1>3 DEF OccupiedIn
    <2>. QED BY <1>3, <1>4, <1>6, <1>8, <2>1 DEF InIdOrder
<1>9. Occupied' = OccupiedIn(qs) /\ Occupied = OccupiedIn(memory_partitions)
    BY <1>3 DEF Occupied, OccupiedIn
<1>. QED BY <1>3, <1>4, <1>5, <1>6, <1>7, <1>8, <1>9

-----------------------------------------------------------------------------
(* What each step does to the payloads.                                    *)

\* What is sent of an occupied partition begins with the payload of the message
\* that names it, and is as long as the payload or the minimum.
LEMMA OccupiedHolds ==
    ASSUME HoldsPayloads, Named, memory_partitions \in Seq(Part),
           \A i \in DOMAIN memory_partitions : memory_partitions[i].id \in 1..partition_count,
           NEW i \in Occupied, NEW m \in Messages, memory_partitions[i].id = partition_of[m]
    PROVE  /\ i \in PartitionOf(m) /\ BeginsWithPayload(memory_partitions[i], m)
           /\ memory_partitions[i].content_size = ContentSize(size_of[m])
           /\ partition_of[m] # 0 /\ size_of[m] \in Nat
<1>1. i \in DOMAIN memory_partitions /\ IsOccupied(memory_partitions[i]) /\ partition_of[m] # 0
    BY DEF Occupied
<1>2. PICK n \in Messages :
        /\ partition_of[n] = memory_partitions[i].id
        /\ size_of[n] \in 1..memory_partitions[i].partition_size
        /\ memory_partitions[i].content_size = ContentSize(size_of[n])
        /\ \A b \in 0..(size_of[n] - 1) : memory[memory_partitions[i].begin + b] = n
    BY DEF HoldsPayloads
<1>3. n = m
    BY <1>1, <1>2 DEF Named
<1>4. size_of[m] \in Nat /\ size_of[m] <= ContentSize(size_of[m])
    <2>1. memory_partitions[i].partition_size \in Nat
        BY <1>1, PartFields
    <2>2. size_of[m] \in Nat
        BY <1>2, <1>3, <2>1
    <2>. QED BY <2>2, Numbers DEF ContentSize, AtLeastMinimum
<1>. QED BY <1>1, <1>2, <1>3, <1>4 DEF PartitionOf, BeginsWithPayload

\* A message's payload can be read back as long as its partition is occupied.
LEMMA KeptAreReadable ==
    Inv => ReadableIffKept
<1>. SUFFICES ASSUME Inv, NEW m \in Messages PROVE Readable(m) <=> partition_of[m] \in KeptIds
    BY DEF ReadableIffKept
<1>1. /\ HoldsPayloads /\ Named
      /\ \A i \in DOMAIN memory_partitions : memory_partitions[i].id \in 1..partition_count
      /\ memory_partitions \in Seq(Part)
    BY DEF Inv, Contents, ListOK, Threads
<1>2. ASSUME Readable(m) PROVE partition_of[m] \in KeptIds
    BY <1>2 DEF Readable, BeginsWithPayload, PartitionOf, KeptIds, Occupied
<1>3. ASSUME partition_of[m] \in KeptIds PROVE Readable(m)
    <2>1. PICK i \in Occupied : memory_partitions[i].id = partition_of[m]
        BY <1>3 DEF KeptIds
    <2>2. PICK q : q = memory_partitions[i] /\ i \in PartitionOf(m) /\ BeginsWithPayload(q, m)
        BY <1>1, <2>1, OccupiedHolds
    <2>. QED BY <2>2 DEF Readable
<1>. QED BY <1>2, <1>3

\* The invariant's facts in the form the steps need.
LEMMA InvFacts ==
    ASSUME Inv
    PROVE  /\ memory \in [Bytes -> 0..MaxMessages] /\ memory_partitions \in Seq(Part)
           /\ partition_count \in Nat /\ now \in Nat /\ message_count \in Nat
           /\ \A i \in DOMAIN memory_partitions :
                /\ memory_partitions[i].id \in Nat /\ memory_partitions[i].id >= 1
                /\ memory_partitions[i].id <= partition_count
                /\ memory_partitions[i].occupied_timestamp \in Nat
                /\ memory_partitions[i].occupied_timestamp <= now
                /\ memory_partitions[i].lru_timestamp \in Nat
                /\ memory_partitions[i].lru_timestamp <= now
                /\ memory_partitions[i].partition_size \in Nat
           /\ \A i \in Occupied : i \in DOMAIN memory_partitions /\ memory_partitions[i].partition_size >= 1
           /\ \A m \in Messages : partition_of[m] \in Nat /\ partition_of[m] <= partition_count
           /\ \A p, q \in Publishers : pub[p].pc \in Storing /\ pub[q].pc \in Storing => p = q
           /\ queued \subseteq Messages
           /\ \A p \in Publishers : pub[p].pc \in Storing \cup {"lock", "enqueue"} =>
                pub[p].id \in Messages /\ pub[p].id \in 1..message_count
           /\ Tiles(memory_partitions) /\ InIdOrder(memory_partitions) /\ HoldsPayloads
<1>1. memory \in [Bytes -> 0..MaxMessages] /\ memory_partitions \in Seq(Part)
    BY DEF Inv, Contents, ListOK
<1>2. /\ partition_count \in Nat /\ now \in Nat /\ message_count \in Nat /\ message_count <= MaxMessages
      /\ MaxMessages \in Nat /\ queued \subseteq Messages
      /\ partition_of \in [Messages -> 0..partition_count]
    BY Numbers DEF Inv, ThreadsOK
<1>3. ASSUME NEW i \in DOMAIN memory_partitions
      PROVE  /\ memory_partitions[i].id \in Nat /\ memory_partitions[i].id >= 1
             /\ memory_partitions[i].id <= partition_count
             /\ memory_partitions[i].occupied_timestamp \in Nat
             /\ memory_partitions[i].occupied_timestamp <= now
             /\ memory_partitions[i].lru_timestamp \in Nat
             /\ memory_partitions[i].lru_timestamp <= now
             /\ memory_partitions[i].partition_size \in Nat
    <2>1. /\ memory_partitions[i].id \in 1..partition_count
          /\ memory_partitions[i].occupied_timestamp <= now
          /\ memory_partitions[i].lru_timestamp <= now
        BY DEF Inv, Contents, ListOK
    <2>2. /\ memory_partitions[i].occupied_timestamp \in Nat
          /\ memory_partitions[i].lru_timestamp \in Nat
          /\ memory_partitions[i].partition_size \in Nat
        BY <1>1, PartFields
    <2>3. /\ memory_partitions[i].id \in Nat /\ memory_partitions[i].id >= 1
          /\ memory_partitions[i].id <= partition_count
        BY <1>2, <2>1
    <2>. QED BY <2>1, <2>2, <2>3
<1>4. ASSUME NEW i \in Occupied
      PROVE  i \in DOMAIN memory_partitions /\ memory_partitions[i].partition_size >= 1
    <2>1. i \in DOMAIN memory_partitions
        BY DEF Occupied
    <2>2. PICK m \in Messages : size_of[m] \in 1..memory_partitions[i].partition_size
        BY DEF Inv, Contents, HoldsPayloads
    <2>. QED BY <1>3, <2>1, <2>2
<1>5. ASSUME NEW m \in Messages PROVE partition_of[m] \in Nat /\ partition_of[m] <= partition_count
    <2>1. partition_of[m] \in 0..partition_count
        BY <1>2
    <2>. QED BY <1>2, <2>1
<1>6. \A p, q \in Publishers : pub[p].pc \in Storing /\ pub[q].pc \in Storing => p = q
    BY DEF Inv, Threads, ThreadFits
<1>7. ASSUME NEW p \in Publishers, pub[p].pc \in Storing \cup {"lock", "enqueue"}
      PROVE  pub[p].id \in Messages /\ pub[p].id \in 1..message_count
    <2>1. pub[p].pc \notin {"idle", "dead"}
        BY <1>7 DEF Storing
    <2>2. pub[p].id \in 1..message_count
        BY <2>1 DEF Inv, Threads, ThreadFits
    <2>. QED BY <1>2, <2>2 DEF Messages
<1>8. Tiles(memory_partitions) /\ InIdOrder(memory_partitions) /\ HoldsPayloads
    BY DEF Inv, Contents
<1>. QED BY <1>1, <1>2, <1>3, <1>4, <1>5, <1>6, <1>7, <1>8

\* Payloads that move with their partitions are still held.
LEMMA PayloadsCarried ==
    ASSUME Inv, UNCHANGED <<partition_of, size_of>>,
           \A k \in Occupied' : \E j \in Occupied :
                /\ memory_partitions'[k].id = memory_partitions[j].id
                /\ memory_partitions'[k].partition_size = memory_partitions[j].partition_size
                /\ memory_partitions'[k].content_size = memory_partitions[j].content_size
                /\ \A d \in 0..(memory_partitions[j].partition_size - 1) :
                        memory'[memory_partitions'[k].begin + d] = memory[memory_partitions[j].begin + d]
    PROVE  HoldsPayloads'
<1>. SUFFICES ASSUME NEW k \in Occupied'
              PROVE  \E m \in Messages :
                        /\ partition_of[m] = memory_partitions'[k].id
                        /\ size_of[m] \in 1..memory_partitions'[k].partition_size
                        /\ memory_partitions'[k].content_size = ContentSize(size_of[m])
                        /\ \A b \in 0..(size_of[m] - 1) : memory'[memory_partitions'[k].begin + b] = m
    BY DEF HoldsPayloads
<1>1. PICK j \in Occupied :
        /\ memory_partitions'[k].id = memory_partitions[j].id
        /\ memory_partitions'[k].partition_size = memory_partitions[j].partition_size
        /\ memory_partitions'[k].content_size = memory_partitions[j].content_size
        /\ \A d \in 0..(memory_partitions[j].partition_size - 1) :
                memory'[memory_partitions'[k].begin + d] = memory[memory_partitions[j].begin + d]
    OBVIOUS
<1>2. PICK m \in Messages :
        /\ partition_of[m] = memory_partitions[j].id
        /\ size_of[m] \in 1..memory_partitions[j].partition_size
        /\ memory_partitions[j].content_size = ContentSize(size_of[m])
        /\ \A b \in 0..(size_of[m] - 1) : memory[memory_partitions[j].begin + b] = m
    BY DEF Inv, Contents, HoldsPayloads
<1>3. memory_partitions[j].partition_size \in Nat
    BY InvFacts
<1>4. \A b \in 0..(size_of[m] - 1) : b \in 0..(memory_partitions[j].partition_size - 1)
    BY <1>2, <1>3
<1>. QED BY <1>1, <1>2, <1>4

\* As long as no message gets queued, or is about to be, and no id is lost.
LEMMA KeptOrEarlyKept ==
    ASSUME KeptOrEarly, KeptIds \subseteq KeptIds', UNCHANGED <<partition_of, early>>,
           \A m \in Messages :
                (m \in queued' \/ \E p \in Publishers : pub'[p].pc = "enqueue" /\ pub'[p].id = m)
                => (m \in queued \/ \E p \in Publishers : pub[p].pc = "enqueue" /\ pub[p].id = m)
    PROVE  KeptOrEarly'
BY DEF KeptOrEarly

\* A compaction.
LEMMA CompactKeeps ==
    ASSUME Inv, ThreadsOK', Threads', NEW p \in Publishers, Compact(p)
    PROVE  Contents' /\ KeptIds' = KeptIds
<1>1. /\ pub[p].pc = "compact" /\ pub'[p].pc = "find"
      /\ \A q \in Publishers : q # p => pub'[q] = pub[q] /\ pub[q].pc \notin Storing
      /\ UNCHANGED <<partition_of, queued, size_of, early, age, config, now>>
      /\ partition_count' = partition_count + 1
    <2>1. pub[p].pc = "compact" /\ pub \in [Publishers -> ThreadState]
        BY DEF Compact, Inv, ThreadsOK
    <2>2. \A q \in Publishers : q # p => pub[q].pc \notin Storing
        BY <2>1, InvFacts DEF Storing
    <2>. QED BY <2>1, <2>2 DEF Compact, messageVars, ThreadState
<1>2. /\ memory' \in [Bytes -> 0..MaxMessages]
      /\ memory_partitions' \in Seq(Part) /\ InAddressOrder(memory_partitions')
      /\ InIdOrder(memory_partitions')
      /\ Occupied' = 1..(Len(memory_partitions') - 1)
      /\ \A k \in DOMAIN memory_partitions' :
           \/ k \in Occupied'
           \/ /\ memory_partitions'[k].id = partition_count + 1
              /\ memory_partitions'[k].occupied_timestamp = 0
              /\ memory_partitions'[k].lru_timestamp = 0
      /\ \A k \in Occupied' : \E j \in Occupied :
           /\ memory_partitions'[k].id = memory_partitions[j].id
           /\ memory_partitions'[k].partition_size = memory_partitions[j].partition_size
           /\ memory_partitions'[k].content_size = memory_partitions[j].content_size
           /\ memory_partitions'[k].occupied_timestamp = memory_partitions[j].occupied_timestamp
           /\ memory_partitions'[k].lru_timestamp = memory_partitions[j].lru_timestamp
           /\ \A d \in 0..(memory_partitions[j].partition_size - 1) :
                   memory'[memory_partitions'[k].begin + d] = memory[memory_partitions[j].begin + d]
      /\ \A j \in Occupied : \E k \in Occupied' :
           memory_partitions'[k].id = memory_partitions[j].id
    BY InvFacts, CompactList
<1>3. ListOK'
    <2>1. ASSUME NEW k \in DOMAIN memory_partitions'
          PROVE  /\ memory_partitions'[k].id \in 1..(partition_count + 1)
                 /\ memory_partitions'[k].occupied_timestamp <= now
                 /\ memory_partitions'[k].lru_timestamp <= now
        <3>1. partition_count \in Nat /\ now \in Nat
            BY InvFacts
        <3>2. CASE k \in Occupied'
            <4>1. PICK j \in Occupied :
                    /\ memory_partitions'[k].id = memory_partitions[j].id
                    /\ memory_partitions'[k].occupied_timestamp = memory_partitions[j].occupied_timestamp
                    /\ memory_partitions'[k].lru_timestamp = memory_partitions[j].lru_timestamp
                BY <1>2, <3>2
            <4>. QED BY <3>1, <4>1, InvFacts
        <3>3. CASE k \notin Occupied'
            BY <1>2, <2>1, <3>1, <3>3
        <3>. QED BY <3>2, <3>3
    <2>. QED BY <1>1, <1>2, <2>1 DEF ListOK
<1>4. Tiles(memory_partitions')
    BY <1>2, OrderedTiles
<1>5. HoldsPayloads'
    BY <1>1, <1>2, PayloadsCarried
<1>6. Compacted'
    <2>1. ASSUME NEW k \in DOMAIN memory_partitions', NEW m \in Messages,
                 partition_of[m] = memory_partitions'[k].id
          PROVE  memory_partitions'[k].partition_size >= 1
        <3>1. memory_partitions'[k].id # partition_count + 1
            <4>1. partition_of[m] \in Nat /\ partition_of[m] <= partition_count /\ partition_count \in Nat
                BY InvFacts
            <4>. QED BY <2>1, <4>1
        <3>2. k \in Occupied'
            BY <1>2, <3>1
        <3>3. PICK j \in Occupied : memory_partitions'[k].partition_size = memory_partitions[j].partition_size
            BY <1>2, <3>2
        <3>. QED BY <3>3, InvFacts
    <2>. QED BY <1>1, <1>2, <2>1 DEF Compacted
<1>7. ASSUME NEW q \in Publishers PROVE SearchFits(q)'
    <2>1. CASE q = p
        BY <1>1, <1>2, <2>1 DEF SearchFits
    <2>2. CASE q # p
        BY <1>1, <2>2 DEF SearchFits, Storing
    <2>. QED BY <2>1, <2>2
<1>10. KeptIds' = KeptIds
    BY <1>2 DEF KeptIds
<1>8. KeptOrEarly'
    BY <1>1, <1>10, KeptOrEarlyKept DEF Inv, Contents
<1>9. AgesAgree'
    <2>1. ASSUME config.reemplazo = "LRU", NEW m \in Messages, NEW k \in Occupied',
                 memory_partitions'[k].id = partition_of[m]
          PROVE  age[m] = memory_partitions'[k].lru_timestamp
        <3>1. PICK j \in Occupied : /\ memory_partitions'[k].id = memory_partitions[j].id
                                    /\ memory_partitions'[k].lru_timestamp = memory_partitions[j].lru_timestamp
            BY <1>2
        <3>. QED BY <2>1, <3>1 DEF Inv, Contents, AgesAgree
    <2>. QED BY <1>1, <2>1 DEF AgesAgree
<1>. QED BY <1>2, <1>3, <1>4, <1>5, <1>6, <1>7, <1>8, <1>9, <1>10 DEF Contents

\* An eviction.
LEMMA FreeKeeps ==
    ASSUME Inv, ThreadsOK', Threads', NEW p \in Publishers, pub[p].pc = "delete",
           NEW i \in DOMAIN memory_partitions, FreePartition(i),
           pub' = [pub EXCEPT ![p].pc = AfterDelete(pub[p])],
           UNCHANGED <<memory, partition_count, messageVars, partition_of>>
    PROVE  Contents'
<1>1. /\ pub'[p].pc \in {"find", "compact"} /\ (config.frecuencia = 1 => pub'[p].pc = "compact")
      /\ \A q \in Publishers : q # p => pub'[q] = pub[q] /\ pub[q].pc \notin Storing
      /\ UNCHANGED <<memory, partition_of, partition_count, size_of, config, now>>
    <2>1. pub \in [Publishers -> ThreadState]
        BY DEF Inv, ThreadsOK
    <2>2. \A q \in Publishers : q # p => pub[q].pc \notin Storing
        BY InvFacts DEF Storing
    <2>3. pub[p].search_count \in Nat /\ pub[p].search_count >= 1
        BY <2>1 DEF ThreadState, Inv, Threads, ThreadFits
    <2>. QED BY <2>1, <2>2, <2>3 DEF AfterDelete, messageVars, ThreadState
<1>2. /\ InAddressOrder(memory_partitions)
      /\ \A j \in DOMAIN memory_partitions, m \in Messages :
                partition_of[m] = memory_partitions[j].id
                    => memory_partitions[j].partition_size >= 1
    BY DEF Inv, Contents, Compacted
<1>3. /\ memory_partitions' \in Seq(Part) /\ InAddressOrder(memory_partitions')
      /\ InIdOrder(memory_partitions')
    BY <1>2, InvFacts, FreePartitionList
<1>4. /\ \A k \in DOMAIN memory_partitions' : \E j \in DOMAIN memory_partitions :
            /\ memory_partitions'[k].id = memory_partitions[j].id
            /\ memory_partitions'[k].partition_size >= memory_partitions[j].partition_size
            /\ memory_partitions'[k].occupied_timestamp \in {0, memory_partitions[j].occupied_timestamp}
            /\ memory_partitions'[k].lru_timestamp \in {0, memory_partitions[j].lru_timestamp}
            /\ IsOccupied(memory_partitions'[k]) =>
                    j # i /\ memory_partitions'[k] = memory_partitions[j]
      /\ \A j \in Occupied : j # i =>
            \E k \in Occupied' : memory_partitions'[k] = memory_partitions[j]
    BY <1>2, InvFacts, FreePartitionKeeps
<1>5. \A k \in Occupied' : \E j \in Occupied : j # i /\ memory_partitions'[k] = memory_partitions[j]
    <2>. TAKE k \in Occupied'
    <2>1. k \in DOMAIN memory_partitions' /\ IsOccupied(memory_partitions'[k])
        BY DEF Occupied
    <2>2. PICK j \in DOMAIN memory_partitions : j # i /\ memory_partitions'[k] = memory_partitions[j]
        BY <1>4, <2>1
    <2>3. j \in Occupied
        BY <2>1, <2>2 DEF Occupied
    <2>. QED BY <2>2, <2>3
<1>6. ListOK'
    <2>1. ASSUME NEW k \in DOMAIN memory_partitions'
          PROVE  /\ memory_partitions'[k].id \in 1..partition_count
                 /\ memory_partitions'[k].occupied_timestamp <= now
                 /\ memory_partitions'[k].lru_timestamp <= now
        <3>1. PICK j \in DOMAIN memory_partitions :
                /\ memory_partitions'[k].id = memory_partitions[j].id
                /\ memory_partitions'[k].occupied_timestamp \in {0, memory_partitions[j].occupied_timestamp}
                /\ memory_partitions'[k].lru_timestamp \in {0, memory_partitions[j].lru_timestamp}
            BY <1>4
        <3>2. /\ memory_partitions[j].id \in Nat /\ memory_partitions[j].id >= 1
              /\ memory_partitions[j].id <= partition_count /\ partition_count \in Nat /\ now \in Nat
              /\ memory_partitions[j].occupied_timestamp <= now /\ memory_partitions[j].lru_timestamp <= now
            BY InvFacts
        <3>. QED BY <3>1, <3>2
    <2>. QED BY <1>1, <1>3, <2>1, InvFacts DEF ListOK
<1>7. Tiles(memory_partitions')
    BY <1>3, OrderedTiles
<1>8. HoldsPayloads'
    BY <1>1, <1>5, PayloadsCarried
<1>9. Compacted'
    <2>1. ASSUME NEW k \in DOMAIN memory_partitions', NEW m \in Messages,
                 partition_of[m] = memory_partitions'[k].id
          PROVE  memory_partitions'[k].partition_size >= 1
        <3>1. PICK j \in DOMAIN memory_partitions :
                /\ memory_partitions'[k].id = memory_partitions[j].id
                /\ memory_partitions'[k].partition_size >= memory_partitions[j].partition_size
            BY <1>4
        <3>2. memory_partitions[j].partition_size >= 1 /\ memory_partitions[j].partition_size \in Nat
            BY <1>2, <2>1, <3>1, InvFacts
        <3>3. memory_partitions'[k].partition_size \in Nat
            BY <1>3, PartFields
        <3>. QED BY <3>1, <3>2, <3>3
    <2>. QED BY <1>1, <1>3, <2>1 DEF Compacted
<1>10. ASSUME NEW q \in Publishers PROVE SearchFits(q)'
    <2>1. CASE q = p
        BY <1>1, <2>1 DEF SearchFits
    <2>2. CASE q # p
        BY <1>1, <2>2 DEF SearchFits, Storing
    <2>. QED BY <2>1, <2>2
<1>11. KeptOrEarly'
    <2>0. PICK id : id = memory_partitions[i].id
        OBVIOUS
    <2>1. \A x \in KeptIds : x = id \/ x \in KeptIds'
        BY <1>4, <2>0 DEF KeptIds
    <2>2. /\ queued' = queued \ MessagesIn(id)
          /\ early' = early \cup ({m \in Messages : partition_of[m] = id /\ Readable(m)} \ queued)
        BY <2>0 DEF FreePartition, Forget
    <2>. SUFFICES ASSUME NEW m \in Messages,
                         m \in queued' \/ \E q \in Publishers : pub'[q].pc = "enqueue" /\ pub'[q].id = m
                  PROVE  partition_of[m] \in KeptIds' \/ m \in early'
        BY <1>1 DEF KeptOrEarly
    <2>3. CASE m \in queued'
        <3>1. m \in queued /\ partition_of[m] # id
            BY <2>2, <2>3 DEF MessagesIn
        <3>2. partition_of[m] \in KeptIds \/ m \in early
            BY <3>1 DEF Inv, Contents, KeptOrEarly
        <3>. QED BY <2>1, <2>2, <3>1, <3>2
    <2>4. CASE \E q \in Publishers : pub'[q].pc = "enqueue" /\ pub'[q].id = m
        <3>1. PICK q \in Publishers : pub[q].pc = "enqueue" /\ pub[q].id = m
            BY <1>1, <2>4
        <3>2. partition_of[m] \in KeptIds \/ m \in early
            BY <3>1 DEF Inv, Contents, KeptOrEarly
        <3>3. m \notin queued
            BY <3>1 DEF Inv, Threads, ThreadFits
        <3>4. partition_of[m] \in KeptIds => Readable(m)
            BY KeptAreReadable DEF ReadableIffKept
        <3>. QED BY <2>1, <2>2, <3>2, <3>3, <3>4
    <2>. QED BY <2>3, <2>4
<1>12. AgesAgree'
    <2>1. ASSUME config.reemplazo = "LRU", NEW m \in Messages, NEW k \in Occupied',
                 memory_partitions'[k].id = partition_of[m]
          PROVE  age'[m] = memory_partitions'[k].lru_timestamp
        <3>1. PICK j \in Occupied : j # i /\ memory_partitions'[k] = memory_partitions[j]
            BY <1>5
        <3>2. memory_partitions[j].id # memory_partitions[i].id
            <4>1. j \in DOMAIN memory_partitions /\ InIdOrder(memory_partitions)
                BY InvFacts
            <4>. QED BY <3>1, <4>1 DEF InIdOrder
        <3>3. age'[m] = age[m]
            BY <2>1, <3>1, <3>2 DEF FreePartition, Forget
        <3>. QED BY <2>1, <3>1, <3>3 DEF Inv, Contents, AgesAgree
    <2>. QED BY <1>1, <2>1 DEF AgesAgree
<1>. QED BY <1>3, <1>6, <1>7, <1>8, <1>9, <1>10, <1>11, <1>12 DEF Contents

\* The copy of a payload.
LEMMA PlaceKeeps ==
    ASSUME Inv, ThreadsOK', Threads', NEW p \in Publishers, Place(p)
    PROVE  Contents' /\ KeptIds' = KeptIds \cup {partition_count + 1}
<1>1. PICK m, n : m = pub[p].id /\ n = Len(memory_partitions) + 1
    OBVIOUS
<1>2. /\ pub[p].pc = "place" /\ pub'[p].pc = "enqueue" /\ pub'[p].id = m
      /\ \A q \in Publishers : q # p => pub'[q] = pub[q]
      /\ mutex_memory_partitions' = NoOne
      /\ partition_of' = [partition_of EXCEPT ![m] = partition_count + 1]
      /\ age' = [age EXCEPT ![m] = now]
      /\ partition_count' = partition_count + 1
      /\ UNCHANGED <<size_of, config, now, queued, early>>
    <2>1. pub \in [Publishers -> ThreadState]
        BY DEF Inv, ThreadsOK
    <2>. QED BY <1>1, <2>1 DEF Place, CopyPayload, messageVars, ThreadState
<1>3. /\ m \in Messages /\ size_of[m] \in Sizes /\ Fitting(size_of[m]) # {}
    <2>1. pub[p].pc \in Storing
        BY <1>2 DEF Storing
    <2>2. ThreadFits(p) /\ SearchFits(p)
        BY DEF Inv, Threads, Contents
    <2>. QED BY <1>1, <1>2, <2>1, <2>2, InvFacts DEF ThreadFits, SearchFits
<1>4. /\ memory' \in [Bytes -> 0..MaxMessages]
      /\ memory_partitions' \in Seq(Part) /\ Tiles(memory_partitions')
      /\ InIdOrder(memory_partitions')
      /\ Occupied' = Occupied \cup {n}
      /\ \A k \in DOMAIN memory_partitions' : k \in DOMAIN memory_partitions \/ k = n
      /\ \A k \in DOMAIN memory_partitions :
           /\ memory_partitions'[k].id = memory_partitions[k].id
           /\ memory_partitions'[k].occupied_timestamp = memory_partitions[k].occupied_timestamp
           /\ memory_partitions'[k].lru_timestamp = memory_partitions[k].lru_timestamp
      /\ \A k \in Occupied :
           /\ memory_partitions'[k] = memory_partitions[k]
           /\ \A d \in 0..(memory_partitions[k].partition_size - 1) :
                   memory'[memory_partitions[k].begin + d] = memory[memory_partitions[k].begin + d]
      /\ LET new == memory_partitions'[n]
         IN  /\ new.id = partition_count + 1 /\ size_of[m] \in 1..new.partition_size
             /\ new.content_size = ContentSize(size_of[m])
             /\ new.occupied_timestamp = now /\ new.lru_timestamp = now
             /\ \A d \in 0..(size_of[m] - 1) : memory'[new.begin + d] = m
    BY <1>1, <1>3, InvFacts, PlaceList
<1>5. /\ partition_count \in Nat /\ now \in Nat
      /\ partition_of'[m] = partition_count + 1 /\ age'[m] = now
      /\ \A x \in Messages : x # m => partition_of'[x] = partition_of[x] /\ age'[x] = age[x]
      /\ \A k \in Occupied : memory_partitions[k].id # partition_count + 1
    <2>1. /\ partition_of'[m] = partition_count + 1 /\ age'[m] = now
          /\ \A x \in Messages : x # m => partition_of'[x] = partition_of[x] /\ age'[x] = age[x]
        BY <1>2, <1>3 DEF Inv, ThreadsOK
    <2>2. ASSUME NEW k \in Occupied PROVE memory_partitions[k].id # partition_count + 1
        <3>1. /\ memory_partitions[k].id \in Nat /\ memory_partitions[k].id <= partition_count
              /\ partition_count \in Nat
            BY InvFacts
        <3>. QED BY <3>1
    <2>. QED BY <2>1, <2>2, InvFacts
<1>6. partition_of[m] = 0
    BY <1>1, <1>2 DEF Inv, Threads, ThreadFits, Storing
<1>7. ListOK'
    <2>1. ASSUME NEW k \in DOMAIN memory_partitions'
          PROVE  /\ memory_partitions'[k].id \in 1..(partition_count + 1)
                 /\ memory_partitions'[k].occupied_timestamp <= now
                 /\ memory_partitions'[k].lru_timestamp <= now
        <3>1. CASE k \in DOMAIN memory_partitions
            <4>1. /\ memory_partitions[k].id \in Nat /\ memory_partitions[k].id >= 1
                  /\ memory_partitions[k].id <= partition_count /\ partition_count \in Nat
                  /\ memory_partitions[k].occupied_timestamp <= now
                  /\ memory_partitions[k].lru_timestamp <= now
                BY <3>1, InvFacts
            <4>. QED BY <1>4, <3>1, <4>1
        <3>2. CASE k = n
            BY <1>4, <1>5, <3>2
        <3>. QED BY <1>4, <3>1, <3>2
    <2>. QED BY <1>2, <1>4, <2>1 DEF ListOK
<1>8. HoldsPayloads'
    <2>1. ASSUME NEW k \in Occupied'
          PROVE  \E x \in Messages :
                    /\ partition_of'[x] = memory_partitions'[k].id
                    /\ size_of[x] \in 1..memory_partitions'[k].partition_size
                    /\ memory_partitions'[k].content_size = ContentSize(size_of[x])
                    /\ \A b \in 0..(size_of[x] - 1) : memory'[memory_partitions'[k].begin + b] = x
        <3>1. CASE k = n
            BY <1>3, <1>4, <1>5, <3>1
        <3>2. CASE k \in Occupied
            <4>1. PICK x \in Messages :
                    /\ partition_of[x] = memory_partitions[k].id
                    /\ size_of[x] \in 1..memory_partitions[k].partition_size
                    /\ memory_partitions[k].content_size = ContentSize(size_of[x])
                    /\ \A b \in 0..(size_of[x] - 1) : memory[memory_partitions[k].begin + b] = x
                BY <3>2 DEF Inv, Contents, HoldsPayloads
            <4>2. memory_partitions[k].partition_size \in Nat /\ memory_partitions[k].id >= 1
                BY <3>2, InvFacts
            <4>3. x # m
                BY <1>6, <4>1, <4>2
            <4>4. \A b \in 0..(size_of[x] - 1) : b \in 0..(memory_partitions[k].partition_size - 1)
                BY <4>1, <4>2
            <4>5. /\ memory_partitions'[k] = memory_partitions[k]
                  /\ \A d \in 0..(memory_partitions[k].partition_size - 1) :
                        memory'[memory_partitions[k].begin + d] = memory[memory_partitions[k].begin + d]
                BY <1>4, <3>2
            <4>. QED BY <1>5, <4>1, <4>3, <4>4, <4>5
        <3>. QED BY <1>4, <2>1, <3>1, <3>2
    <2>. QED BY <1>2, <2>1 DEF HoldsPayloads
<1>9. \A q \in Publishers : pub'[q].pc \notin Storing
    BY <1>2, InvFacts DEF Storing
<1>10. Compacted' /\ \A q \in Publishers : SearchFits(q)'
    BY <1>9 DEF Compacted, SearchFits, Storing
<1>11. KeptIds' = KeptIds \cup {partition_count + 1}
    <2>1. \A k \in Occupied' : k \in Occupied \/ k = n
        BY <1>4
    <2>2. n \in Occupied' /\ memory_partitions'[n].id = partition_count + 1
        BY <1>4
    <2>3. \A k \in Occupied : k \in Occupied' /\ memory_partitions'[k].id = memory_partitions[k].id
        BY <1>4
    <2>. QED BY <2>1, <2>2, <2>3 DEF KeptIds
<1>12. KeptOrEarly'
    <2>. SUFFICES ASSUME NEW x \in Messages,
                         x \in queued \/ \E q \in Publishers : pub'[q].pc = "enqueue" /\ pub'[q].id = x
                  PROVE  partition_of'[x] \in KeptIds' \/ x \in early
        BY <1>2 DEF KeptOrEarly
    <2>1. CASE x = m
        BY <1>5, <1>11, <2>1
    <2>2. CASE x # m
        <3>1. x \in queued \/ \E q \in Publishers : pub[q].pc = "enqueue" /\ pub[q].id = x
            BY <1>2, <2>2
        <3>2. partition_of[x] \in KeptIds \/ x \in early
            BY <3>1 DEF Inv, Contents, KeptOrEarly
        <3>. QED BY <1>5, <1>11, <2>2, <3>2
    <2>. QED BY <2>1, <2>2
<1>13. AgesAgree'
    <2>1. ASSUME config.reemplazo = "LRU", NEW x \in Messages, NEW k \in Occupied',
                 memory_partitions'[k].id = partition_of'[x]
          PROVE  age'[x] = memory_partitions'[k].lru_timestamp
        <3>1. CASE k = n
            <4>1. x = m
                <5>1. x # m => partition_of[x] \in Nat /\ partition_of[x] <= partition_count
                    BY InvFacts
                <5>2. x # m => partition_of[x] = partition_count + 1
                    BY <1>4, <1>5, <2>1, <3>1
                <5>. QED BY <1>5, <5>1, <5>2
            <4>. QED BY <1>4, <1>5, <3>1, <4>1
        <3>2. CASE k \in Occupied
            <4>1. memory_partitions'[k] = memory_partitions[k]
                BY <1>4, <3>2
            <4>2. x # m
                BY <1>5, <2>1, <3>2, <4>1
            <4>. QED BY <1>5, <2>1, <3>2, <4>1, <4>2 DEF Inv, Contents, AgesAgree
        <3>. QED BY <1>4, <2>1, <3>1, <3>2
    <2>. QED BY <1>2, <2>1 DEF AgesAgree
<1>. QED BY <1>4, <1>7, <1>8, <1>10, <1>11, <1>12, <1>13 DEF Contents

\* A look-up.
LEMMA LookUpKeeps ==
    ASSUME Inv, ThreadsOK', Threads', LookUp
    PROVE  Contents' /\ KeptIds' = KeptIds
<1>1. /\ mutex_memory_partitions = NoOne
      /\ UNCHANGED <<memory, partition_count, partition_of, size_of, config, now, queued, pub, early>>
    BY DEF LookUp
<1>2. /\ memory_partitions' \in Seq(Part) /\ DOMAIN memory_partitions' = DOMAIN memory_partitions
      /\ Occupied' = Occupied
      /\ \A k \in DOMAIN memory_partitions :
           /\ memory_partitions'[k].id = memory_partitions[k].id
           /\ memory_partitions'[k].begin = memory_partitions[k].begin
           /\ memory_partitions'[k].partition_size = memory_partitions[k].partition_size
           /\ memory_partitions'[k].content_size = memory_partitions[k].content_size
           /\ memory_partitions'[k].occupied_timestamp = memory_partitions[k].occupied_timestamp
           /\ memory_partitions'[k].lru_timestamp =
                   IF memory_partitions[k].id = partition_of[reading]
                   THEN now ELSE memory_partitions[k].lru_timestamp
      /\ Tiles(memory_partitions') /\ InIdOrder(memory_partitions')
    BY InvFacts, LookUpList
<1>3. ListOK'
    <2>1. ASSUME NEW k \in DOMAIN memory_partitions
          PROVE  /\ memory_partitions'[k].id \in 1..partition_count
                 /\ memory_partitions'[k].occupied_timestamp <= now
                 /\ memory_partitions'[k].lru_timestamp <= now
        <3>1. /\ memory_partitions[k].id \in Nat /\ memory_partitions[k].id >= 1
              /\ memory_partitions[k].id <= partition_count /\ partition_count \in Nat
              /\ memory_partitions[k].occupied_timestamp <= now
              /\ memory_partitions[k].lru_timestamp <= now /\ now \in Nat
            BY InvFacts
        <3>. QED BY <1>2, <3>1
    <2>. QED BY <1>1, <1>2, <2>1, InvFacts DEF ListOK
<1>4. HoldsPayloads'
    <2>1. ASSUME NEW k \in Occupied'
          PROVE  \E j \in Occupied :
                    /\ memory_partitions'[k].id = memory_partitions[j].id
                    /\ memory_partitions'[k].partition_size = memory_partitions[j].partition_size
                    /\ memory_partitions'[k].content_size = memory_partitions[j].content_size
                    /\ \A d \in 0..(memory_partitions[j].partition_size - 1) :
                        memory'[memory_partitions'[k].begin + d] = memory[memory_partitions[j].begin + d]
        <3>1. k \in Occupied /\ k \in DOMAIN memory_partitions
            BY <1>2, InvFacts
        <3>. QED BY <1>1, <1>2, <3>1
    <2>. QED BY <1>1, <2>1, PayloadsCarried
<1>5. \A q \in Publishers : pub'[q].pc \notin Storing
    BY <1>1, Numbers DEF Inv, Threads, ThreadFits
<1>6. Compacted' /\ \A q \in Publishers : SearchFits(q)'
    BY <1>5 DEF Compacted, SearchFits, Storing
<1>7. KeptIds' = KeptIds
    <2>1. \A k \in Occupied : memory_partitions'[k].id = memory_partitions[k].id
        BY <1>2, InvFacts
    <2>. QED BY <1>2, <2>1 DEF KeptIds
<1>8. KeptOrEarly'
    BY <1>1, <1>7, KeptOrEarlyKept DEF Inv, Contents
<1>9. AgesAgree'
    <2>1. ASSUME config.reemplazo = "LRU", NEW m \in Messages, NEW k \in Occupied,
                 memory_partitions'[k].id = partition_of[m]
          PROVE  age'[m] = memory_partitions'[k].lru_timestamp
        <3>1. k \in DOMAIN memory_partitions /\ memory_partitions[k].id = partition_of[m]
            BY <1>2, <2>1, InvFacts
        <3>2. Readable(m)
            <4>1. partition_of[m] \in KeptIds
                BY <3>1 DEF KeptIds
            <4>. QED BY <4>1, KeptAreReadable DEF ReadableIffKept
        <3>3. age'[m] = IF partition_of[m] = partition_of[reading] THEN now ELSE age[m]
            BY <2>1, <3>2 DEF LookUp
        <3>4. age[m] = memory_partitions[k].lru_timestamp
            BY <2>1, <3>1 DEF Inv, Contents, AgesAgree
        <3>. QED BY <1>2, <3>1, <3>3, <3>4
    <2>. QED BY <1>1, <1>2, <2>1 DEF AgesAgree
<1>. QED BY <1>2, <1>3, <1>4, <1>6, <1>7, <1>8, <1>9 DEF Contents

\* The other steps leave the list alone.
LEMMA OtherStepsKeep ==
    ASSUME Inv, ThreadsOK', Threads', now' \in Nat, now <= now',
           UNCHANGED <<memory, memory_partitions, partition_count, partition_of, config, age, early>>,
           \A m \in 1..message_count : size_of'[m] = size_of[m],
           \A p \in Publishers : pub'[p].pc \in {"find", "delete"} =>
                /\ \E q \in Publishers : pub[q].pc \in {"find", "delete"}
                /\ config.frecuencia = 1 => Occupied = 1..(Len(memory_partitions) - 1),
           \A p \in Publishers :
                /\ pub'[p].pc = "place" => Fitting(size_of[pub'[p].id]) # {}
                /\ (config.frecuencia = 1 /\ pub'[p].pc = "delete") => Fitting(size_of[pub'[p].id]) = {}
                /\ pub'[p].pc \in {"place", "delete"} => pub'[p].id \in 1..message_count,
           \A m \in Messages :
                (m \in queued' \/ \E p \in Publishers : pub'[p].pc = "enqueue" /\ pub'[p].id = m)
                => (m \in queued \/ \E p \in Publishers : pub[p].pc = "enqueue" /\ pub[p].id = m)
    PROVE  Contents' /\ KeptIds' = KeptIds
<1>1. KeptIds' = KeptIds /\ Occupied' = Occupied
    BY DEF KeptIds, Occupied
<1>2. ListOK'
    <2>1. ASSUME NEW k \in DOMAIN memory_partitions
          PROVE  /\ memory_partitions[k].id \in 1..partition_count
                 /\ memory_partitions[k].occupied_timestamp <= now'
                 /\ memory_partitions[k].lru_timestamp <= now'
        <3>1. /\ memory_partitions[k].id \in Nat /\ memory_partitions[k].id >= 1
              /\ memory_partitions[k].id <= partition_count /\ partition_count \in Nat
              /\ memory_partitions[k].occupied_timestamp \in Nat
              /\ memory_partitions[k].lru_timestamp \in Nat
              /\ memory_partitions[k].occupied_timestamp <= now
              /\ memory_partitions[k].lru_timestamp <= now /\ now \in Nat
            BY InvFacts
        <3>. QED BY <3>1
    <2>. QED BY <2>1, InvFacts DEF ListOK
<1>3. HoldsPayloads'
    <2>1. ASSUME NEW k \in Occupied
          PROVE  \E m \in Messages :
                    /\ partition_of[m] = memory_partitions[k].id
                    /\ size_of'[m] \in 1..memory_partitions[k].partition_size
                    /\ memory_partitions[k].content_size = ContentSize(size_of'[m])
                    /\ \A b \in 0..(size_of'[m] - 1) : memory[memory_partitions[k].begin + b] = m
        <3>1. PICK m \in Messages :
                    /\ partition_of[m] = memory_partitions[k].id
                    /\ size_of[m] \in 1..memory_partitions[k].partition_size
                    /\ memory_partitions[k].content_size = ContentSize(size_of[m])
                    /\ \A b \in 0..(size_of[m] - 1) : memory[memory_partitions[k].begin + b] = m
            BY DEF Inv, Contents, HoldsPayloads
        <3>2. partition_of[m] >= 1
            BY <3>1, InvFacts
        <3>3. ~(m > message_count)
            BY <3>2 DEF Inv, Threads, Named
        <3>4. m \in 1..message_count
            <4>1. m \in Nat /\ m >= 1 /\ message_count \in Nat
                BY Numbers, InvFacts DEF Messages
            <4>. QED BY <3>3, <4>1
        <3>. QED BY <3>1, <3>4
    <2>. QED BY <1>1, <2>1 DEF HoldsPayloads, ContentSize, AtLeastMinimum
<1>4. Compacted'
    BY DEF Inv, Contents, Compacted
<1>5. ASSUME NEW p \in Publishers PROVE SearchFits(p)'
    <2>1. pub'[p].pc \in {"place", "delete"} => size_of'[pub'[p].id] = size_of[pub'[p].id]
        OBVIOUS
    <2>. QED BY <1>1, <2>1 DEF SearchFits, Fitting
<1>6. KeptOrEarly'
    BY <1>1, KeptOrEarlyKept DEF Inv, Contents
<1>7. AgesAgree'
    BY <1>1 DEF Inv, Contents, AgesAgree
<1>8. Tiles(memory_partitions') /\ InIdOrder(memory_partitions')
    BY InvFacts
<1>. QED BY <1>1, <1>2, <1>3, <1>4, <1>5, <1>6, <1>7, <1>8 DEF Contents

-----------------------------------------------------------------------------
(* The invariant holds.                                                    *)

\* What an eviction of partition i takes: nothing but its own id.
LEMMA FreeIds ==
    ASSUME Inv, NEW p \in Publishers, pub[p].pc = "delete",
           NEW i \in DOMAIN memory_partitions, FreePartition(i)
    PROVE  KeptIds' = KeptIds \ {memory_partitions[i].id}
<1>1. /\ InAddressOrder(memory_partitions)
      /\ \A j \in DOMAIN memory_partitions, m \in Messages :
                partition_of[m] = memory_partitions[j].id
                    => memory_partitions[j].partition_size >= 1
    BY DEF Inv, Contents, Compacted
<1>2. /\ \A k \in DOMAIN memory_partitions' : \E j \in DOMAIN memory_partitions :
            IsOccupied(memory_partitions'[k]) => j # i /\ memory_partitions'[k] = memory_partitions[j]
      /\ \A j \in Occupied : j # i =>
            \E k \in Occupied' : memory_partitions'[k] = memory_partitions[j]
    BY <1>1, InvFacts, FreePartitionKeeps
<1>3. \A j, k \in DOMAIN memory_partitions :
            memory_partitions[j].id = memory_partitions[k].id => j = k
    BY InvFacts DEF InIdOrder
<1>4. ASSUME NEW x \in KeptIds' PROVE x \in KeptIds /\ x # memory_partitions[i].id
    <2>1. PICK k \in Occupied' : x = memory_partitions'[k].id
        BY DEF KeptIds
    <2>2. k \in DOMAIN memory_partitions' /\ IsOccupied(memory_partitions'[k])
        BY DEF Occupied
    <2>3. PICK j \in DOMAIN memory_partitions : j # i /\ memory_partitions'[k] = memory_partitions[j]
        BY <1>2, <2>2
    <2>4. j \in Occupied
        BY <2>2, <2>3 DEF Occupied
    <2>. QED BY <1>3, <2>1, <2>3, <2>4 DEF KeptIds
<1>5. ASSUME NEW x \in KeptIds, x # memory_partitions[i].id PROVE x \in KeptIds'
    <2>1. PICK j \in Occupied : x = memory_partitions[j].id
        BY DEF KeptIds
    <2>2. PICK k \in Occupied' : memory_partitions'[k] = memory_partitions[j]
        BY <1>2, <1>5, <2>1
    <2>. QED BY <2>1, <2>2 DEF KeptIds
<1>. QED BY <1>4, <1>5

\* The invariant holds at the start.
LEMMA InvInit ==
    Init => Inv
<1>. SUFFICES ASSUME Init PROVE Inv
    OBVIOUS
<1>0. /\ 0 \notin Messages /\ Messages \subseteq Nat /\ MaxMessages \in Nat /\ MaxTime \in Nat \ {0}
      /\ TAMANO_MEMORIA \in Nat /\ TAMANO_MEMORIA >= 1 /\ NoOne \notin Publishers
    BY Numbers, Configured DEF Messages
<1>1. ThreadsOK
    <2>1. IdleThread \in ThreadState
        BY <1>0 DEF ThreadState, IdleThread
    <2>2. pub \in [Publishers -> ThreadState]
        BY <2>1 DEF Init, InitThreads
    <2>3. /\ partition_of \in [Messages -> 0..partition_count] /\ age \in [Messages -> 0..now]
          /\ size_of \in [Messages -> {0} \cup Sizes]
        BY DEF Init, InitThreads
    <2>4. now \in 1..MaxTime /\ message_count \in 0..MaxMessages /\ reading \in 0..MaxMessages
        BY <1>0 DEF Init, InitThreads
    <2>. QED BY <2>2, <2>3, <2>4 DEF Init, InitThreads, ThreadsOK
<1>2. Threads
    <2>1. /\ \A p \in Publishers : pub[p] = IdleThread
          /\ mutex_memory_partitions = NoOne /\ crashed = FALSE /\ queued = {}
          /\ \A m \in Messages : partition_of[m] = 0
        BY DEF Init, InitThreads
    <2>2. \A p \in Publishers : ThreadFits(p)
        BY <1>0, <2>1 DEF ThreadFits, IdleThread, Storing
    <2>3. OwnMessages /\ Named
        BY <2>1 DEF OwnMessages, Named, IdleThread
    <2>. QED BY <2>2, <2>3 DEF Threads
<1>3. PICK r : r = Partition(1, 0, TAMANO_MEMORIA, "FREE", 0, 0)
    OBVIOUS
<1>4. /\ r \in Part /\ r.id = 1 /\ r.begin = 0 /\ r.partition_size = TAMANO_MEMORIA
      /\ r.status = "FREE" /\ r.occupied_timestamp = 0 /\ r.lru_timestamp = 0
      /\ End(r) = TAMANO_MEMORIA
    BY <1>0, <1>3 DEF Partition, Part, End
<1>5. memory_partitions = <<r>> /\ partition_count = 1 /\ now = 1
    BY <1>3 DEF Init, InitThreads
<1>6. /\ memory_partitions \in Seq(Part) /\ Len(memory_partitions) = 1
      /\ DOMAIN memory_partitions = {1} /\ memory_partitions[1] = r
    BY <1>4, <1>5
<1>7. ListOK
    <2>1. memory \in [Bytes -> 0..MaxMessages]
        BY <1>0 DEF Init
    <2>. QED BY <1>4, <1>5, <1>6, <2>1 DEF ListOK
<1>8. InAddressOrder(memory_partitions)
    BY <1>4, <1>6 DEF InAddressOrder
<1>9. Tiles(memory_partitions)
    BY <1>6, <1>8, OrderedTiles
<1>10. Occupied = {} /\ OccupiedIn(memory_partitions) = {}
    BY <1>4, <1>6 DEF Occupied, OccupiedIn, IsOccupied
<1>11. InIdOrder(memory_partitions) /\ HoldsPayloads /\ AgesAgree
    BY <1>6, <1>10 DEF InIdOrder, HoldsPayloads, AgesAgree
<1>12. Compacted /\ (\A p \in Publishers : SearchFits(p)) /\ KeptOrEarly
    <2>1. queued = {} /\ \A p \in Publishers : pub[p].pc = "idle"
        BY DEF Init, InitThreads, IdleThread
    <2>. QED BY <2>1 DEF Compacted, SearchFits, KeptOrEarly
<1>. QED BY <1>1, <1>2, <1>7, <1>9, <1>11, <1>12 DEF Inv, Contents

\* Every step keeps the invariant.
LEMMA InvStep ==
    Inv /\ [Next]_vars => Inv'
<1>. SUFFICES ASSUME Inv, [Next]_vars PROVE Inv'
    OBVIOUS
<1>0. ThreadsOK' /\ Threads'
    BY ThreadsOKStep, ThreadsStep DEF Inv
<1>. SUFFICES Contents'
    BY <1>0 DEF Inv
<1>01. /\ pub \in [Publishers -> ThreadState] /\ now \in Nat /\ message_count \in Nat
       /\ now <= now
    <2>1. now \in Nat
        BY InvFacts
    <2>. QED BY <2>1, InvFacts DEF Inv, ThreadsOK
<1>02. \A q \in Publishers : pub[q].pc \in {"place", "delete"} => pub[q].id \in 1..message_count
    BY InvFacts DEF Storing
<1>03. \A q \in Publishers : SearchFits(q)
    BY DEF Inv, Contents
<1>1. ASSUME NEW p \in Publishers, Lock(p) PROVE Contents'
    <2>1. /\ pub[p].pc = "lock" /\ pub'[p].id = pub[p].id
          /\ pub'[p].pc = IF Fitting(size_of[pub[p].id]) # {} THEN "place" ELSE "compact"
          /\ \A q \in Publishers : q # p => pub'[q] = pub[q]
          /\ UNCHANGED <<memory, memory_partitions, partition_count, partition_of, config, age, early,
                         queued, size_of, now>>
        BY <1>01, <1>1 DEF Lock, messageVars, ThreadState
    <2>2. pub[p].id \in 1..message_count
        BY <2>1, InvFacts
    <2>. QED BY <1>0, <1>01, <1>02, <1>03, <2>1, <2>2, OtherStepsKeep DEF SearchFits
<1>2. ASSUME NEW p \in Publishers, Compact(p) PROVE Contents'
    BY <1>0, <1>2, CompactKeeps
<1>3. ASSUME NEW p \in Publishers, FindAgain(p) PROVE Contents'
    <2>1. /\ pub[p].pc = "find" /\ pub'[p].id = pub[p].id
          /\ pub'[p].pc = IF Fitting(size_of[pub[p].id]) # {} THEN "place" ELSE "delete"
          /\ \A q \in Publishers : q # p => pub'[q] = pub[q]
          /\ UNCHANGED <<memory, memory_partitions, partition_count, partition_of, config, age, early,
                         queued, size_of, now>>
        BY <1>01, <1>3 DEF FindAgain, memoryVars, messageVars, ThreadState
    <2>2. pub[p].id \in 1..message_count
        BY <2>1, InvFacts DEF Storing
    <2>. QED BY <1>0, <1>01, <1>02, <1>03, <2>1, <2>2, OtherStepsKeep DEF SearchFits
<1>4. ASSUME NEW p \in Publishers, DeletePartition(p) PROVE Contents'
    <2>1. PICK i \in DOMAIN memory_partitions : FreePartition(i)
        BY <1>4 DEF DeletePartition
    <2>. QED BY <1>0, <1>4, <2>1, FreeKeeps DEF DeletePartition
<1>5. ASSUME NEW p \in Publishers, DeleteUndefined(p) PROVE Contents'
    <2>1. CASE /\ \E i \in DOMAIN memory_partitions : FreePartition(i)
               /\ pub' = [pub EXCEPT ![p].pc = AfterDelete(pub[p])]
               /\ UNCHANGED crashed
        <3>1. PICK i \in DOMAIN memory_partitions : FreePartition(i)
            BY <2>1
        <3>. QED BY <1>0, <1>5, <2>1, <3>1, FreeKeeps DEF DeleteUndefined
    <2>2. CASE Crash /\ UNCHANGED <<memory_partitions, queued, age, early>>
        <3>1. /\ \A q \in Publishers : pub'[q].pc = "dead"
              /\ UNCHANGED <<memory, memory_partitions, partition_count, partition_of, config, age, early,
                             queued, size_of, now>>
            BY <1>01, <1>5, <2>2 DEF DeleteUndefined, Crash, messageVars, ThreadState
        <3>. QED BY <1>0, <1>01, <3>1, OtherStepsKeep
    <2>. QED BY <1>5, <2>1, <2>2 DEF DeleteUndefined
<1>6. ASSUME NEW p \in Publishers, Place(p) PROVE Contents'
    BY <1>0, <1>6, PlaceKeeps
<1>7. ASSUME NEW p \in Publishers, Enqueue(p) PROVE Contents'
    <2>1. /\ pub[p].pc = "enqueue" /\ pub'[p].pc = "idle"
          /\ \A q \in Publishers : q # p => pub'[q] = pub[q]
          /\ queued' = queued \cup {pub[p].id}
          /\ UNCHANGED <<memory, memory_partitions, partition_count, partition_of, config, age, early,
                         size_of, now>>
        BY <1>01, <1>7 DEF Enqueue, IdleThread, memoryVars, messageVars
    <2>. QED BY <1>0, <1>01, <1>02, <1>03, <2>1, OtherStepsKeep DEF SearchFits
<1>8. ASSUME NEW p \in Publishers, NEW size \in Sizes, Receive(p, size) PROVE Contents'
    <2>1. /\ pub'[p].pc = "lock"
          /\ \A q \in Publishers : q # p => pub'[q] = pub[q]
          /\ size_of' = [size_of EXCEPT ![message_count + 1] = size]
          /\ UNCHANGED <<memory, memory_partitions, partition_count, partition_of, config, age, early,
                         queued, now>>
        BY <1>01, <1>8 DEF Receive, memoryVars, ThreadState
    <2>2. \A m \in 1..message_count : size_of'[m] = size_of[m]
        <3>1. \A m \in 1..message_count : m # message_count + 1
            BY <1>01
        <3>2. size_of \in [Messages -> {0} \cup Sizes]
            BY DEF Inv, ThreadsOK
        <3>. QED BY <2>1, <3>1, <3>2
    <2>. QED BY <1>0, <1>01, <1>02, <1>03, <2>1, <2>2, OtherStepsKeep DEF SearchFits
<1>9. ASSUME UNCHANGED <<memory, memory_partitions, partition_count, partition_of, config, age, early,
                         queued, size_of, pub>>, now' \in Nat, now <= now'
      PROVE  Contents'
    BY <1>0, <1>02, <1>03, <1>9, OtherStepsKeep DEF SearchFits
<1>10. ASSUME NEW m \in Messages, PickMessage(m) PROVE Contents'
    BY <1>01, <1>9, <1>10 DEF PickMessage, memoryVars
<1>11. CASE LookUp
    BY <1>0, <1>11, LookUpKeeps
<1>12. CASE Tick
    <2>1. now' \in Nat /\ now <= now'
        BY <1>01, <1>12 DEF Tick
    <2>. QED BY <1>9, <1>12, <2>1 DEF Tick, memoryVars
<1>13. CASE UNCHANGED vars
    BY <1>01, <1>9, <1>13 DEF vars, memoryVars, messageVars
<1>. QED BY <1>1, <1>2, <1>3, <1>4, <1>5, <1>6, <1>7, <1>8, <1>10, <1>11, <1>12, <1>13
         DEF Next, StoreStep, Finished

\* The invariant is one of every state the program can be in.
LEMMA InvAlways ==
    Spec => []Inv
<1>. QED BY InvInit, InvStep, PTL DEF Spec

-----------------------------------------------------------------------------
(* Types, the tiling, and messages without a payload.                      *)

\* Every variable has its type, and no begin or partition_size leaves the
\* memory: the uint32_t arithmetic of the split, of consolidate and of
\* perform_compaction (broker.c) never wraps.
THEOREM PartitionsTyped == Spec => []TypeOK
<1>1. Inv => TypeOK
    <2>. SUFFICES ASSUME Inv PROVE TypeOK
        OBVIOUS
    <2>1. memory \in [Bytes -> 0..MaxMessages] /\ ThreadsOK
        BY DEF Inv, Contents, ListOK
    <2>2. ASSUME NEW i \in DOMAIN memory_partitions
          PROVE  memory_partitions[i] \in PartitionRecord
        <3>1. PICK q : q = memory_partitions[i] /\ q \in Part
            BY InvFacts, PartFields
        <3>2. /\ q.begin \in Nat /\ q.partition_size \in Nat /\ q.begin + q.partition_size <= TAMANO_MEMORIA
              /\ TAMANO_MEMORIA \in Nat
            BY <3>1, InvFacts, Numbers DEF Tiles, End, Part
        <3>3. q.begin \in 0..TAMANO_MEMORIA /\ q.partition_size \in 0..TAMANO_MEMORIA
            BY <3>2
        <3>4. /\ q.id \in Nat /\ q.id >= 1 /\ q.id <= partition_count /\ partition_count \in Nat
              /\ q.occupied_timestamp \in Nat /\ q.occupied_timestamp <= now
              /\ q.lru_timestamp \in Nat /\ q.lru_timestamp <= now /\ now \in Nat
            BY <3>1, InvFacts
        <3>5. /\ q.id \in 1..partition_count /\ q.occupied_timestamp \in 0..now
              /\ q.lru_timestamp \in 0..now
            BY <3>4
        <3>. QED BY <3>1, <3>3, <3>5 DEF Part, PartitionRecord
    <2>3. memory_partitions \in [1..Len(memory_partitions) -> PartitionRecord]
        <3>1. /\ DOMAIN memory_partitions = 1..Len(memory_partitions)
              /\ memory_partitions = [i \in 1..Len(memory_partitions) |-> memory_partitions[i]]
            BY InvFacts, LenProperties
        <3>. QED BY <2>2, <3>1
    <2>4. memory_partitions \in Seq(PartitionRecord)
        <3>1. Len(memory_partitions) \in Nat
            BY InvFacts, LenProperties
        <3>. QED BY <2>3, <3>1, SeqDef
    <2>. QED BY <2>1, <2>4 DEF TypeOK
<1>. QED BY <1>1, InvAlways, PTL

\* Every byte is in exactly one partition, through every split of
\* store_payload_particiones, every perform_compaction and every consolidate, so
\* no memory is lost or given out twice; and consolidate only ever sees the list
\* in the order of addresses, which its loops rely on.
THEOREM MemoryIsTiled == Spec => []Tiled
<1>1. Inv => Tiled
    <2>. SUFFICES ASSUME Inv PROVE Tiled
        OBVIOUS
    <2>1. Tiles(memory_partitions) /\ memory_partitions \in Seq(Part)
        BY InvFacts
    <2>2. ASSUME NEW b \in Bytes
          PROVE  Cardinality({i \in DOMAIN memory_partitions :
                    b \in memory_partitions[i].begin .. (End(memory_partitions[i]) - 1)}) = 1
        <3>. DEFINE at == {i \in DOMAIN memory_partitions :
                            b \in memory_partitions[i].begin .. (End(memory_partitions[i]) - 1)}
        <3>1. \A i \in DOMAIN memory_partitions :
                memory_partitions[i].begin \in Nat /\ End(memory_partitions[i]) \in Nat
            BY <2>1, PartFields
        <3>2. b \in Nat
            BY Numbers DEF Bytes
        <3>3. \A i \in DOMAIN memory_partitions :
                i \in at <=> memory_partitions[i].begin <= b /\ b < End(memory_partitions[i])
            BY <3>1, <3>2
        <3>4. PICK j \in DOMAIN memory_partitions : j \in at
            BY <2>1, <3>3 DEF Tiles
        <3>5. ASSUME NEW k \in at PROVE k = j
            <4>1. k \in DOMAIN memory_partitions
                OBVIOUS
            <4>. HIDE DEF at
            <4>2. PICK jb, je, kb, ke :
                    /\ jb = memory_partitions[j].begin /\ je = End(memory_partitions[j])
                    /\ kb = memory_partitions[k].begin /\ ke = End(memory_partitions[k])
                    /\ jb \in Nat /\ je \in Nat /\ kb \in Nat /\ ke \in Nat
                BY <3>1, <4>1
            <4>3. jb <= b /\ b < je /\ kb <= b /\ b < ke
                BY <3>3, <3>4, <3>5, <4>1, <4>2
            <4>4. ~(je <= kb) /\ ~(ke <= jb)
                BY <3>2, <4>2, <4>3
            <4>. QED BY <2>1, <4>1, <4>2, <4>4 DEF Tiles
        <3>6. at = {j}
            BY <3>4, <3>5
        <3>. HIDE DEF at
        <3>7. Cardinality(at) = 1
            BY <3>6, FS_Singleton
        <3>. QED BY <3>7 DEF at
    <2>3. ASSUME NEW p \in Publishers, pub[p].pc = "delete"
          PROVE  \A i, j \in DOMAIN memory_partitions :
                    i < j => End(memory_partitions[i]) <= memory_partitions[j].begin
        <3>1. InAddressOrder(memory_partitions)
            BY <2>3 DEF Inv, Contents, Compacted
        <3>. QED BY <2>1, <3>1, OrderedTiles
    <2>. QED BY <2>2, <2>3 DEF Tiled
<1>. QED BY <1>1, InvAlways, PTL

\* delete_and_consolidate ("Search for the associated message and delete it",
\* broker.c:438) leaves a message on its queue without a payload in one case
\* only: the payload was evicted between its copy and the list_add of
\* store_message.
THEOREM DanglesOnlyIfEarly == Spec => []DanglingOnlyIfEarly
<1>1. Inv /\ ReadableIffKept => DanglingOnlyIfEarly
    <2>. SUFFICES ASSUME Inv, ReadableIffKept, NEW m \in queued
                  PROVE  Readable(m) \/ m \in early
        BY DEF DanglingOnlyIfEarly
    <2>1. m \in Messages
        BY InvFacts
    <2>. QED BY <2>1 DEF ReadableIffKept, Inv, Contents, KeptOrEarly
<1>. QED BY <1>1, KeptAreReadable, InvAlways, PTL

-----------------------------------------------------------------------------
(* Evictions.                                                              *)

\* In a list in the order of addresses the sizes before a partition add up to
\* where it begins.
LEMMA OrderedSizes ==
    ASSUME NEW ps \in Seq(Part), InAddressOrder(ps)
    PROVE  \A i \in DOMAIN ps : SizeBefore(ps, i) = ps[i].begin
<1>1. /\ Len(ps) \in Nat /\ DOMAIN ps = 1..Len(ps)
      /\ \A k \in DOMAIN ps : End(ps[k]) = ps[k].begin + ps[k].partition_size
    BY PartFields
<1>. DEFINE Bad == {i \in 1..Len(ps) : SizeBefore(ps, i) # ps[i].begin}
<1>. SUFFICES ASSUME Bad # {} PROVE FALSE
    BY <1>1
<1>2. PICK i \in Bad : \A j \in Bad : i <= j
    <2>1. Bad \in SUBSET Nat
        BY <1>1
    <2>. QED BY <2>1, LeastNumber
<1>3. i \in 1..Len(ps) /\ SizeBefore(ps, i) # ps[i].begin
    OBVIOUS
<1>4. i # 1
    BY <1>3, SizeBeforeAdds DEF InAddressOrder
<1>5. PICK k : /\ i = k + 1 /\ k \in 1..(Len(ps) - 1) /\ k \in 1..Len(ps) /\ k \in DOMAIN ps
               /\ ~(i <= k)
    <2>1. /\ i = (i - 1) + 1 /\ i - 1 \in 1..(Len(ps) - 1) /\ i - 1 \in 1..Len(ps)
          /\ i - 1 \in DOMAIN ps /\ ~(i <= i - 1)
        BY <1>1, <1>3, <1>4
    <2>. QED BY <2>1
<1>6. SizeBefore(ps, k) = ps[k].begin
    BY <1>2, <1>5
<1>7. SizeBefore(ps, i) = SizeBefore(ps, k) + ps[k].partition_size
    BY <1>5, SizeBeforeAdds
<1>8. ps[i].begin = End(ps[k])
    BY <1>5 DEF InAddressOrder
<1>. QED BY <1>1, <1>3, <1>5, <1>6, <1>7, <1>8

\* A thread at an eviction, with a compaction before each: its payload does not
\* fit beside the occupied partitions.
LEMMA FullWhenDeleting ==
    ASSUME Inv, NEW p \in Publishers, config.frecuencia = 1, pub[p].pc = "delete"
    PROVE  Used + AtLeastMinimum(size_of[pub[p].id]) > TAMANO_MEMORIA /\ Occupied # {}
<1>1. /\ InAddressOrder(memory_partitions) /\ Occupied = 1..(Len(memory_partitions) - 1)
      /\ Fitting(size_of[pub[p].id]) = {} /\ memory_partitions \in Seq(Part)
      /\ size_of[pub[p].id] \in Sizes
    <2>1. ThreadFits(p) /\ SearchFits(p) /\ Compacted
        BY DEF Inv, Threads, Contents
    <2>. QED BY <2>1, InvFacts DEF ThreadFits, SearchFits, Compacted, Storing
<1>2. PICK last : last = Len(memory_partitions)
    OBVIOUS
<1>3. /\ last \in Nat /\ last >= 1 /\ DOMAIN memory_partitions = 1..last /\ last \in DOMAIN memory_partitions
    BY <1>1, <1>2, PartFields DEF InAddressOrder
<1>4. PICK b, n : /\ b = memory_partitions[last].begin /\ b \in Nat
                  /\ n = memory_partitions[last].partition_size /\ n \in Nat
    BY <1>1, <1>3, PartFields
<1>5. b + n = TAMANO_MEMORIA
    BY <1>1, <1>2, <1>4 DEF InAddressOrder, End
<1>6. PICK s : s = AtLeastMinimum(size_of[pub[p].id]) /\ s \in Nat /\ s <= TAMANO_MEMORIA
    BY <1>1, Numbers
<1>7. ~(n >= s)
    <2>1. last \notin Occupied
        BY <1>1, <1>2, <1>3
    <2>2. memory_partitions[last].status = "FREE"
        BY <1>1, <1>3, <2>1, PartFields DEF Occupied, IsOccupied
    <2>3. ~(memory_partitions[last].partition_size >= AtLeastMinimum(size_of[pub[p].id]))
        BY <1>1, <1>3, <2>2 DEF Fitting
    <2>. QED BY <1>4, <1>6, <2>3
<1>8. Used = b
    <2>1. Used = SizeBefore(memory_partitions, last)
        BY <1>1, <1>2 DEF Used, SizeBefore
    <2>. QED BY <1>1, <1>3, <1>4, <2>1, OrderedSizes
<1>9. Occupied # {}
    <2>. SUFFICES ASSUME Occupied = {} PROVE FALSE
        OBVIOUS
    <2>1. last = 1
        <3>1. 1 \notin 1..(last - 1)
            BY <1>1, <1>2
        <3>. QED BY <1>3, <3>1
    <2>2. b = 0
        BY <1>1, <1>4, <2>1 DEF InAddressOrder
    <2>. QED BY <1>4, <1>5, <1>6, <1>7, <2>2
<1>10. b + s > TAMANO_MEMORIA
    BY <1>4, <1>5, <1>6, <1>7
<1>. QED BY <1>6, <1>8, <1>9, <1>10

\* get_free_partition_particiones with FRECUENCIA_COMPACTACION=1: a payload is
\* evicted only when the new one does not fit beside the occupied partitions,
\* however large the memory and whatever was stored before; so
\* delete_partition_and_consolidate never frees an index it did not set.
THEOREM FullWhenEvicting == Spec => EvictsOnlyWhenFull
<1>1. Inv /\ [Next]_vars =>
        [\A p \in Publishers :
            (/\ config.frecuencia = 1
             /\ pub[p].pc = "delete" /\ pub'[p].pc # "delete")
            => /\ Used + AtLeastMinimum(size_of[pub[p].id]) > TAMANO_MEMORIA
               /\ Occupied # {}]_vars
    BY FullWhenDeleting
<1>. QED BY <1>1, InvAlways, PTL DEF Spec, EvictsOnlyWhenFull

\* A step that makes a payload unreadable is an eviction of its partition by the
\* policy.
LEMMA EvictedIsVictim ==
    ASSUME Inv, ReadableIffKept, Inv', ReadableIffKept', [Next]_vars,
           NEW m \in Messages, Evicted(m)
    PROVE  \E i \in Occupied : IsVictim(i) /\ memory_partitions[i].id = partition_of[m]
<1>1. partition_of[m] \in KeptIds /\ ~(partition_of'[m] \in KeptIds')
    BY DEF Evicted, ReadableIffKept
<1>2. ASSUME UNCHANGED <<memory_partitions, partition_of>> PROVE FALSE
    BY <1>1, <1>2 DEF KeptIds, Occupied
<1>3. ThreadsOK' /\ Threads'
    BY DEF Inv
<1>4. ASSUME NEW p \in Publishers, pub[p].pc = "delete", NEW i \in DOMAIN memory_partitions,
             FreePartition(i), partition_of' = partition_of
      PROVE  i \in Occupied /\ memory_partitions[i].id = partition_of[m]
    <2>1. memory_partitions[i].id = partition_of[m]
        BY <1>1, <1>4, FreeIds
    <2>2. PICK j \in Occupied : memory_partitions[j].id = partition_of[m]
        BY <1>1 DEF KeptIds
    <2>3. i = j
        BY <2>1, <2>2, InvFacts DEF InIdOrder, Occupied
    <2>. QED BY <2>1, <2>2, <2>3
<1>5. ASSUME NEW p \in Publishers, Lock(p) PROVE FALSE
    BY <1>2, <1>5 DEF Lock
<1>6. ASSUME NEW p \in Publishers, Compact(p) PROVE FALSE
    BY <1>1, <1>3, <1>6, CompactKeeps DEF Compact
<1>7. ASSUME NEW p \in Publishers, FindAgain(p) PROVE FALSE
    BY <1>2, <1>7 DEF FindAgain, memoryVars
<1>8. ASSUME NEW p \in Publishers, DeletePartition(p)
      PROVE  \E i \in Occupied : IsVictim(i) /\ memory_partitions[i].id = partition_of[m]
    BY <1>4, <1>8 DEF DeletePartition
<1>9. ASSUME NEW p \in Publishers, DeleteUndefined(p) PROVE FALSE
    <2>1. KeptIds = {}
        BY <1>9 DEF DeleteUndefined, KeptIds
    <2>. QED BY <1>1, <2>1
<1>10. ASSUME NEW p \in Publishers, Place(p) PROVE FALSE
    <2>1. /\ partition_of' = [partition_of EXCEPT ![pub[p].id] = partition_count + 1]
          /\ pub[p].pc = "place" /\ pub[p].id \in Messages /\ partition_of[pub[p].id] = 0
        BY <1>10, InvFacts DEF Place, CopyPayload, Storing, Inv, Threads, ThreadFits
    <2>2. m # pub[p].id
        <3>1. PICK i \in Occupied : memory_partitions[i].id = partition_of[m]
            BY <1>1 DEF KeptIds
        <3>2. partition_of[m] >= 1
            BY <3>1, InvFacts
        <3>. QED BY <2>1, <3>2
    <2>3. partition_of'[m] = partition_of[m]
        BY <2>1, <2>2 DEF Inv, ThreadsOK
    <2>. QED BY <1>1, <1>3, <1>10, <2>3, PlaceKeeps
<1>11. ASSUME NEW p \in Publishers, Enqueue(p) PROVE FALSE
    BY <1>2, <1>11 DEF Enqueue, memoryVars
<1>12. ASSUME NEW p \in Publishers, NEW size \in Sizes, Receive(p, size) PROVE FALSE
    BY <1>2, <1>12 DEF Receive, memoryVars
<1>13. ASSUME NEW x \in Messages, PickMessage(x) PROVE FALSE
    BY <1>2, <1>13 DEF PickMessage, memoryVars
<1>14. ASSUME LookUp PROVE FALSE
    BY <1>1, <1>3, <1>14, LookUpKeeps DEF LookUp
<1>15. ASSUME Tick PROVE FALSE
    BY <1>2, <1>15 DEF Tick, memoryVars
<1>16. ASSUME UNCHANGED vars PROVE FALSE
    BY <1>2, <1>16 DEF vars, memoryVars
<1>. QED BY <1>5, <1>6, <1>7, <1>8, <1>9, <1>10, <1>11, <1>12, <1>13, <1>14, <1>15, <1>16
         DEF Next, StoreStep, Finished

\* delete_partition_and_consolidate_fifo and _lru evict by their policy: FIFO
\* the payload that was stored first, also among those of one second, LRU one
\* whose last use is no later than any other's, after any number of compactions,
\* merges and splits of the list.
THEOREM EvictionsFollowPolicy == Spec => EvictsByPolicy
<1>1. Inv /\ ReadableIffKept /\ Inv' /\ ReadableIffKept' /\ [Next]_vars =>
        [\A m, other \in Messages : (Evicted(m) /\ Readable(other) /\ m # other) =>
            IF config.reemplazo = "FIFO" THEN partition_of[m] < partition_of[other]
            ELSE age[m] <= age[other]]_vars
    <2>. SUFFICES ASSUME Inv, ReadableIffKept, Inv', ReadableIffKept', [Next]_vars,
                         NEW m \in Messages, NEW other \in Messages,
                         Evicted(m), Readable(other), m # other
                  PROVE  IF config.reemplazo = "FIFO" THEN partition_of[m] < partition_of[other]
                         ELSE age[m] <= age[other]
        OBVIOUS
    <2>1. PICK i \in Occupied : IsVictim(i) /\ memory_partitions[i].id = partition_of[m]
        BY EvictedIsVictim
    <2>2. PICK j \in Occupied : memory_partitions[j].id = partition_of[other]
        BY DEF ReadableIffKept, KeptIds
    <2>3. /\ i \in DOMAIN memory_partitions /\ j \in DOMAIN memory_partitions
          /\ i \in OccupiedIn(memory_partitions) /\ j \in OccupiedIn(memory_partitions)
          /\ i \in Nat /\ j \in Nat /\ i # j
        <3>1. partition_of[m] # partition_of[other]
            <4>1. memory_partitions[i].id >= 1
                BY InvFacts
            <4>. QED BY <2>1, <4>1 DEF Inv, Threads, Named
        <3>2. \A k \in DOMAIN memory_partitions : k \in Nat
            BY InvFacts, PartFields
        <3>. QED BY <2>1, <2>2, <3>1, <3>2, InvFacts DEF Occupied, OccupiedIn
    <2>4. /\ memory_partitions[i].occupied_timestamp \in Nat
          /\ memory_partitions[j].occupied_timestamp \in Nat
          /\ memory_partitions[i].lru_timestamp \in Nat /\ memory_partitions[j].lru_timestamp \in Nat
        BY <2>3, InvFacts
    <2>5. CASE config.reemplazo = "FIFO"
        <3>1. \/ memory_partitions[i].occupied_timestamp < memory_partitions[j].occupied_timestamp
              \/ /\ memory_partitions[i].occupied_timestamp = memory_partitions[j].occupied_timestamp
                 /\ i <= j
            BY <2>1, <2>5 DEF IsVictim, Timestamp
        <3>2. ~(j < i)
            <4>1. j < i => memory_partitions[j].occupied_timestamp <= memory_partitions[i].occupied_timestamp
                BY <2>3, InvFacts DEF InIdOrder
            <4>. QED BY <2>3, <2>4, <3>1, <4>1
        <3>3. i < j
            BY <2>3, <3>2
        <3>. QED BY <2>1, <2>2, <2>3, <2>5, <3>3, InvFacts DEF InIdOrder
    <2>6. CASE config.reemplazo # "FIFO"
        <3>1. config.reemplazo = "LRU"
            BY <2>6 DEF Inv, ThreadsOK
        <3>2. age[m] = memory_partitions[i].lru_timestamp /\ age[other] = memory_partitions[j].lru_timestamp
            BY <2>1, <2>2, <3>1 DEF Inv, Contents, AgesAgree
        <3>3. memory_partitions[i].lru_timestamp <= memory_partitions[j].lru_timestamp
            <4>1. \/ memory_partitions[i].lru_timestamp < memory_partitions[j].lru_timestamp
                  \/ memory_partitions[i].lru_timestamp = memory_partitions[j].lru_timestamp
                BY <2>1, <2>6 DEF IsVictim, Timestamp
            <4>. QED BY <2>4, <4>1
        <3>. QED BY <2>6, <3>2, <3>3
    <2>. QED BY <2>5, <2>6
<1>. QED BY <1>1, KeptAreReadable, InvAlways, PTL DEF Spec, EvictsByPolicy

-----------------------------------------------------------------------------
(* The cache implements MessageCache.                                      *)

\* The messages whose payload a look-up sends, with or without more behind it.
CachedIds == {m \in Messages : Readable(m)}

\* The cached messages are those whose partition is kept.
LEMMA CachedAreKept ==
    ReadableIffKept => CachedIds = {m \in Messages : partition_of[m] \in KeptIds}
BY DEF ReadableIffKept, CachedIds

\* And of those the ones with a payload under the minimum are padded.
SentInFull ==
    /\ ExactMessages = CachedIds \ ShortMessages
    /\ PaddedMessages = CachedIds \cap ShortMessages

LEMMA ShortArePadded ==
    Inv => SentInFull
<1>. SUFFICES ASSUME Inv PROVE SentInFull
    OBVIOUS
<1>1. ASSUME NEW m \in Messages, Readable(m) PROVE Exact(m) <=> m \notin ShortMessages
    <2>1. /\ HoldsPayloads /\ Named /\ memory_partitions \in Seq(Part)
          /\ \A i \in DOMAIN memory_partitions : memory_partitions[i].id \in 1..partition_count
        BY DEF Inv, Contents, ListOK, Threads
    <2>2. \A i \in PartitionOf(m) : IsOccupied(memory_partitions[i]) =>
            /\ BeginsWithPayload(memory_partitions[i], m)
            /\ memory_partitions[i].content_size = ContentSize(size_of[m])
            /\ partition_of[m] # 0 /\ size_of[m] \in Nat
        BY <2>1, OccupiedHolds DEF PartitionOf, Occupied
    <2>3. PICK j \in PartitionOf(m) : IsOccupied(memory_partitions[j])
        BY <1>1 DEF Readable, BeginsWithPayload
    <2>4. Exact(m) <=> ContentSize(size_of[m]) = size_of[m]
        BY <2>2, <2>3 DEF Exact, BeginsWithPayload
    <2>5. ContentSize(size_of[m]) = size_of[m] <=> ~(size_of[m] < TAMANO_MINIMO_PARTICION)
        BY <2>2, <2>3, Numbers DEF ContentSize, AtLeastMinimum
    <2>6. m \in 1..message_count
        <3>1. ~(m > message_count)
            BY <2>1, <2>2, <2>3 DEF Named
        <3>2. m \in Nat /\ m >= 1 /\ message_count \in Nat
            BY InvFacts, Numbers DEF Messages
        <3>. QED BY <3>1, <3>2
    <2>. QED BY <2>4, <2>5, <2>6 DEF ShortMessages
<1>2. \A m \in Messages : Exact(m) => Readable(m)
    BY DEF Exact, Readable
<1>. QED BY <1>1, <1>2 DEF SentInFull, ExactMessages, PaddedMessages, CachedIds

\* The message under way changes with the mutex only.
LEMMA StoringSame ==
    ASSUME UNCHANGED mutex_memory_partitions,
           \A q \in Publishers : mutex_memory_partitions = q => pub'[q].id = pub[q].id
    PROVE  BeingStored' = BeingStored
<1>1. \A x \in BeingStored : x \in BeingStored'
    BY DEF BeingStored
<1>2. \A x \in BeingStored' : x \in BeingStored
    BY DEF BeingStored
<1>. QED BY <1>1, <1>2

\* A step that leaves all of it alone.
LEMMA CacheStutters ==
    ASSUME SentInFull, SentInFull', CachedIds' = CachedIds,
           UNCHANGED <<partition_of, size_of, message_count, queued>>,
           UNCHANGED mutex_memory_partitions,
           \A q \in Publishers : mutex_memory_partitions = q => pub'[q].id = pub[q].id
    PROVE  UNCHANGED Cache!vars
<1>1. BeingStored' = BeingStored
    BY StoringSame
<1>. QED BY <1>1 DEF Cache!vars, SentInFull, StoredMessages, ShortMessages

\* Every step of the cache is one of MessageCache, or leaves its variables alone.
LEMMA StepIsCache ==
    Inv /\ ReadableIffKept /\ SentInFull /\ Inv' /\ ReadableIffKept' /\ SentInFull' /\ [Next]_vars
        => [Cache!Next]_(Cache!vars)
<1>. SUFFICES ASSUME Inv, ReadableIffKept, SentInFull,
                     Inv', ReadableIffKept', SentInFull', [Next]_vars
              PROVE  [Cache!Next]_(Cache!vars)
    OBVIOUS
<1>0. /\ pub \in [Publishers -> ThreadState] /\ ThreadsOK' /\ Threads' /\ NoOne \notin Publishers
      /\ \A q \in Publishers : ThreadFits(q)
    BY Numbers DEF Inv, ThreadsOK, Threads
<1>01. /\ CachedIds = {m \in Messages : partition_of[m] \in KeptIds}
       /\ CachedIds' = {m \in Messages : partition_of'[m] \in KeptIds'}
    <2>1. CachedIds = {m \in Messages : partition_of[m] \in KeptIds}
        BY CachedAreKept
    <2>2. CachedIds' = {m \in Messages : partition_of'[m] \in KeptIds'}
        BY DEF ReadableIffKept, CachedIds
    <2>. QED BY <2>1, <2>2
<1>02. ASSUME UNCHANGED <<memory_partitions, partition_of>> PROVE CachedIds' = CachedIds
    BY <1>01, <1>02 DEF KeptIds, Occupied
<1>03. ASSUME NEW p \in Publishers, pub[p].pc \in Storing
       PROVE  mutex_memory_partitions = p /\ BeingStored = {pub[p].id}
    BY <1>0, <1>03 DEF ThreadFits, BeingStored
<1>04. ASSUME NEW p \in Publishers, pub[p].pc \in {"idle", "lock", "enqueue"}
       PROVE  mutex_memory_partitions # p
    BY <1>0, <1>04 DEF ThreadFits, Storing
<1>05. ASSUME UNCHANGED <<size_of, message_count>>
       PROVE  /\ ShortMessages' = ShortMessages
              /\ CachedIds' = CachedIds =>
                    ExactMessages' = ExactMessages /\ PaddedMessages' = PaddedMessages
    BY <1>05 DEF ShortMessages, SentInFull
<1>1. ASSUME NEW p \in Publishers, Lock(p) PROVE Cache!Next
    <2>1. /\ pub[p].pc = "lock" /\ mutex_memory_partitions = NoOne /\ mutex_memory_partitions' = p
          /\ pub'[p].id = pub[p].id
          /\ UNCHANGED <<memory_partitions, partition_of, size_of, message_count, queued>>
        BY <1>0, <1>1 DEF Lock, ThreadState, messageVars
    <2>2. PICK m \in Messages : m = pub[p].id /\ partition_of[m] = 0
        BY <1>0, <2>1, InvFacts DEF ThreadFits
    <2>3. BeingStored = {} /\ BeingStored' = {m}
        BY <1>0, <2>1, <2>2 DEF BeingStored
    <2>4. CachedIds' = CachedIds
        BY <1>02, <2>1
    <2>5. Cache!BeginStore(m)
        BY <1>05, <2>1, <2>2, <2>3, <2>4 DEF Cache!BeginStore, StoredMessages
    <2>. QED BY <2>5 DEF Cache!Next
<1>2. ASSUME NEW p \in Publishers, Compact(p) PROVE UNCHANGED Cache!vars
    <2>1. /\ UNCHANGED <<partition_of, size_of, message_count, queued, mutex_memory_partitions>>
          /\ \A q \in Publishers : pub'[q].id = pub[q].id
        BY <1>0, <1>2 DEF Compact, ThreadState, messageVars
    <2>2. CachedIds' = CachedIds
        BY <1>0, <1>01, <1>2, <2>1, CompactKeeps
    <2>. QED BY <2>1, <2>2, CacheStutters
<1>3. ASSUME NEW p \in Publishers, FindAgain(p) PROVE UNCHANGED Cache!vars
    <2>1. /\ UNCHANGED <<memory_partitions, partition_of, size_of, message_count, queued,
                       mutex_memory_partitions>>
          /\ \A q \in Publishers : pub'[q].id = pub[q].id
        BY <1>0, <1>3 DEF FindAgain, memoryVars, messageVars, ThreadState
    <2>. QED BY <1>02, <2>1, CacheStutters
<1>4. ASSUME NEW p \in Publishers, pub[p].pc = "delete", NEW i \in DOMAIN memory_partitions,
             FreePartition(i), pub' = [pub EXCEPT ![p].pc = AfterDelete(pub[p])],
             UNCHANGED <<mutex_memory_partitions, partition_of, size_of, message_count>>
      PROVE  [Cache!Next]_(Cache!vars)
    <2>0. PICK id : id = memory_partitions[i].id /\ id # 0
        BY InvFacts
    <2>1. /\ \A q \in Publishers : pub'[q].id = pub[q].id
          /\ queued' = queued \ {m \in queued : partition_of[m] = id}
          /\ KeptIds' = KeptIds \ {id}
        BY <1>0, <1>4, <2>0, FreeIds DEF FreePartition, MessagesIn, ThreadState
    <2>2. BeingStored' = BeingStored /\ BeingStored # {}
        <3>1. BeingStored = {pub[p].id}
            BY <1>03, <1>4 DEF Storing
        <3>. QED BY <1>4, <2>1, <3>1, StoringSame
    <2>3. CASE \E m \in Messages : partition_of[m] = id
        <3>1. PICK m \in Messages : partition_of[m] = id
            BY <2>3
        <3>2. \A n \in Messages : partition_of[n] = id <=> n = m
            BY <2>0, <3>1 DEF Inv, Threads, Named
        <3>3. CachedIds' = CachedIds \ {m}
            BY <1>01, <1>4, <2>1, <3>2
        <3>4. queued' = queued \ {m}
            <4>1. queued \subseteq Messages
                BY InvFacts
            <4>. QED BY <2>1, <3>2, <4>1
        <3>5. Cache!Evict(m, m)
            <4>1. ShortMessages' = ShortMessages /\ StoredMessages' = StoredMessages
                BY <1>05, <1>4 DEF StoredMessages
            <4>2. /\ ExactMessages' = ExactMessages \ {m} /\ PaddedMessages' = PaddedMessages \ {m}
                  /\ m \notin ExactMessages' \cup PaddedMessages'
                BY <3>3, <4>1 DEF SentInFull
            <4>. QED BY <2>2, <3>4, <4>1, <4>2 DEF Cache!Evict
        <3>. QED BY <3>5 DEF Cache!Next
    <2>4. CASE ~ \E m \in Messages : partition_of[m] = id
        <3>1. queued' = queued
            <4>1. queued \subseteq Messages
                BY InvFacts
            <4>. QED BY <2>1, <2>4, <4>1
        <3>2. CachedIds' = CachedIds
            BY <1>01, <1>4, <2>1, <2>4
        <3>3. UNCHANGED Cache!vars
            BY <1>4, <2>1, <3>1, <3>2, CacheStutters
        <3>. QED BY <3>3
    <2>. QED BY <2>3, <2>4
<1>5. ASSUME NEW p \in Publishers, DeletePartition(p) PROVE [Cache!Next]_(Cache!vars)
    <2>1. PICK i \in DOMAIN memory_partitions : FreePartition(i)
        BY <1>5 DEF DeletePartition
    <2>. QED BY <1>4, <1>5, <2>1 DEF DeletePartition, messageVars
<1>6. ASSUME NEW p \in Publishers, DeleteUndefined(p) PROVE [Cache!Next]_(Cache!vars)
    <2>1. CASE /\ \E i \in DOMAIN memory_partitions : FreePartition(i)
               /\ pub' = [pub EXCEPT ![p].pc = AfterDelete(pub[p])]
               /\ UNCHANGED crashed
        <3>1. PICK i \in DOMAIN memory_partitions : FreePartition(i)
            BY <2>1
        <3>. QED BY <1>4, <1>6, <2>1, <3>1 DEF DeleteUndefined, messageVars
    <2>2. CASE Crash /\ UNCHANGED <<memory_partitions, queued, age, early>>
        <3>1. /\ UNCHANGED <<memory_partitions, partition_of, size_of, message_count, queued,
                           mutex_memory_partitions>>
              /\ \A q \in Publishers : pub'[q].id = pub[q].id
            BY <1>0, <1>6, <2>2 DEF DeleteUndefined, Crash, ThreadState, messageVars
        <3>2. UNCHANGED Cache!vars
            BY <1>02, <3>1, CacheStutters
        <3>. QED BY <3>2
    <2>. QED BY <1>6, <2>1, <2>2 DEF DeleteUndefined
<1>7. ASSUME NEW p \in Publishers, Place(p) PROVE Cache!Next
    <2>1. /\ pub[p].pc = "place" /\ mutex_memory_partitions' = NoOne
          /\ partition_of' = [partition_of EXCEPT ![pub[p].id] = partition_count + 1]
          /\ UNCHANGED <<queued, size_of, message_count>>
        BY <1>7 DEF Place, CopyPayload, messageVars
    <2>2. PICK m \in Messages : m = pub[p].id /\ BeingStored = {m}
        BY <1>03, <2>1, InvFacts DEF Storing
    <2>3. BeingStored' = {}
        BY <1>0, <2>1 DEF BeingStored
    <2>4. /\ partition_of'[m] = partition_count + 1
          /\ \A n \in Messages : n # m => partition_of'[n] = partition_of[n]
          /\ \A n \in Messages : partition_of[n] # partition_count + 1
          /\ partition_count + 1 # 0
        <3>1. partition_of \in [Messages -> 0..partition_count] /\ partition_count \in Nat
            BY DEF Inv, ThreadsOK
        <3>2. \A n \in Messages : partition_of[n] \in Nat /\ partition_of[n] <= partition_count
            BY InvFacts
        <3>. QED BY <2>1, <2>2, <3>1, <3>2
    <2>5. StoredMessages' = StoredMessages \cup {m}
        BY <2>4 DEF StoredMessages
    <2>6. CachedIds' = CachedIds \cup {m}
        <3>1. KeptIds' = KeptIds \cup {partition_count + 1}
            BY <1>0, <1>7, PlaceKeeps
        <3>. QED BY <1>01, <2>4, <3>1
    <2>7. Cache!FinishStore
        <3>1. ShortMessages' = ShortMessages
            BY <1>05, <2>1
        <3>2. /\ ExactMessages' = ExactMessages \cup ({m} \ ShortMessages)
              /\ PaddedMessages' = PaddedMessages \cup ({m} \cap ShortMessages)
            BY <2>6, <3>1 DEF SentInFull
        <3>. QED BY <2>1, <2>2, <2>3, <2>5, <3>1, <3>2 DEF Cache!FinishStore
    <2>. QED BY <2>7 DEF Cache!Next
<1>8. ASSUME NEW p \in Publishers, Enqueue(p) PROVE Cache!Next
    <2>1. /\ pub[p].pc = "enqueue" /\ queued' = queued \cup {pub[p].id}
          /\ \A q \in Publishers : q # p => pub'[q] = pub[q]
          /\ UNCHANGED <<memory_partitions, partition_of, size_of, message_count,
                       mutex_memory_partitions>>
        BY <1>0, <1>8 DEF Enqueue, memoryVars, messageVars
    <2>2. PICK m \in Messages : m = pub[p].id /\ partition_of[m] # 0 /\ m \notin queued
        BY <1>0, <2>1, InvFacts DEF ThreadFits
    <2>3. BeingStored' = BeingStored
        BY <1>04, <2>1, StoringSame
    <2>4. CachedIds' = CachedIds
        BY <1>02, <2>1
    <2>5. Cache!Enqueue(m)
        <3>1. ShortMessages' = ShortMessages /\ StoredMessages' = StoredMessages
            BY <1>05, <2>1 DEF StoredMessages
        <3>2. ExactMessages' = ExactMessages /\ PaddedMessages' = PaddedMessages
            BY <2>4, <3>1 DEF SentInFull
        <3>3. m \in StoredMessages \ queued
            BY <2>2 DEF StoredMessages
        <3>. QED BY <2>1, <2>2, <2>3, <3>1, <3>2, <3>3 DEF Cache!Enqueue
    <2>. QED BY <2>5 DEF Cache!Next
<1>9. ASSUME NEW p \in Publishers, NEW size \in Sizes, Receive(p, size) PROVE [Cache!Next]_(Cache!vars)
    <2>1. /\ pub[p].pc = "idle" /\ \A q \in Publishers : q # p => pub'[q] = pub[q]
          /\ message_count < MaxMessages /\ message_count' = message_count + 1
          /\ size_of' = [size_of EXCEPT ![message_count + 1] = size]
          /\ UNCHANGED <<memory_partitions, partition_of, queued, mutex_memory_partitions>>
        BY <1>0, <1>9 DEF Receive, memoryVars
    <2>2. PICK m : m = message_count + 1 /\ m \in Messages /\ message_count \in Nat
        BY <2>1, InvFacts, Numbers DEF Messages
    <2>3. /\ BeingStored' = BeingStored /\ StoredMessages' = StoredMessages /\ CachedIds' = CachedIds
          /\ queued' = queued
        <3>1. BeingStored' = BeingStored
            BY <1>04, <2>1, StoringSame
        <3>. QED BY <1>02, <2>1, <3>1 DEF StoredMessages
    <2>4. m \notin BeingStored \cup StoredMessages
        <3>1. \A q \in Publishers : mutex_memory_partitions = q => pub[q].id \in 1..message_count
            BY <1>0 DEF ThreadFits
        <3>2. m \notin 1..message_count /\ m > message_count
            BY <2>2
        <3>3. m \notin BeingStored
            BY <3>1, <3>2 DEF BeingStored
        <3>4. partition_of[m] = 0
            BY <2>2, <3>2 DEF Inv, Threads, Named
        <3>. QED BY <3>3, <3>4 DEF StoredMessages
    <2>5. \A n \in 1..(message_count + 1) :
            n # m => n \in 1..message_count /\ size_of'[n] = size_of[n]
        BY <2>1, <2>2 DEF Inv, ThreadsOK
    <2>6. \A n \in 1..message_count : n \in 1..(message_count + 1) /\ n # m
        BY <2>2
    <2>7. ShortMessages' = ShortMessages \/ ShortMessages' = ShortMessages \cup {m}
        <3>1. \A n \in ShortMessages : n \in ShortMessages'
            BY <2>1, <2>5, <2>6 DEF ShortMessages
        <3>2. \A n \in ShortMessages' : n = m \/ n \in ShortMessages
            BY <2>1, <2>5 DEF ShortMessages
        <3>. QED BY <3>1, <3>2
    <2>8. m \notin CachedIds
        <3>1. partition_of[m] = 0
            BY <2>2, <2>4 DEF StoredMessages
        <3>2. 0 \notin KeptIds
            <4>1. \A i \in Occupied : memory_partitions[i].id # 0
                BY InvFacts
            <4>. QED BY <4>1 DEF KeptIds
        <3>. QED BY <1>01, <3>1, <3>2
    <2>9. ExactMessages' = ExactMessages /\ PaddedMessages' = PaddedMessages
        BY <2>3, <2>7, <2>8 DEF SentInFull
    <2>10. CASE ShortMessages' = ShortMessages
        BY <2>3, <2>9, <2>10 DEF Cache!vars
    <2>11. CASE ShortMessages' = ShortMessages \cup {m}
        <3>1. Cache!Arrive(m)
            BY <2>3, <2>4, <2>9, <2>11 DEF Cache!Arrive
        <3>. QED BY <2>2, <3>1 DEF Cache!Next
    <2>. QED BY <2>7, <2>10, <2>11
<1>10. ASSUME UNCHANGED <<memory_partitions, partition_of, size_of, message_count, queued,
                         mutex_memory_partitions, pub>>
       PROVE  UNCHANGED Cache!vars
    BY <1>02, <1>10, CacheStutters
<1>11. ASSUME NEW m \in Messages, PickMessage(m) PROVE UNCHANGED Cache!vars
    BY <1>10, <1>11 DEF PickMessage, memoryVars
<1>12. ASSUME LookUp PROVE UNCHANGED Cache!vars
    <2>1. UNCHANGED <<partition_of, size_of, message_count, queued, mutex_memory_partitions, pub>>
        BY <1>12 DEF LookUp
    <2>2. CachedIds' = CachedIds
        BY <1>0, <1>01, <1>12, <2>1, LookUpKeeps
    <2>. QED BY <2>1, <2>2, CacheStutters
<1>13. ASSUME Tick PROVE UNCHANGED Cache!vars
    BY <1>10, <1>13 DEF Tick, memoryVars
<1>14. ASSUME UNCHANGED vars PROVE UNCHANGED Cache!vars
    BY <1>10, <1>14 DEF vars, memoryVars, messageVars
<1>. QED BY <1>1, <1>2, <1>3, <1>5, <1>6, <1>7, <1>8, <1>9, <1>11, <1>12, <1>13, <1>14
         DEF Next, StoreStep, Finished

\* store_message, the eviction and the look-up with PARTICIONES are the cache the
\* broker expects: a payload can be read back, byte for byte, from the end of its
\* store to its eviction, only a store evicts, one payload at a time, and a
\* message whose payload is still there is never taken off its queue.  What the
\* look-up sends, content_size bytes, is the payload and no more if the payload
\* has at least TAMANO_MINIMO_PARTICION bytes, and is always padded if not.
THEOREM RefinesCache == Spec => ImplementsCache
<1>1. Init => Cache!Init
    <2>. SUFFICES ASSUME Init PROVE Cache!Init
        OBVIOUS
    <2>1. BeingStored = {} /\ StoredMessages = {} /\ queued = {}
        BY Numbers DEF Init, InitThreads, BeingStored, StoredMessages
    <2>2. Inv
        BY InvInit
    <2>3. CachedIds = {}
        <3>1. \A m \in Messages : partition_of[m] = 0
            BY DEF Init, InitThreads
        <3>2. 0 \notin KeptIds
            <4>1. \A i \in Occupied : memory_partitions[i].id # 0
                BY <2>2, InvFacts
            <4>. QED BY <4>1 DEF KeptIds
        <3>. QED BY <2>2, <3>1, <3>2, KeptAreReadable, CachedAreKept
    <2>4. ShortMessages = {} /\ ExactMessages = {} /\ PaddedMessages = {}
        <3>1. message_count = 0
            BY DEF Init, InitThreads
        <3>2. ShortMessages = {}
            BY <3>1 DEF ShortMessages
        <3>. QED BY <2>2, <2>3, <3>2, ShortArePadded DEF SentInFull
    <2>. QED BY <2>1, <2>4 DEF Cache!Init
<1>. QED BY <1>1, StepIsCache, KeptAreReadable, ShortArePadded, InvAlways, PTL DEF Spec, ImplementsCache, Cache!Spec
=============================================================================
