------------------------- MODULE BuddyMemory_proofs -------------------------
(***************************************************************************)
(* The buddy system of the Broker's memory, for any sizes and publishers:    *)
(* the partitions are the leaves of a tree of halves, whatever is stored,    *)
(* evicted and merged; no two FREE buddies stay apart; whoever is queued has *)
(* its payload in memory; and the memory implements MessageCache.            *)
(***************************************************************************)
EXTENDS BuddyMemory, TLAPS, SequenceTheorems, FiniteSetTheorems, NumberTheorems

-----------------------------------------------------------------------------
(* Powers of two.                                                          *)

\* Induction, for a set of numbers.
LEMMA NumberInduction ==
    ASSUME NEW S, 0 \in S, \A n \in Nat : n \in S => n + 1 \in S
    PROVE  \A n \in Nat : n \in S
<1>. DEFINE Bad == {n \in Nat : n \notin S}
<1>. SUFFICES ASSUME Bad # {} PROVE FALSE
    OBVIOUS
<1>1. PICK n \in Bad : \A m \in Bad : n <= m
    BY LeastNumber
<1>2. n \in Nat /\ n # 0 /\ n - 1 \in Nat /\ n - 1 + 1 = n
    BY <1>1
<1>3. n - 1 \in S
    BY <1>1, <1>2
<1>. QED BY <1>1, <1>2, <1>3

\* What the function is defined by.
LEMMA Pow2Equation ==
    Pow2 = [n \in Nat |-> IF n = 0 THEN 1 ELSE 2 * Pow2[n - 1]]
<1>. DEFINE Doubles(f, k) == f \in [0..k -> Nat] /\ f[0] = 1 /\ \A i \in 1..k : f[i] = 2 * f[i - 1]
            Some == {k \in Nat : \E f : Doubles(f, k)}
            F == [n \in Nat |-> (CHOOSE f : Doubles(f, n))[n]]
<1>1. \A k \in Nat : k \in Some
    <2>1. 0 \in Some
        <3>1. Doubles([i \in 0..0 |-> 1], 0)
            OBVIOUS
        <3>. QED BY <3>1
    <2>2. ASSUME NEW k \in Nat, k \in Some PROVE k + 1 \in Some
        <3>1. PICK f : Doubles(f, k)
            BY <2>2
        <3>2. PICK g : g = [i \in 0..(k + 1) |-> IF i = k + 1 THEN 2 * f[k] ELSE f[i]]
            OBVIOUS
        <3>3. f[k] \in Nat /\ \A i \in 0..k : f[i] \in Nat /\ i \in 0..(k + 1) /\ i # k + 1
            BY <3>1
        <3>4. /\ \A i \in 0..k : g[i] = f[i]
              /\ g[k + 1] = 2 * f[k]
            BY <3>2, <3>3
        <3>5. g \in [0..(k + 1) -> Nat]
            BY <3>2, <3>3
        <3>6. ASSUME NEW i \in 1..(k + 1) PROVE g[i] = 2 * g[i - 1]
            <4>1. CASE i = k + 1
                BY <3>4, <4>1
            <4>2. CASE i # k + 1
                <5>1. i \in 1..k /\ i \in 0..k /\ i - 1 \in 0..k
                    BY <4>2
                <5>. QED BY <3>1, <3>4, <5>1
            <4>. QED BY <4>1, <4>2
        <3>7. Doubles(g, k + 1)
            <4>1. g[0] = 1
                BY <3>1, <3>4
            <4>. QED BY <3>5, <3>6, <4>1
        <3>. HIDE DEF Doubles
        <3>. QED BY <3>7
    <2>. HIDE DEF Some
    <2>. QED BY <2>1, <2>2, NumberInduction
<1>2. ASSUME NEW k \in Nat, NEW l \in Nat, k <= l, NEW f, NEW g, Doubles(f, k), Doubles(g, l)
      PROVE  f[k] = g[k]
    <2>. DEFINE Same == {i \in Nat : i <= k => f[i] = g[i]}
    <2>1. 0 \in Same
        BY <1>2
    <2>2. ASSUME NEW i \in Nat, i \in Same PROVE i + 1 \in Same
        <3>. SUFFICES ASSUME i + 1 <= k PROVE f[i + 1] = g[i + 1]
            OBVIOUS
        <3>1. i + 1 \in 1..k /\ i + 1 \in 1..l /\ i + 1 - 1 = i /\ f[i] = g[i]
            BY <1>2, <2>2
        <3>. QED BY <1>2, <3>1
    <2>. HIDE DEF Same
    <2>3. k \in Same
        BY <2>1, <2>2, NumberInduction
    <2>. QED BY <2>3 DEF Same
<1>. HIDE DEF Doubles
<1>3. \A n \in Nat : Doubles(CHOOSE f : Doubles(f, n), n)
    BY <1>1
<1>4. ASSUME NEW n \in Nat PROVE F[n] = IF n = 0 THEN 1 ELSE 2 * F[n - 1]
    <2>1. PICK f : f = (CHOOSE g : Doubles(g, n)) /\ Doubles(f, n) /\ F[n] = f[n]
        BY <1>3
    <2>2. CASE n = 0
        BY <2>1, <2>2 DEF Doubles
    <2>3. CASE n # 0
        <3>1. n - 1 \in Nat /\ n - 1 <= n /\ n \in 1..n
            BY <2>3
        <3>2. PICK h : h = (CHOOSE g : Doubles(g, n - 1)) /\ Doubles(h, n - 1) /\ F[n - 1] = h[n - 1]
            BY <1>3, <3>1
        <3>3. h[n - 1] = f[n - 1]
            BY <1>2, <2>1, <3>1, <3>2
        <3>. QED BY <2>1, <2>3, <3>1, <3>2, <3>3 DEF Doubles
    <2>. QED BY <2>2, <2>3
<1>5. F = [n \in Nat |-> F[n]]
    OBVIOUS
<1>. HIDE DEF F
<1>6. F = [n \in Nat |-> IF n = 0 THEN 1 ELSE 2 * F[n - 1]]
    BY <1>4, <1>5
<1>. QED BY <1>6 DEF Pow2

\* 2^0, 2^(n + 1), and that none is 0.
LEMMA Pow2Steps ==
    /\ Pow2[0] = 1
    /\ \A n \in Nat : Pow2[n + 1] = 2 * Pow2[n]
    /\ \A n \in Nat : Pow2[n] \in Nat /\ Pow2[n] >= 1 /\ Pow2[n] > n
<1>1. \A n \in Nat : Pow2[n] = IF n = 0 THEN 1 ELSE 2 * Pow2[n - 1]
    BY Pow2Equation
<1>2. Pow2[0] = 1
    BY <1>1
<1>3. ASSUME NEW n \in Nat PROVE Pow2[n + 1] = 2 * Pow2[n]
    <2>1. n + 1 \in Nat /\ n + 1 # 0 /\ n + 1 - 1 = n
        OBVIOUS
    <2>. QED BY <1>1, <2>1
<1>. DEFINE Above == {n \in Nat : Pow2[n] \in Nat /\ Pow2[n] >= 1 /\ Pow2[n] > n}
<1>4. 0 \in Above
    BY <1>2
<1>5. ASSUME NEW n \in Nat, n \in Above PROVE n + 1 \in Above
    BY <1>3, <1>5
<1>. HIDE DEF Above
<1>6. \A n \in Nat : n \in Above
    BY <1>4, <1>5, NumberInduction
<1>. QED BY <1>2, <1>3, <1>6 DEF Above

\* The powers grow.
LEMMA Pow2Grows ==
    ASSUME NEW m \in Nat, NEW n \in Nat, m < n
    PROVE  Pow2[n] >= 2 * Pow2[m]
<1>. DEFINE Grown == {k \in Nat : Pow2[m + 1 + k] >= 2 * Pow2[m]}
<1>1. 0 \in Grown
    BY Pow2Steps
<1>2. ASSUME NEW k \in Nat, k \in Grown PROVE k + 1 \in Grown
    <2>1. m + 1 + k \in Nat /\ m + 1 + (k + 1) = m + 1 + k + 1
        OBVIOUS
    <2>2. Pow2[m + 1 + k + 1] = 2 * Pow2[m + 1 + k] /\ Pow2[m + 1 + k] \in Nat
        BY <2>1, Pow2Steps
    <2>3. Pow2[m] \in Nat /\ Pow2[m + 1 + k] >= 2 * Pow2[m]
        BY <1>2, Pow2Steps
    <2>4. Pow2[m + 1 + k + 1] >= 2 * Pow2[m]
        BY <2>2, <2>3
    <2>. QED BY <2>1, <2>4
<1>. HIDE DEF Grown
<1>3. n - m - 1 \in Nat /\ m + 1 + (n - m - 1) = n
    OBVIOUS
<1>4. n - m - 1 \in Grown
    BY <1>1, <1>2, <1>3, NumberInduction
<1>. QED BY <1>3, <1>4 DEF Grown

\* 2^(m + n).
LEMMA Pow2Product ==
    ASSUME NEW m \in Nat, NEW n \in Nat
    PROVE  Pow2[m + n] = Pow2[m] * Pow2[n]
<1>. DEFINE Split == {k \in Nat : Pow2[m + k] = Pow2[m] * Pow2[k]}
<1>1. 0 \in Split
    BY Pow2Steps
<1>2. ASSUME NEW k \in Nat, k \in Split PROVE k + 1 \in Split
    <2>1. m + k \in Nat /\ m + (k + 1) = m + k + 1
        OBVIOUS
    <2>2. PICK a \in Nat, b \in Nat : a = Pow2[m] /\ b = Pow2[k]
        BY Pow2Steps
    <2>3. Pow2[m + (k + 1)] = 2 * (a * b) /\ Pow2[k + 1] = 2 * b
        BY <1>2, <2>1, <2>2, Pow2Steps
    <2>4. 2 * (a * b) = a * (2 * b)
        OBVIOUS
    <2>. QED BY <2>2, <2>3, <2>4
<1>. HIDE DEF Split
<1>3. n \in Split
    BY <1>1, <1>2, NumberInduction
<1>. QED BY <1>3 DEF Split

-----------------------------------------------------------------------------
(* Blocks of addresses.                                                    *)

\* The number of the block of 2^n bytes that address b is in, and the side of that block.
Quot(b, n) == b \div Pow2[n]
Digit(b, n) == IF Quot(b, n) % 2 = 0 THEN "0" ELSE "1"

\* A quotient is the one number of which this holds.
LEMMA Division ==
    ASSUME NEW b \in Nat, NEW s \in Nat, s >= 1
    PROVE  /\ b \div s \in Nat /\ (b \div s) * s <= b /\ b < (b \div s) * s + s
           /\ \A q \in Nat : (q * s <= b /\ b < q * s + s) => q = b \div s
<1>1. b \div s \in Nat /\ (b \div s) * s <= b /\ b < (b \div s) * s + s
    OBVIOUS
<1>2. PICK d \in Nat : d = b \div s /\ d * s <= b /\ b < d * s + s
    BY <1>1
<1>3. ASSUME NEW q \in Nat, q * s <= b, b < q * s + s PROVE q = d
    <2>1. ASSUME NEW x \in Nat, NEW y \in Nat, x < y PROVE x * s + s <= y * s
        <3>1. PICK k \in Nat : y = x + 1 + k
            <4>1. y - x - 1 \in Nat /\ y = x + 1 + (y - x - 1)
                BY <2>1
            <4>. QED BY <4>1
        <3>2. y * s = x * s + s + k * s /\ k * s \in Nat /\ x * s \in Nat
            BY <3>1
        <3>. QED BY <3>2
    <2>2. q * s \in Nat /\ d * s \in Nat
        OBVIOUS
    <2>3. ~(q < d)
        BY <1>2, <1>3, <2>1, <2>2
    <2>4. ~(d < q)
        BY <1>2, <1>3, <2>1, <2>2
    <2>. QED BY <2>3, <2>4
<1>. QED BY <1>1, <1>2, <1>3

\* The addresses of a block that starts at a multiple of its size.
LEMMA AlignedBlock ==
    ASSUME NEW e \in Nat, NEW n \in Nat, NEW b \in Nat, b = e * Pow2[n],
           NEW x \in Nat, b <= x, x < b + Pow2[n]
    PROVE  Quot(x, n) = e
BY Division, Pow2Steps DEF Quot

\* A block of twice the size.
LEMMA QuotHalves ==
    ASSUME NEW b \in Nat, NEW n \in Nat
    PROVE  /\ Quot(b, n) \in Nat /\ Quot(b, n + 1) \in Nat
           /\ Quot(b, n) = 2 * Quot(b, n + 1) + (Quot(b, n) % 2)
           /\ Quot(b, n) % 2 \in {0, 1}
           /\ Quot(b, n) = 2 * Quot(b, n + 1) + (IF Digit(b, n) = "0" THEN 0 ELSE 1)
<1>1. PICK s \in Nat : s = Pow2[n] /\ s >= 1 /\ Pow2[n + 1] = 2 * s
    BY Pow2Steps
<1>2. PICK q \in Nat : q = Quot(b, n) /\ q * s <= b /\ b < q * s + s
    BY <1>1, Division DEF Quot
<1>3. PICK r \in Nat, e \in {0, 1} : q = 2 * r + e /\ e = q % 2
    <2>1. q = 2 * (q \div 2) + (q % 2) /\ q \div 2 \in Nat /\ q % 2 \in {0, 1}
        OBVIOUS
    <2>. QED BY <2>1
<1>4. r * (2 * s) <= b /\ b < r * (2 * s) + 2 * s
    <2>1. q * s = r * (2 * s) + e * s /\ r * (2 * s) \in Nat
        BY <1>3
    <2>2. e * s = 0 \/ e * s = s
        OBVIOUS
    <2>. QED BY <1>2, <2>1, <2>2
<1>5. r = Quot(b, n + 1)
    <2>1. 2 * s \in Nat /\ 2 * s >= 1
        BY <1>1
    <2>. QED BY <1>1, <1>4, <2>1, Division DEF Quot
<1>6. (IF Digit(b, n) = "0" THEN 0 ELSE 1) = e
    BY <1>2, <1>3 DEF Digit
<1>. QED BY <1>2, <1>3, <1>5, <1>6

\* Addresses in one block are in one larger block.
LEMMA QuotSame ==
    ASSUME NEW b \in Nat, NEW c \in Nat, NEW n \in Nat, Quot(b, n) = Quot(c, n),
           NEW m \in Nat, n <= m
    PROVE  Quot(b, m) = Quot(c, m) /\ Digit(b, m) = Digit(c, m)
<1>. DEFINE Same == {k \in Nat : Quot(b, n + k) = Quot(c, n + k)}
<1>1. 0 \in Same
    OBVIOUS
<1>2. ASSUME NEW k \in Nat, k \in Same PROVE k + 1 \in Same
    <2>1. n + k \in Nat /\ n + (k + 1) = n + k + 1
        OBVIOUS
    <2>2. Quot(b, n + k) = Quot(c, n + k) /\ Quot(b, n + k) % 2 = Quot(c, n + k) % 2
        BY <1>2
    <2>3. /\ Quot(b, n + k + 1) \in Nat /\ Quot(c, n + k + 1) \in Nat /\ Quot(b, n + k) % 2 \in {0, 1}
          /\ Quot(b, n + k) = 2 * Quot(b, n + k + 1) + (Quot(b, n + k) % 2)
          /\ Quot(c, n + k) = 2 * Quot(c, n + k + 1) + (Quot(c, n + k) % 2)
        BY <2>1, QuotHalves
    <2>4. PICK e : e = Quot(b, n + k) % 2
        OBVIOUS
    <2>5. Quot(b, n + k + 1) = Quot(c, n + k + 1)
        BY <2>2, <2>3, <2>4
    <2>. QED BY <2>1, <2>5
<1>. HIDE DEF Same
<1>3. m - n \in Same /\ n + (m - n) = m
    BY <1>1, <1>2, NumberInduction
<1>. QED BY <1>3 DEF Same, Digit

\* The digits tell the block.
LEMMA DigitsTell ==
    ASSUME NEW r \in Nat, NEW b \in Nat, NEW c \in Nat, b < Pow2[r], c < Pow2[r],
           NEW n \in Nat, n <= r, \A k \in n..(r - 1) : Digit(b, k) = Digit(c, k)
    PROVE  Quot(b, n) = Quot(c, n)
<1>. DEFINE Told == {j \in Nat : j <= r - n => Quot(b, r - j) = Quot(c, r - j)}
<1>1. 0 \in Told
    <2>1. ASSUME NEW x \in Nat, x < Pow2[r] PROVE Quot(x, r) = 0
        <3>1. r \in Nat /\ 0 \in Nat /\ 0 = 0 * Pow2[r] /\ 0 <= x /\ x < 0 + Pow2[r]
            BY <2>1, Pow2Steps
        <3>. QED BY <3>1, AlignedBlock
    <2>. QED BY <2>1
<1>2. ASSUME NEW j \in Nat, j \in Told PROVE j + 1 \in Told
    <2>. SUFFICES ASSUME j + 1 <= r - n PROVE Quot(b, r - (j + 1)) = Quot(c, r - (j + 1))
        OBVIOUS
    <2>1. PICK k \in Nat : k = r - (j + 1) /\ k + 1 = r - j /\ k \in n..(r - 1)
        <3>1. r - (j + 1) \in Nat /\ r - (j + 1) + 1 = r - j /\ r - (j + 1) \in n..(r - 1)
            OBVIOUS
        <3>. QED BY <3>1
    <2>2. Quot(b, k + 1) = Quot(c, k + 1) /\ Digit(b, k) = Digit(c, k)
        BY <1>2, <2>1
    <2>3. /\ Quot(b, k) = 2 * Quot(b, k + 1) + (IF Digit(b, k) = "0" THEN 0 ELSE 1)
          /\ Quot(c, k) = 2 * Quot(c, k + 1) + (IF Digit(c, k) = "0" THEN 0 ELSE 1)
        BY <2>1, QuotHalves
    <2>. QED BY <2>1, <2>2, <2>3
<1>. HIDE DEF Told
<1>3. r - n \in Told /\ r - (r - n) = n
    BY <1>1, <1>2, NumberInduction
<1>. QED BY <1>3 DEF Told

-----------------------------------------------------------------------------
(* Sizes.                                                                  *)

\* The constants are numbers.
LEMMA Numbers ==
    /\ TAMANO_MEMORIA \in Nat /\ TAMANO_MINIMO_PARTICION \in Nat /\ TAMANO_MINIMO_PARTICION >= 1
    /\ TAMANO_MINIMO_PARTICION <= TAMANO_MEMORIA /\ MaxMessages \in Nat /\ MaxTime \in Nat
    /\ NoOne \notin Publishers
    /\ \A size \in Sizes : size \in Nat /\ size >= 1 /\ size <= TAMANO_MEMORIA
BY Configured

\* The root's size is 2^RootLog.
RootLog == CHOOSE n \in Nat : Pow2[n] = RootSize

\* The root is the largest power of two that the memory has room for.
LEMMA Root ==
    RootLog \in Nat /\ RootSize = Pow2[RootLog] /\ RootSize \in Nat /\ RootSize >= 1
<1>. DEFINE T == TAMANO_MEMORIA
            Within == {n \in 0..T : Pow2[n] <= T}
<1>1. T \in Nat /\ T >= 1
    BY Numbers
<1>. HIDE DEF T
<1>2. Within \in SUBSET Nat /\ IsFiniteSet(Within) /\ 0 \in Within
    <2>1. IsFiniteSet(0..T)
        BY <1>1, FS_Interval
    <2>2. Within \in SUBSET (0..T)
        OBVIOUS
    <2>3. IsFiniteSet(Within)
        BY <2>1, <2>2, FS_Subset
    <2>. QED BY <1>1, <2>3, Pow2Steps
<1>3. PICK n \in Within : \A m \in Within : m <= n
    BY <1>2, GreatestNumber
<1>4. n \in Nat /\ n <= T /\ Pow2[n] <= T /\ Pow2[n] \in Nat /\ Pow2[n] > n
    BY <1>1, <1>3, Pow2Steps
<1>5. 2 * Pow2[n] > T
    <2>1. n + 1 \in 0..T /\ Pow2[n + 1] = 2 * Pow2[n]
        BY <1>1, <1>4, Pow2Steps
    <2>2. n + 1 \notin Within
        BY <1>3, <1>4
    <2>. QED BY <1>1, <1>4, <2>1, <2>2
<1>6. PICK s : s = RootSize
    OBVIOUS
<1>7. s \in {Pow2[k] : k \in 0..T}
    <2>1. \E x \in {Pow2[k] : k \in 0..T} : x <= T /\ 2 * x > T
        BY <1>3, <1>4, <1>5
    <2>. QED BY <1>6, <2>1 DEF RootSize, T
<1>8. PICK k \in Nat : Pow2[k] = RootSize
    BY <1>1, <1>6, <1>7
<1>9. RootLog \in Nat /\ Pow2[RootLog] = RootSize
    BY <1>8 DEF RootLog
<1>. QED BY <1>9, Pow2Steps

\* Powers are equal only for equal exponents.
LEMMA Pow2Injective ==
    ASSUME NEW m \in Nat, NEW n \in Nat, Pow2[m] = Pow2[n]
    PROVE  m = n
<1>1. ASSUME NEW a \in Nat, NEW b \in Nat, a < b PROVE Pow2[a] # Pow2[b]
    <2>1. Pow2[b] >= 2 * Pow2[a] /\ Pow2[a] \in Nat /\ Pow2[a] >= 1
        BY <1>1, Pow2Grows, Pow2Steps
    <2>. QED BY <2>1
<1>. QED BY <1>1

\* The size the search asks for is enough, and no more than the whole memory if the payload
\* is not.
LEMMA SearchSize ==
    ASSUME NEW size \in Sizes
    PROVE  /\ BsSize(size) \in Nat /\ BsSize(size) >= size
           /\ size <= RootSize => BsSize(size) <= RootSize
<1>. DEFINE T == TAMANO_MEMORIA
            Enough == {n \in Nat : Pow2[n] >= size}
<1>1. T \in Nat /\ size \in Nat /\ size >= 1 /\ size <= T
    BY Numbers
<1>. HIDE DEF T
<1>2. Enough \in SUBSET Nat /\ T \in Enough
    <2>1. Pow2[T] \in Nat /\ Pow2[T] > T
        BY <1>1, Pow2Steps
    <2>. QED BY <1>1, <2>1
<1>3. PICK n \in Enough : \A m \in Enough : n <= m
    BY <1>2, LeastNumber
<1>4. n \in 0..T /\ Pow2[n] >= size
    BY <1>1, <1>2, <1>3
<1>5. Pow2[n] = 1 \/ Pow2[n] < 2 * size
    <2>1. CASE n = 0
        BY <2>1, Pow2Steps
    <2>2. CASE n # 0
        <3>1. PICK m \in Nat : n = m + 1
            <4>1. n - 1 \in Nat /\ n = n - 1 + 1
                BY <1>4, <2>2
            <4>. QED BY <4>1
        <3>2. m \notin Enough
            BY <1>3, <3>1
        <3>3. Pow2[m] < size /\ Pow2[n] = 2 * Pow2[m] /\ Pow2[m] \in Nat
            BY <1>1, <3>1, <3>2, Pow2Steps
        <3>. QED BY <1>1, <3>3
    <2>. QED BY <2>1, <2>2
<1>6. PICK s : s = BsSize(size)
    OBVIOUS
<1>7. s \in {Pow2[k] : k \in 0..T} /\ s >= size /\ (s = 1 \/ s < 2 * size)
    <2>1. \E x \in {Pow2[k] : k \in 0..T} : x >= size /\ (x = 1 \/ x < 2 * size)
        BY <1>4, <1>5
    <2>. QED BY <1>6, <2>1 DEF BsSize, T
<1>8. PICK k \in Nat : s = Pow2[k] /\ s \in Nat
    BY <1>1, <1>7, Pow2Steps
<1>9. ASSUME size <= RootSize PROVE s <= RootSize
    <2>1. CASE k > RootLog
        <3>1. s >= 2 * RootSize
            BY <1>8, <2>1, Root, Pow2Grows
        <3>. QED BY <1>1, <1>7, <1>8, <1>9, <3>1, Root
    <2>2. CASE k = RootLog
        BY <1>8, <2>2, Root
    <2>3. CASE k < RootLog
        <3>1. RootSize >= 2 * s
            BY <1>8, <2>3, Root, Pow2Grows
        <3>. QED BY <1>8, <3>1, Root
    <2>. QED BY <1>8, <2>1, <2>2, <2>3, Root
<1>. QED BY <1>6, <1>7, <1>8, <1>9

\* A power of two by a power of two.
LEMMA Pow2Quotient ==
    ASSUME NEW k \in Nat, NEW n \in Nat
    PROVE  IF n <= k THEN Pow2[k] \div Pow2[n] = Pow2[k - n] ELSE Pow2[k] \div Pow2[n] = 0
<1>1. CASE n <= k
    <2>1. k - n \in Nat /\ k - n + n = k
        BY <1>1
    <2>2. Pow2[k] = Pow2[k - n] * Pow2[n]
        BY <2>1, Pow2Product
    <2>3. Pow2[k] \in Nat /\ Pow2[n] \in Nat /\ Pow2[n] >= 1 /\ Pow2[k - n] \in Nat
        BY <2>1, Pow2Steps
    <2>4. Quot(Pow2[k], n) = Pow2[k - n]
        BY <2>2, <2>3, AlignedBlock
    <2>. QED BY <1>1, <2>4 DEF Quot
<1>2. CASE ~(n <= k)
    <2>1. Pow2[n] >= 2 * Pow2[k] /\ Pow2[k] \in Nat /\ Pow2[k] >= 1 /\ Pow2[n] \in Nat /\ Pow2[n] >= 1
        BY <1>2, Pow2Grows, Pow2Steps
    <2>2. 0 * Pow2[n] <= Pow2[k] /\ Pow2[k] < 0 * Pow2[n] + Pow2[n]
        BY <2>1
    <2>3. 0 = Pow2[k] \div Pow2[n]
        BY <2>1, <2>2, Division
    <2>. QED BY <1>2, <2>3
<1>. QED BY <1>1, <1>2

\* A block that is large enough is halved as often as the payload still fits.
LEMMA HalvingsFit ==
    ASSUME NEW k \in Nat, NEW size, AtLeastMinimum(size) \in Nat, AtLeastMinimum(size) >= 1,
           AtLeastMinimum(size) <= Pow2[k]
    PROVE  /\ Halvings(Pow2[k], size) \in 0..k
           /\ Pow2[k - Halvings(Pow2[k], size)] >= AtLeastMinimum(size)
<1>. DEFINE A == AtLeastMinimum(size)
            Good(n) == Pow2[k] \div Pow2[n] >= A /\ Pow2[k] \div Pow2[n + 1] < A
            Fits == {n \in 0..k : Pow2[k - n] >= A}
<1>1. A \in Nat /\ A >= 1 /\ A <= Pow2[k] /\ Pow2[k] \in Nat /\ Pow2[k] > k
    BY Pow2Steps
<1>. HIDE DEF A
<1>2. PICK n \in Fits : \A m \in Fits : m <= n
    <2>1. Fits \in SUBSET Nat /\ 0 \in Fits
        BY <1>1
    <2>2. IsFiniteSet(Fits)
        <3>1. IsFiniteSet(0..k)
            BY FS_Interval
        <3>. QED BY <3>1, FS_Subset
    <2>. QED BY <2>1, <2>2, GreatestNumber
<1>3. n \in 0..k /\ Pow2[k] \div Pow2[n] = Pow2[k - n] /\ Pow2[k - n] >= A
    BY <1>2, Pow2Quotient
<1>4. Pow2[k] \div Pow2[n + 1] < A
    <2>1. CASE n = k
        <3>1. Pow2[k] \div Pow2[n + 1] = 0
            BY <1>3, <2>1, Pow2Quotient
        <3>. QED BY <1>1, <3>1
    <2>2. CASE n # k
        <3>1. n + 1 \in 0..k /\ n + 1 \notin Fits /\ k - (n + 1) \in Nat
            BY <1>2, <1>3, <2>2
        <3>2. Pow2[k] \div Pow2[n + 1] = Pow2[k - (n + 1)] /\ Pow2[k - (n + 1)] \in Nat
            <4>1. n + 1 \in Nat /\ n + 1 <= k
                BY <3>1
            <4>. QED BY <3>1, <4>1, Pow2Quotient, Pow2Steps
        <3>. QED BY <1>1, <3>1, <3>2
    <2>. QED BY <2>1, <2>2
<1>5. PICK h : h = Halvings(Pow2[k], size)
    OBVIOUS
<1>6. h \in 0..Pow2[k] /\ Pow2[k] \div Pow2[h] >= A
    <2>1. \E m \in 0..Pow2[k] : Good(m)
        <3>1. n \in 0..Pow2[k]
            BY <1>1, <1>3
        <3>. QED BY <1>3, <1>4, <3>1
    <2>. QED BY <1>5, <2>1 DEF Halvings, A
<1>7. h \in Nat /\ h <= k /\ Pow2[k] \div Pow2[h] = Pow2[k - h]
    <2>1. h \in Nat
        BY <1>1, <1>6
    <2>2. h <= k
        <3>. SUFFICES ASSUME ~(h <= k) PROVE FALSE
            OBVIOUS
        <3>1. Pow2[k] \div Pow2[h] = 0
            BY <2>1, Pow2Quotient
        <3>. QED BY <1>1, <1>6, <3>1
    <2>. QED BY <2>1, <2>2, Pow2Quotient
<1>. QED BY <1>5, <1>6, <1>7 DEF A

-----------------------------------------------------------------------------
(* The place of a block in the tree of halves.                             *)

Sides == {"F", "0", "1"}

Block == [id : Nat, begin : Nat, partition_size : Nat, status : {"FREE", "OCCUPIED"},
          content_size : 0..TAMANO_MEMORIA,
          occupied_timestamp : Nat, lru_timestamp : Nat, father : Seq(Sides), side : Seq(Sides)]

\* The side of the block at address b and depth d of the tree, and the way to it from the root.
Side(b, d) == IF d = 0 THEN "F" ELSE Digit(b, RootLog - d)
Path(b, d) == [k \in 1..d |-> Side(b, k - 1)]

\* A block of depth d is at a multiple of its size, within the memory, and father and side are
\* its way from the root (memory_init gives the root's text to the father, consolidate to the
\* side).
InPlace(q, d) ==
    /\ d \in 0..RootLog
    /\ q.partition_size = Pow2[RootLog - d]
    /\ \E e \in Nat : q.begin = e * q.partition_size
    /\ End(q) <= RootSize
    /\ \/ q.father = Path(q.begin, d) /\ q.side = <<Side(q.begin, d)>>
       \/ d = 0 /\ q.father = <<"F">> /\ q.side = <<>>

\* The fields of a block.
LEMMA BlockFields ==
    ASSUME NEW q \in Block
    PROVE  /\ q.id \in Nat /\ q.begin \in Nat /\ q.partition_size \in Nat
           /\ q.status \in {"FREE", "OCCUPIED"} /\ q.content_size \in 0..TAMANO_MEMORIA
           /\ q.occupied_timestamp \in Nat /\ q.lru_timestamp \in Nat
           /\ q.father \in Seq(Sides) /\ q.side \in Seq(Sides)
           /\ End(q) \in Nat /\ End(q) = q.begin + q.partition_size
BY DEF Block, End

\* A way is a list of sides.
LEMMA PathIsList ==
    ASSUME NEW b \in Nat, NEW d \in Nat
    PROVE  /\ Path(b, d) \in Seq(Sides) /\ Len(Path(b, d)) = d
           /\ \A k \in 1..d : Path(b, d)[k] = Side(b, k - 1)
           /\ Side(b, d) \in Sides
<1>1. \A k \in Nat : Side(b, k) \in Sides
    BY DEF Side, Digit, Sides
<1>2. Path(b, d) \in [1..d -> Sides]
    <2>1. \A k \in 1..d : k - 1 \in Nat
        OBVIOUS
    <2>. QED BY <1>1, <2>1 DEF Path
<1>3. Path(b, d) \in Seq(Sides)
    BY <1>2, SeqDef
<1>4. Len(Path(b, d)) = d
    BY <1>2, <1>3, LenProperties
<1>5. \A k \in 1..d : Path(b, d)[k] = Side(b, k - 1)
    BY DEF Path
<1>. QED BY <1>1, <1>3, <1>4, <1>5

\* Addresses of one block of depth d - 1 have the same way to it.
LEMMA PathsAgree ==
    ASSUME NEW b \in Nat, NEW c \in Nat, NEW d \in Nat, d <= RootLog + 1, d >= 1,
           b < RootSize, c < RootSize
    PROVE  Path(b, d) = Path(c, d) <=> Quot(b, RootLog - (d - 1)) = Quot(c, RootLog - (d - 1))
<1>0. RootLog \in Nat /\ RootLog - (d - 1) \in Nat /\ b < Pow2[RootLog] /\ c < Pow2[RootLog]
    BY Root
<1>1. ASSUME Quot(b, RootLog - (d - 1)) = Quot(c, RootLog - (d - 1)), NEW k \in 1..d
      PROVE  Side(b, k - 1) = Side(c, k - 1)
    <2>1. CASE k = 1
        BY <2>1 DEF Side
    <2>2. CASE k # 1
        <3>1. RootLog - (k - 1) \in Nat /\ RootLog - (d - 1) <= RootLog - (k - 1)
            BY <1>0, <2>2
        <3>2. Digit(b, RootLog - (k - 1)) = Digit(c, RootLog - (k - 1))
            BY <1>0, <1>1, <3>1, QuotSame
        <3>. QED BY <3>2 DEF Side
    <2>. QED BY <2>1, <2>2
<1>2. ASSUME Path(b, d) = Path(c, d)
      PROVE  Quot(b, RootLog - (d - 1)) = Quot(c, RootLog - (d - 1))
    <2>1. ASSUME NEW n \in (RootLog - (d - 1))..(RootLog - 1) PROVE Digit(b, n) = Digit(c, n)
        <3>1. PICK k : k = RootLog - n + 1 /\ k \in 1..d /\ k - 1 # 0 /\ RootLog - (k - 1) = n
            BY <1>0
        <3>2. Path(b, d)[k] = Digit(b, n) /\ Path(c, d)[k] = Digit(c, n)
            BY <3>1 DEF Path, Side
        <3>. QED BY <1>2, <3>2
    <2>. QED BY <1>0, <2>1, DigitsTell
<1>3. ASSUME Quot(b, RootLog - (d - 1)) = Quot(c, RootLog - (d - 1))
      PROVE  Path(b, d) = Path(c, d)
    BY <1>1, <1>3 DEF Path
<1>. QED BY <1>2, <1>3

\* The way to a half begins with the way to the whole.
LEMMA PathGrows ==
    ASSUME NEW b \in Nat, NEW d \in Nat
    PROVE  /\ Path(b, d) \o <<Side(b, d)>> = Path(b, d + 1)
           /\ SubSeq(Path(b, d + 1), 1, d) = Path(b, d)
           /\ Path(b, d + 1)[d + 1] = Side(b, d)
           /\ Path(b, 0) = <<>> /\ Path(b, 1) = <<"F">>
<1>0. d + 1 \in Nat /\ d + 1 - 1 = d /\ d + 1 \in 1..(d + 1) /\ 0 \in Nat /\ 1 \in Nat
    OBVIOUS
<1>1. /\ Path(b, d) \in Seq(Sides) /\ Len(Path(b, d)) = d
      /\ \A k \in 1..d : Path(b, d)[k] = Side(b, k - 1)
      /\ Path(b, d + 1) \in Seq(Sides) /\ Len(Path(b, d + 1)) = d + 1
      /\ \A k \in 1..(d + 1) : Path(b, d + 1)[k] = Side(b, k - 1)
      /\ <<Side(b, d)>> \in Seq(Sides) /\ Len(<<Side(b, d)>>) = 1
    BY <1>0, PathIsList
<1>2. Path(b, d) \o <<Side(b, d)>> = Path(b, d + 1)
    <2>1. PICK s : s = Path(b, d) \o <<Side(b, d)>>
        OBVIOUS
    <2>2. /\ s \in Seq(Sides) /\ Len(s) = d + 1
          /\ \A k \in 1..(d + 1) : s[k] = IF k <= d THEN Path(b, d)[k] ELSE <<Side(b, d)>>[k - d]
        BY <1>1, <2>1, ConcatProperties
    <2>3. ASSUME NEW k \in 1..(d + 1) PROVE s[k] = Side(b, k - 1)
        <3>1. CASE k <= d
            BY <1>1, <2>2, <3>1
        <3>2. CASE ~(k <= d)
            <4>1. k = d + 1
                BY <3>2
            <4>. QED BY <2>2, <4>1
        <3>. QED BY <3>1, <3>2
    <2>4. \A k \in 1..Len(s) : s[k] = Path(b, d + 1)[k]
        BY <1>1, <2>2, <2>3
    <2>. QED BY <1>1, <2>1, <2>2, <2>4, SeqEqual
<1>3. SubSeq(Path(b, d + 1), 1, d) = Path(b, d)
    <2>1. PICK s : s = SubSeq(Path(b, d + 1), 1, d)
        OBVIOUS
    <2>2. /\ s \in Seq(Sides) /\ Len(s) = d
          /\ \A k \in 1..d : s[k] = Path(b, d + 1)[k]
        <3>1. \A k \in 1..d : Path(b, d + 1)[k] \in Sides
            BY <1>1, ElementOfSeq
        <3>. QED BY <1>1, <2>1, <3>1, SubSeqProperties
    <2>3. \A k \in 1..Len(s) : s[k] = Path(b, d)[k]
        BY <1>1, <2>2
    <2>. QED BY <1>1, <2>1, <2>2, <2>3, SeqEqual
<1>4. Path(b, 0) = <<>>
    <2>1. Path(b, 0) \in Seq(Sides) /\ Len(Path(b, 0)) = 0
        BY <1>0, PathIsList
    <2>. QED BY <2>1, EmptySeq
<1>5. Path(b, 1) = <<"F">>
    <2>1. /\ Path(b, 1) \in Seq(Sides) /\ Len(Path(b, 1)) = 1
          /\ \A k \in 1..1 : Path(b, 1)[k] = Side(b, k - 1)
        BY <1>0, PathIsList
    <2>2. Path(b, 1)[1] = "F"
        BY <2>1 DEF Side
    <2>3. <<"F">> \in Seq(Sides) /\ Len(<<"F">>) = 1 /\ <<"F">>[1] = "F"
        BY DEF Sides
    <2>4. \A k \in 1..Len(Path(b, 1)) : Path(b, 1)[k] = <<"F">>[k]
        BY <2>1, <2>2, <2>3
    <2>. QED BY <2>1, <2>3, <2>4, SeqEqual
<1>. QED BY <1>0, <1>1, <1>2, <1>3, <1>4, <1>5

\* The way from the root, either way it is written.
LEMMA WayOf ==
    ASSUME NEW q \in Block, NEW d, InPlace(q, d)
    PROVE  /\ q.father \o q.side = Path(q.begin, d + 1)
           /\ Len(q.father) + Len(q.side) = d + 1
           /\ d \in Nat /\ d <= RootLog /\ RootLog - d \in Nat
           /\ q.partition_size = Pow2[RootLog - d] /\ q.partition_size >= 1
           /\ q.begin < RootSize
<1>1. d \in Nat /\ d <= RootLog /\ RootLog - d \in Nat /\ RootSize \in Nat
    BY Root DEF InPlace
<1>2. q.partition_size = Pow2[RootLog - d] /\ q.partition_size >= 1 /\ q.partition_size \in Nat
    BY <1>1, Pow2Steps DEF InPlace
<1>3. q.begin < RootSize
    BY <1>1, <1>2, BlockFields DEF InPlace
<1>4. CASE q.father = Path(q.begin, d) /\ q.side = <<Side(q.begin, d)>>
    <2>1. q.begin \in Nat
        BY BlockFields
    <2>2. q.father \o q.side = Path(q.begin, d + 1)
        BY <1>1, <1>4, <2>1, PathGrows
    <2>3. Len(q.father) = d /\ Len(q.side) = 1
        BY <1>1, <1>4, <2>1, PathIsList
    <2>. QED BY <1>1, <1>2, <1>3, <2>2, <2>3
<1>5. CASE d = 0 /\ q.father = <<"F">> /\ q.side = <<>>
    <2>1. q.begin \in Nat /\ d + 1 = 1 /\ Path(q.begin, 1) = <<"F">>
        <3>1. q.begin \in Nat /\ d + 1 = 1
            BY <1>5, BlockFields
        <3>. QED BY <1>1, <3>1, PathGrows
    <2>2. <<"F">> \o <<>> = <<"F">>
        OBVIOUS
    <2>. QED BY <1>1, <1>2, <1>3, <1>5, <2>1, <2>2
<1>. QED BY <1>4, <1>5 DEF InPlace

-----------------------------------------------------------------------------
(* Buddies, and the halves of a block.                                     *)

\* A block that starts where a multiple of 2^n does: a smaller one at its left end is a left one.
LEMMA LeftEnd ==
    ASSUME NEW b \in Nat, NEW n \in Nat, NEW e \in Nat, b = e * Pow2[n], NEW m \in Nat, m < n
    PROVE  /\ Digit(b, m) = "0" /\ Digit(b + Pow2[m], m) = "1"
           /\ Quot(b + Pow2[m], m + 1) = Quot(b, m + 1)
           /\ \E f \in Nat : b = f * Pow2[m] /\ b + Pow2[m] = (f + 1) * Pow2[m]
<1>1. PICK k \in Nat : k = n - (m + 1) /\ n = k + (m + 1) /\ m + 1 \in Nat
    <2>1. n - (m + 1) \in Nat /\ n = n - (m + 1) + (m + 1) /\ m + 1 \in Nat
        OBVIOUS
    <2>. QED BY <2>1
<1>2. PICK s \in Nat, p \in Nat : s = Pow2[m] /\ s >= 1 /\ Pow2[m + 1] = 2 * s /\ p = Pow2[k]
    BY <1>1, Pow2Steps
<1>3. Pow2[n] = p * (2 * s)
    BY <1>1, <1>2, Pow2Product
<1>4. PICK f \in Nat : f = e * p
    OBVIOUS
<1>5. b = f * (2 * s)
    <2>1. e * (p * (2 * s)) = (e * p) * (2 * s)
        OBVIOUS
    <2>. QED BY <1>3, <1>4, <2>1
<1>6. b = (2 * f) * s /\ b + s = (2 * f + 1) * s
    <2>1. f * (2 * s) = (2 * f) * s
        OBVIOUS
    <2>2. (2 * f + 1) * s = (2 * f) * s + s
        OBVIOUS
    <2>. QED BY <1>5, <2>1, <2>2
<1>7. Quot(b, m) = 2 * f /\ Quot(b + s, m) = 2 * f + 1
    <2>1. 2 * f \in Nat /\ 2 * f + 1 \in Nat /\ b + s \in Nat /\ b <= b /\ b < b + s
          /\ b + s <= b + s /\ b + s < b + s + s
        BY <1>2
    <2>2. Quot(b, m) = 2 * f
        BY <1>2, <1>6, <2>1, AlignedBlock
    <2>3. Quot(b + s, m) = 2 * f + 1
        BY <1>2, <1>6, <2>1, AlignedBlock
    <2>. QED BY <2>2, <2>3
<1>8. Quot(b, m + 1) = f /\ Quot(b + s, m + 1) = f
    <2>1. m + 1 \in Nat /\ b + s \in Nat /\ b <= b /\ b < b + 2 * s /\ b <= b + s /\ b + s < b + 2 * s
        BY <1>2
    <2>. QED BY <1>2, <1>5, <2>1, AlignedBlock
<1>9. Digit(b, m) = "0" /\ Digit(b + s, m) = "1"
    <2>1. (2 * f) % 2 = 0 /\ (2 * f + 1) % 2 = 1
        OBVIOUS
    <2>. QED BY <1>7, <2>1 DEF Digit
<1>. QED BY <1>2, <1>6, <1>8, <1>9

\* Two blocks of one size with one father are the two halves of a block.
LEMMA BuddyBlocks ==
    ASSUME NEW q \in Block, NEW r \in Block, NEW d, InPlace(q, d), NEW c, InPlace(r, c),
           q.father = r.father, q.partition_size = r.partition_size, End(q) <= r.begin
    PROVE  /\ c = d /\ d - 1 \in 0..RootLog /\ End(q) = r.begin
           /\ Pow2[RootLog - (d - 1)] = 2 * q.partition_size
           /\ \E e \in Nat : q.begin = e * Pow2[RootLog - (d - 1)]
           /\ r.father = Path(q.begin, d)
<1>1. /\ d \in Nat /\ d <= RootLog /\ RootLog - d \in Nat /\ q.partition_size = Pow2[RootLog - d]
      /\ c \in Nat /\ c <= RootLog /\ RootLog - c \in Nat /\ r.partition_size = Pow2[RootLog - c]
      /\ q.partition_size >= 1 /\ q.begin < RootSize /\ r.begin < RootSize
    BY WayOf
<1>2. c = d
    <2>1. RootLog - c = RootLog - d
        BY <1>1, Pow2Injective
    <2>. QED BY <1>1, <2>1, Root
<1>3. /\ q.begin \in Nat /\ r.begin \in Nat /\ q.partition_size \in Nat
      /\ End(q) = q.begin + q.partition_size /\ End(r) = r.begin + r.partition_size
      /\ End(r) <= RootSize /\ RootSize \in Nat /\ RootLog \in Nat
    BY BlockFields, Root DEF InPlace
<1>4. d # 0
    <2>. SUFFICES ASSUME d = 0 PROVE FALSE
        OBVIOUS
    <2>1. RootLog - d = RootLog
        BY <1>3
    <2>2. q.partition_size = RootSize
        BY <1>1, <2>1, Root
    <2>. QED BY <1>1, <1>3, <2>2
<1>5. q.father = Path(q.begin, d) /\ r.father = Path(r.begin, d)
    BY <1>2, <1>4 DEF InPlace
<1>6. PICK n \in Nat : n = RootLog - d /\ RootLog - (d - 1) = n + 1 /\ d - 1 \in 0..RootLog
    <2>1. RootLog - (d - 1) = RootLog - d + 1 /\ d - 1 \in 0..RootLog
        BY <1>1, <1>3, <1>4
    <2>. QED BY <1>1, <2>1
<1>7. Quot(q.begin, n + 1) = Quot(r.begin, n + 1)
    <2>1. d >= 1 /\ d <= RootLog + 1
        BY <1>1, <1>3, <1>4
    <2>2. Path(q.begin, d) = Path(r.begin, d)
        BY <1>5
    <2>3. Quot(q.begin, RootLog - (d - 1)) = Quot(r.begin, RootLog - (d - 1))
        BY <1>1, <1>3, <2>1, <2>2, PathsAgree
    <2>. QED BY <1>6, <2>3
<1>8. PICK s \in Nat : s = q.partition_size /\ s >= 1 /\ s = Pow2[n] /\ Pow2[n + 1] = 2 * s
    BY <1>1, <1>6, Pow2Steps
<1>9. PICK x \in Nat, y \in Nat : q.begin = x * s /\ r.begin = y * s
    BY <1>1, <1>8 DEF InPlace
<1>10. Quot(q.begin, n) = x /\ Quot(r.begin, n) = y
    <2>1. /\ q.begin <= q.begin /\ q.begin < q.begin + s
          /\ r.begin <= r.begin /\ r.begin < r.begin + s
        BY <1>3, <1>8
    <2>. QED BY <1>3, <1>8, <1>9, <2>1, AlignedBlock
<1>11. PICK e \in Nat : x \in {2 * e, 2 * e + 1} /\ y \in {2 * e, 2 * e + 1}
    <2>1. /\ Quot(q.begin, n) = 2 * Quot(q.begin, n + 1) + (IF Digit(q.begin, n) = "0" THEN 0 ELSE 1)
          /\ Quot(r.begin, n) = 2 * Quot(r.begin, n + 1) + (IF Digit(r.begin, n) = "0" THEN 0 ELSE 1)
          /\ Quot(q.begin, n + 1) \in Nat
        BY <1>3, QuotHalves
    <2>2. PICK e \in Nat : e = Quot(q.begin, n + 1)
        BY <2>1
    <2>. QED BY <1>7, <1>10, <2>1, <2>2
<1>12. x * s + s <= y * s
    BY <1>3, <1>8, <1>9
<1>13. x = 2 * e /\ y = 2 * e + 1
    <2>1. x * s \in Nat /\ (2 * e + 1) * s = (2 * e) * s + s /\ (2 * e) * s \in Nat
        OBVIOUS
    <2>2. CASE x = 2 * e + 1 /\ y = 2 * e
        BY <1>8, <1>12, <2>1, <2>2
    <2>3. CASE x = y
        BY <1>8, <1>12, <2>1, <2>3
    <2>. QED BY <1>11, <2>2, <2>3
<1>14. r.begin = q.begin + s /\ q.begin = e * (2 * s)
    <2>1. (2 * e + 1) * s = (2 * e) * s + s /\ (2 * e) * s = e * (2 * s)
        OBVIOUS
    <2>. QED BY <1>9, <1>13, <2>1
<1>. QED BY <1>2, <1>3, <1>5, <1>6, <1>8, <1>14

\* The block they are halves of.
LEMMA MergedBlock ==
    ASSUME NEW q \in Block, NEW r \in Block, NEW d, InPlace(q, d), NEW c, InPlace(r, c),
           q.father = r.father, q.partition_size = r.partition_size, End(q) <= r.begin,
           NEW m, m = Joined(q, r)
    PROVE  /\ m \in Block /\ InPlace(m, d - 1)
           /\ m.begin = q.begin /\ End(m) = End(r) /\ m.id = q.id /\ m.status = q.status
           /\ m.occupied_timestamp = q.occupied_timestamp /\ m.lru_timestamp = q.lru_timestamp
<1>1. PICK n \in Nat, s \in Nat :
        /\ n = d - 1 /\ n \in 0..RootLog /\ d = n + 1 /\ s = q.partition_size
        /\ Pow2[RootLog - n] = 2 * s
        /\ \E e \in Nat : q.begin = e * (2 * s)
        /\ End(q) = r.begin /\ r.father = Path(q.begin, n + 1)
    <2>1. /\ d - 1 \in 0..RootLog /\ End(q) = r.begin
          /\ Pow2[RootLog - (d - 1)] = 2 * q.partition_size
          /\ \E e \in Nat : q.begin = e * Pow2[RootLog - (d - 1)]
          /\ r.father = Path(q.begin, d)
        BY BuddyBlocks
    <2>2. d \in Nat /\ q.partition_size \in Nat
        BY WayOf, BlockFields
    <2>3. d - 1 \in Nat /\ d = d - 1 + 1
        BY <2>1, <2>2
    <2>. QED BY <2>1, <2>2, <2>3
<1>2. /\ q.begin \in Nat /\ r.begin \in Nat /\ End(q) = q.begin + s /\ End(r) = r.begin + s
      /\ End(r) <= RootSize
    BY <1>1, BlockFields DEF InPlace
<1>3. /\ Len(r.father) = n + 1 /\ SubSeq(r.father, 1, Len(r.father) - 1) = Path(q.begin, n)
      /\ r.father[Len(r.father)] = Side(q.begin, n)
    <2>1. Len(r.father) = n + 1
        <3>1. n + 1 \in Nat
            OBVIOUS
        <3>2. Len(Path(q.begin, n + 1)) = n + 1
            BY <1>2, <3>1, PathIsList
        <3>. QED BY <1>1, <3>2
    <2>2. n + 1 - 1 = n
        OBVIOUS
    <2>3. /\ SubSeq(Path(q.begin, n + 1), 1, n) = Path(q.begin, n)
          /\ Path(q.begin, n + 1)[n + 1] = Side(q.begin, n)
        BY <1>2, PathGrows
    <2>. QED BY <1>1, <2>1, <2>2, <2>3
<1>4. m = [q EXCEPT !.partition_size = 2 * s, !.father = Path(q.begin, n), !.side = <<Side(q.begin, n)>>]
    BY <1>1, <1>3 DEF Joined
<1>5. /\ m.begin = q.begin /\ m.id = q.id /\ m.status = q.status
      /\ m.occupied_timestamp = q.occupied_timestamp /\ m.lru_timestamp = q.lru_timestamp
      /\ m.partition_size = 2 * s /\ m.father = Path(q.begin, n) /\ m.side = <<Side(q.begin, n)>>
    BY <1>4 DEF Block
<1>6. m \in Block
    <2>1. Path(q.begin, n) \in Seq(Sides) /\ <<Side(q.begin, n)>> \in Seq(Sides)
        <3>1. Path(q.begin, n) \in Seq(Sides) /\ Side(q.begin, n) \in Sides
            BY <1>2, PathIsList
        <3>. QED BY ONLY <3>1
    <2>2. 2 * s \in Nat
        OBVIOUS
    <2>. QED BY <1>4, <2>1, <2>2 DEF Block
<1>7. End(m) = End(r)
    BY <1>1, <1>2, <1>5 DEF End
<1>8. InPlace(m, n)
    BY <1>1, <1>2, <1>5, <1>7 DEF InPlace
<1>. QED BY <1>1, <1>5, <1>6, <1>7, <1>8

\* Blocks that are the two halves of a block have one father.
LEMMA HalvesAreBuddies ==
    ASSUME NEW q \in Block, NEW r \in Block, NEW d, InPlace(q, d), InPlace(r, d), d # 0,
           r.begin = End(q), NEW e \in Nat, q.begin = e * (2 * q.partition_size)
    PROVE  q.father = r.father
<1>1. /\ d \in Nat /\ d <= RootLog /\ RootLog - d \in Nat /\ q.partition_size = Pow2[RootLog - d]
      /\ q.partition_size >= 1 /\ q.begin < RootSize /\ r.begin < RootSize
    BY WayOf
<1>2. PICK n \in Nat, s \in Nat : /\ n = RootLog - d /\ RootLog - (d - 1) = n + 1 /\ s = q.partition_size
                                  /\ s = Pow2[n] /\ Pow2[n + 1] = 2 * s /\ s >= 1
    <2>1. RootLog - (d - 1) = RootLog - d + 1
        BY <1>1, Root
    <2>2. q.partition_size \in Nat
        BY BlockFields
    <2>. QED BY <1>1, <2>1, <2>2, Pow2Steps
<1>3. q.begin \in Nat /\ r.begin \in Nat /\ r.begin = q.begin + s
    BY <1>2, BlockFields
<1>4. Quot(q.begin, n + 1) = e /\ Quot(r.begin, n + 1) = e
    <2>1. /\ n + 1 \in Nat /\ q.begin <= q.begin /\ q.begin < q.begin + 2 * s
          /\ q.begin <= r.begin /\ r.begin < q.begin + 2 * s
        BY <1>2, <1>3
    <2>. QED BY <1>2, <1>3, <2>1, AlignedBlock
<1>5. d >= 1 /\ d <= RootLog + 1
    BY <1>1, Root
<1>6. Path(q.begin, d) = Path(r.begin, d)
    BY <1>1, <1>2, <1>3, <1>4, <1>5, PathsAgree
<1>. QED BY <1>6 DEF InPlace

\* The left one of two buddies has the side "0".
LEMMA LeftBuddySide ==
    ASSUME NEW q \in Block, NEW d, InPlace(q, d), d - 1 \in 0..RootLog,
           NEW e \in Nat, q.begin = e * Pow2[RootLog - (d - 1)]
    PROVE  q.side = <<"0">>
<1>1. d \in Nat /\ d # 0 /\ RootLog - d \in Nat /\ RootLog - (d - 1) \in Nat /\ RootLog - d < RootLog - (d - 1)
    <2>1. d \in Nat /\ RootLog - d \in Nat
        BY WayOf
    <2>2. RootLog \in Nat
        BY Root
    <2>. QED BY <2>1, <2>2
<1>2. Digit(q.begin, RootLog - d) = "0"
    BY <1>1, BlockFields, LeftEnd
<1>. QED BY <1>1, <1>2 DEF InPlace, Side

-----------------------------------------------------------------------------
(* store_payload_bs.                                                       *)

\* The left halves taken below a block.
Zeros(k) == [j \in 1..(k - 1) |-> "0"]

\* The way to a left end.
LEMMA ZerosFollow ==
    ASSUME NEW b \in Nat, NEW d \in Nat, d <= RootLog, NEW e \in Nat, b = e * Pow2[RootLog - d],
           NEW k \in Nat, k >= 1, d + k <= RootLog + 1
    PROVE  Path(b, d + 1) \o Zeros(k) = Path(b, d + k)
<1>. DEFINE zeros == Zeros(k)
<1>1. k - 1 \in Nat /\ d + k \in Nat /\ d + 1 \in Nat /\ RootLog \in Nat
    BY Root
<1>2. zeros \in Seq(Sides) /\ Len(zeros) = k - 1 /\ \A j \in 1..(k - 1) : zeros[j] = "0"
    <2>1. zeros \in [1..(k - 1) -> Sides]
        BY DEF Sides, Zeros
    <2>2. zeros \in Seq(Sides)
        BY <1>1, <2>1, SeqDef
    <2>. QED BY <1>1, <2>1, <2>2, LenProperties DEF Zeros
<1>. HIDE DEF zeros
<1>3. /\ Path(b, d + 1) \in Seq(Sides) /\ Len(Path(b, d + 1)) = d + 1
      /\ \A j \in 1..(d + 1) : Path(b, d + 1)[j] = Side(b, j - 1)
      /\ Path(b, d + k) \in Seq(Sides) /\ Len(Path(b, d + k)) = d + k
      /\ \A j \in 1..(d + k) : Path(b, d + k)[j] = Side(b, j - 1)
    BY <1>1, PathIsList
<1>4. PICK s : s = Path(b, d + 1) \o zeros
    OBVIOUS
<1>5. /\ s \in Seq(Sides) /\ Len(s) = d + k
      /\ \A j \in 1..(d + k) : s[j] = IF j <= d + 1 THEN Path(b, d + 1)[j] ELSE zeros[j - (d + 1)]
    <2>1. Len(Path(b, d + 1)) + Len(zeros) = d + k
        <3>1. Len(Path(b, d + 1)) = d + 1 /\ Len(zeros) = k - 1
            BY <1>2, <1>3
        <3>2. d + 1 + (k - 1) = d + k
            OBVIOUS
        <3>. QED BY <3>1, <3>2
    <2>2. Len(Path(b, d + 1)) = d + 1
        BY <1>3
    <2>3. /\ s \in Seq(Sides) /\ Len(s) = Len(Path(b, d + 1)) + Len(zeros)
          /\ \A j \in 1..(Len(Path(b, d + 1)) + Len(zeros)) :
                s[j] = IF j <= Len(Path(b, d + 1)) THEN Path(b, d + 1)[j]
                       ELSE zeros[j - Len(Path(b, d + 1))]
        BY <1>2, <1>3, <1>4, ConcatProperties
    <2>. QED BY <2>1, <2>2, <2>3
<1>6. ASSUME NEW j \in 1..(d + k) PROVE s[j] = Path(b, d + k)[j]
    <2>1. CASE j <= d + 1
        BY <1>3, <1>5, <2>1
    <2>2. CASE ~(j <= d + 1)
        <3>1. j - (d + 1) \in 1..(k - 1) /\ j - 1 # 0
            BY <2>2
        <3>2. RootLog - (j - 1) \in Nat /\ RootLog - d \in Nat /\ RootLog - (j - 1) < RootLog - d
            BY <1>1, <2>2
        <3>3. Digit(b, RootLog - (j - 1)) = "0"
            BY <3>2, LeftEnd
        <3>. QED BY <1>2, <1>3, <1>5, <2>2, <3>1, <3>3 DEF Side
    <2>. QED BY <2>1, <2>2
<1>7. s = Path(b, d + k)
    BY <1>3, <1>5, <1>6, SeqEqual
<1>. QED BY <1>4, <1>7 DEF zeros

\* The same of a block's address.
LEMMA ZerosFollowAt ==
    ASSUME NEW b \in Nat, NEW d \in Nat, NEW k \in Nat, NEW e \in Nat,
           d <= RootLog, b = e * Pow2[RootLog - d], k >= 1, d + k <= RootLog + 1
    PROVE  Path(b, d + 1) \o Zeros(k) = Path(b, d + k)
BY ZerosFollow

\* The left or the right half that the k-th halving at the left end of block q makes.
LEMMA NewBlock ==
    ASSUME NEW q \in Block, NEW d, InPlace(q, d), NEW k \in 1..(RootLog - d), NEW id \in Nat,
           NEW s \in Nat, s = Pow2[RootLog - d - k],
           NEW w \in {"0", "1"}, NEW b, b = IF w = "1" THEN q.begin + s ELSE q.begin,
           NEW x, x = Partition(id, b, s, Path(q.begin, d + k), <<w>>)
    PROVE  x \in Block /\ InPlace(x, d + k)
<1>1. /\ d \in Nat /\ d <= RootLog /\ RootLog \in Nat /\ q.begin \in Nat
      /\ q.partition_size = Pow2[RootLog - d]
      /\ End(q) = q.begin + q.partition_size /\ End(q) <= RootSize /\ RootSize \in Nat
    BY WayOf, Root, BlockFields DEF InPlace
<1>2. PICK n \in Nat, m \in Nat : /\ n = RootLog - d /\ m = n - k /\ m < n /\ m = RootLog - (d + k)
                                  /\ m = RootLog - d - k
    <2>1. /\ RootLog - d \in Nat /\ RootLog - d - k \in Nat /\ RootLog - d - k < RootLog - d
          /\ RootLog - d - k = RootLog - (d + k)
        BY <1>1
    <2>. QED BY <2>1
<1>3. s = Pow2[m] /\ s >= 1 /\ Pow2[n] >= 2 * s /\ Pow2[n] \in Nat
    BY <1>2, Pow2Grows, Pow2Steps
<1>4. PICK e \in Nat : q.begin = e * Pow2[n]
    BY <1>1, <1>2 DEF InPlace
<1>5. d + k \in 0..RootLog /\ d + k \in Nat /\ d + k # 0 /\ k \in Nat /\ k >= 1 /\ d + k <= RootLog + 1
    BY <1>1
<1>7. /\ Digit(q.begin, m) = "0" /\ Digit(q.begin + s, m) = "1"
      /\ Quot(q.begin + s, m + 1) = Quot(q.begin, m + 1)
      /\ \E g \in Nat : q.begin = g * s /\ q.begin + s = (g + 1) * s
    BY <1>1, <1>2, <1>3, <1>4, LeftEnd
<1>8. /\ b \in Nat /\ Digit(b, m) = w /\ Quot(b, m + 1) = Quot(q.begin, m + 1)
      /\ \E g \in Nat : b = g * s
    <2>1. PICK g \in Nat : q.begin = g * s /\ q.begin + s = (g + 1) * s
        BY <1>7
    <2>2. g + 1 \in Nat
        OBVIOUS
    <2>. QED BY <1>1, <1>3, <1>7, <2>1, <2>2
<1>9. b + s <= RootSize /\ b < RootSize /\ q.begin < RootSize
    <2>1. q.begin + Pow2[n] <= RootSize
        BY <1>1, <1>2
    <2>2. b <= q.begin + s /\ q.begin <= b
        BY <1>1, <1>3
    <2>. QED BY <1>1, <1>3, <1>8, <2>1, <2>2
<1>10. Path(b, d + k) = Path(q.begin, d + k)
    <2>1. RootLog - (d + k - 1) = m + 1 /\ d + k >= 1
        BY <1>1, <1>2
    <2>2. Quot(b, RootLog - (d + k - 1)) = Quot(q.begin, RootLog - (d + k - 1))
        BY <1>8, <2>1
    <2>3. PICK c \in Nat : c = d + k
        BY <1>5
    <2>4. Path(b, c) = Path(q.begin, c)
        BY <1>1, <1>5, <1>8, <1>9, <2>1, <2>2, <2>3, PathsAgree
    <2>. QED BY <2>3, <2>4
<1>11. /\ x.begin = b /\ x.partition_size = s /\ x.father = Path(q.begin, d + k) /\ x.side = <<w>>
       /\ x \in Block
    <2>1. Path(q.begin, d + k) \in Seq(Sides)
        BY <1>1, <1>5, PathIsList
    <2>2. <<w>> \in Seq(Sides)
        BY DEF Sides
    <2>3. PICK f, side : f = Path(q.begin, d + k) /\ side = <<w>>
        OBVIOUS
    <2>4. x = Partition(id, b, s, f, side)
        BY <2>3
    <2>5. /\ x.begin = b /\ x.partition_size = s /\ x.father = f /\ x.side = side
          /\ (/\ id \in Nat /\ b \in Nat /\ s \in Nat /\ f \in Seq(Sides) /\ side \in Seq(Sides)
              /\ 0 \in 0..TAMANO_MEMORIA) => x \in Block
        BY ONLY <2>4 DEF Partition, Block
    <2>6. 0 \in 0..TAMANO_MEMORIA
        BY Numbers
    <2>. QED BY <1>8, <2>1, <2>2, <2>3, <2>5, <2>6
<1>12. InPlace(x, d + k)
    <2>1. Side(b, d + k) = w
        BY <1>2, <1>5, <1>8 DEF Side
    <2>2. x.father = Path(x.begin, d + k) /\ x.side = <<Side(x.begin, d + k)>>
        BY <1>10, <1>11, <2>1
    <2>3. End(x) <= RootSize
        BY <1>9, <1>11 DEF End
    <2>4. x.partition_size = Pow2[RootLog - (d + k)] /\ \E g \in Nat : x.begin = g * x.partition_size
        BY <1>2, <1>3, <1>8, <1>11
    <2>. QED BY <1>5, <2>2, <2>3, <2>4 DEF InPlace
<1>. QED BY <1>11, <1>12

\* The blocks that n halvings leave of block q, of depth d: FREE and in their places, with new
\* ids, one after the other where q was, the right halves on the side "1".
HalvedInto(qs, q, d, n) ==
    /\ qs \in Seq(Block) /\ Len(qs) = n + 1
    /\ \A k \in 1..(n + 1) : (\E c : InPlace(qs[k], c)) /\ qs[k].status = "FREE"
    /\ n = 0 => qs[1] = q
    /\ n # 0 => \A k \in 1..(n + 1) :
            /\ qs[k].id \in (partition_count + 1)..(partition_count + 2 * n)
            /\ qs[k].occupied_timestamp = 0 /\ qs[k].lru_timestamp = 0
    /\ \A k, l \in 1..(n + 1) : k # l => qs[k].id # qs[l].id
    /\ qs[1].begin = q.begin /\ qs[1].partition_size = Pow2[RootLog - d - n]
    /\ End(qs[n + 1]) = End(q)
    /\ \A k \in 1..n : End(qs[k]) = qs[k + 1].begin
    /\ \A k \in 2..(n + 1) : qs[k].side = <<"1">>

\* Halving a FREE block n times (create_childs, again and again) leaves the leaf and
\* the n right halves: blocks in place, one after the other, each with an id of its own.
LEMMA HalvedBlocks ==
    ASSUME NEW q \in Block, NEW d, InPlace(q, d), q.status = "FREE",
           NEW n \in 0..(RootLog - d), partition_count \in Nat, NEW qs, qs = Halved(q, n)
    PROVE  HalvedInto(qs, q, d, n)
<1>. DEFINE size(k) == Pow2[RootLog - d - k]
            Left(k) == Partition(partition_count + 2 * k - 1, q.begin, size(k), Path(q.begin, d + k), <<"0">>)
            Right(k) == Partition(partition_count + 2 * k, q.begin + size(k), size(k), Path(q.begin, d + k), <<"1">>)
            leaf == IF n = 0 THEN q ELSE Left(n)
            rights == [k \in 1..n |-> Right(n + 1 - k)]
<1>0. /\ d \in Nat /\ d <= RootLog /\ RootLog \in Nat /\ q.begin \in Nat /\ n \in Nat
      /\ q.partition_size = Pow2[RootLog - d] /\ RootLog - d \in Nat /\ n <= RootLog - d
      /\ End(q) = q.begin + q.partition_size
      /\ q.father \o q.side = Path(q.begin, d + 1)
    <2>1. /\ d \in Nat /\ d <= RootLog /\ q.partition_size = Pow2[RootLog - d] /\ RootLog - d \in Nat
          /\ q.father \o q.side = Path(q.begin, d + 1)
        BY WayOf
    <2>2. q.begin \in Nat /\ End(q) = q.begin + q.partition_size
        BY BlockFields
    <2>3. RootLog \in Nat
        BY Root
    <2>4. n \in Nat /\ n <= RootLog - d
        BY <2>1
    <2>. QED BY <2>1, <2>2, <2>3, <2>4
<1>1. ASSUME NEW k \in 1..n
      PROVE  /\ q.partition_size \div Pow2[k] = size(k)
             /\ q.father \o q.side \o Zeros(k) = Path(q.begin, d + k)
             /\ size(k) \in Nat /\ RootLog - d - k \in Nat
    <2>1. k \in Nat /\ k >= 1 /\ k <= RootLog - d /\ d + k <= RootLog + 1 /\ RootLog - d - k \in Nat
        BY <1>0
    <2>2. Pow2[RootLog - d] \div Pow2[k] = Pow2[RootLog - d - k]
        BY <1>0, <2>1, Pow2Quotient
    <2>3. PICK e \in Nat : q.begin = e * Pow2[RootLog - d]
        BY <1>0 DEF InPlace
    <2>4. Path(q.begin, d + 1) \o Zeros(k) = Path(q.begin, d + k)
        <3>1. q.begin \in Nat /\ d \in Nat /\ d <= RootLog /\ k \in Nat
            BY <1>0, <2>1
        <3>2. k >= 1 /\ d + k <= RootLog + 1
            BY <2>1
        <3>. QED BY ONLY <2>3, <3>1, <3>2, ZerosFollowAt
    <2>. QED BY <1>0, <2>1, <2>2, <2>4, Pow2Steps
<1>2. qs = <<leaf>> \o rights
    <2>1. CASE n = 0
        BY <2>1 DEF Halved
    <2>2. CASE n # 0
        <3>1. n \in 1..n
            BY <1>0, <2>2
        <3>2. leaf = Partition(partition_count + 2 * n - 1, q.begin, q.partition_size \div Pow2[n],
                               q.father \o q.side \o Zeros(n), <<"0">>)
            BY <1>1, <2>2, <3>1
        <3>3. ASSUME NEW k \in 1..n
              PROVE  Right(n + 1 - k) =
                        Partition(partition_count + 2 * (n + 1 - k),
                                  q.begin + (q.partition_size \div Pow2[n + 1 - k]),
                                  q.partition_size \div Pow2[n + 1 - k],
                                  q.father \o q.side \o Zeros(n + 1 - k), <<"1">>)
            <4>1. PICK j \in 1..n : j = n + 1 - k
                BY <1>0
            <4>2. /\ q.partition_size \div Pow2[j] = size(j)
                  /\ q.father \o q.side \o Zeros(j) = Path(q.begin, d + j)
                BY <1>1
            <4>. QED BY <4>1, <4>2
        <3>. QED BY <2>2, <3>2, <3>3 DEF Halved, Zeros
    <2>. HIDE DEF leaf, rights
    <2>. QED BY <2>1, <2>2
<1>3. ASSUME NEW k \in 1..n
      PROVE  /\ Right(k) \in Block /\ InPlace(Right(k), d + k)
             /\ Right(k).id = partition_count + 2 * k /\ Right(k).begin = q.begin + size(k)
             /\ Right(k).partition_size = size(k) /\ Right(k).status = "FREE"
             /\ Right(k).occupied_timestamp = 0 /\ Right(k).lru_timestamp = 0
             /\ Right(k).side = <<"1">> /\ End(Right(k)) = q.begin + size(k) + size(k)
    <2>1. partition_count + 2 * k \in Nat /\ k \in 1..(RootLog - d)
        BY <1>0
    <2>2. PICK s \in Nat : s = size(k) /\ s = Pow2[RootLog - d - k]
        BY <1>1
    <2>3. PICK id, b : id \in Nat /\ id = partition_count + 2 * k /\ b = q.begin + s
        BY <2>1
    <2>4. PICK x : x = Partition(id, b, s, Path(q.begin, d + k), <<"1">>) /\ x = Right(k)
        BY <2>2, <2>3
    <2>5. b = IF "1" = "1" THEN q.begin + s ELSE q.begin
        BY <2>3
    <2>6. x \in Block /\ InPlace(x, d + k)
        BY <2>1, <2>2, <2>3, <2>4, <2>5, NewBlock
    <2>7. /\ x.id = id /\ x.begin = b /\ x.partition_size = s /\ x.status = "FREE"
          /\ x.occupied_timestamp = 0 /\ x.lru_timestamp = 0 /\ x.side = <<"1">>
        BY ONLY <2>4 DEF Partition
    <2>8. End(x) = b + s
        BY <2>7 DEF End
    <2>. HIDE DEF Right, size
    <2>. QED BY <2>2, <2>3, <2>4, <2>6, <2>7, <2>8
<1>4. ASSUME n # 0
      PROVE  /\ leaf \in Block /\ InPlace(leaf, d + n)
             /\ leaf.id = partition_count + 2 * n - 1 /\ leaf.begin = q.begin
             /\ leaf.partition_size = size(n) /\ leaf.status = "FREE"
             /\ leaf.occupied_timestamp = 0 /\ leaf.lru_timestamp = 0
    <2>1. partition_count + 2 * n - 1 \in Nat /\ n \in 1..(RootLog - d) /\ n \in 1..n
        BY <1>0, <1>4
    <2>2. PICK s \in Nat : s = size(n) /\ s = Pow2[RootLog - d - n]
        BY <1>1, <2>1
    <2>3. PICK id, b : id \in Nat /\ id = partition_count + 2 * n - 1 /\ b = q.begin
        BY <2>1
    <2>4. PICK x : x = Partition(id, b, s, Path(q.begin, d + n), <<"0">>) /\ x = leaf
        BY <1>4, <2>2, <2>3
    <2>5. b = IF "0" = "1" THEN q.begin + s ELSE q.begin
        BY <2>3
    <2>6. x \in Block /\ InPlace(x, d + n)
        BY <2>1, <2>2, <2>3, <2>4, <2>5, NewBlock
    <2>7. /\ x.id = id /\ x.begin = b /\ x.partition_size = s /\ x.status = "FREE"
          /\ x.occupied_timestamp = 0 /\ x.lru_timestamp = 0
        BY ONLY <2>4 DEF Partition
    <2>. HIDE DEF leaf, size
    <2>. QED BY <2>2, <2>3, <2>4, <2>6, <2>7
<1>5. /\ n = 0 => leaf = q
      /\ leaf \in Block /\ leaf.begin = q.begin /\ leaf.status = "FREE"
      /\ leaf.partition_size = size(n) /\ End(leaf) = q.begin + size(n)
      /\ \E c : InPlace(leaf, c)
    <2>1. CASE n = 0
        <3>1. RootLog - d - n = RootLog - d
            BY <1>0, <2>1
        <3>. QED BY <1>0, <2>1, <3>1
    <2>2. CASE n # 0
        <3>. HIDE DEF leaf, size
        <3>. QED BY <1>4, <2>2 DEF End
    <2>. HIDE DEF leaf, size
    <2>. QED BY <2>1, <2>2
<1>6. ASSUME NEW k \in 1..n
      PROVE  Right(n + 1 - k) \in Block /\ n + 1 - k \in 1..n
    <2>1. n + 1 - k \in 1..n
        BY <1>0
    <2>. QED BY <1>3, <2>1
<1>7. /\ qs \in Seq(Block) /\ Len(qs) = n + 1 /\ qs[1] = leaf
      /\ \A k \in 2..(n + 1) : qs[k] = Right(n + 2 - k) /\ n + 2 - k \in 1..n
    <2>. HIDE DEF leaf, Right
    <2>1. rights \in [1..n -> Block]
        BY <1>6
    <2>2. rights \in Seq(Block) /\ Len(rights) = n
        <3>1. rights \in Seq(Block)
            BY <1>0, <2>1, SeqDef
        <3>. QED BY <1>0, <2>1, <3>1, LenProperties
    <2>3. \A k \in 1..n : rights[k] = Right(n + 1 - k)
        OBVIOUS
    <2>. HIDE DEF rights
    <2>4. <<leaf>> \in Seq(Block) /\ Len(<<leaf>>) = 1 /\ <<leaf>>[1] = leaf
        BY <1>5
    <2>5. /\ qs \in Seq(Block) /\ Len(qs) = 1 + n
          /\ \A k \in 1..(1 + n) : qs[k] = IF k <= 1 THEN <<leaf>>[k] ELSE rights[k - 1]
        BY <1>2, <2>2, <2>4, ConcatProperties
    <2>6. ASSUME NEW k \in 2..(n + 1) PROVE qs[k] = Right(n + 2 - k) /\ n + 2 - k \in 1..n
        <3>1. k - 1 \in 1..n /\ n + 1 - (k - 1) = n + 2 - k /\ n + 2 - k \in 1..n /\ ~(k <= 1)
              /\ k \in 1..(1 + n)
            BY <1>0
        <3>. QED BY <2>3, <2>5, <3>1
    <2>7. 1 \in 1..(1 + n)
        BY <1>0
    <2>8. qs[1] = leaf
        BY <2>4, <2>5, <2>7
    <2>9. 1 + n = n + 1
        BY <1>0
    <2>. QED BY <2>5, <2>6, <2>8, <2>9
<1>. HIDE DEF leaf, rights, Left, Right
<1>8. ASSUME NEW k \in 1..n
      PROVE  2 * size(k) = (IF k = 1 THEN q.partition_size ELSE size(k - 1)) /\ size(k) \in Nat /\ size(k) >= 1
    <2>1. RootLog - d - k \in Nat
        BY <1>1
    <2>2. Pow2[RootLog - d - k + 1] = 2 * size(k) /\ size(k) \in Nat /\ size(k) >= 1
        BY <2>1, Pow2Steps
    <2>3. RootLog - d - k + 1 = IF k = 1 THEN RootLog - d ELSE RootLog - d - (k - 1)
        BY <1>0
    <2>. QED BY <1>0, <2>2, <2>3
<1>. HIDE DEF size
<1>9. ASSUME NEW k \in 1..(n + 1) PROVE (\E c : InPlace(qs[k], c)) /\ qs[k].status = "FREE"
    <2>1. CASE k = 1
        BY <1>5, <1>7, <2>1
    <2>2. CASE k # 1
        <3>1. k \in 2..(n + 1)
            BY <2>2
        <3>. QED BY <1>3, <1>7, <3>1
    <2>. QED BY <2>1, <2>2
<1>10. ASSUME n # 0, NEW k \in 1..(n + 1)
       PROVE  /\ qs[k].id = IF k = 1 THEN partition_count + 2 * n - 1 ELSE partition_count + 2 * (n + 2 - k)
              /\ qs[k].id \in (partition_count + 1)..(partition_count + 2 * n)
              /\ qs[k].occupied_timestamp = 0 /\ qs[k].lru_timestamp = 0
    <2>1. CASE k = 1
        <3>1. partition_count + 2 * n - 1 \in (partition_count + 1)..(partition_count + 2 * n)
            BY <1>0, <1>10
        <3>. QED BY <1>4, <1>7, <1>10, <2>1, <3>1
    <2>2. CASE k # 1
        <3>1. k \in 2..(n + 1)
            BY <2>2
        <3>2. PICK j \in 1..n : j = n + 2 - k /\ qs[k] = Right(j)
            BY <1>7, <3>1
        <3>3. partition_count + 2 * j \in (partition_count + 1)..(partition_count + 2 * n)
            BY <1>0
        <3>. QED BY <1>3, <2>2, <3>2, <3>3
    <2>. QED BY <2>1, <2>2
<1>11. ASSUME NEW k \in 1..(n + 1), NEW l \in 1..(n + 1), k # l PROVE qs[k].id # qs[l].id
    <2>1. n # 0
        BY <1>0, <1>11
    <2>2. /\ qs[k].id = IF k = 1 THEN partition_count + 2 * n - 1 ELSE partition_count + 2 * (n + 2 - k)
          /\ qs[l].id = IF l = 1 THEN partition_count + 2 * n - 1 ELSE partition_count + 2 * (n + 2 - l)
        BY <1>10, <2>1
    <2>. QED BY <1>0, <1>11, <2>2
<1>12. ASSUME NEW k \in 1..n PROVE End(qs[k]) = qs[k + 1].begin
    <2>1. PICK j \in 1..n : j = n + 1 - k /\ qs[k + 1] = Right(j)
        <3>1. k + 1 \in 2..(n + 1) /\ n + 2 - (k + 1) = n + 1 - k
            BY <1>0
        <3>. QED BY <1>7, <3>1
    <2>2. CASE k = 1
        <3>1. j = n
            BY <1>0, <2>1, <2>2
        <3>. QED BY <1>3, <1>5, <1>7, <2>1, <2>2, <3>1
    <2>3. CASE k # 1
        <3>1. j + 1 \in 1..n /\ k \in 2..(n + 1) /\ n + 2 - k = j + 1 /\ j + 1 # 1 /\ j + 1 - 1 = j
            BY <1>0, <2>1, <2>3
        <3>2. End(qs[k]) = q.begin + size(j + 1) + size(j + 1)
            BY <1>3, <1>7, <3>1
        <3>3. 2 * size(j + 1) = size(j) /\ size(j + 1) \in Nat
            BY <1>8, <3>1
        <3>4. q.begin + size(j + 1) + size(j + 1) = q.begin + size(j)
            BY <1>0, <3>3
        <3>. QED BY <1>3, <2>1, <3>2, <3>4
    <2>. QED BY <2>2, <2>3
<1>13. End(qs[n + 1]) = End(q)
    <2>1. CASE n = 0
        BY <1>5, <1>7, <2>1
    <2>2. CASE n # 0
        <3>1. n + 1 \in 2..(n + 1) /\ n + 2 - (n + 1) = 1 /\ 1 \in 1..n
            BY <1>0, <2>2
        <3>2. End(qs[n + 1]) = q.begin + size(1) + size(1)
            BY <1>3, <1>7, <3>1
        <3>3. 2 * size(1) = q.partition_size /\ size(1) \in Nat
            BY <1>8, <3>1
        <3>. QED BY <1>0, <3>2, <3>3
    <2>. QED BY <2>1, <2>2
<1>14. \A k \in 2..(n + 1) : qs[k].side = <<"1">>
    BY <1>3, <1>7
<1>. QED BY <1>5, <1>7, <1>9, <1>10, <1>11, <1>12, <1>13, <1>14 DEF size, HalvedInto

-----------------------------------------------------------------------------
(* Lists of blocks.                                                        *)

\* The least index of a set of numbers that is not empty.
LEMMA FirstIsLeast ==
    ASSUME NEW S \in SUBSET Nat, S # {}
    PROVE  First(S) \in S /\ \A j \in S : First(S) <= j
<1>1. \E i \in S : \A j \in S : i <= j
    BY LeastNumber
<1>. QED BY <1>1 DEF First

\* The blocks follow one another through the whole memory, each in its place, with ids of their
\* own.
Shape(ps) ==
    /\ ps \in Seq(Block) /\ Len(ps) >= 1
    /\ ps[1].begin = 0 /\ End(ps[Len(ps)]) = RootSize
    /\ \A i \in 1..(Len(ps) - 1) : End(ps[i]) = ps[i + 1].begin
    /\ \A i \in DOMAIN ps : \E d : InPlace(ps[i], d)
    /\ \A i, j \in DOMAIN ps : i # j => ps[i].id # ps[j].id

\* Where the payload of a block is found.
Spot(q) == <<q.id, q.begin, q.partition_size, q.content_size>>

\* The occupied blocks of a list.
Kept(ps) == {Spot(ps[i]) : i \in {j \in DOMAIN ps : IsOccupied(ps[j])}}

\* Blocks that were not merged and could be.
BuddiesAt(ps, i, j) ==
    /\ ps[i].status = "FREE" /\ ps[j].status = "FREE" /\ ps[i].id # ps[j].id
    /\ ps[i].father = ps[j].father /\ ps[i].partition_size = ps[j].partition_size

\* No two of them are, or none but the block with this id and another.
NoBuddies(ps) == \A i, j \in DOMAIN ps : ~BuddiesAt(ps, i, j)
NoBuddiesBut(ps, id) ==
    \A i, j \in DOMAIN ps : (ps[i].id # id /\ ps[j].id # id) => ~BuddiesAt(ps, i, j)

\* A list's blocks are typed and not empty.
LEMMA ShapeFields ==
    ASSUME NEW ps, Shape(ps)
    PROVE  /\ Len(ps) \in Nat /\ Len(ps) >= 1 /\ DOMAIN ps = 1..Len(ps)
           /\ \A i \in DOMAIN ps :
                /\ ps[i] \in Block /\ ps[i].partition_size \in Nat /\ ps[i].partition_size >= 1
                /\ ps[i].begin \in Nat /\ End(ps[i]) \in Nat
                /\ End(ps[i]) = ps[i].begin + ps[i].partition_size
                /\ End(ps[i]) <= RootSize /\ ps[i].begin < RootSize
                /\ ps[i].begin < End(ps[i]) /\ ps[i].begin <= End(ps[i])
<1>1. ps \in Seq(Block) /\ Len(ps) \in Nat /\ DOMAIN ps = 1..Len(ps)
    <2>1. ps \in Seq(Block)
        BY DEF Shape
    <2>. QED BY <2>1, LenProperties
<1>2. ASSUME NEW i \in DOMAIN ps
      PROVE  /\ ps[i] \in Block /\ ps[i].partition_size \in Nat /\ ps[i].partition_size >= 1
             /\ ps[i].begin \in Nat /\ End(ps[i]) \in Nat
             /\ End(ps[i]) = ps[i].begin + ps[i].partition_size
             /\ End(ps[i]) <= RootSize /\ ps[i].begin < RootSize
             /\ ps[i].begin < End(ps[i]) /\ ps[i].begin <= End(ps[i])
    <2>1. ps[i] \in Block
        BY <1>1, ElementOfSeq
    <2>2. PICK d : InPlace(ps[i], d)
        BY DEF Shape
    <2>3. ps[i].partition_size >= 1 /\ ps[i].begin < RootSize
        BY <2>1, <2>2, WayOf
    <2>4. End(ps[i]) <= RootSize
        BY <2>2 DEF InPlace
    <2>5. /\ ps[i].partition_size \in Nat /\ ps[i].begin \in Nat /\ End(ps[i]) \in Nat
          /\ End(ps[i]) = ps[i].begin + ps[i].partition_size
        BY <2>1, BlockFields
    <2>6. ps[i].begin < End(ps[i]) /\ ps[i].begin <= End(ps[i])
        BY <2>3, <2>5
    <2>. QED BY <2>1, <2>3, <2>4, <2>5, <2>6
<1>. QED BY <1>1, <1>2 DEF Shape

\* Of two blocks, the one that comes first in the list ends before the other begins.
LEMMA InOrderOfAddress ==
    ASSUME NEW ps, Shape(ps), NEW i \in DOMAIN ps, NEW j \in DOMAIN ps, i < j
    PROVE  End(ps[i]) <= ps[j].begin
<1>. DEFINE S == {n \in Nat : i + 1 + n \in DOMAIN ps => End(ps[i]) <= ps[i + 1 + n].begin}
<1>0. /\ Len(ps) \in Nat /\ DOMAIN ps = 1..Len(ps) /\ i \in Nat /\ j \in Nat
      /\ \A k \in 1..(Len(ps) - 1) : End(ps[k]) = ps[k + 1].begin
    BY ShapeFields DEF Shape
<1>1. 0 \in S
    <2>. SUFFICES ASSUME i + 1 \in DOMAIN ps PROVE End(ps[i]) <= ps[i + 1].begin
        BY <1>0
    <2>1. i \in 1..(Len(ps) - 1)
        BY <1>0
    <2>2. End(ps[i]) = ps[i + 1].begin /\ End(ps[i]) \in Nat
        BY <1>0, <2>1, ShapeFields
    <2>. QED BY <2>2
<1>2. ASSUME NEW n \in Nat, n \in S PROVE n + 1 \in S
    <2>. SUFFICES ASSUME i + 1 + (n + 1) \in DOMAIN ps PROVE End(ps[i]) <= ps[i + 1 + (n + 1)].begin
        OBVIOUS
    <2>1. PICK k : k = i + 1 + n /\ k \in 1..(Len(ps) - 1) /\ k \in DOMAIN ps
                   /\ i + 1 + (n + 1) = k + 1 /\ k + 1 \in DOMAIN ps
        BY <1>0
    <2>2. End(ps[i]) <= ps[k].begin
        BY <1>2, <2>1
    <2>3. End(ps[k]) = ps[k + 1].begin /\ ps[k].begin <= End(ps[k])
        <3>1. End(ps[k]) = ps[k + 1].begin
            BY <1>0, <2>1
        <3>. QED BY <2>1, <3>1, ShapeFields
    <2>4. End(ps[i]) \in Nat /\ ps[k].begin \in Nat /\ End(ps[k]) \in Nat
        BY <2>1, ShapeFields
    <2>. QED BY <2>1, <2>2, <2>3, <2>4
<1>3. \A n \in Nat : n \in S
    <2>. HIDE DEF S
    <2>. QED BY <1>1, <1>2, NumberInduction
<1>4. PICK n \in Nat : j = i + 1 + n
    <2>1. j - i - 1 \in Nat /\ j = i + 1 + (j - i - 1)
        BY <1>0
    <2>. QED BY <2>1
<1>. QED BY <1>3, <1>4

\* The search by id finds the block.
LEMMA FoundById ==
    ASSUME NEW ps, Shape(ps), NEW i \in DOMAIN ps
    PROVE  IndexOfId(ps, ps[i].id) = i
<1>1. \A j \in DOMAIN ps : ps[j].id = ps[i].id => j = i
    BY DEF Shape
<1>. QED BY <1>1 DEF IndexOfId

\* Two blocks that could be merged are neighbours.
LEMMA BuddiesAreNeighbours ==
    ASSUME NEW ps, Shape(ps), NEW i \in DOMAIN ps, NEW j \in DOMAIN ps,
           ps[i].father = ps[j].father, ps[i].partition_size = ps[j].partition_size, i < j
    PROVE  j = i + 1 /\ ps[i].side = <<"0">>
<1>1. PICK d, c : InPlace(ps[i], d) /\ InPlace(ps[j], c)
    BY DEF Shape
<1>2. ps[i] \in Block /\ ps[j] \in Block /\ End(ps[i]) <= ps[j].begin
    BY InOrderOfAddress, ShapeFields
<1>3. /\ End(ps[i]) = ps[j].begin /\ d - 1 \in 0..RootLog
      /\ \E e \in Nat : ps[i].begin = e * Pow2[RootLog - (d - 1)]
    BY <1>1, <1>2, BuddyBlocks
<1>4. ps[i].side = <<"0">>
    BY <1>1, <1>2, <1>3, LeftBuddySide
<1>5. j = i + 1
    <2>. SUFFICES ASSUME j # i + 1 PROVE FALSE
        OBVIOUS
    <2>1. /\ i + 1 \in DOMAIN ps /\ i + 1 < j /\ i \in 1..(Len(ps) - 1)
        BY ShapeFields
    <2>2. End(ps[i]) = ps[i + 1].begin
        BY <2>1 DEF Shape
    <2>3. End(ps[i + 1]) <= ps[j].begin
        BY <2>1, InOrderOfAddress
    <2>4. /\ ps[i + 1].begin \in Nat /\ ps[i + 1].partition_size \in Nat /\ ps[i + 1].partition_size >= 1
          /\ End(ps[i + 1]) = ps[i + 1].begin + ps[i + 1].partition_size
          /\ ps[j].begin \in Nat
        BY <2>1, ShapeFields
    <2>. QED BY <1>3, <2>2, <2>3, <2>4
<1>. QED BY <1>4, <1>5

\* A list without its element at i: those behind it move up by one.
LEMMA RemoveAtProperties ==
    ASSUME NEW S, NEW s \in Seq(S), NEW i \in DOMAIN s
    PROVE  /\ RemoveAt(s, i) \in Seq(S) /\ Len(RemoveAt(s, i)) = Len(s) - 1
           /\ DOMAIN RemoveAt(s, i) = 1..(Len(s) - 1)
           /\ \A j \in 1..(Len(s) - 1) :
                RemoveAt(s, i)[j] = IF j < i THEN s[j] ELSE s[j + 1]
<1>. DEFINE a == SubSeq(s, 1, i - 1)
            b == SubSeq(s, i + 1, Len(s))
            r == a \o b
<1>1. Len(s) \in Nat /\ DOMAIN s = 1..Len(s) /\ i \in 1..Len(s)
    BY LenProperties
<1>2. /\ a \in Seq(S) /\ Len(a) = i - 1
      /\ \A j \in 1..(i - 1) : a[j] = s[j]
    <2>1. \A j \in 1..(i - 1) : s[j] \in S
        BY <1>1, ElementOfSeq
    <2>. QED BY <1>1, <2>1, SubSeqProperties
<1>3. /\ b \in Seq(S) /\ Len(b) = Len(s) - i
      /\ \A j \in 1..(Len(s) - i) : b[j] = s[j + i]
    <2>1. \A j \in (i + 1)..Len(s) : s[j] \in S
        BY <1>1, ElementOfSeq
    <2>. QED BY <1>1, <2>1, SubSeqProperties
<1>. HIDE DEF a, b
<1>4. /\ r \in Seq(S) /\ Len(r) = Len(a) + Len(b)
      /\ \A j \in 1..(Len(a) + Len(b)) : r[j] = IF j <= Len(a) THEN a[j] ELSE b[j - Len(a)]
    BY <1>2, <1>3, ConcatProperties
<1>5. RemoveAt(s, i) = r
    BY DEF RemoveAt, a, b
<1>. HIDE DEF r
<1>6. Len(r) = Len(s) - 1 /\ DOMAIN r = 1..(Len(s) - 1)
    BY <1>1, <1>2, <1>3, <1>4, LenProperties
<1>7. \A j \in 1..(Len(s) - 1) : r[j] = IF j < i THEN s[j] ELSE s[j + 1]
    <2>. TAKE j \in 1..(Len(s) - 1)
    <2>1. CASE j < i
        BY <1>1, <1>2, <1>3, <1>4, <2>1
    <2>2. CASE ~(j < i)
        <3>1. j - (i - 1) \in 1..(Len(s) - i) /\ j - (i - 1) + i = j + 1 /\ ~(j <= i - 1)
            BY <1>1, <2>2
        <3>2. r[j] = b[j - (i - 1)]
            <4>0. /\ Len(s) \in Nat /\ i \in 1..Len(s) /\ Len(a) = i - 1 /\ Len(b) = Len(s) - i
                  /\ j \in 1..(Len(s) - 1)
                BY <1>1, <1>2, <1>3
            <4>1. j \in 1..(Len(a) + Len(b)) /\ ~(j <= Len(a))
                <5>1. Len(a) + Len(b) = Len(s) - 1
                    BY <4>0
                <5>. QED BY <2>2, <4>0, <5>1, SMTT(30)
            <4>2. r[j] = b[j - Len(a)]
                BY <1>4, <4>1
            <4>. QED BY <1>2, <4>2
        <3>3. b[j - (i - 1)] = s[j + 1]
            BY <1>3, <3>1
        <3>. QED BY <2>2, <3>2, <3>3
    <2>. QED BY <2>1, <2>2
<1>. QED BY <1>4, <1>5, <1>6, <1>7

-----------------------------------------------------------------------------
(* consolidate.                                                            *)

\* Two FREE buddies, next to each other in the list, become one block.
LEMMA MergeKeeps ==
    ASSUME NEW ps, Shape(ps), NEW i \in 1..(Len(ps) - 1), BuddiesAt(ps, i, i + 1),
           NEW qs, qs = Merge(ps, i)
    PROVE  /\ Shape(qs) /\ Len(qs) = Len(ps) - 1 /\ i \in DOMAIN qs
           /\ qs[i].id = ps[i].id /\ qs[i].status = "FREE"
           /\ qs[i].occupied_timestamp = ps[i].occupied_timestamp
           /\ qs[i].lru_timestamp = ps[i].lru_timestamp
           /\ \A j \in DOMAIN qs : j # i => \E k \in DOMAIN ps : k \notin {i, i + 1} /\ qs[j] = ps[k]
           /\ \A k \in DOMAIN ps : k \notin {i, i + 1} => \E j \in DOMAIN qs : j # i /\ qs[j] = ps[k]
<1>. DEFINE m == Joined(ps[i], ps[i + 1])
            ms == [ps EXCEPT ![i] = m]
<1>1. /\ Len(ps) \in Nat /\ Len(ps) >= 1 /\ DOMAIN ps = 1..Len(ps) /\ ps \in Seq(Block)
      /\ i \in DOMAIN ps /\ i + 1 \in DOMAIN ps /\ i \in Nat /\ i < i + 1
      /\ ps[i] \in Block /\ ps[i + 1] \in Block
    BY ShapeFields DEF Shape
<1>2. PICK d : InPlace(ps[i], d)
    BY <1>1 DEF Shape
<1>3. PICK c : InPlace(ps[i + 1], c)
    BY <1>1 DEF Shape
<1>4. /\ m \in Block /\ InPlace(m, d - 1)
      /\ m.begin = ps[i].begin /\ End(m) = End(ps[i + 1]) /\ m.id = ps[i].id /\ m.status = ps[i].status
      /\ m.occupied_timestamp = ps[i].occupied_timestamp /\ m.lru_timestamp = ps[i].lru_timestamp
    <2>1. End(ps[i]) <= ps[i + 1].begin
        BY <1>1, InOrderOfAddress
    <2>2. ps[i].father = ps[i + 1].father /\ ps[i].partition_size = ps[i + 1].partition_size
        BY DEF BuddiesAt
    <2>3. PICK q, r : q = ps[i] /\ r = ps[i + 1]
        OBVIOUS
    <2>4. m = Joined(q, r)
        BY <2>3
    <2>5. PICK x : x = m
        OBVIOUS
    <2>. HIDE DEF m
    <2>6. /\ x \in Block /\ InPlace(x, d - 1)
          /\ x.begin = q.begin /\ End(x) = End(r) /\ x.id = q.id /\ x.status = q.status
          /\ x.occupied_timestamp = q.occupied_timestamp /\ x.lru_timestamp = q.lru_timestamp
        <3>1. /\ q \in Block /\ r \in Block /\ InPlace(q, d) /\ InPlace(r, c) /\ q.father = r.father
              /\ q.partition_size = r.partition_size /\ End(q) <= r.begin
            BY <1>1, <1>2, <1>3, <2>1, <2>2, <2>3
        <3>2. x = Joined(q, r)
            BY <2>4, <2>5
        <3>. QED BY ONLY <3>1, <3>2, MergedBlock
    <2>. QED BY <2>3, <2>5, <2>6
<1>5. qs = RemoveAt(ms, i + 1)
    BY DEF Merge
<1>. HIDE DEF m
<1>6. ms \in Seq(Block) /\ Len(ms) = Len(ps) /\ DOMAIN ms = DOMAIN ps /\ ms[i] = m
      /\ \A j \in DOMAIN ps : j # i => ms[j] = ps[j]
    BY <1>1, <1>4, ExceptSeq
<1>. HIDE DEF ms
<1>7. /\ qs \in Seq(Block) /\ Len(qs) = Len(ps) - 1 /\ DOMAIN qs = 1..(Len(ps) - 1)
      /\ \A j \in 1..(Len(ps) - 1) : qs[j] = IF j < i + 1 THEN ms[j] ELSE ms[j + 1]
    <2>1. PICK s : s = ms
        OBVIOUS
    <2>2. s \in Seq(Block) /\ i + 1 \in DOMAIN s /\ Len(s) = Len(ps) /\ qs = RemoveAt(s, i + 1)
        BY <1>1, <1>5, <1>6, <2>1
    <2>3. /\ RemoveAt(s, i + 1) \in Seq(Block) /\ Len(RemoveAt(s, i + 1)) = Len(s) - 1
          /\ DOMAIN RemoveAt(s, i + 1) = 1..(Len(s) - 1)
          /\ \A j \in 1..(Len(s) - 1) :
                RemoveAt(s, i + 1)[j] = IF j < i + 1 THEN s[j] ELSE s[j + 1]
        BY ONLY <2>2, RemoveAtProperties
    <2>. QED BY <2>1, <2>2, <2>3
<1>8. /\ qs[i] = m
      /\ \A j \in 1..(Len(ps) - 1) : j < i => qs[j] = ps[j] /\ j \in DOMAIN ps
      /\ \A j \in 1..(Len(ps) - 1) : j > i => qs[j] = ps[j + 1] /\ j + 1 \in DOMAIN ps
    <2>1. qs[i] = m
        BY <1>1, <1>6, <1>7
    <2>2. ASSUME NEW j \in 1..(Len(ps) - 1), j < i PROVE qs[j] = ps[j] /\ j \in DOMAIN ps
        <3>1. j \in DOMAIN ps /\ j < i + 1 /\ j # i
            BY <1>1, <2>2
        <3>. QED BY <1>6, <1>7, <3>1
    <2>3. ASSUME NEW j \in 1..(Len(ps) - 1), j > i PROVE qs[j] = ps[j + 1] /\ j + 1 \in DOMAIN ps
        <3>1. j + 1 \in DOMAIN ps /\ ~(j < i + 1) /\ j + 1 # i
            BY <1>1, <2>3
        <3>. QED BY <1>6, <1>7, <3>1
    <2>. QED BY <2>1, <2>2, <2>3
<1>9. ASSUME NEW j \in DOMAIN qs, j # i PROVE \E k \in DOMAIN ps : k \notin {i, i + 1} /\ qs[j] = ps[k]
    <2>1. CASE j < i
        BY <1>1, <1>7, <1>8, <2>1
    <2>2. CASE j > i
        <3>1. j + 1 \notin {i, i + 1} /\ qs[j] = ps[j + 1] /\ j + 1 \in DOMAIN ps
            BY <1>1, <1>7, <1>8, <2>2
        <3>. QED BY <3>1
    <2>. QED BY <1>1, <1>7, <1>9, <2>1, <2>2
<1>10. ASSUME NEW k \in DOMAIN ps, k \notin {i, i + 1} PROVE \E j \in DOMAIN qs : j # i /\ qs[j] = ps[k]
    <2>1. CASE k < i
        <3>1. k \in 1..(Len(ps) - 1)
            BY <1>1, <2>1
        <3>. QED BY <1>1, <1>7, <1>8, <2>1, <3>1
    <2>2. CASE k > i + 1
        <3>1. k - 1 \in 1..(Len(ps) - 1) /\ k - 1 > i /\ k - 1 + 1 = k /\ k - 1 # i
            BY <1>1, <2>2
        <3>2. qs[k - 1] = ps[k]
            BY <1>8, <3>1
        <3>. QED BY <1>7, <3>1, <3>2
    <2>. QED BY <1>1, <1>10, <2>1, <2>2
<1>11. \A j \in DOMAIN qs : \E e : InPlace(qs[j], e)
    <2>1. \A k \in DOMAIN ps : \E e : InPlace(ps[k], e)
        BY DEF Shape
    <2>. QED BY <1>4, <1>8, <1>9, <2>1
<1>12. ASSUME NEW j \in DOMAIN qs, NEW l \in DOMAIN qs, j # l PROVE qs[j].id # qs[l].id
    <2>0. \A k, n \in DOMAIN ps : k # n => ps[k].id # ps[n].id
        BY DEF Shape
    <2>1. \A k \in DOMAIN qs : qs[k].id = ps[IF k <= i THEN k ELSE k + 1].id
                               /\ (IF k <= i THEN k ELSE k + 1) \in DOMAIN ps
        <3>. TAKE k \in DOMAIN qs
        <3>1. CASE k = i
            BY <1>1, <1>4, <1>8, <3>1
        <3>2. CASE k < i
            BY <1>1, <1>7, <1>8, <3>2
        <3>3. CASE k > i
            <4>1. ~(k <= i)
                BY <1>1, <1>7, <3>3
            <4>. QED BY <1>1, <1>7, <1>8, <3>3, <4>1
        <3>. QED BY <1>1, <1>7, <3>1, <3>2, <3>3
    <2>2. (IF j <= i THEN j ELSE j + 1) # (IF l <= i THEN l ELSE l + 1)
        BY <1>1, <1>7, <1>12
    <2>. QED BY <2>0, <2>1, <2>2
<1>13. ASSUME NEW j \in 1..(Len(qs) - 1) PROVE End(qs[j]) = qs[j + 1].begin
    <2>0. /\ \A k \in 1..(Len(ps) - 1) : End(ps[k]) = ps[k + 1].begin
          /\ j \in 1..(Len(ps) - 1) /\ j + 1 \in 1..(Len(ps) - 1) /\ j \in Nat
        BY <1>1, <1>7 DEF Shape
    <2>1. CASE j + 1 < i
        <3>1. j < i
            BY <1>1, <2>0, <2>1
        <3>. QED BY <1>8, <2>0, <2>1, <3>1
    <2>2. CASE j + 1 = i
        <3>1. j < i
            BY <1>1, <2>0, <2>2
        <3>. QED BY <1>4, <1>8, <2>0, <2>2, <3>1
    <2>3. CASE j = i
        <3>1. j + 1 > i /\ End(ps[j + 1]) = ps[j + 1 + 1].begin
            BY <1>1, <2>0, <2>3
        <3>. QED BY <1>4, <1>8, <2>0, <2>3, <3>1
    <2>4. CASE j > i
        <3>1. j + 1 > i /\ End(ps[j + 1]) = ps[j + 1 + 1].begin
            BY <1>1, <2>0, <2>4
        <3>. QED BY <1>8, <2>0, <2>4, <3>1
    <2>5. j + 1 < i \/ j + 1 = i \/ j = i \/ j > i
        BY <1>1, <2>0
    <2>. QED BY <2>1, <2>2, <2>3, <2>4, <2>5
<1>14. qs[1].begin = 0
    <2>1. ps[1].begin = 0
        BY DEF Shape
    <2>2. CASE i = 1
        BY <1>4, <1>8, <2>1, <2>2
    <2>3. CASE i # 1
        <3>1. 1 \in 1..(Len(ps) - 1) /\ 1 < i
            BY <1>1, <2>3
        <3>. QED BY <1>8, <2>1, <3>1
    <2>. QED BY <2>2, <2>3
<1>15. End(qs[Len(qs)]) = RootSize
    <2>1. End(ps[Len(ps)]) = RootSize
        BY DEF Shape
    <2>2. CASE i = Len(ps) - 1
        <3>1. i + 1 = Len(ps)
            BY <1>1, <2>2
        <3>. QED BY <1>4, <1>7, <1>8, <2>1, <2>2, <3>1
    <2>3. CASE i # Len(ps) - 1
        <3>1. Len(ps) - 1 \in 1..(Len(ps) - 1) /\ Len(ps) - 1 > i /\ Len(ps) - 1 + 1 = Len(ps)
            BY <1>1, <2>3
        <3>2. qs[Len(ps) - 1] = ps[Len(ps)]
            BY <1>8, <3>1
        <3>. QED BY <1>7, <2>1, <3>2
    <2>. QED BY <2>2, <2>3
<1>16. Len(qs) >= 1 /\ i \in DOMAIN qs
    BY <1>1, <1>7
<1>17. qs[i].status = "FREE"
    BY <1>4, <1>8 DEF BuddiesAt
<1>18. Shape(qs)
    BY <1>7, <1>11, <1>12, <1>13, <1>14, <1>15, <1>16 DEF Shape
<1>. QED BY <1>4, <1>7, <1>8, <1>9, <1>10, <1>16, <1>17, <1>18

\* The list at.list came of ps by merging FREE blocks, the last one into the block at.id.
MergedInto(ps, at) ==
    /\ Shape(at.list) /\ Kept(at.list) = Kept(ps)
    /\ \E i \in DOMAIN at.list : at.list[i].id = at.id /\ at.list[i].status = "FREE"
    /\ \A j \in DOMAIN at.list : \E k \in DOMAIN ps :
            /\ at.list[j].id = ps[k].id
            /\ at.list[j].occupied_timestamp = ps[k].occupied_timestamp
            /\ at.list[j].lru_timestamp = ps[k].lru_timestamp

\* Nothing happens without a FREE buddy; with one the list gets shorter, and all else stays.
LEMMA MergedOnceKeeps ==
    ASSUME NEW ps, NEW at, MergedInto(ps, at)
    PROVE  /\ MergedInto(ps, MergedOnce(at))
           /\ NoBuddiesBut(at.list, at.id) => NoBuddiesBut(MergedOnce(at).list, MergedOnce(at).id)
           /\ FreeBuddies(at.list, at.id) = {} => MergedOnce(at) = at
           /\ FreeBuddies(at.list, at.id) # {} => Len(MergedOnce(at).list) = Len(at.list) - 1
<1>. DEFINE rs == at.list
            buddies == FreeBuddies(rs, at.id)
            left == First(buddies \cup {IndexOfId(rs, at.id)})
<1>1. CASE buddies = {}
    <2>1. MergedOnce(at) = at
        BY <1>1 DEF MergedOnce
    <2>. QED BY <1>1, <2>1
<1>2. CASE buddies # {}
    <2>1. Shape(rs) /\ MergedOnce(at) = [list |-> Merge(rs, left), id |-> rs[left].id]
        BY <1>2 DEF MergedOnce, MergedInto
    <2>2. PICK k \in DOMAIN rs : rs[k].id = at.id /\ rs[k].status = "FREE"
        BY DEF MergedInto
    <2>3. IndexOfId(rs, at.id) = k
        BY <2>1, <2>2, FoundById
    <2>4. DOMAIN rs = 1..Len(rs) /\ Len(rs) \in Nat
        BY <2>1, ShapeFields
    <2>5. \A j \in buddies : /\ j \in DOMAIN rs /\ rs[j].status = "FREE" /\ rs[j].id # rs[k].id
                             /\ rs[j].father = rs[k].father /\ rs[j].partition_size = rs[k].partition_size
        BY <2>3 DEF FreeBuddies, AreBuddies
    <2>. HIDE DEF buddies
    <2>6. left \in buddies \cup {k} /\ \A j \in buddies \cup {k} : left <= j
        <3>1. buddies \cup {k} \in SUBSET Nat /\ buddies \cup {k} # {}
            BY <2>4, <2>5
        <3>. QED BY <2>3, <3>1, FirstIsLeast
    <2>. HIDE DEF left, rs
    <2>7. left \in 1..(Len(rs) - 1) /\ k \in {left, left + 1} /\ BuddiesAt(rs, left, left + 1)
        <3>1. CASE left = k
            <4>1. PICK j \in buddies : j \in DOMAIN rs
                BY <1>2, <2>5
            <4>2. k < j
                BY <2>4, <2>5, <2>6, <3>1, <4>1
            <4>3. j = k + 1
                BY <2>1, <2>2, <2>5, <4>1, <4>2, BuddiesAreNeighbours
            <4>4. BuddiesAt(rs, k, j)
                BY <2>2, <2>5, <4>1 DEF BuddiesAt
            <4>5. left \in 1..(Len(rs) - 1)
                BY <2>4, <3>1, <4>1, <4>3
            <4>. QED BY <3>1, <4>3, <4>4, <4>5
        <3>2. CASE left # k
            <4>1. left \in buddies /\ left \in DOMAIN rs /\ left < k
                BY <2>4, <2>5, <2>6, <3>2
            <4>2. k = left + 1
                BY <2>1, <2>2, <2>5, <4>1, BuddiesAreNeighbours
            <4>3. BuddiesAt(rs, left, k)
                BY <2>2, <2>5, <4>1 DEF BuddiesAt
            <4>4. left \in 1..(Len(rs) - 1)
                BY <2>4, <4>1, <4>2
            <4>. QED BY <4>2, <4>3, <4>4
        <3>. QED BY <3>1, <3>2
    <2>8. PICK qs : qs = Merge(rs, left) /\ MergedOnce(at).list = qs /\ MergedOnce(at).id = rs[left].id
        BY <2>1
    <2>9. /\ Shape(qs) /\ Len(qs) = Len(rs) - 1 /\ left \in DOMAIN qs
          /\ qs[left].id = rs[left].id /\ qs[left].status = "FREE"
          /\ qs[left].occupied_timestamp = rs[left].occupied_timestamp
          /\ qs[left].lru_timestamp = rs[left].lru_timestamp
          /\ \A j \in DOMAIN qs : j # left => \E n \in DOMAIN rs : n \notin {left, left + 1} /\ qs[j] = rs[n]
          /\ \A n \in DOMAIN rs : n \notin {left, left + 1} => \E j \in DOMAIN qs : j # left /\ qs[j] = rs[n]
        BY <2>1, <2>7, <2>8, MergeKeeps
    <2>10. Kept(qs) = Kept(rs)
        <3>1. ASSUME NEW x \in Kept(qs) PROVE x \in Kept(rs)
            <4>1. PICK j \in DOMAIN qs : IsOccupied(qs[j]) /\ x = Spot(qs[j])
                BY DEF Kept
            <4>2. j # left
                BY <2>9, <4>1 DEF IsOccupied
            <4>3. PICK n \in DOMAIN rs : qs[j] = rs[n]
                BY <2>9, <4>2
            <4>. QED BY <4>1, <4>3 DEF Kept
        <3>2. ASSUME NEW x \in Kept(rs) PROVE x \in Kept(qs)
            <4>1. PICK n \in DOMAIN rs : IsOccupied(rs[n]) /\ x = Spot(rs[n])
                BY DEF Kept
            <4>2. n \notin {left, left + 1}
                BY <2>7, <4>1 DEF IsOccupied, BuddiesAt
            <4>3. PICK j \in DOMAIN qs : qs[j] = rs[n]
                BY <2>9, <4>2
            <4>. QED BY <4>1, <4>3 DEF Kept
        <3>. QED BY <3>1, <3>2
    <2>11. left \in DOMAIN rs
        BY <2>4, <2>7
    <2>12. ASSUME NEW j \in DOMAIN qs
           PROVE  \E n \in DOMAIN ps : /\ qs[j].id = ps[n].id
                                       /\ qs[j].occupied_timestamp = ps[n].occupied_timestamp
                                       /\ qs[j].lru_timestamp = ps[n].lru_timestamp
        <3>1. PICK n \in DOMAIN rs : /\ qs[j].id = rs[n].id
                                     /\ qs[j].occupied_timestamp = rs[n].occupied_timestamp
                                     /\ qs[j].lru_timestamp = rs[n].lru_timestamp
            <4>1. CASE j = left
                BY <2>9, <2>11, <4>1
            <4>2. CASE j # left
                BY <2>9, <4>2
            <4>. QED BY <4>1, <4>2
        <3>. QED BY <3>1 DEF MergedInto, rs
    <2>13. Kept(rs) = Kept(ps)
        BY DEF MergedInto, rs
    <2>14. MergedInto(ps, MergedOnce(at))
        BY <2>8, <2>9, <2>10, <2>12, <2>13 DEF MergedInto
    <2>15. ASSUME NoBuddiesBut(rs, at.id) PROVE NoBuddiesBut(qs, rs[left].id)
        <3>. SUFFICES ASSUME NEW j \in DOMAIN qs, NEW l \in DOMAIN qs,
                             qs[j].id # rs[left].id, qs[l].id # rs[left].id
                      PROVE  ~BuddiesAt(qs, j, l)
            BY DEF NoBuddiesBut
        <3>1. PICK n \in DOMAIN rs : n \notin {left, left + 1} /\ qs[j] = rs[n]
            BY <2>9
        <3>2. PICK o \in DOMAIN rs : o \notin {left, left + 1} /\ qs[l] = rs[o]
            BY <2>9
        <3>3. rs[n].id # at.id /\ rs[o].id # at.id
            <4>1. n # k /\ o # k
                BY <2>7, <3>1, <3>2
            <4>. QED BY <2>1, <2>2, <4>1 DEF Shape
        <3>4. ~BuddiesAt(rs, n, o)
            BY <2>15, <3>3 DEF NoBuddiesBut
        <3>. QED BY <3>1, <3>2, <3>4 DEF BuddiesAt
    <2>. QED BY <1>2, <2>8, <2>9, <2>14, <2>15 DEF rs, buddies
<1>. QED BY <1>1, <1>2

\* A list that loses one while one is counted.
LEMMA OneOnEach ==
    ASSUME NEW a \in Nat, NEW n \in Nat, NEW b, b = a - 1
    PROVE  b + (n + 1) = a + n
OBVIOUS

\* How often consolidate has merged.
AfterMerges(ps, id, f) == f = [n \in Nat |-> IF n = 0 THEN [list |-> ps, id |-> id] ELSE MergedOnce(f[n - 1])]
Merges(ps, id) == CHOOSE f : AfterMerges(ps, id, f)

\* What Consolidated returns, by that function.
LEMMA ConsolidatedIs ==
    ASSUME NEW ps, NEW id
    PROVE  Consolidated(ps, id) = Merges(ps, id)[Len(ps)].list
BY DEF Consolidated, Merges, AfterMerges

\* The function is defined.
LEMMA MergesEquation ==
    ASSUME NEW ps, NEW id
    PROVE  AfterMerges(ps, id, Merges(ps, id))
<1>. DEFINE start == [list |-> ps, id |-> id]
            Follows(f, k) == f[0] = start /\ \A i \in 1..k : f[i] = MergedOnce(f[i - 1])
            Some == {k \in Nat : \E f : Follows(f, k)}
            F == [n \in Nat |-> (CHOOSE f : Follows(f, n))[n]]
<1>. HIDE DEF start
<1>1. \A k \in Nat : k \in Some
    <2>1. 0 \in Some
        <3>1. Follows([i \in 0..0 |-> start], 0)
            OBVIOUS
        <3>. QED BY <3>1
    <2>2. ASSUME NEW k \in Nat, k \in Some PROVE k + 1 \in Some
        <3>1. PICK f : Follows(f, k)
            BY <2>2
        <3>2. PICK g : g = [i \in 0..(k + 1) |-> IF i = k + 1 THEN MergedOnce(f[k]) ELSE f[i]]
            OBVIOUS
        <3>3. \A i \in 0..k : i \in 0..(k + 1) /\ i # k + 1
            OBVIOUS
        <3>4. /\ \A i \in 0..k : g[i] = f[i]
              /\ g[k + 1] = MergedOnce(f[k])
            BY <3>2, <3>3
        <3>5. ASSUME NEW i \in 1..(k + 1) PROVE g[i] = MergedOnce(g[i - 1])
            <4>1. CASE i = k + 1
                <5>1. i - 1 = k /\ k \in 0..k
                    BY <4>1
                <5>2. g[i - 1] = f[k]
                    BY <3>4, <5>1
                <5>. QED BY <3>4, <4>1, <5>2
            <4>2. CASE i # k + 1
                <5>1. i \in 1..k /\ i \in 0..k /\ i - 1 \in 0..k
                    BY <4>2
                <5>. QED BY <3>1, <3>4, <5>1
            <4>. QED BY <4>1, <4>2
        <3>6. Follows(g, k + 1)
            <4>1. g[0] = start
                BY <3>1, <3>4
            <4>. QED BY <3>5, <4>1
        <3>. HIDE DEF Follows
        <3>. QED BY <3>6
    <2>. HIDE DEF Some
    <2>. QED BY <2>1, <2>2, NumberInduction
<1>2. ASSUME NEW k \in Nat, NEW l \in Nat, k <= l, NEW f, NEW g, Follows(f, k), Follows(g, l)
      PROVE  f[k] = g[k]
    <2>. DEFINE Same == {i \in Nat : i <= k => f[i] = g[i]}
    <2>1. 0 \in Same
        BY <1>2
    <2>2. ASSUME NEW i \in Nat, i \in Same PROVE i + 1 \in Same
        <3>. SUFFICES ASSUME i + 1 <= k PROVE f[i + 1] = g[i + 1]
            OBVIOUS
        <3>1. i + 1 \in 1..k /\ i + 1 \in 1..l /\ i + 1 - 1 = i /\ f[i] = g[i]
            BY <1>2, <2>2
        <3>2. f[i + 1] = MergedOnce(f[i]) /\ g[i + 1] = MergedOnce(g[i])
            BY <1>2, <3>1
        <3>. QED BY <3>1, <3>2
    <2>. HIDE DEF Same
    <2>3. k \in Same
        BY <2>1, <2>2, NumberInduction
    <2>. QED BY <2>3 DEF Same
<1>. HIDE DEF Follows
<1>3. \A n \in Nat : Follows(CHOOSE f : Follows(f, n), n)
    BY <1>1
<1>4. ASSUME NEW n \in Nat PROVE F[n] = IF n = 0 THEN start ELSE MergedOnce(F[n - 1])
    <2>1. PICK f : f = (CHOOSE g : Follows(g, n)) /\ Follows(f, n) /\ F[n] = f[n]
        BY <1>3
    <2>2. CASE n = 0
        BY <2>1, <2>2 DEF Follows
    <2>3. CASE n # 0
        <3>1. n - 1 \in Nat /\ n - 1 <= n /\ n \in 1..n
            BY <2>3
        <3>2. PICK h : h = (CHOOSE g : Follows(g, n - 1)) /\ Follows(h, n - 1) /\ F[n - 1] = h[n - 1]
            BY <1>3, <3>1
        <3>3. h[n - 1] = f[n - 1]
            BY <1>2, <2>1, <3>1, <3>2
        <3>4. f[n] = MergedOnce(f[n - 1])
            BY <2>1, <3>1 DEF Follows
        <3>. QED BY <2>1, <2>3, <3>2, <3>3, <3>4
    <2>. QED BY <2>2, <2>3
<1>5. F = [n \in Nat |-> F[n]]
    OBVIOUS
<1>. HIDE DEF F
<1>6. F = [n \in Nat |-> IF n = 0 THEN start ELSE MergedOnce(F[n - 1])]
    BY <1>4, <1>5
<1>7. AfterMerges(ps, id, F)
    BY <1>6 DEF AfterMerges, start
<1>. QED BY <1>7 DEF Merges

\* What consolidate does to a list with block id just freed.
LEMMA ConsolidatedKeeps ==
    ASSUME NEW ps, Shape(ps), NEW i \in DOMAIN ps, ps[i].status = "FREE",
           NEW id, id = ps[i].id, NEW qs, qs = Consolidated(ps, id)
    PROVE  /\ Shape(qs) /\ Kept(qs) = Kept(ps)
           /\ \A j \in DOMAIN qs : \E k \in DOMAIN ps :
                /\ qs[j].id = ps[k].id
                /\ qs[j].occupied_timestamp = ps[k].occupied_timestamp
                /\ qs[j].lru_timestamp = ps[k].lru_timestamp
           /\ NoBuddiesBut(ps, id) => NoBuddies(qs)
<1>1. PICK f : f = Merges(ps, id) /\ f = [n \in Nat |-> IF n = 0 THEN [list |-> ps, id |-> id] ELSE MergedOnce(f[n - 1])]
    BY MergesEquation DEF AfterMerges
<1>2. f[0] = [list |-> ps, id |-> id]
    BY <1>1
<1>3. \A n \in Nat : f[n + 1] = MergedOnce(f[n])
    <2>. TAKE n \in Nat
    <2>1. n + 1 \in Nat /\ n + 1 # 0 /\ n + 1 - 1 = n
        OBVIOUS
    <2>2. f[n + 1] = IF n + 1 = 0 THEN [list |-> ps, id |-> id] ELSE MergedOnce(f[n + 1 - 1])
        BY <1>1, <2>1
    <2>. QED BY <2>1, <2>2
<1>4. f[0].list = ps /\ f[0].id = id
    BY <1>2
<1>. DEFINE Done(n) == FreeBuddies(f[n].list, f[n].id) = {}
            S == {n \in Nat : /\ MergedInto(ps, f[n])
                              /\ NoBuddiesBut(ps, id) => NoBuddiesBut(f[n].list, f[n].id)
                              /\ Done(n) \/ Len(f[n].list) + n = Len(ps)}
<1>5. Len(ps) \in Nat
    BY ShapeFields
<1>6. 0 \in S
    <2>1. MergedInto(ps, f[0])
        BY <1>4 DEF MergedInto
    <2>. QED BY <1>4, <1>5, <2>1
<1>7. ASSUME NEW n \in Nat, n \in S PROVE n + 1 \in S
    <2>1. PICK at : at = f[n] /\ MergedOnce(at) = f[n + 1]
        BY <1>3
    <2>2. /\ MergedInto(ps, at)
          /\ NoBuddiesBut(ps, id) => NoBuddiesBut(at.list, at.id)
          /\ FreeBuddies(at.list, at.id) = {} \/ Len(at.list) + n = Len(ps)
        BY <1>7, <2>1
    <2>. HIDE DEF S
    <2>3. /\ MergedInto(ps, MergedOnce(at))
          /\ NoBuddiesBut(at.list, at.id) => NoBuddiesBut(MergedOnce(at).list, MergedOnce(at).id)
          /\ FreeBuddies(at.list, at.id) = {} => MergedOnce(at) = at
          /\ FreeBuddies(at.list, at.id) # {} => Len(MergedOnce(at).list) = Len(at.list) - 1
        BY <2>2, MergedOnceKeeps
    <2>4. Done(n + 1) \/ Len(f[n + 1].list) + (n + 1) = Len(ps)
        <3>1. CASE FreeBuddies(at.list, at.id) = {}
            BY <2>1, <2>3, <3>1
        <3>2. CASE FreeBuddies(at.list, at.id) # {}
            <4>1. Len(at.list) \in Nat
                BY <2>2, ShapeFields DEF MergedInto
            <4>2. Len(at.list) + n = Len(ps) /\ Len(f[n + 1].list) = Len(at.list) - 1
                BY <2>1, <2>2, <2>3, <3>2
            <4>3. PICK a \in Nat : a = Len(at.list)
                BY <4>1
            <4>4. PICK b : b = Len(f[n + 1].list)
                OBVIOUS
            <4>5. a + n = Len(ps) /\ b = a - 1
                BY <4>2, <4>3, <4>4
            <4>6. b + (n + 1) = Len(ps)
                <5>1. a \in Nat /\ b = a - 1 /\ n \in Nat
                    BY <4>3, <4>5
                <5>2. b + (n + 1) = a + n
                    BY <5>1, OneOnEach
                <5>. QED BY <4>5, <5>2
            <4>. HIDE DEF Done
            <4>. QED BY <4>4, <4>6
        <3>. QED BY <3>1, <3>2
    <2>5. /\ MergedInto(ps, f[n + 1])
          /\ NoBuddiesBut(ps, id) => NoBuddiesBut(f[n + 1].list, f[n + 1].id)
        BY <2>1, <2>2, <2>3
    <2>6. n + 1 \in Nat
        OBVIOUS
    <2>. HIDE DEF Done
    <2>. QED BY <2>4, <2>5, <2>6 DEF S
<1>8. Len(ps) \in S
    <2>. HIDE DEF S
    <2>. QED BY <1>5, <1>6, <1>7, NumberInduction
<1>9. PICK at : at = f[Len(ps)] /\ qs = at.list
    BY <1>1, ConsolidatedIs
<1>10. /\ MergedInto(ps, at)
       /\ NoBuddiesBut(ps, id) => NoBuddiesBut(qs, at.id)
       /\ FreeBuddies(qs, at.id) = {} \/ Len(qs) + Len(ps) = Len(ps)
    BY <1>8, <1>9
<1>11. FreeBuddies(qs, at.id) = {}
    <2>1. Len(qs) \in Nat /\ Len(qs) >= 1
        BY <1>9, <1>10, ShapeFields DEF MergedInto
    <2>. QED BY <1>5, <1>10, <2>1
<1>. HIDE DEF S, Done
<1>12. PICK k \in DOMAIN qs : qs[k].id = at.id /\ qs[k].status = "FREE"
    BY <1>9, <1>10 DEF MergedInto
<1>13. Shape(qs) /\ IndexOfId(qs, at.id) = k
    BY <1>9, <1>10, <1>12, FoundById DEF MergedInto
<1>14. ASSUME NoBuddiesBut(ps, id) PROVE NoBuddies(qs)
    <2>. SUFFICES ASSUME NEW a \in DOMAIN qs, NEW b \in DOMAIN qs, BuddiesAt(qs, a, b) PROVE FALSE
        BY DEF NoBuddies
    <2>1. qs[a].id = at.id \/ qs[b].id = at.id
        BY <1>10, <1>14 DEF NoBuddiesBut
    <2>2. \A j \in DOMAIN qs : qs[j].id = at.id => j = k
        BY <1>12, <1>13 DEF Shape
    <2>3. CASE a = k
        <3>1. b \in FreeBuddies(qs, at.id)
            BY <1>13, <2>3 DEF FreeBuddies, AreBuddies, BuddiesAt
        <3>. QED BY <1>11, <3>1
    <2>4. CASE b = k
        <3>1. a \in FreeBuddies(qs, at.id)
            BY <1>13, <2>4 DEF FreeBuddies, AreBuddies, BuddiesAt
        <3>. QED BY <1>11, <3>1
    <2>. QED BY <2>1, <2>2, <2>3, <2>4
<1>. QED BY <1>9, <1>10, <1>13, <1>14 DEF MergedInto

-----------------------------------------------------------------------------
(* The list after a payload got its block.                                 *)

\* The blocks qs instead of the one at i.
Inserted(ps, i, qs) == SubSeq(ps, 1, i - 1) \o qs \o SubSeq(ps, i + 1, Len(ps))

\* The blocks of rs are those of ps, and qs (n + 1 of them) for the one at i.
IsInserted(rs, ps, i, qs, n) ==
    /\ rs \in Seq(Block) /\ Len(rs) = Len(ps) + n /\ DOMAIN rs = 1..(Len(ps) + n)
    /\ \A j \in 1..(i - 1) : rs[j] = ps[j]
    /\ \A j \in i..(i + n) : rs[j] = qs[j - i + 1]
    /\ \A j \in DOMAIN rs : j > i + n => rs[j] = ps[j - n]

\* That is what the insertion does.
LEMMA InsertedList ==
    ASSUME NEW ps \in Seq(Block), NEW i \in 1..Len(ps), NEW qs \in Seq(Block),
           NEW n \in Nat, Len(qs) = n + 1, NEW rs, rs = Inserted(ps, i, qs)
    PROVE  IsInserted(rs, ps, i, qs, n)
<1>. DEFINE a == SubSeq(ps, 1, i - 1)
            b == SubSeq(ps, i + 1, Len(ps))
            c == a \o qs
<1>1. Len(ps) \in Nat /\ i \in Nat /\ i >= 1 /\ i <= Len(ps)
    BY LenProperties
<1>2. a \in Seq(Block) /\ Len(a) = i - 1 /\ \A j \in 1..(i - 1) : a[j] = ps[j]
    <2>1. \A j \in 1..(i - 1) : ps[j] \in Block
        BY <1>1, ElementOfSeq
    <2>. QED BY <1>1, <2>1, SubSeqProperties
<1>3. b \in Seq(Block) /\ Len(b) = Len(ps) - i /\ \A j \in 1..(Len(ps) - i) : b[j] = ps[j + i]
    <2>1. \A j \in (i + 1)..Len(ps) : ps[j] \in Block
        BY <1>1, ElementOfSeq
    <2>. QED BY <1>1, <2>1, SubSeqProperties
<1>4. rs = c \o b
    BY DEF Inserted
<1>. HIDE DEF a, b
<1>5. /\ c \in Seq(Block) /\ Len(c) = i + n
      /\ \A j \in 1..(i + n) : c[j] = IF j <= i - 1 THEN a[j] ELSE qs[j - (i - 1)]
    <2>1. /\ c \in Seq(Block) /\ Len(c) = Len(a) + Len(qs)
          /\ \A j \in 1..(Len(a) + Len(qs)) : c[j] = IF j <= Len(a) THEN a[j] ELSE qs[j - Len(a)]
        BY <1>2, ConcatProperties
    <2>2. Len(a) + Len(qs) = i + n /\ Len(a) = i - 1
        <3>1. i - 1 + (n + 1) = i + n
            BY <1>1
        <3>. QED BY <1>2, <3>1
    <2>. QED BY <2>1, <2>2
<1>. HIDE DEF c
<1>6. /\ rs \in Seq(Block) /\ Len(rs) = Len(ps) + n
      /\ \A j \in 1..(Len(ps) + n) : rs[j] = IF j <= i + n THEN c[j] ELSE b[j - (i + n)]
    <2>1. /\ rs \in Seq(Block) /\ Len(rs) = Len(c) + Len(b)
          /\ \A j \in 1..(Len(c) + Len(b)) : rs[j] = IF j <= Len(c) THEN c[j] ELSE b[j - Len(c)]
        BY ONLY <1>3, <1>4, <1>5, ConcatProperties
    <2>2. Len(c) + Len(b) = Len(ps) + n /\ Len(c) = i + n
        <3>1. i + n + (Len(ps) - i) = Len(ps) + n
            BY <1>1
        <3>. QED BY <1>3, <1>5, <3>1
    <2>. QED BY <2>1, <2>2
<1>7. DOMAIN rs = 1..(Len(ps) + n)
    BY <1>6, LenProperties
<1>8. ASSUME NEW j \in 1..(i - 1) PROVE rs[j] = ps[j]
    <2>1. j \in 1..(Len(ps) + n) /\ j <= i + n /\ j \in 1..(i + n) /\ j <= i - 1
        BY <1>1
    <2>. QED BY <1>2, <1>5, <1>6, <2>1
<1>9. ASSUME NEW j \in i..(i + n) PROVE rs[j] = qs[j - i + 1]
    <2>1. j \in 1..(Len(ps) + n) /\ j <= i + n /\ j \in 1..(i + n) /\ ~(j <= i - 1) /\ j - (i - 1) = j - i + 1
        BY <1>1
    <2>. QED BY <1>5, <1>6, <2>1
<1>10. ASSUME NEW j \in DOMAIN rs, j > i + n PROVE rs[j] = ps[j - n]
    <2>0. j \in 1..(Len(ps) + n)
        BY <1>7
    <2>1. j \in 1..(Len(ps) + n) /\ ~(j <= i + n) /\ j - (i + n) \in 1..(Len(ps) - i) /\ j - (i + n) + i = j - n
        BY <1>1, <1>10, <2>0
    <2>. QED BY <1>3, <1>6, <2>1
<1>. QED BY <1>6, <1>7, <1>8, <1>9, <1>10 DEF IsInserted

\* Blocks qs (n + 1 of them) that cover what the one at i does.
Covers(qs, n, ps, i) ==
    /\ qs \in Seq(Block) /\ n \in Nat /\ Len(qs) = n + 1
    /\ \A k \in 1..(n + 1) : \E c : InPlace(qs[k], c)
    /\ \A k, l \in 1..(n + 1) : k # l => qs[k].id # qs[l].id
    /\ \A k \in 1..(n + 1), j \in DOMAIN ps : j # i => qs[k].id # ps[j].id
    /\ qs[1].begin = ps[i].begin /\ End(qs[n + 1]) = End(ps[i])
    /\ \A k \in 1..n : End(qs[k]) = qs[k + 1].begin

\* They are in place of it in the list rs.
Replaced(rs, qs, n, ps, i) ==
    /\ Shape(rs)
    /\ \A j \in DOMAIN rs : \/ \E k \in DOMAIN ps : k # i /\ rs[j] = ps[k]
                            \/ j - i + 1 \in 1..(n + 1) /\ rs[j] = qs[j - i + 1]
    /\ \A k \in DOMAIN ps : k # i => \E j \in DOMAIN rs : rs[j] = ps[k]
    /\ \A k \in 1..(n + 1) : i + k - 1 \in DOMAIN rs /\ rs[i + k - 1] = qs[k]

\* The list with them stays in shape.
LEMMA InsertedShape ==
    ASSUME NEW ps, Shape(ps), NEW i \in DOMAIN ps, NEW qs, NEW n, Covers(qs, n, ps, i),
           NEW rs, rs = Inserted(ps, i, qs)
    PROVE  Replaced(rs, qs, n, ps, i)
<1>0. /\ qs \in Seq(Block) /\ n \in Nat /\ Len(qs) = n + 1
      /\ \A k \in 1..(n + 1) : \E c : InPlace(qs[k], c)
      /\ \A k, l \in 1..(n + 1) : k # l => qs[k].id # qs[l].id
      /\ \A k \in 1..(n + 1), j \in DOMAIN ps : j # i => qs[k].id # ps[j].id
      /\ qs[1].begin = ps[i].begin /\ End(qs[n + 1]) = End(ps[i])
      /\ \A k \in 1..n : End(qs[k]) = qs[k + 1].begin
    BY DEF Covers
<1>01. n \in Nat
    BY <1>0
<1>. USE <1>01
<1>1. /\ Len(ps) \in Nat /\ Len(ps) >= 1 /\ DOMAIN ps = 1..Len(ps) /\ ps \in Seq(Block)
      /\ i \in 1..Len(ps) /\ i \in Nat /\ i >= 1 /\ i <= Len(ps)
    BY ShapeFields DEF Shape
<1>2. /\ rs \in Seq(Block) /\ Len(rs) = Len(ps) + n /\ DOMAIN rs = 1..(Len(ps) + n)
      /\ \A j \in 1..(i - 1) : rs[j] = ps[j]
      /\ \A j \in i..(i + n) : rs[j] = qs[j - i + 1]
      /\ \A j \in DOMAIN rs : j > i + n => rs[j] = ps[j - n]
    <2>1. ps \in Seq(Block) /\ i \in 1..Len(ps) /\ qs \in Seq(Block) /\ n \in Nat /\ Len(qs) = n + 1
          /\ rs = Inserted(ps, i, qs)
        BY <1>0, <1>1
    <2>2. IsInserted(rs, ps, i, qs, n)
        BY ONLY <2>1, InsertedList
    <2>. QED BY ONLY <2>2 DEF IsInserted
<1>03. n \in Nat
    BY <1>0
<1>3. /\ \A j \in DOMAIN rs : j < i => rs[j] = ps[j] /\ j \in DOMAIN ps
      /\ \A j \in DOMAIN rs : (j >= i /\ j <= i + n) => j - i + 1 \in 1..(n + 1) /\ rs[j] = qs[j - i + 1]
      /\ \A j \in DOMAIN rs : j > i + n => j - n \in DOMAIN ps /\ j - n > i /\ rs[j] = ps[j - n]
    <2>1. ASSUME NEW j \in DOMAIN rs, j < i PROVE rs[j] = ps[j] /\ j \in DOMAIN ps
        <3>1. j \in 1..(i - 1) /\ j \in 1..Len(ps)
            BY ONLY <1>1, <1>2, <2>1
        <3>. QED BY <1>1, <1>2, <3>1
    <2>2. ASSUME NEW j \in DOMAIN rs, j >= i, j <= i + n
          PROVE  j - i + 1 \in 1..(n + 1) /\ rs[j] = qs[j - i + 1]
        <3>1. j \in i..(i + n) /\ j - i + 1 \in 1..(n + 1)
            <4>. QED BY ONLY <1>1, <1>2, <1>03, <2>2
        <3>. QED BY <1>2, <3>1
    <2>3. ASSUME NEW j \in DOMAIN rs, j > i + n
          PROVE  j - n \in DOMAIN ps /\ j - n > i /\ rs[j] = ps[j - n]
        <3>1. j - n \in 1..Len(ps) /\ j - n > i
            <4>. QED BY ONLY <1>1, <1>2, <1>03, <2>3
        <3>. QED BY <1>1, <1>2, <2>3, <3>1
    <2>. QED BY <2>1, <2>2, <2>3
<1>4. ASSUME NEW k \in DOMAIN ps, k # i PROVE \E j \in DOMAIN rs : rs[j] = ps[k]
    <2>1. CASE k < i
        <3>1. k \in 1..(i - 1) /\ k \in DOMAIN rs
            BY <1>1, <1>2, <2>1
        <3>. QED BY <1>2, <3>1
    <2>2. CASE k > i
        <3>1. k + n > i + n /\ k + n \in DOMAIN rs /\ k + n - n = k
            BY <1>1, <1>2, <2>2
        <3>2. rs[k + n] = ps[k]
            BY <1>2, <3>1
        <3>. QED BY <3>1, <3>2
    <2>. QED BY <1>1, <1>4, <2>1, <2>2
<1>5. ASSUME NEW k \in 1..(n + 1) PROVE i + k - 1 \in DOMAIN rs /\ rs[i + k - 1] = qs[k]
    <2>1. PICK j : j = i + k - 1 /\ j \in 1..(Len(ps) + n) /\ j \in i..(i + n) /\ j - i + 1 = k
        <3>1. k \in 1..(n + 1)
            OBVIOUS
        <3>2. /\ i + k - 1 \in 1..(Len(ps) + n) /\ i + k - 1 \in i..(i + n)
              /\ (i + k - 1) - i + 1 = k
            BY ONLY <1>1, <1>03, <3>1
        <3>. QED BY <3>2
    <2>2. rs[j] = qs[k] /\ j \in DOMAIN rs
        BY <1>2, <2>1
    <2>. QED BY <2>1, <2>2
<1>6. \A j \in DOMAIN rs : \/ \E k \in DOMAIN ps : k # i /\ rs[j] = ps[k]
                           \/ j - i + 1 \in 1..(n + 1) /\ rs[j] = qs[j - i + 1]
    <2>. TAKE j \in DOMAIN rs
    <2>1. j \in Nat /\ (j < i \/ (j >= i /\ j <= i + n) \/ j > i + n)
        BY ONLY <1>1, <1>2, <1>03
    <2>2. CASE j < i
        <3>1. j # i
            BY <1>1, <2>1, <2>2
        <3>. QED BY <1>3, <2>2, <3>1
    <2>3. CASE j >= i /\ j <= i + n
        BY <1>3, <2>3
    <2>4. CASE j > i + n
        <3>1. j - n # i
            BY <1>1, <1>3, <2>1, <2>4
        <3>. QED BY <1>3, <2>4, <3>1
    <2>. QED BY <2>1, <2>2, <2>3, <2>4
<1>7. \A j \in DOMAIN rs : \E c : InPlace(rs[j], c)
    <2>1. \A k \in DOMAIN ps : \E c : InPlace(ps[k], c)
        BY DEF Shape
    <2>. QED BY <1>0, <1>6, <2>1
<1>8. ASSUME NEW j \in DOMAIN rs, NEW l \in DOMAIN rs, j < l PROVE rs[j].id # rs[l].id
    <2>0. /\ \A a, b \in DOMAIN ps : a # b => ps[a].id # ps[b].id
          /\ j \in Nat /\ l \in Nat
        BY <1>2 DEF Shape
    <2>1. CASE l < i
        <3>1. j < i
            BY <1>1, <1>8, <2>0, <2>1
        <3>. QED BY <1>1, <1>3, <1>8, <2>0, <2>1, <3>1
    <2>2. CASE l >= i /\ l <= i + n
        <3>1. rs[l] = qs[l - i + 1] /\ l - i + 1 \in 1..(n + 1)
            BY <1>1, <1>3, <2>0, <2>2
        <3>2. CASE j < i
            <4>1. rs[j] = ps[j] /\ j \in DOMAIN ps /\ j # i
                BY <1>1, <1>3, <2>0, <3>2
            <4>. QED BY <1>0, <3>1, <4>1
        <3>3. CASE j >= i
            <4>1. rs[j] = qs[j - i + 1] /\ j - i + 1 \in 1..(n + 1) /\ j - i + 1 # l - i + 1
                BY <1>1, <1>3, <1>8, <2>0, <2>2, <3>3
            <4>. QED BY <1>0, <3>1, <4>1
        <3>. QED BY <1>1, <2>0, <3>2, <3>3
    <2>3. CASE l > i + n
        <3>1. rs[l] = ps[l - n] /\ l - n \in DOMAIN ps /\ l - n > i
            BY <1>1, <1>3, <2>0, <2>3
        <3>2. CASE j < i
            <4>1. rs[j] = ps[j] /\ j \in DOMAIN ps /\ j # l - n
                BY <1>1, <1>3, <2>0, <2>3, <3>2
            <4>. QED BY <2>0, <3>1, <4>1
        <3>3. CASE j >= i /\ j <= i + n
            <4>1. rs[j] = qs[j - i + 1] /\ j - i + 1 \in 1..(n + 1)
                BY <1>1, <1>3, <2>0, <3>3
            <4>2. l - n # i
                BY <1>1, <2>0, <2>3
            <4>. QED BY <1>0, <3>1, <4>1, <4>2
        <3>4. CASE j > i + n
            <4>1. rs[j] = ps[j - n] /\ j - n \in DOMAIN ps /\ j - n # l - n
                BY <1>1, <1>3, <1>8, <2>0, <3>4
            <4>. QED BY <2>0, <3>1, <4>1
        <3>. QED BY <1>1, <2>0, <3>2, <3>3, <3>4
    <2>. QED BY <1>1, <2>0, <2>1, <2>2, <2>3
<1>9. \A j, l \in DOMAIN rs : j # l => rs[j].id # rs[l].id
    <2>. TAKE j, l \in DOMAIN rs
    <2>1. j \in Nat /\ l \in Nat
        BY <1>2
    <2>2. j # l => j < l \/ l < j
        BY <2>1
    <2>. QED BY <1>8, <2>2
<1>10. ASSUME NEW j \in 1..(Len(rs) - 1) PROVE End(rs[j]) = rs[j + 1].begin
    <2>0. /\ \A k \in 1..(Len(ps) - 1) : End(ps[k]) = ps[k + 1].begin
          /\ j \in DOMAIN rs /\ j + 1 \in DOMAIN rs /\ j \in Nat /\ j + 1 <= Len(ps) + n /\ j >= 1
        <3>1. \A k \in 1..(Len(ps) - 1) : End(ps[k]) = ps[k + 1].begin
            BY DEF Shape
        <3>2. j \in 1..(Len(ps) + n - 1)
            BY <1>1, <1>2
        <3>3. j \in 1..(Len(ps) + n) /\ j + 1 \in 1..(Len(ps) + n)
            BY ONLY <1>1, <1>01, <3>2
        <3>. QED BY <1>1, <1>2, <3>1, <3>2, <3>3
    <2>1. CASE j + 1 < i
        <3>1. j < i /\ j \in 1..(Len(ps) - 1)
            BY <1>1, <2>0, <2>1
        <3>2. rs[j] = ps[j] /\ rs[j + 1] = ps[j + 1]
            BY <1>1, <1>3, <2>0, <2>1, <3>1
        <3>. QED BY <2>0, <3>1, <3>2
    <2>2. CASE j + 1 = i
        <3>1. j < i /\ j \in 1..(Len(ps) - 1) /\ 1 \in 1..(n + 1) /\ i + 1 - 1 = i
            BY <1>1, <2>0, <2>2
        <3>2. rs[j] = ps[j] /\ rs[i] = qs[1]
            BY <1>1, <1>3, <1>5, <2>0, <3>1
        <3>. QED BY <1>0, <2>0, <2>2, <3>1, <3>2
    <2>3. CASE j >= i /\ j < i + n
        <3>1. PICK k \in 1..n : k = j - i + 1 /\ k \in 1..(n + 1) /\ k + 1 \in 1..(n + 1) /\ j + 1 - i + 1 = k + 1
            <4>1. j - i + 1 \in 1..n
                BY <1>1, <2>0, <2>3
            <4>2. j - i + 1 \in 1..(n + 1) /\ j - i + 1 + 1 \in 1..(n + 1) /\ j + 1 - i + 1 = j - i + 1 + 1
                BY <1>1, <2>0, <2>3
            <4>. QED BY <4>1, <4>2
        <3>2. rs[j] = qs[k]
            BY <1>1, <1>3, <2>0, <2>3, <3>1
        <3>3. rs[j + 1] = qs[k + 1]
            <4>1. j + 1 >= i /\ j + 1 <= i + n
                BY <1>1, <2>0, <2>3
            <4>. QED BY <1>1, <1>3, <2>0, <3>1, <4>1
        <3>. QED BY <1>0, <3>2, <3>3
    <2>4. CASE j = i + n
        <3>1. j - i + 1 = n + 1 /\ j + 1 > i + n /\ j + 1 - n = i + 1 /\ i \in 1..(Len(ps) - 1)
            BY <1>1, <2>0, <2>4
        <3>2. rs[j] = qs[n + 1]
            <4>1. j >= i /\ j <= i + n
                BY <1>1, <2>4
            <4>2. rs[j] = qs[j - i + 1]
                BY <1>3, <2>0, <4>1
            <4>. QED BY <3>1, <4>2
        <3>3. rs[j + 1] = ps[i + 1]
            <4>1. rs[j + 1] = ps[j + 1 - n]
                BY <1>3, <2>0, <3>1
            <4>. QED BY <3>1, <4>1
        <3>4. j + 1 - n = i + 1 /\ End(ps[i]) = ps[i + 1].begin
            BY <2>0, <3>1
        <3>. QED BY <1>0, <3>2, <3>3, <3>4
    <2>5. CASE j > i + n
        <3>1. j + 1 > i + n /\ j + 1 - n = j - n + 1 /\ j - n \in 1..(Len(ps) - 1)
            BY <1>1, <2>0, <2>5
        <3>2. rs[j] = ps[j - n] /\ rs[j + 1] = ps[j - n + 1]
            BY <1>1, <1>3, <2>0, <2>5, <3>1
        <3>. QED BY <2>0, <3>1, <3>2
    <2>6. j + 1 < i \/ j + 1 = i \/ (j >= i /\ j < i + n) \/ j = i + n \/ j > i + n
        <3>1. j \in Nat
            BY <2>0
        <3>. QED BY ONLY <1>1, <1>03, <3>1
    <2>. QED BY <2>1, <2>2, <2>3, <2>4, <2>5, <2>6
<1>11. rs[1].begin = 0
    <2>1. ps[1].begin = 0
        BY DEF Shape
    <2>2. CASE i = 1
        <3>1. 1 \in 1..(n + 1) /\ i + 1 - 1 = 1
            BY <2>2
        <3>. QED BY <1>0, <1>5, <2>1, <2>2, <3>1
    <2>3. CASE i # 1
        <3>1. 1 < i /\ 1 \in DOMAIN rs
            BY <1>1, <1>2, <2>3
        <3>. QED BY <1>1, <1>3, <2>1, <3>1
    <2>. QED BY <2>2, <2>3
<1>12. End(rs[Len(rs)]) = RootSize
    <2>1. End(ps[Len(ps)]) = RootSize
        BY DEF Shape
    <2>2. CASE i = Len(ps)
        <3>1. n + 1 \in 1..(n + 1) /\ i + (n + 1) - 1 = Len(ps) + n
            BY <1>1, <2>2
        <3>2. rs[Len(rs)] = qs[n + 1]
            BY <1>2, <1>5, <3>1
        <3>3. End(qs[n + 1]) = End(ps[i])
            BY <1>0
        <3>. QED BY <2>1, <2>2, <3>2, <3>3
    <2>3. CASE i # Len(ps)
        <3>1. Len(ps) + n > i + n /\ Len(ps) + n \in DOMAIN rs /\ Len(ps) + n - n = Len(ps)
            BY <1>1, <1>2, <2>3
        <3>2. rs[Len(ps) + n] = ps[Len(ps)]
            BY <1>1, <1>3, <3>1
        <3>. QED BY <1>2, <2>1, <3>2
    <2>. QED BY <2>2, <2>3
<1>13. Len(rs) >= 1
    BY <1>1, <1>2
<1>14. Shape(rs)
    BY <1>2, <1>7, <1>9, <1>10, <1>11, <1>12, <1>13 DEF Shape
<1>. QED BY <1>4, <1>5, <1>6, <1>14 DEF Replaced

\* A block that is occupied, or stamped, stays where it is.
LEMMA OccupiedBlock ==
    ASSUME NEW q \in Block, now \in Nat, NEW size \in 0..TAMANO_MEMORIA, NEW r, r = Occupy(q, size)
    PROVE  /\ r \in Block /\ r.id = q.id /\ r.begin = q.begin /\ r.partition_size = q.partition_size
           /\ r.father = q.father /\ r.side = q.side /\ r.status = "OCCUPIED" /\ r.content_size = size
           /\ r.occupied_timestamp = now /\ r.lru_timestamp = now /\ End(r) = End(q)
           /\ \A c : InPlace(q, c) => InPlace(r, c)
<1>1. /\ r \in Block /\ r.id = q.id /\ r.begin = q.begin /\ r.partition_size = q.partition_size
      /\ r.father = q.father /\ r.side = q.side /\ r.status = "OCCUPIED" /\ r.content_size = size
      /\ r.occupied_timestamp = now /\ r.lru_timestamp = now
    BY DEF Occupy, Block
<1>2. End(r) = End(q)
    BY <1>1 DEF End
<1>3. \A c : InPlace(q, c) => InPlace(r, c)
    BY <1>1, <1>2 DEF InPlace
<1>. QED BY <1>1, <1>2, <1>3

\* The list of store_payload_bs: block i halved n times and its leaf occupied.
Placed(ps, i, parts, size) ==
    ReplaceAt(SubSeq(ps, 1, i - 1) \o parts \o SubSeq(ps, i + 1, Len(ps)), i, Occupy(parts[1], size))

\* The n + 1 blocks with the leaf occupied.
LeafOccupied(qs, parts, n, size) ==
    /\ qs \in Seq(Block) /\ Len(qs) = n + 1 /\ qs[1] = Occupy(parts[1], size)
    /\ \A k \in 2..(n + 1) : qs[k] = parts[k]

\* Occupying the leaf changes the first of the blocks only.
LEMMA LeafIsOccupied ==
    ASSUME NEW parts \in Seq(Block), NEW n \in Nat, Len(parts) = n + 1, now \in Nat,
           NEW size \in 0..TAMANO_MEMORIA, NEW qs, qs = [parts EXCEPT ![1] = Occupy(parts[1], size)]
    PROVE  LeafOccupied(qs, parts, n, size)
<1>1. DOMAIN parts = 1..(n + 1) /\ 1 \in 1..Len(parts) /\ parts[1] \in Block
    BY LenProperties, ElementOfSeq
<1>2. Occupy(parts[1], size) \in Block
    BY <1>1, OccupiedBlock
<1>. QED BY <1>1, <1>2, ExceptSeq DEF LeafOccupied

\* A sequence with one element replaced.
Swapped(r, s, i, e) == r = [s EXCEPT ![i] = e]

\* Two sequences that differ at one position at most.
DiffersAt(r, s, i, e) ==
    /\ Len(r) = Len(s) /\ r[i] = e
    /\ \A j \in 1..Len(s) : j # i => r[j] = s[j]

\* Replacing one element leaves a sequence of the same set, that differs at its position only.
LEMMA SwappedSeq ==
    ASSUME NEW S, NEW s \in Seq(S), NEW i \in 1..Len(s), NEW e \in S, NEW r, Swapped(r, s, i, e)
    PROVE  r \in Seq(S) /\ DiffersAt(r, s, i, e)
BY ExceptSeq DEF Swapped, DiffersAt

\* Storing a payload puts the halves, the leaf among them occupied, in the block's place.
LEMMA PlacedIsInserted ==
    ASSUME NEW ps \in Seq(Block), NEW i \in 1..Len(ps), NEW parts \in Seq(Block),
           NEW n \in Nat, Len(parts) = n + 1, now \in Nat,
           NEW size \in 0..TAMANO_MEMORIA, NEW qs, LeafOccupied(qs, parts, n, size)
    PROVE  Placed(ps, i, parts, size) = Inserted(ps, i, qs)
<1>1. DOMAIN parts = 1..(n + 1) /\ 1 \in DOMAIN parts /\ parts[1] \in Block
    BY LenProperties, ElementOfSeq
<1>2. Occupy(parts[1], size) \in Block
    BY <1>1, OccupiedBlock
<1>3. /\ qs \in Seq(Block) /\ Len(qs) = n + 1 /\ qs[1] = Occupy(parts[1], size)
      /\ \A k \in 1..(n + 1) : k # 1 => qs[k] = parts[k]
    BY DEF LeafOccupied
<1>4. PICK as : as = Inserted(ps, i, parts) /\ IsInserted(as, ps, i, parts, n)
    BY InsertedList
<1>5. PICK bs : bs = Inserted(ps, i, qs) /\ IsInserted(bs, ps, i, qs, n)
    BY <1>3, InsertedList
<1>6. /\ Len(ps) \in Nat /\ i \in Nat /\ i >= 1 /\ i <= Len(ps) /\ n \in Nat
    BY LenProperties
<1>7. PICK cs : cs = Placed(ps, i, parts, size)
    OBVIOUS
<1>8. as \in Seq(Block) /\ i \in DOMAIN as /\ i \in 1..Len(as) /\ Len(as) = Len(ps) + n /\ DOMAIN as = 1..(Len(ps) + n)
    BY <1>4, <1>6 DEF IsInserted
<1>9. cs = [as EXCEPT ![i] = Occupy(parts[1], size)]
    BY <1>4, <1>7 DEF Placed, Inserted, ReplaceAt
<1>10. /\ cs \in Seq(Block) /\ Len(cs) = Len(as) /\ cs[i] = Occupy(parts[1], size)
       /\ \A j \in DOMAIN as : j # i => cs[j] = as[j]
    <2>1. PICK o : o = Occupy(parts[1], size)
        OBVIOUS
    <2>2. o \in Block /\ as \in Seq(Block) /\ i \in 1..Len(as) /\ Swapped(cs, as, i, o)
        BY <1>2, <1>8, <1>9, <2>1 DEF Swapped
    <2>3. cs \in Seq(Block) /\ DiffersAt(cs, as, i, o)
        BY ONLY <2>2, SwappedSeq
    <2>. QED BY ONLY <2>1, <2>3, <1>8 DEF DiffersAt
<1>11. bs \in Seq(Block) /\ Len(bs) = Len(ps) + n /\ DOMAIN bs = 1..(Len(ps) + n)
    BY <1>5 DEF IsInserted
<1>12. ASSUME NEW j \in 1..Len(cs) PROVE cs[j] = bs[j]
    <2>1. j \in 1..(Len(ps) + n) /\ j \in Nat /\ j >= 1
        BY <1>6, <1>8, <1>10
    <2>2. CASE j = i
        <3>1. i \in i..(i + n) /\ i - i + 1 = 1
            BY <1>6
        <3>2. bs[i] = qs[1]
            <4>1. bs[i] = qs[i - i + 1]
                BY <1>5, <3>1 DEF IsInserted
            <4>. QED BY <3>1, <4>1
        <3>. QED BY <1>3, <1>10, <2>2, <3>2
    <2>3. CASE j < i
        <3>1. j \in 1..(i - 1) /\ j # i
            BY <1>6, <2>1, <2>3
        <3>2. as[j] = ps[j]
            BY <1>4, <3>1 DEF IsInserted
        <3>3. bs[j] = ps[j]
            BY <1>5, <3>1 DEF IsInserted
        <3>. QED BY <1>8, <1>10, <2>1, <3>1, <3>2, <3>3
    <2>4. CASE j > i /\ j <= i + n
        <3>1. j \in i..(i + n) /\ j # i /\ j - i + 1 \in 1..(n + 1) /\ j - i + 1 # 1
            BY <1>6, <2>1, <2>4
        <3>2. as[j] = parts[j - i + 1]
            BY <1>4, <3>1 DEF IsInserted
        <3>3. bs[j] = qs[j - i + 1]
            BY <1>5, <3>1 DEF IsInserted
        <3>4. qs[j - i + 1] = parts[j - i + 1]
            BY <1>3, <3>1
        <3>. QED BY <1>8, <1>10, <2>1, <3>1, <3>2, <3>3, <3>4
    <2>5. CASE j > i + n
        <3>1. j # i
            BY <1>6, <2>1, <2>5
        <3>2. as[j] = ps[j - n]
            BY <1>4, <1>8, <2>1, <2>5 DEF IsInserted
        <3>3. bs[j] = ps[j - n]
            BY <1>5, <1>11, <2>1, <2>5 DEF IsInserted
        <3>. QED BY <1>8, <1>10, <2>1, <3>1, <3>2, <3>3
    <2>. QED BY <1>6, <2>1, <2>2, <2>3, <2>4, <2>5
<1>13. cs = bs
    BY <1>8, <1>10, <1>11, <1>12, SeqEqual
<1>. QED BY <1>5, <1>7, <1>13

\* The list stays in shape, the leaf is kept, and no right half has a FREE buddy.
LEMMA PlacedKeeps ==
    ASSUME NEW ps, Shape(ps), NEW i \in DOMAIN ps, NEW q, q = ps[i], q.status = "FREE",
           NEW d, InPlace(q, d), NEW n \in 0..(RootLog - d), partition_count \in Nat,
           \A j \in DOMAIN ps : ps[j].id <= partition_count, now \in Nat,
           NEW size \in 0..TAMANO_MEMORIA,
           NEW parts, parts = Halved(q, n), NEW rs, rs = Placed(ps, i, parts, size)
    PROVE  /\ Shape(rs) /\ parts[1].begin = q.begin
           /\ Kept(rs) = Kept(ps) \cup {<<parts[1].id, q.begin, Pow2[RootLog - d - n], size>>}
           /\ \A j \in DOMAIN rs :
                /\ \/ \E k \in DOMAIN ps : rs[j].id = ps[k].id
                   \/ rs[j].id \in (partition_count + 1)..(partition_count + 2 * n)
                /\ \/ rs[j].occupied_timestamp \in {0, now}
                   \/ \E k \in DOMAIN ps : rs[j].occupied_timestamp = ps[k].occupied_timestamp
                /\ \/ rs[j].lru_timestamp \in {0, now}
                   \/ \E k \in DOMAIN ps : rs[j].lru_timestamp = ps[k].lru_timestamp
           /\ \E j \in DOMAIN rs : rs[j].id = parts[1].id
           /\ NoBuddies(ps) => NoBuddies(rs)
<1>1. /\ q \in Block /\ Len(ps) \in Nat /\ DOMAIN ps = 1..Len(ps) /\ ps \in Seq(Block) /\ i \in 1..Len(ps)
      /\ i \in Nat /\ i >= 1
    BY ShapeFields DEF Shape
<1>2. /\ parts \in Seq(Block) /\ Len(parts) = n + 1
      /\ \A k \in 1..(n + 1) : /\ \E c : InPlace(parts[k], c)
                               /\ parts[k].status = "FREE"
      /\ n = 0 => parts[1] = q
      /\ n # 0 => \A k \in 1..(n + 1) :
           /\ parts[k].id \in (partition_count + 1)..(partition_count + 2 * n)
           /\ parts[k].occupied_timestamp = 0 /\ parts[k].lru_timestamp = 0
      /\ \A k, l \in 1..(n + 1) : k # l => parts[k].id # parts[l].id
      /\ parts[1].begin = q.begin /\ parts[1].partition_size = Pow2[RootLog - d - n]
      /\ End(parts[n + 1]) = End(q)
      /\ \A k \in 1..n : End(parts[k]) = parts[k + 1].begin
      /\ \A k \in 2..(n + 1) : parts[k].side = <<"1">>
    <2>1. HalvedInto(parts, q, d, n)
        BY <1>1, HalvedBlocks
    <2>. QED BY <2>1 DEF HalvedInto
<1>3. n \in Nat
    <2>1. RootLog - d \in Nat
        BY <1>1, WayOf
    <2>. QED BY <2>1
<1>4. PICK qs : qs = [parts EXCEPT ![1] = Occupy(parts[1], size)]
    OBVIOUS
<1>5. /\ rs = Inserted(ps, i, qs)
      /\ qs \in Seq(Block) /\ Len(qs) = n + 1 /\ qs[1] = Occupy(parts[1], size)
      /\ \A k \in 2..(n + 1) : qs[k] = parts[k]
    <2>1. LeafOccupied(qs, parts, n, size)
        BY <1>2, <1>3, <1>4, LeafIsOccupied
    <2>2. rs = Inserted(ps, i, qs)
        BY <1>1, <1>2, <1>3, <2>1, PlacedIsInserted
    <2>. QED BY <2>1, <2>2 DEF LeafOccupied
<1>6. /\ qs[1].id = parts[1].id /\ qs[1].begin = parts[1].begin /\ End(qs[1]) = End(parts[1])
      /\ qs[1].partition_size = parts[1].partition_size /\ qs[1].status = "OCCUPIED"
      /\ qs[1].content_size = size
      /\ qs[1].occupied_timestamp = now /\ qs[1].lru_timestamp = now
      /\ \A c : InPlace(parts[1], c) => InPlace(qs[1], c)
    <2>1. 1 \in 1..Len(parts)
        BY <1>2, <1>3
    <2>2. parts[1] \in Block
        BY <1>2, <2>1, ElementOfSeq
    <2>. QED BY <1>5, <2>2, OccupiedBlock
<1>7. ASSUME NEW k \in 1..(n + 1)
      PROVE  /\ (\E c : InPlace(qs[k], c)) /\ qs[k].id = parts[k].id /\ qs[k].begin = parts[k].begin
             /\ End(qs[k]) = End(parts[k]) /\ (k # 1 => qs[k] = parts[k] /\ k \in 2..(n + 1))
    <2>1. CASE k = 1
        BY <1>2, <1>6, <2>1
    <2>2. CASE k # 1
        <3>1. k \in 2..(n + 1)
            BY <1>3, <2>2
        <3>. QED BY <1>2, <1>5, <2>2, <3>1
    <2>. QED BY <2>1, <2>2
<1>8. ASSUME NEW k \in 1..(n + 1), NEW j \in DOMAIN ps, j # i PROVE qs[k].id # ps[j].id
    <2>1. ps[j].id \in Nat /\ ps[j].id <= partition_count
        <3>1. ps[j] \in Block
            BY ShapeFields
        <3>. QED BY <3>1, BlockFields
    <2>2. CASE n = 0
        <3>1. k = 1 /\ qs[k].id = q.id
            BY <1>2, <1>6, <2>2
        <3>. QED BY <1>8, <3>1 DEF Shape
    <2>3. CASE n # 0
        <3>1. parts[k].id \in (partition_count + 1)..(partition_count + 2 * n) /\ qs[k].id = parts[k].id
            BY <1>2, <1>7, <2>3
        <3>. QED BY ONLY <1>3, <2>1, <3>1, partition_count \in Nat
    <2>. QED BY <2>2, <2>3
<1>9. Replaced(rs, qs, n, ps, i)
    <2>1. \A k, l \in 1..(n + 1) : k # l => qs[k].id # qs[l].id
        BY <1>2, <1>7
    <2>2. qs[1].begin = ps[i].begin /\ End(qs[n + 1]) = End(ps[i])
        <3>1. 1 \in 1..(n + 1) /\ n + 1 \in 1..(n + 1)
            BY <1>3
        <3>. QED BY <1>2, <1>7, <3>1
    <2>3. \A k \in 1..n : End(qs[k]) = qs[k + 1].begin
        <3>1. \A k \in 1..n : k \in 1..(n + 1) /\ k + 1 \in 1..(n + 1)
            BY <1>3
        <3>. QED BY <1>2, <1>7, <3>1
    <2>4. \A k \in 1..(n + 1) : \E c : InPlace(qs[k], c)
        BY <1>7
    <2>5. \A k \in 1..(n + 1), j \in DOMAIN ps : j # i => qs[k].id # ps[j].id
        BY <1>8
    <2>6. Covers(qs, n, ps, i)
        BY <1>3, <1>5, <2>1, <2>2, <2>3, <2>4, <2>5 DEF Covers
    <2>. QED BY <1>5, <2>6, InsertedShape
<1>09. /\ Shape(rs)
       /\ \A j \in DOMAIN rs : \/ \E k \in DOMAIN ps : k # i /\ rs[j] = ps[k]
                               \/ j - i + 1 \in 1..(n + 1) /\ rs[j] = qs[j - i + 1]
       /\ \A k \in DOMAIN ps : k # i => \E j \in DOMAIN rs : rs[j] = ps[k]
       /\ \A k \in 1..(n + 1) : i + k - 1 \in DOMAIN rs /\ rs[i + k - 1] = qs[k]
    BY <1>9 DEF Replaced
<1>10. 1 \in 1..(n + 1) /\ i + 1 - 1 = i
    BY <1>1, <1>3
<1>11. i \in DOMAIN rs /\ rs[i] = qs[1]
    <2>1. i + 1 - 1 \in DOMAIN rs /\ rs[i + 1 - 1] = qs[1]
        BY <1>09, <1>10
    <2>. QED BY <1>10, <2>1
<1>12. Kept(rs) = Kept(ps) \cup {<<parts[1].id, q.begin, Pow2[RootLog - d - n], size>>}
    <2>1. Spot(rs[i]) = <<parts[1].id, q.begin, Pow2[RootLog - d - n], size>>
        BY <1>2, <1>6, <1>11 DEF Spot
    <2>2. ASSUME NEW x \in Kept(rs) PROVE x \in Kept(ps) \cup {Spot(rs[i])}
        <3>1. PICK j \in DOMAIN rs : IsOccupied(rs[j]) /\ x = Spot(rs[j])
            BY DEF Kept
        <3>2. CASE \E k \in DOMAIN ps : k # i /\ rs[j] = ps[k]
            BY <3>1, <3>2 DEF Kept
        <3>3. CASE j - i + 1 \in 1..(n + 1) /\ rs[j] = qs[j - i + 1]
            <4>1. j - i + 1 = 1
                <5>. SUFFICES ASSUME j - i + 1 # 1 PROVE FALSE
                    OBVIOUS
                <5>1. qs[j - i + 1] = parts[j - i + 1]
                    BY <1>7, <3>3
                <5>2. parts[j - i + 1].status = "FREE"
                    BY <1>2, <3>3
                <5>. QED BY <3>1, <3>3, <5>1, <5>2 DEF IsOccupied
            <4>. QED BY <1>11, <3>1, <3>3, <4>1
        <3>. QED BY <1>09, <3>2, <3>3
    <2>3. ASSUME NEW x \in Kept(ps) PROVE x \in Kept(rs)
        <3>1. PICK k \in DOMAIN ps : IsOccupied(ps[k]) /\ x = Spot(ps[k])
            BY DEF Kept
        <3>2. k # i
            BY <3>1 DEF IsOccupied
        <3>3. PICK j \in DOMAIN rs : rs[j] = ps[k]
            BY <1>09, <3>2
        <3>. QED BY <3>1, <3>3 DEF Kept
    <2>4. Spot(rs[i]) \in Kept(rs)
        BY <1>6, <1>11 DEF Kept, IsOccupied
    <2>. QED BY <2>1, <2>2, <2>3, <2>4
<1>13. ASSUME NEW j \in DOMAIN rs
       PROVE  /\ \/ \E k \in DOMAIN ps : rs[j].id = ps[k].id
                 \/ rs[j].id \in (partition_count + 1)..(partition_count + 2 * n)
              /\ \/ rs[j].occupied_timestamp \in {0, now}
                 \/ \E k \in DOMAIN ps : rs[j].occupied_timestamp = ps[k].occupied_timestamp
              /\ \/ rs[j].lru_timestamp \in {0, now}
                 \/ \E k \in DOMAIN ps : rs[j].lru_timestamp = ps[k].lru_timestamp
    <2>1. CASE \E k \in DOMAIN ps : k # i /\ rs[j] = ps[k]
        BY <2>1
    <2>2. CASE j - i + 1 \in 1..(n + 1) /\ rs[j] = qs[j - i + 1]
        <3>0. PICK k \in 1..(n + 1) : rs[j] = qs[k]
            BY <2>2
        <3>1. qs[k].id = parts[k].id
            BY <1>7
        <3>2. CASE n = 0
            <4>1. k = 1
                BY <3>2
            <4>. QED BY <1>2, <1>6, <3>0, <3>2, <4>1
        <3>3. CASE n # 0 /\ k = 1
            BY <1>2, <1>6, <3>0, <3>1, <3>3
        <3>4. CASE n # 0 /\ k # 1
            <4>1. qs[k] = parts[k]
                BY <1>7, <3>4
            <4>2. /\ parts[k].id \in (partition_count + 1)..(partition_count + 2 * n)
                  /\ parts[k].occupied_timestamp = 0 /\ parts[k].lru_timestamp = 0
                BY <1>2, <3>4
            <4>3. /\ rs[j].id \in (partition_count + 1)..(partition_count + 2 * n)
                  /\ rs[j].occupied_timestamp \in {0, now} /\ rs[j].lru_timestamp \in {0, now}
                BY <3>0, <4>1, <4>2
            <4>. QED BY <4>3
        <3>. QED BY <3>2, <3>3, <3>4
    <2>. QED BY <1>09, <2>1, <2>2
<1>14. ASSUME NoBuddies(ps) PROVE NoBuddies(rs)
    <2>1. ASSUME NEW a \in DOMAIN rs, NEW b \in DOMAIN rs, BuddiesAt(rs, a, b), a < b PROVE FALSE
        <3>1. rs[a].side = <<"0">> /\ b = a + 1
            BY <1>09, <2>1, BuddiesAreNeighbours DEF BuddiesAt
        <3>2. a \in Nat /\ b \in Nat
            BY <1>09, ShapeFields
        <3>3. ~(a - i + 1 \in 2..(n + 1) /\ rs[a] = qs[a - i + 1])
            <4>. SUFFICES ASSUME a - i + 1 \in 2..(n + 1), rs[a] = qs[a - i + 1] PROVE FALSE
                OBVIOUS
            <4>1. rs[a].side = <<"1">>
                BY <1>2, <1>5
            <4>2. <<"0">> # <<"1">>
                OBVIOUS
            <4>. QED BY <3>1, <4>1, <4>2
        <3>4. rs[a].status = "FREE" /\ rs[b].status = "FREE"
            BY <2>1 DEF BuddiesAt
        <3>5. a # i /\ b # i
            BY <1>6, <1>11, <3>4
        <3>6. ~(a - i + 1 \in 1..(n + 1) /\ rs[a] = qs[a - i + 1])
            <4>. SUFFICES ASSUME a - i + 1 \in 1..(n + 1), rs[a] = qs[a - i + 1] PROVE FALSE
                OBVIOUS
            <4>1. a - i + 1 # 1
                BY <1>1, <3>2, <3>5
            <4>2. a - i + 1 \in 2..(n + 1)
                BY ONLY <1>3, <4>1, a - i + 1 \in 1..(n + 1)
            <4>. QED BY <3>3, <4>2
        <3>7. PICK k \in DOMAIN ps : k # i /\ rs[a] = ps[k]
            BY <1>09, <3>6
        <3>8. CASE \E l \in DOMAIN ps : l # i /\ rs[b] = ps[l]
            <4>1. PICK l \in DOMAIN ps : rs[b] = ps[l]
                BY <3>8
            <4>2. BuddiesAt(ps, k, l)
                BY <2>1, <3>7, <4>1 DEF BuddiesAt
            <4>. QED BY <1>14, <4>2 DEF NoBuddies
        <3>9. CASE b - i + 1 \in 1..(n + 1) /\ rs[b] = qs[b - i + 1]
            <4>1. b - i + 1 # 1
                BY <1>1, <3>2, <3>5
            <4>2. b - i + 1 \in 2..(n + 1)
                BY ONLY <1>3, <3>9, <4>1
            <4>3. PICK j : j = a - i + 1 /\ j \in 1..(n + 1) /\ i + j - 1 = a
                <5>1. b = a + 1 /\ i \in Nat
                    BY <1>1, <3>1
                <5>2. a - i + 1 \in 1..(n + 1) /\ i + (a - i + 1) - 1 = a
                    BY ONLY <1>3, <3>2, <4>2, <5>1
                <5>. QED BY <5>2
            <4>4. rs[a] = qs[a - i + 1]
                <5>1. rs[i + j - 1] = qs[j]
                    BY <1>09, <4>3
                <5>. QED BY <4>3, <5>1
            <4>. QED BY <3>6, <4>3, <4>4
        <3>. QED BY <1>09, <3>8, <3>9
    <2>2. ASSUME NEW a \in DOMAIN rs, NEW b \in DOMAIN rs, BuddiesAt(rs, a, b) PROVE FALSE
        <3>1. a \in Nat /\ b \in Nat /\ a # b
            BY <1>09, <2>2, ShapeFields DEF BuddiesAt
        <3>2. CASE a < b
            BY <2>1, <2>2, <3>2
        <3>3. CASE b < a
            <4>1. BuddiesAt(rs, b, a)
                BY <2>2 DEF BuddiesAt
            <4>. QED BY <2>1, <3>3, <4>1
        <3>. QED BY <3>1, <3>2, <3>3
    <2>. QED BY <2>2 DEF NoBuddies
<1>15. rs[i].id = parts[1].id
    BY <1>6, <1>11
<1>. QED BY <1>2, <1>09, <1>11, <1>12, <1>13, <1>14, <1>15

-----------------------------------------------------------------------------
(* The inductive invariant.                                                *)

Storing == {"find", "delete", "place"}

\* The memory and the list have their types; no id or timestamp is from the future.
ListOK ==
    /\ memory \in [Bytes -> 0..MaxMessages]
    /\ Shape(memory_partitions)
    /\ \A i \in DOMAIN memory_partitions :
            /\ memory_partitions[i].id \in 1..partition_count
            /\ memory_partitions[i].occupied_timestamp <= now
            /\ memory_partitions[i].lru_timestamp <= now

\* What a thread's program counter says of its message and of the mutex.
ThreadFits(p) ==
    /\ pub[p].pc \in Storing <=> (mutex_memory_partitions = p /\ ~crashed)
    /\ pub[p].pc = "dead" <=> crashed
    /\ pub[p].pc = "idle" => pub[p].id = 0
    /\ pub[p].pc \notin {"idle", "dead"} => pub[p].id \in 1..message_count
    /\ pub[p].pc \in Storing \cup {"lock"} =>
            partition_of[pub[p].id] = 0 /\ size_of[pub[p].id] \in Sizes
    /\ mutex_memory_partitions = p =>
            pub[p].id \in 1..message_count /\ partition_of[pub[p].id] = 0
    /\ pub[p].pc = "enqueue" => partition_of[pub[p].id] # 0 /\ pub[p].id \notin queued

\* No message is two threads'.
OwnMessages ==
    \A p, q \in Publishers : (p # q /\ pub[p].id = pub[q].id) => pub[p].id = 0

\* Only stored messages name a partition or are queued.  Two may name the same one.
Named ==
    /\ \A m \in queued : partition_of[m] # 0
    /\ \A m \in Messages : /\ m > message_count => partition_of[m] = 0
                           /\ partition_of[m] # 0 => size_of[m] \in Sizes

Threads == (\A p \in Publishers : ThreadFits(p)) /\ OwnMessages /\ Named

\* The occupied block at spot x holds a byte for byte copy of m.
HoldsPayload(x, m) ==
    /\ partition_of[m] = x[1] /\ size_of[m] \in 1..x[3] /\ x[4] = size_of[m]
    /\ \A b \in 0..(size_of[m] - 1) : memory[x[2] + b] = m

\* Every occupied block holds one of the messages that name it.
Owned ==
    \A x \in Kept(memory_partitions) : \E m \in Messages : HoldsPayload(x, m)

\* The block that m names is occupied, and its first byte is of m: so are all of m's.
Holds(m) ==
    \E x \in Kept(memory_partitions) : x[1] = partition_of[m] /\ memory[x[2]] = m

\* What the search found.
SearchFits(p) ==
    /\ pub[p].pc = "place" => Fitting(BsSize(size_of[pub[p].id])) # {}
    /\ pub[p].pc = "delete" => Fitting(BsSize(size_of[pub[p].id])) = {}

\* On a queue, or about to be.
Awaited(m) == m \in queued \/ \E p \in Publishers : pub[p].pc = "enqueue" /\ pub[p].id = m

\* As long as nothing was evicted early, an eviction takes exactly its own message off a queue
\* and merges what it frees.
InStep ==
    early = {} =>
        /\ NoBuddies(memory_partitions)
        /\ \A m \in Messages : Awaited(m) => Holds(m)

Contents == ListOK /\ Owned /\ (\A p \in Publishers : SearchFits(p)) /\ InStep

Inv == ThreadsOK /\ Threads /\ Contents

-----------------------------------------------------------------------------
(* The occupied blocks.                                                    *)

\* Spots are four numbers each, within the memory; they differ in their ids and do not overlap.
LEMMA KeptSpots ==
    ASSUME NEW ps, Shape(ps)
    PROVE  /\ \A x \in Kept(ps) :
                /\ x \in Nat \X Nat \X Nat \X Nat /\ x[3] >= 1 /\ x[2] + x[3] <= RootSize
                /\ \E i \in DOMAIN ps : IsOccupied(ps[i]) /\ x = Spot(ps[i])
           /\ \A x, y \in Kept(ps) : x # y =>
                x[1] # y[1] /\ (x[2] + x[3] <= y[2] \/ y[2] + y[3] <= x[2])
<1>1. ASSUME NEW x \in Kept(ps)
      PROVE  /\ x \in Nat \X Nat \X Nat \X Nat /\ x[3] >= 1 /\ x[2] + x[3] <= RootSize
             /\ \E i \in DOMAIN ps : IsOccupied(ps[i]) /\ x = Spot(ps[i])
    <2>1. PICK i \in DOMAIN ps : IsOccupied(ps[i]) /\ x = Spot(ps[i])
        BY DEF Kept
    <2>2. /\ ps[i] \in Block /\ ps[i].begin \in Nat /\ ps[i].partition_size \in Nat
          /\ ps[i].partition_size >= 1 /\ End(ps[i]) <= RootSize
          /\ End(ps[i]) = ps[i].begin + ps[i].partition_size
        BY ShapeFields
    <2>3. ps[i].id \in Nat /\ ps[i].content_size \in Nat
        BY <2>2, BlockFields, Numbers
    <2>4. /\ x[1] = ps[i].id /\ x[2] = ps[i].begin /\ x[3] = ps[i].partition_size
          /\ x \in Nat \X Nat \X Nat \X Nat
        BY <2>1, <2>2, <2>3 DEF Spot
    <2>. QED BY <2>1, <2>2, <2>4
<1>2. ASSUME NEW x \in Kept(ps), NEW y \in Kept(ps), x # y
      PROVE  x[1] # y[1] /\ (x[2] + x[3] <= y[2] \/ y[2] + y[3] <= x[2])
    <2>1. PICK i \in DOMAIN ps : x = Spot(ps[i])
        BY DEF Kept
    <2>2. PICK j \in DOMAIN ps : y = Spot(ps[j])
        BY DEF Kept
    <2>3. i # j /\ i \in Nat /\ j \in Nat
        BY <1>2, <2>1, <2>2, ShapeFields
    <2>4. ps[i].id # ps[j].id
        BY <2>3 DEF Shape
    <2>5. /\ x[1] = ps[i].id /\ x[2] = ps[i].begin /\ x[3] = ps[i].partition_size
          /\ y[1] = ps[j].id /\ y[2] = ps[j].begin /\ y[3] = ps[j].partition_size
        BY <2>1, <2>2 DEF Spot
    <2>6. /\ End(ps[i]) = ps[i].begin + ps[i].partition_size
          /\ End(ps[j]) = ps[j].begin + ps[j].partition_size
        BY ShapeFields
    <2>7. CASE i < j
        <3>1. End(ps[i]) <= ps[j].begin
            BY <2>7, InOrderOfAddress
        <3>. QED BY <2>4, <2>5, <2>6, <3>1
    <2>8. CASE j < i
        <3>1. End(ps[j]) <= ps[i].begin
            BY <2>8, InOrderOfAddress
        <3>. QED BY <2>4, <2>5, <2>6, <3>1
    <2>. QED BY <2>3, <2>7, <2>8
<1>. QED BY <1>1, <1>2

\* The invariant's facts in the form the steps need.
LEMMA InvFacts ==
    ASSUME Inv
    PROVE  /\ memory \in [Bytes -> 0..MaxMessages] /\ Shape(memory_partitions)
           /\ partition_count \in Nat /\ now \in Nat /\ message_count \in Nat /\ now >= 1
           /\ \A i \in DOMAIN memory_partitions :
                /\ memory_partitions[i].id \in Nat /\ memory_partitions[i].id >= 1
                /\ memory_partitions[i].id <= partition_count
                /\ memory_partitions[i].occupied_timestamp \in Nat
                /\ memory_partitions[i].occupied_timestamp <= now
                /\ memory_partitions[i].lru_timestamp \in Nat
                /\ memory_partitions[i].lru_timestamp <= now
           /\ \A m \in Messages : partition_of[m] \in Nat /\ partition_of[m] <= partition_count
           /\ \A p, q \in Publishers : pub[p].pc \in Storing /\ pub[q].pc \in Storing => p = q
           /\ queued \subseteq Messages
           /\ \A p \in Publishers : pub[p].pc \in Storing \cup {"lock", "enqueue"} =>
                pub[p].id \in Messages /\ pub[p].id \in 1..message_count
<1>1. memory \in [Bytes -> 0..MaxMessages] /\ Shape(memory_partitions)
    BY DEF Inv, Contents, ListOK
<1>2. /\ partition_count \in Nat /\ now \in Nat /\ message_count \in Nat /\ message_count <= MaxMessages
      /\ MaxMessages \in Nat /\ queued \subseteq Messages /\ now >= 1
      /\ partition_of \in [Messages -> 0..partition_count]
    BY Numbers DEF Inv, ThreadsOK
<1>3. ASSUME NEW i \in DOMAIN memory_partitions
      PROVE  /\ memory_partitions[i].id \in Nat /\ memory_partitions[i].id >= 1
             /\ memory_partitions[i].id <= partition_count
             /\ memory_partitions[i].occupied_timestamp \in Nat
             /\ memory_partitions[i].occupied_timestamp <= now
             /\ memory_partitions[i].lru_timestamp \in Nat
             /\ memory_partitions[i].lru_timestamp <= now
    <2>1. /\ memory_partitions[i].id \in 1..partition_count
          /\ memory_partitions[i].occupied_timestamp <= now
          /\ memory_partitions[i].lru_timestamp <= now
        BY DEF Inv, Contents, ListOK
    <2>2. memory_partitions[i] \in Block
        BY <1>1, ShapeFields
    <2>3. /\ memory_partitions[i].occupied_timestamp \in Nat
          /\ memory_partitions[i].lru_timestamp \in Nat
        BY <2>2, BlockFields
    <2>4. /\ memory_partitions[i].id \in Nat /\ memory_partitions[i].id >= 1
          /\ memory_partitions[i].id <= partition_count
        BY <1>2, <2>1
    <2>. QED BY <2>1, <2>3, <2>4
<1>4. ASSUME NEW m \in Messages PROVE partition_of[m] \in Nat /\ partition_of[m] <= partition_count
    <2>1. partition_of[m] \in 0..partition_count
        BY <1>2
    <2>. QED BY <1>2, <2>1
<1>5. \A p, q \in Publishers : pub[p].pc \in Storing /\ pub[q].pc \in Storing => p = q
    BY DEF Inv, Threads, ThreadFits
<1>6. ASSUME NEW p \in Publishers, pub[p].pc \in Storing \cup {"lock", "enqueue"}
      PROVE  pub[p].id \in Messages /\ pub[p].id \in 1..message_count
    <2>1. pub[p].pc \notin {"idle", "dead"}
        BY <1>6 DEF Storing
    <2>2. pub[p].id \in 1..message_count
        BY <2>1 DEF Inv, Threads, ThreadFits
    <2>. QED BY <1>2, <2>2 DEF Messages
<1>. QED BY <1>1, <1>2, <1>3, <1>4, <1>5, <1>6

\* A block's bytes are of one message.
LEMMA OneHolder ==
    ASSUME Inv, NEW x \in Kept(memory_partitions), NEW m \in Messages, HoldsPayload(x, m)
    PROVE  x[2] \in Nat /\ memory[x[2]] = m
<1>1. x[2] \in Nat /\ x[3] \in Nat
    BY InvFacts, KeptSpots
<1>2. 0 \in 0..(size_of[m] - 1) /\ x[2] + 0 = x[2]
    BY <1>1 DEF HoldsPayload
<1>. QED BY <1>1, <1>2 DEF HoldsPayload

\* A look-up returns the payload of the message whose block it is, and of no other.
LEMMA ReadableIfHeld ==
    ASSUME Inv, NEW m \in Messages
    PROVE  /\ Readable(m) <=> Holds(m)
           /\ Exact(m) <=> Holds(m)
           /\ Holds(m) => \E x \in Kept(memory_partitions) : HoldsPayload(x, m)
<1>2. ASSUME Holds(m)
      PROVE  Exact(m) /\ \E x \in Kept(memory_partitions) : HoldsPayload(x, m)
    <2>1. PICK x \in Kept(memory_partitions) : x[1] = partition_of[m] /\ memory[x[2]] = m
        BY <1>2 DEF Holds
    <2>2. PICK n \in Messages : HoldsPayload(x, n)
        BY DEF Inv, Contents, Owned
    <2>3. n = m
        BY <2>1, <2>2, OneHolder
    <2>4. PICK i \in DOMAIN memory_partitions : IsOccupied(memory_partitions[i]) /\ x = Spot(memory_partitions[i])
        BY InvFacts, KeptSpots
    <2>5. PICK q : q = memory_partitions[i]
        OBVIOUS
    <2>6. q.id = partition_of[m] /\ x[2] = q.begin /\ x[4] = q.content_size /\ IsOccupied(q)
        BY <2>1, <2>4, <2>5 DEF Spot
    <2>7. q.content_size = size_of[m] /\ \A b \in 0..(size_of[m] - 1) : memory[q.begin + b] = m
        BY <2>2, <2>3, <2>6 DEF HoldsPayload
    <2>8. size_of[m] <= q.content_size
        <3>1. size_of[m] \in Nat
            BY <2>2, <2>3, InvFacts, KeptSpots DEF HoldsPayload
        <3>. QED BY <2>7, <3>1
    <2>9. BeginsWithPayload(q, m)
        BY <2>6, <2>7, <2>8 DEF BeginsWithPayload
    <2>10. i \in PartitionOf(m)
        BY <2>5, <2>6 DEF PartitionOf
    <2>. QED BY <2>2, <2>3, <2>5, <2>7, <2>9, <2>10 DEF Exact
<1>3. ASSUME Readable(m) PROVE Holds(m)
    <2>1. PICK i \in DOMAIN memory_partitions :
            /\ memory_partitions[i].id = partition_of[m] /\ IsOccupied(memory_partitions[i])
            /\ \A b \in 0..(size_of[m] - 1) : memory[memory_partitions[i].begin + b] = m
        BY <1>3 DEF Readable, BeginsWithPayload, PartitionOf
    <2>2. Spot(memory_partitions[i]) \in Kept(memory_partitions)
        BY <2>1 DEF Kept
    <2>3. size_of[m] \in Nat /\ size_of[m] >= 1
        <3>1. partition_of[m] # 0
            BY <2>1, InvFacts
        <3>2. size_of[m] \in Sizes
            BY <3>1 DEF Inv, Threads, Named
        <3>. QED BY <3>2, Numbers
    <2>4. memory_partitions[i].begin \in Nat
        BY InvFacts, ShapeFields
    <2>5. 0 \in 0..(size_of[m] - 1) /\ memory_partitions[i].begin + 0 = memory_partitions[i].begin
        BY <2>3, <2>4
    <2>6. memory[memory_partitions[i].begin] = m
        BY <2>1, <2>5
    <2>. QED BY <2>1, <2>2, <2>6 DEF Holds, Spot
<1>4. Exact(m) => Readable(m)
    BY DEF Exact, Readable
<1>. QED BY <1>2, <1>3, <1>4

-----------------------------------------------------------------------------
(* What a store and an eviction do to the list.                            *)

\* What the copy of m's payload at spot x does to the variables.
StoresAt(x, m) ==
    /\ x \in Nat \X Nat \X Nat \X Nat /\ size_of[m] \in 1..x[3] /\ x[2] + x[3] <= RootSize
    /\ x[4] = size_of[m]
    /\ x[1] \in 1..partition_count' /\ partition_count' \in Nat /\ partition_count <= partition_count'
    /\ partition_of' = [partition_of EXCEPT ![m] = x[1]]
    /\ memory' = [b \in Bytes |-> IF b \in x[2]..(x[2] + size_of[m] - 1) THEN m ELSE memory[b]]
    /\ Shape(memory_partitions')
    /\ Kept(memory_partitions') = Kept(memory_partitions) \cup {x}
    /\ \A y \in Kept(memory_partitions) : y # x
    /\ \A j \in DOMAIN memory_partitions' :
        /\ memory_partitions'[j].id \in 1..partition_count'
        /\ memory_partitions'[j].occupied_timestamp <= now
        /\ memory_partitions'[j].lru_timestamp <= now
    /\ NoBuddies(memory_partitions) => NoBuddies(memory_partitions')

\* The number of ids is a number.
LEMMA IdsForNumber ==
    ASSUME NEW n \in Nat
    PROVE  IdsFor(n) = 2 * n /\ IdsFor(n) \in Nat
BY DEF IdsFor

\* store_payload_bs keeps the list in shape, gives the payload one new OCCUPIED block
\* and leaves every other OCCUPIED one where it was.
LEMMA PlaceStores ==
    ASSUME Inv, NEW p \in Publishers, Place(p), NEW m, m = pub[p].id
    PROVE  m \in Messages /\ \E x : StoresAt(x, m)
<1>. DEFINE ps == memory_partitions
            rs == memory_partitions'
            i == First(Fitting(BsSize(size_of[m])))
            n == Halvings(ps[i].partition_size, size_of[m])
            parts == Halved(ps[i], n)
            size == size_of[m]
            x == <<parts[1].id, parts[1].begin, parts[1].partition_size, size>>
<1>1. /\ pub[p].pc = "place"
      /\ memory' = [b \in Bytes |-> IF b \in parts[1].begin .. (parts[1].begin + size_of[m] - 1)
                                    THEN m ELSE memory[b]]
      /\ rs = Placed(ps, i, parts, size)
      /\ partition_count' = partition_count + IdsFor(n)
      /\ partition_of' = [partition_of EXCEPT ![m] = StoredIn(ps[i], parts[1])]
    BY DEF Place, Placed
<1>2. /\ m \in Messages /\ size_of[m] \in Sizes /\ Fitting(BsSize(size_of[m])) # {}
      /\ size \in 0..TAMANO_MEMORIA
    <2>1. ThreadFits(p) /\ SearchFits(p) /\ pub[p].pc \in Storing
        BY <1>1 DEF Inv, Threads, Contents, Storing
    <2>2. m \in Messages
        BY <2>1, InvFacts
    <2>3. size_of[m] \in Sizes
        BY <2>1, <1>1 DEF ThreadFits
    <2>4. size_of[m] \in 0..TAMANO_MEMORIA
        BY <2>3, Numbers
    <2>. QED BY <1>1, <2>1, <2>2, <2>3, <2>4 DEF SearchFits
<1>. HIDE DEF i
<1>3. i \in DOMAIN ps /\ ps[i].status = "FREE" /\ ps[i].partition_size >= AtLeastMinimum(BsSize(size_of[m]))
    <2>1. Fitting(BsSize(size_of[m])) \in SUBSET Nat
        BY InvFacts, ShapeFields DEF Fitting
    <2>2. i \in Fitting(BsSize(size_of[m]))
        BY <1>2, <2>1, FirstIsLeast DEF i
    <2>. QED BY <2>2 DEF Fitting
<1>. HIDE DEF n, parts
<1>4. PICK q, d : q = ps[i] /\ InPlace(q, d)
    BY <1>3, InvFacts DEF Shape
<1>5. /\ q \in Block /\ d \in Nat /\ RootLog - d \in Nat /\ q.partition_size = Pow2[RootLog - d]
    <2>1. q \in Block
        BY <1>3, <1>4, InvFacts, ShapeFields
    <2>. QED BY <1>4, <2>1, WayOf
<1>6. /\ AtLeastMinimum(size_of[m]) \in Nat /\ AtLeastMinimum(size_of[m]) >= size_of[m]
      /\ AtLeastMinimum(size_of[m]) >= 1 /\ AtLeastMinimum(size_of[m]) <= q.partition_size
      /\ size_of[m] \in Nat /\ size_of[m] >= 1
    <2>1. /\ BsSize(size_of[m]) \in Nat /\ BsSize(size_of[m]) >= size_of[m]
          /\ size_of[m] \in Nat /\ size_of[m] >= 1
        BY <1>2, SearchSize, Numbers
    <2>2. q.partition_size >= AtLeastMinimum(BsSize(size_of[m])) /\ q.partition_size \in Nat
        BY <1>3, <1>4, <1>5, BlockFields
    <2>3. TAMANO_MINIMO_PARTICION \in Nat /\ TAMANO_MINIMO_PARTICION >= 1
        BY Numbers
    <2>. QED BY ONLY <2>1, <2>2, <2>3 DEF AtLeastMinimum
<1>7. PICK k \in Nat : k = RootLog - d /\ q.partition_size = Pow2[k]
    BY <1>5
<1>8. n \in 0..k /\ Pow2[k - n] >= AtLeastMinimum(size_of[m])
    <2>1. n = Halvings(Pow2[k], size_of[m])
        BY <1>4, <1>7 DEF n
    <2>. QED BY <1>6, <1>7, <2>1, HalvingsFit
<1>9. /\ HalvedInto(parts, q, d, n)
      /\ Shape(rs) /\ parts[1].begin = q.begin
      /\ Kept(rs) = Kept(ps) \cup {<<parts[1].id, q.begin, Pow2[RootLog - d - n], size>>}
      /\ \A j \in DOMAIN rs :
            /\ \/ \E l \in DOMAIN ps : rs[j].id = ps[l].id
               \/ rs[j].id \in (partition_count + 1)..(partition_count + 2 * n)
            /\ \/ rs[j].occupied_timestamp \in {0, now}
               \/ \E l \in DOMAIN ps : rs[j].occupied_timestamp = ps[l].occupied_timestamp
            /\ \/ rs[j].lru_timestamp \in {0, now}
               \/ \E l \in DOMAIN ps : rs[j].lru_timestamp = ps[l].lru_timestamp
      /\ \E j \in DOMAIN rs : rs[j].id = parts[1].id
      /\ NoBuddies(ps) => NoBuddies(rs)
    <2>1. /\ Shape(ps) /\ now \in Nat /\ partition_count \in Nat
          /\ \A j \in DOMAIN ps : ps[j].id <= partition_count
        BY InvFacts
    <2>2. parts = Halved(q, n) /\ n \in 0..(RootLog - d) /\ rs = Placed(ps, i, parts, size)
        BY <1>1, <1>4, <1>7, <1>8 DEF parts
    <2>3. q.status = "FREE"
        BY <1>3, <1>4
    <2>4. HalvedInto(parts, q, d, n)
        BY <1>4, <1>5, <2>1, <2>2, <2>3, HalvedBlocks
    <2>. HIDE DEF ps, rs, size
    <2>. QED BY <1>2, <1>3, <1>4, <2>1, <2>2, <2>3, <2>4, PlacedKeeps
<1>10. parts[1].partition_size = Pow2[RootLog - d - n] /\ x = <<parts[1].id, q.begin, Pow2[RootLog - d - n], size>>
    BY <1>9 DEF HalvedInto
<1>11. n \in Nat /\ partition_count \in Nat /\ partition_count' = partition_count + 2 * n /\ now \in Nat
    BY <1>1, <1>7, <1>8, InvFacts, IdsForNumber
<1>. HIDE DEF rs, x
<1>12. ASSUME NEW j \in DOMAIN rs
       PROVE  /\ rs[j].id \in 1..partition_count'
              /\ rs[j].occupied_timestamp <= now /\ rs[j].lru_timestamp <= now
    <2>1. rs[j].id \in 1..partition_count'
        <3>1. CASE \E l \in DOMAIN ps : rs[j].id = ps[l].id
            <4>1. PICK l \in DOMAIN ps : rs[j].id = ps[l].id
                BY <3>1
            <4>2. ps[l].id \in Nat /\ ps[l].id >= 1 /\ ps[l].id <= partition_count
                BY InvFacts
            <4>. QED BY <1>11, <4>1, <4>2
        <3>2. CASE rs[j].id \in (partition_count + 1)..(partition_count + 2 * n)
            BY ONLY <1>11, <3>2
        <3>. QED BY <1>9, <3>1, <3>2
    <2>2. /\ \A l \in DOMAIN ps : ps[l].occupied_timestamp <= now /\ ps[l].lru_timestamp <= now
          /\ \A t \in {0, now} : t <= now
        BY <1>11, InvFacts
    <2>3. rs[j].occupied_timestamp <= now
        BY <1>9, <2>2
    <2>4. rs[j].lru_timestamp <= now
        BY <1>9, <2>2
    <2>. QED BY <2>1, <2>3, <2>4
<1>13. /\ Kept(rs) = Kept(ps) \cup {x} /\ x[1] = parts[1].id /\ x[2] = parts[1].begin
       /\ x[3] = parts[1].partition_size /\ x[4] = size_of[m]
    BY <1>9, <1>10 DEF x
<1>14. /\ x \in Nat \X Nat \X Nat \X Nat /\ x[2] + x[3] <= RootSize
    BY <1>9, <1>13, KeptSpots
<1>15. size_of[m] \in 1..x[3]
    <2>1. RootLog - d - n = k - n
        BY <1>7
    <2>2. x[3] = Pow2[k - n] /\ x[3] \in Nat
        BY <1>10, <1>13, <1>14, <2>1
    <2>. QED BY <1>6, <1>8, <2>2
<1>16. x[1] \in 1..partition_count'
    BY <1>9, <1>12, <1>13
<1>17. ASSUME NEW y \in Kept(ps) PROVE y # x
    <2>1. PICK j \in DOMAIN ps : IsOccupied(ps[j]) /\ y = Spot(ps[j])
        BY DEF Kept
    <2>2. j # i /\ j \in Nat /\ i \in Nat
        BY <1>3, <2>1, InvFacts, ShapeFields DEF IsOccupied
    <2>3. /\ ps[j].begin \in Nat /\ ps[i].begin \in Nat /\ End(ps[i]) \in Nat /\ End(ps[j]) \in Nat
          /\ ps[j].begin < End(ps[j]) /\ ps[i].begin < End(ps[i])
        BY <1>3, InvFacts, ShapeFields
    <2>4. End(ps[i]) <= ps[j].begin \/ End(ps[j]) <= ps[i].begin
        BY <1>3, <2>2, InvFacts, InOrderOfAddress
    <2>5. ps[j].begin # ps[i].begin
        BY <2>3, <2>4
    <2>6. y[2] = ps[j].begin /\ x[2] = ps[i].begin
        BY <1>4, <1>9, <1>13, <2>1 DEF Spot
    <2>. QED BY <2>5, <2>6
<1>18. partition_of' = [partition_of EXCEPT ![m] = x[1]]
    BY <1>1, <1>13 DEF StoredIn
<1>19. memory' = [b \in Bytes |-> IF b \in x[2]..(x[2] + size_of[m] - 1) THEN m ELSE memory[b]]
    BY <1>1, <1>13
<1>20. partition_count' \in Nat /\ partition_count <= partition_count'
    BY <1>11
<1>21. StoresAt(x, m)
    BY <1>9, <1>12, <1>13, <1>14, <1>15, <1>16, <1>17, <1>18, <1>19, <1>20 DEF StoresAt, rs
<1>. QED BY <1>2, <1>21

\* The same blocks, with other states and timestamps.
Restamped(qs, ps) ==
    /\ qs \in Seq(Block) /\ DOMAIN qs = DOMAIN ps
    /\ \A j \in DOMAIN ps :
        /\ qs[j].id = ps[j].id /\ qs[j].begin = ps[j].begin
        /\ qs[j].partition_size = ps[j].partition_size
        /\ qs[j].father = ps[j].father /\ qs[j].side = ps[j].side

\* They are in shape as well.
LEMMA RestampedShape ==
    ASSUME NEW ps, Shape(ps), NEW qs, Restamped(qs, ps)
    PROVE  Shape(qs)
<1>1. qs \in Seq(Block) /\ Len(qs) = Len(ps) /\ Len(ps) \in Nat /\ Len(ps) >= 1 /\ DOMAIN ps = 1..Len(ps)
    <2>1. qs \in Seq(Block) /\ DOMAIN qs = DOMAIN ps
        BY DEF Restamped
    <2>2. Len(ps) \in Nat /\ Len(ps) >= 1 /\ DOMAIN ps = 1..Len(ps)
        BY ShapeFields
    <2>3. Len(qs) \in Nat /\ DOMAIN qs = 1..Len(qs)
        BY <2>1, LenProperties
    <2>4. 1..Len(qs) = 1..Len(ps)
        BY <2>1, <2>2, <2>3
    <2>5. Len(qs) = Len(ps)
        <3>1. Len(ps) \in 1..Len(ps)
            BY <2>2
        <3>2. Len(ps) \in 1..Len(qs)
            BY <2>4, <3>1
        <3>3. Len(qs) >= Len(ps) /\ Len(qs) \in 1..Len(qs)
            BY ONLY <2>2, <2>3, <3>2
        <3>4. Len(qs) \in 1..Len(ps)
            BY <2>4, <3>3
        <3>5. PICK a \in Nat, b \in Nat : a = Len(qs) /\ b = Len(ps) /\ a >= b /\ a \in 1..b
            BY <2>2, <2>3, <3>3, <3>4
        <3>6. a = b
            BY ONLY <3>5, a \in Nat, b \in Nat
        <3>. QED BY <3>5, <3>6
    <2>. QED BY <2>1, <2>2, <2>5
<1>2. \A j \in DOMAIN ps : End(qs[j]) = End(ps[j]) /\ qs[j].begin = ps[j].begin /\ qs[j].id = ps[j].id
    BY DEF Restamped, End
<1>3. ASSUME NEW j \in DOMAIN ps PROVE \E d : InPlace(qs[j], d)
    <2>1. PICK d : InPlace(ps[j], d)
        BY DEF Shape
    <2>2. InPlace(qs[j], d)
        BY <1>2, <2>1 DEF InPlace, Restamped
    <2>. QED BY <2>2
<1>4. qs[1].begin = 0 /\ End(qs[Len(qs)]) = RootSize
    <2>1. 1 \in DOMAIN ps /\ Len(ps) \in DOMAIN ps
        BY <1>1
    <2>. QED BY <1>1, <1>2, <2>1 DEF Shape
<1>5. \A k \in 1..(Len(qs) - 1) : End(qs[k]) = qs[k + 1].begin
    <2>1. \A k \in 1..(Len(ps) - 1) : k \in DOMAIN ps /\ k + 1 \in DOMAIN ps
        BY <1>1
    <2>. QED BY <1>1, <1>2, <2>1 DEF Shape
<1>6. \A j, k \in DOMAIN qs : j # k => qs[j].id # qs[k].id
    BY <1>2 DEF Shape, Restamped
<1>7. \A j \in DOMAIN qs : \E d : InPlace(qs[j], d)
    BY <1>3 DEF Restamped
<1>. QED BY <1>1, <1>4, <1>5, <1>6, <1>7 DEF Shape

\* The list with block i free.
LEMMA FreedKeeps ==
    ASSUME Shape(memory_partitions), NEW i \in DOMAIN memory_partitions, NEW qs, qs = Freed(i)
    PROVE  /\ Shape(qs) /\ DOMAIN qs = DOMAIN memory_partitions
           /\ qs[i].id = memory_partitions[i].id /\ qs[i].status = "FREE"
           /\ qs[i].occupied_timestamp = 0 /\ qs[i].lru_timestamp = 0
           /\ \A j \in DOMAIN qs : j # i => qs[j] = memory_partitions[j]
           /\ Kept(qs) = Kept(memory_partitions) \ {Spot(memory_partitions[i])}
           /\ NoBuddies(memory_partitions) => NoBuddiesBut(qs, memory_partitions[i].id)
           /\ (NoBuddies(memory_partitions) /\ memory_partitions[i].status = "FREE") => NoBuddies(qs)
<1>. DEFINE ps == memory_partitions
            r == [ps[i] EXCEPT !.status = "FREE", !.content_size = 0,
                               !.occupied_timestamp = 0, !.lru_timestamp = 0]
<1>1. ps \in Seq(Block) /\ ps[i] \in Block /\ i \in 1..Len(ps) /\ DOMAIN ps = 1..Len(ps)
    BY ShapeFields DEF Shape
<1>2. /\ r \in Block /\ r.id = ps[i].id /\ r.begin = ps[i].begin /\ r.partition_size = ps[i].partition_size
      /\ r.father = ps[i].father /\ r.side = ps[i].side /\ r.status = "FREE"
      /\ r.occupied_timestamp = 0 /\ r.lru_timestamp = 0
    <2>1. 0 \in 0..TAMANO_MEMORIA
        BY Numbers
    <2>2. PICK q : q = ps[i] /\ q \in Block
        BY <1>1
    <2>3. PICK t : t = r
        OBVIOUS
    <2>4. t = [q EXCEPT !.status = "FREE", !.content_size = 0,
                        !.occupied_timestamp = 0, !.lru_timestamp = 0]
        BY <2>2, <2>3
    <2>5. /\ t \in Block /\ t.id = q.id /\ t.begin = q.begin /\ t.partition_size = q.partition_size
          /\ t.father = q.father /\ t.side = q.side /\ t.status = "FREE"
          /\ t.occupied_timestamp = 0 /\ t.lru_timestamp = 0
        BY ONLY <2>1, <2>2, <2>4 DEF Block
    <2>. QED BY <2>2, <2>3, <2>5
<1>3. qs = [ps EXCEPT ![i] = r]
    BY DEF Freed
<1>. HIDE DEF r
<1>4. qs \in Seq(Block) /\ DOMAIN qs = DOMAIN ps /\ qs[i] = r /\ \A j \in DOMAIN ps : j # i => qs[j] = ps[j]
    <2>1. qs \in Seq(Block)
        BY <1>1, <1>2, <1>3, ExceptSeq
    <2>. QED BY <1>3, <2>1
<1>5. Restamped(qs, ps)
    BY <1>2, <1>4 DEF Restamped
<1>6. Shape(qs)
    BY <1>5, RestampedShape
<1>7. Kept(qs) = Kept(ps) \ {Spot(ps[i])}
    <2>1. ASSUME NEW x \in Kept(qs) PROVE x \in Kept(ps) /\ x # Spot(ps[i])
        <3>1. PICK j \in DOMAIN qs : IsOccupied(qs[j]) /\ x = Spot(qs[j])
            BY DEF Kept
        <3>2. j # i
            BY <1>2, <1>4, <3>1 DEF IsOccupied
        <3>3. qs[j] = ps[j] /\ j \in DOMAIN ps
            BY <1>4, <3>2
        <3>4. x \in Kept(ps)
            BY <3>1, <3>3 DEF Kept
        <3>5. ps[j].id # ps[i].id
            BY <3>2, <3>3 DEF Shape
        <3>. QED BY <3>1, <3>3, <3>4, <3>5 DEF Spot
    <2>2. ASSUME NEW x \in Kept(ps), x # Spot(ps[i]) PROVE x \in Kept(qs)
        <3>1. PICK j \in DOMAIN ps : IsOccupied(ps[j]) /\ x = Spot(ps[j])
            BY DEF Kept
        <3>2. qs[j] = ps[j] /\ j \in DOMAIN qs
            BY <1>4, <2>2, <3>1
        <3>. QED BY <3>1, <3>2 DEF Kept
    <2>. QED BY <2>1, <2>2
<1>8. ASSUME NoBuddies(ps) PROVE NoBuddiesBut(qs, ps[i].id)
    <2>1. \A j \in DOMAIN qs : qs[j].id # ps[i].id => qs[j] = ps[j] /\ j \in DOMAIN ps
        BY <1>2, <1>4
    <2>. QED BY <1>8, <2>1 DEF NoBuddies, NoBuddiesBut, BuddiesAt
<1>9. ASSUME NoBuddies(ps), ps[i].status = "FREE" PROVE NoBuddies(qs)
    <2>1. \A j \in DOMAIN qs : /\ j \in DOMAIN ps /\ qs[j].status = ps[j].status /\ qs[j].id = ps[j].id
                               /\ qs[j].father = ps[j].father /\ qs[j].partition_size = ps[j].partition_size
        BY <1>2, <1>4, <1>9
    <2>. QED BY <1>9, <2>1 DEF NoBuddies, BuddiesAt
<1>. QED BY <1>2, <1>4, <1>6, <1>7, <1>8, <1>9

\* An eviction gives up one block, and leaves no buddies apart if a message was dropped with it.
LEMMA FreePartitionKeeps ==
    ASSUME Inv, NEW i \in DOMAIN memory_partitions, FreePartition(i)
    PROVE  /\ Shape(memory_partitions')
           /\ Kept(memory_partitions') = Kept(memory_partitions) \ {Spot(memory_partitions[i])}
           /\ \A j \in DOMAIN memory_partitions' :
                /\ memory_partitions'[j].id \in 1..partition_count
                /\ memory_partitions'[j].occupied_timestamp <= now
                /\ memory_partitions'[j].lru_timestamp <= now
           /\ (/\ NoBuddies(memory_partitions)
               /\ MessagesIn(memory_partitions[i].id) # {} \/ memory_partitions[i].status = "FREE")
              => NoBuddies(memory_partitions')
<1>1. PICK id, qs : id = memory_partitions[i].id /\ qs = Freed(i)
    OBVIOUS
<1>2. /\ Shape(qs) /\ DOMAIN qs = DOMAIN memory_partitions
      /\ qs[i].id = id /\ qs[i].status = "FREE"
      /\ qs[i].occupied_timestamp = 0 /\ qs[i].lru_timestamp = 0
      /\ \A j \in DOMAIN qs : j # i => qs[j] = memory_partitions[j]
      /\ Kept(qs) = Kept(memory_partitions) \ {Spot(memory_partitions[i])}
      /\ NoBuddies(memory_partitions) => NoBuddiesBut(qs, id)
      /\ (NoBuddies(memory_partitions) /\ memory_partitions[i].status = "FREE") => NoBuddies(qs)
    BY <1>1, InvFacts, FreedKeeps
<1>3. ASSUME NEW j \in DOMAIN qs
      PROVE  qs[j].id \in 1..partition_count /\ qs[j].occupied_timestamp <= now /\ qs[j].lru_timestamp <= now
    <2>1. /\ memory_partitions[j].id \in Nat /\ memory_partitions[j].id >= 1 /\ partition_count \in Nat
          /\ memory_partitions[j].id <= partition_count /\ now \in Nat
          /\ memory_partitions[j].occupied_timestamp <= now /\ memory_partitions[j].lru_timestamp <= now
        BY <1>2, InvFacts
    <2>2. qs[j].id = memory_partitions[j].id
        BY <1>1, <1>2
    <2>3. qs[j].occupied_timestamp <= now /\ qs[j].lru_timestamp <= now
        BY <1>2, <2>1
    <2>. QED BY <2>1, <2>2, <2>3
<1>4. CASE MessagesIn(id) = {} /\ memory_partitions' = qs
    BY <1>1, <1>2, <1>3, <1>4
<1>5. CASE MessagesIn(id) # {} /\ memory_partitions' = Consolidated(qs, id)
    <2>1. PICK rs : rs = Consolidated(qs, id)
        OBVIOUS
    <2>2. /\ Shape(rs) /\ Kept(rs) = Kept(qs)
          /\ \A j \in DOMAIN rs : \E k \in DOMAIN qs :
                /\ rs[j].id = qs[k].id
                /\ rs[j].occupied_timestamp = qs[k].occupied_timestamp
                /\ rs[j].lru_timestamp = qs[k].lru_timestamp
          /\ NoBuddiesBut(qs, id) => NoBuddies(rs)
        BY <1>2, <2>1, ConsolidatedKeeps
    <2>. QED BY <1>2, <1>3, <1>5, <2>1, <2>2
<1>. QED BY <1>1, <1>4, <1>5 DEF FreePartition

\* The look-up changes timestamps only.
LEMMA LookUpStamps ==
    ASSUME Inv, LookUp
    PROVE  /\ Shape(memory_partitions') /\ Kept(memory_partitions') = Kept(memory_partitions)
           /\ \A j \in DOMAIN memory_partitions' :
                /\ memory_partitions'[j].id \in 1..partition_count
                /\ memory_partitions'[j].occupied_timestamp <= now
                /\ memory_partitions'[j].lru_timestamp <= now
           /\ NoBuddies(memory_partitions) => NoBuddies(memory_partitions')
<1>1. PICK ps, qs : ps = memory_partitions /\ qs = memory_partitions'
    OBVIOUS
<1>2. qs = [j \in DOMAIN ps |-> IF j \in PartitionOf(reading) THEN Touched(ps[j]) ELSE ps[j]]
    BY <1>1 DEF LookUp
<1>3. Shape(ps) /\ Len(ps) \in Nat /\ DOMAIN ps = 1..Len(ps) /\ now \in Nat /\ partition_count \in Nat
    BY <1>1, InvFacts, ShapeFields
<1>4. ASSUME NEW j \in DOMAIN ps
      PROVE  /\ qs[j] \in Block /\ qs[j].id = ps[j].id /\ qs[j].begin = ps[j].begin
             /\ qs[j].partition_size = ps[j].partition_size /\ qs[j].status = ps[j].status
             /\ qs[j].father = ps[j].father /\ qs[j].side = ps[j].side
             /\ qs[j].occupied_timestamp = ps[j].occupied_timestamp
             /\ qs[j].content_size = ps[j].content_size
             /\ qs[j].lru_timestamp \in {now, ps[j].lru_timestamp}
    <2>1. ps[j] \in Block
        BY <1>3, ShapeFields
    <2>2. Touched(ps[j]) \in Block /\ Touched(ps[j]) = [ps[j] EXCEPT !.lru_timestamp = now]
        BY <1>3, <2>1 DEF Touched, Block
    <2>3. qs[j] = ps[j] \/ qs[j] = Touched(ps[j])
        BY <1>2
    <2>. QED BY <2>1, <2>2, <2>3 DEF Block
<1>5. qs \in Seq(Block) /\ DOMAIN qs = DOMAIN ps
    <2>1. qs \in [1..Len(ps) -> Block] /\ DOMAIN qs = DOMAIN ps
        BY <1>2, <1>3, <1>4
    <2>. QED BY <1>3, <2>1, SeqDef
<1>6. Restamped(qs, ps)
    BY <1>4, <1>5 DEF Restamped
<1>7. Shape(qs)
    BY <1>3, <1>6, RestampedShape
<1>8. Kept(qs) = Kept(ps)
    <2>1. \A j \in DOMAIN ps : Spot(qs[j]) = Spot(ps[j]) /\ (IsOccupied(qs[j]) <=> IsOccupied(ps[j]))
        BY <1>4 DEF Spot, IsOccupied
    <2>. QED BY <1>5, <2>1 DEF Kept
<1>9. ASSUME NEW j \in DOMAIN qs
      PROVE  qs[j].id \in 1..partition_count /\ qs[j].occupied_timestamp <= now /\ qs[j].lru_timestamp <= now
    <2>1. /\ ps[j].id \in Nat /\ ps[j].id >= 1 /\ ps[j].id <= partition_count
          /\ ps[j].occupied_timestamp <= now /\ ps[j].lru_timestamp <= now
        BY <1>1, <1>5, InvFacts
    <2>2. qs[j].id = ps[j].id /\ qs[j].occupied_timestamp = ps[j].occupied_timestamp
          /\ qs[j].lru_timestamp \in {now, ps[j].lru_timestamp}
        BY <1>4, <1>5
    <2>. QED BY <1>3, <2>1, <2>2
<1>10. NoBuddies(ps) => NoBuddies(qs)
    BY <1>4, <1>5 DEF NoBuddies, BuddiesAt
<1>. QED BY <1>1, <1>7, <1>8, <1>9, <1>10

-----------------------------------------------------------------------------
(* The threads.                                                            *)

\* A step of one thread, seen from the others: theirs is as before.
LEMMA OneThread ==
    ASSUME NEW p \in Publishers, NEW t, pub \in [Publishers -> ThreadState],
           pub' = [pub EXCEPT ![p] = t]
    PROVE  pub'[p] = t /\ \A q \in Publishers : q # p => pub'[q] = pub[q]
OBVIOUS

\* A function with another value at one place.
LEMMA ExceptTyped ==
    ASSUME NEW S, NEW T, NEW f \in [S -> T], NEW x, NEW v \in T
    PROVE  [f EXCEPT ![x] = v] \in [S -> T]
OBVIOUS

\* Every step keeps the types of the threads' variables.
LEMMA ThreadsOKStep ==
    ASSUME Inv, [Next]_vars
    PROVE  ThreadsOK'
<1>00. ThreadsOK /\ Threads
    BY DEF Inv
<1>. USE DEF ThreadsOK, ThreadState
<1>0. /\ Messages \subseteq Nat /\ MaxMessages \in Nat /\ MaxTime \in Nat
      /\ partition_count \in Nat /\ now \in Nat
    BY <1>00, Numbers DEF Messages
<1>1. ASSUME NEW p \in Publishers, Lock(p) PROVE ThreadsOK'
    BY <1>00, <1>1 DEF Lock, AfterSearch, messageVars
<1>3. ASSUME NEW p \in Publishers, FindAgain(p) PROVE ThreadsOK'
    BY <1>00, <1>3 DEF FindAgain, AfterSearch, messageVars, memoryVars
<1>4. ASSUME NEW i, FreePartition(i), UNCHANGED now
      PROVE  queued' \subseteq Messages /\ age' \in [Messages -> 0..now'] /\ early' \subseteq Messages
    <2>1. queued' \subseteq Messages
        BY <1>00, <1>4 DEF FreePartition
    <2>2. PICK lost : /\ lost \subseteq Messages /\ early' = early \cup (lost \ queued)
                      /\ age' = [m \in Messages |-> IF m \in lost THEN 0 ELSE age[m]]
        BY <1>00, <1>4 DEF FreePartition, Forget
    <2>3. age' \in [Messages -> 0..now]
        BY <1>00, <1>0, <2>2
    <2>. QED BY <1>00, <1>4, <2>1, <2>2, <2>3
<1>5. ASSUME NEW p \in Publishers, DeletePartition(p) PROVE ThreadsOK'
    <2>1. pub' \in [Publishers -> ThreadState]
        BY <1>00, <1>5 DEF DeletePartition
    <2>2. queued' \subseteq Messages /\ age' \in [Messages -> 0..now'] /\ early' \subseteq Messages
        BY <1>00, <1>4, <1>5 DEF DeletePartition, messageVars
    <2>. QED BY <1>00, <1>5, <2>1, <2>2 DEF DeletePartition, messageVars
<1>6. ASSUME NEW p \in Publishers, DeleteUndefined(p) PROVE ThreadsOK'
    <2>1. CASE /\ \E i \in DOMAIN memory_partitions : FreePartition(i)
               /\ pub' = [pub EXCEPT ![p].pc = "find"]
               /\ UNCHANGED crashed
        <3>1. pub' \in [Publishers -> ThreadState]
            BY <1>00, <2>1
        <3>2. queued' \subseteq Messages /\ age' \in [Messages -> 0..now'] /\ early' \subseteq Messages
            BY <1>00, <1>4, <1>6, <2>1 DEF DeleteUndefined, messageVars
        <3>. QED BY <1>00, <1>6, <2>1, <3>1, <3>2 DEF DeleteUndefined, messageVars
    <2>2. CASE Crash /\ UNCHANGED <<memory_partitions, queued, age, early>>
        <3>1. pub' \in [Publishers -> ThreadState]
            BY <1>00, <2>2 DEF Crash
        <3>. QED BY <1>00, <1>6, <2>2, <3>1 DEF DeleteUndefined, Crash, messageVars
    <2>. QED BY <1>00, <1>6, <2>1, <2>2 DEF DeleteUndefined
<1>7. ASSUME NEW p \in Publishers, Place(p) PROVE ThreadsOK'
    <2>0. PICK m, x : m = pub[p].id /\ m \in Messages /\ StoresAt(x, m)
        BY <1>00, <1>7, PlaceStores
    <2>1. /\ partition_of' = [partition_of EXCEPT ![m] = x[1]]
          /\ partition_count' \in Nat /\ partition_count <= partition_count' /\ x[1] \in 1..partition_count'
          /\ age' = [age EXCEPT ![m] = now]
          /\ pub' = [pub EXCEPT ![p].pc = "enqueue"]
          /\ mutex_memory_partitions' = NoOne
          /\ UNCHANGED <<messageVars, queued, crashed, early>>
        BY <1>00, <1>7, <2>0 DEF Place, StoresAt
    <2>2. partition_of' \in [Messages -> 0..partition_count']
        <3>1. /\ partition_of \in [Messages -> 0..partition_count']
              /\ x[1] \in 0..partition_count'
            BY <1>00, <1>0, <2>1
        <3>. QED BY <2>1, <3>1, ExceptTyped
    <2>3. age' \in [Messages -> 0..now]
        <3>1. now \in 0..now /\ age \in [Messages -> 0..now]
            BY <1>00, <1>0
        <3>. QED BY <2>1, <3>1, ExceptTyped
    <2>4. pub' \in [Publishers -> ThreadState]
        BY <1>00, <2>1
    <2>. QED BY <1>00, <1>0, <2>1, <2>2, <2>3, <2>4 DEF messageVars
<1>8. ASSUME NEW p \in Publishers, Enqueue(p) PROVE ThreadsOK'
    <2>1. pub' \in [Publishers -> ThreadState]
        <3>1. IdleThread \in ThreadState
            BY <1>00, <1>0 DEF IdleThread
        <3>. QED BY <1>00, <1>8, <3>1, ExceptTyped DEF Enqueue
    <2>2. pub[p].id \in Messages
        BY <1>00, <1>8 DEF Enqueue, Threads, ThreadFits, Messages
    <2>. QED BY <1>00, <1>8, <2>1, <2>2 DEF Enqueue, memoryVars, messageVars
<1>9. ASSUME NEW p \in Publishers, NEW size \in Sizes, Receive(p, size) PROVE ThreadsOK'
    <2>1. message_count + 1 \in Messages /\ message_count + 1 \in 0..MaxMessages
        BY <1>00, <1>0, <1>9 DEF Receive, Messages
    <2>2. pub' \in [Publishers -> ThreadState]
        BY <1>00, <1>9, <2>1 DEF Receive
    <2>3. size_of' \in [Messages -> {0} \cup Sizes]
        BY <1>00, <1>9, <2>1 DEF Receive
    <2>. QED BY <1>00, <1>9, <2>1, <2>2, <2>3 DEF Receive, memoryVars
<1>10. ASSUME NEW m \in Messages, PickMessage(m) PROVE ThreadsOK'
    BY <1>00, <1>0, <1>10 DEF PickMessage, memoryVars, Messages
<1>11. CASE LookUp
    <2>1. age' \in [Messages -> 0..now]
        BY <1>00, <1>0, <1>11 DEF LookUp
    <2>. QED BY <1>00, <1>0, <1>11, <2>1 DEF LookUp
<1>12. CASE Tick
    <2>1. now + 1 \in 1..MaxTime /\ age \in [Messages -> 0..(now + 1)]
        BY <1>00, <1>0, <1>12 DEF Tick
    <2>. QED BY <1>00, <1>12, <2>1 DEF Tick, memoryVars
<1>13. CASE UNCHANGED vars
    BY <1>00, <1>13 DEF vars, memoryVars, messageVars
<1>. QED BY <1>1, <1>3, <1>5, <1>6, <1>7, <1>8, <1>9, <1>10, <1>11, <1>12, <1>13
         DEF Next, StoreStep, Finished

\* A step that leaves all but one thread alone keeps what is said of the others,
\* if the mutex is no other's and their messages are as before.
LEMMA OthersFit ==
    ASSUME NEW q \in Publishers, ThreadFits(q), pub'[q] = pub[q], UNCHANGED crashed,
           mutex_memory_partitions' = q <=> mutex_memory_partitions = q,
           message_count \in Nat, message_count' \in Nat, message_count <= message_count',
           pub[q].id # 0 => /\ partition_of'[pub[q].id] = partition_of[pub[q].id]
                            /\ size_of'[pub[q].id] = size_of[pub[q].id]
                            /\ pub[q].id \in queued' => pub[q].id \in queued
    PROVE  ThreadFits(q)'
BY DEF ThreadFits, Storing

\* Every step keeps the threads in order.
LEMMA ThreadsStep ==
    ASSUME Inv, ThreadsOK', [Next]_vars
    PROVE  Threads'
<1>00. ThreadsOK /\ Threads
    BY DEF Inv
<1>0. /\ Messages \subseteq Nat /\ NoOne \notin Publishers /\ message_count \in Nat
      /\ partition_count \in Nat /\ 0 \notin Messages
      /\ pub \in [Publishers -> ThreadState] /\ pub' \in [Publishers -> ThreadState]
      /\ mutex_memory_partitions \in Publishers \cup {NoOne}
      /\ partition_of \in [Messages -> 0..partition_count] /\ queued \subseteq Messages
      /\ \A m \in Messages : partition_of[m] \in Nat /\ partition_of[m] <= partition_count
    <2>1. /\ Messages \subseteq Nat /\ NoOne \notin Publishers /\ message_count \in Nat
          /\ partition_count \in Nat /\ 0 \notin Messages
        BY <1>00, Numbers DEF Messages, ThreadsOK
    <2>2. /\ pub \in [Publishers -> ThreadState] /\ pub' \in [Publishers -> ThreadState]
          /\ mutex_memory_partitions \in Publishers \cup {NoOne}
          /\ partition_of \in [Messages -> 0..partition_count] /\ queued \subseteq Messages
        BY <1>00 DEF ThreadsOK
    <2>3. \A m \in Messages : partition_of[m] \in Nat /\ partition_of[m] <= partition_count
        <3>1. \A m \in Messages : partition_of[m] \in 0..partition_count
            BY <2>2
        <3>. QED BY <2>1, <3>1
    <2>. QED BY <2>1, <2>2, <2>3
<1>01. (\A q \in Publishers : ThreadFits(q)) /\ Named
    BY <1>00 DEF Threads
<1>02. \A q \in Publishers : pub[q].pc \notin {"idle", "dead"} =>
            pub[q].id \in 1..message_count /\ pub[q].id \in Messages /\ pub[q].id # 0
    <2>. TAKE q \in Publishers
    <2>1. ThreadFits(q)
        BY <1>01
    <2>2. message_count <= MaxMessages /\ MaxMessages \in Nat
        BY <1>00, Numbers DEF ThreadsOK
    <2>. QED BY <1>0, <2>1, <2>2 DEF ThreadFits, Messages
<1>03. \A p, q \in Publishers : p # q /\ pub[p].id = pub[q].id => pub[p].id = 0
    BY <1>00 DEF Threads, OwnMessages
<1>1. ASSUME NEW p \in Publishers, Lock(p) PROVE Threads'
    <2>1. /\ pub[p].pc = "lock" /\ mutex_memory_partitions = NoOne /\ mutex_memory_partitions' = p
          /\ pub'[p].pc \in {"place", "delete"} /\ pub'[p].id = pub[p].id
          /\ \A q \in Publishers : q # p => pub'[q] = pub[q]
          /\ UNCHANGED <<partition_of, queued, crashed, message_count, size_of>>
        BY <1>0, <1>1 DEF Lock, AfterSearch, messageVars, ThreadState
    <2>2. ThreadFits(p)'
        <3>1. ThreadFits(p)
            BY <1>01
        <3>. QED BY <2>1, <3>1 DEF ThreadFits, Storing
    <2>3. ASSUME NEW q \in Publishers, q # p PROVE ThreadFits(q)'
        BY <1>0, <1>01, <2>1, <2>3, OthersFit
    <2>4. OwnMessages'
        BY <1>03, <2>1 DEF OwnMessages
    <2>. QED BY <2>1, <2>2, <2>3, <2>4, <1>01 DEF Threads, Named
<1>3. ASSUME NEW p \in Publishers, FindAgain(p) PROVE Threads'
    <2>1. /\ pub[p].pc = "find" /\ pub'[p].pc \in {"place", "delete"} /\ pub'[p].id = pub[p].id
          /\ \A q \in Publishers : q # p => pub'[q] = pub[q]
          /\ UNCHANGED <<mutex_memory_partitions, partition_of, queued, crashed, message_count, size_of>>
        BY <1>0, <1>3 DEF FindAgain, AfterSearch, memoryVars, messageVars, ThreadState
    <2>2. ThreadFits(p)'
        <3>1. ThreadFits(p)
            BY <1>01
        <3>. QED BY <2>1, <3>1 DEF ThreadFits, Storing
    <2>3. ASSUME NEW q \in Publishers, q # p PROVE ThreadFits(q)'
        BY <1>0, <1>01, <2>1, <2>3, OthersFit
    <2>4. OwnMessages'
        BY <1>03, <2>1 DEF OwnMessages
    <2>. QED BY <2>1, <2>2, <2>3, <2>4, <1>01 DEF Threads, Named
<1>4. ASSUME NEW p \in Publishers, NEW i, pub[p].pc = "delete", FreePartition(i),
             pub' = [pub EXCEPT ![p].pc = "find"],
             UNCHANGED <<partition_count, mutex_memory_partitions, messageVars, partition_of, crashed>>
      PROVE  Threads'
    <2>1. /\ pub'[p].pc = "find" /\ pub'[p].id = pub[p].id
          /\ \A q \in Publishers : q # p => pub'[q] = pub[q]
          /\ UNCHANGED <<mutex_memory_partitions, partition_of, crashed, message_count, size_of>>
          /\ queued' \subseteq queued
        BY <1>0, <1>4 DEF FreePartition, messageVars, ThreadState
    <2>2. ThreadFits(p)'
        <3>1. ThreadFits(p)
            BY <1>01
        <3>. QED BY <1>4, <2>1, <3>1 DEF ThreadFits, Storing
    <2>3. ASSUME NEW q \in Publishers, q # p PROVE ThreadFits(q)'
        <3>1. pub[q].id \in queued' => pub[q].id \in queued
            BY <2>1
        <3>. QED BY <1>0, <1>01, <2>1, <2>3, <3>1, OthersFit
    <2>4. OwnMessages'
        BY <1>03, <2>1 DEF OwnMessages
    <2>. QED BY <2>1, <2>2, <2>3, <2>4, <1>01 DEF Threads, Named
<1>5. ASSUME NEW p \in Publishers, DeletePartition(p) PROVE Threads'
    BY <1>4, <1>5 DEF DeletePartition
<1>6. ASSUME NEW p \in Publishers, DeleteUndefined(p) PROVE Threads'
    <2>1. CASE Crash /\ UNCHANGED <<memory_partitions, queued, age, early>>
        <3>1. /\ crashed' /\ \A q \in Publishers : pub'[q].pc = "dead" /\ pub'[q].id = pub[q].id
              /\ UNCHANGED <<mutex_memory_partitions, partition_of, queued, message_count, size_of>>
            BY <1>0, <1>6, <2>1 DEF DeleteUndefined, Crash, messageVars, ThreadState
        <3>2. ASSUME NEW q \in Publishers PROVE ThreadFits(q)'
            <4>1. ThreadFits(q)
                BY <1>01
            <4>. QED BY <3>1, <4>1 DEF ThreadFits, Storing
        <3>3. OwnMessages'
            BY <1>03, <3>1 DEF OwnMessages
        <3>. QED BY <3>1, <3>2, <3>3, <1>01 DEF Threads, Named
    <2>. QED BY <1>4, <1>6, <2>1 DEF DeleteUndefined
<1>7. ASSUME NEW p \in Publishers, Place(p) PROVE Threads'
    <2>0. PICK m, x : m = pub[p].id /\ m \in Messages /\ StoresAt(x, m)
        BY <1>7, PlaceStores
    <2>1. /\ pub[p].pc = "place" /\ pub'[p].pc = "enqueue" /\ pub'[p].id = pub[p].id
          /\ mutex_memory_partitions' = NoOne
          /\ \A q \in Publishers : q # p => pub'[q] = pub[q]
          /\ partition_of' = [partition_of EXCEPT ![m] = x[1]]
          /\ x[1] \in 1..partition_count' /\ partition_count' \in Nat
          /\ UNCHANGED <<queued, crashed, message_count, size_of>>
        <3>1. /\ pub[p].pc = "place" /\ pub' = [pub EXCEPT ![p].pc = "enqueue"]
              /\ mutex_memory_partitions' = NoOne
              /\ UNCHANGED <<queued, crashed, message_count, size_of>>
            BY <1>7 DEF Place, messageVars
        <3>. QED BY <1>0, <2>0, <3>1 DEF StoresAt, ThreadState
    <2>2. m \in 1..message_count /\ m \in Messages /\ m # 0
        BY <1>02, <2>0, <2>1
    <2>3. ThreadFits(p) /\ partition_of[m] = 0 /\ mutex_memory_partitions = p /\ size_of[m] \in Sizes
        BY <1>01, <2>0, <2>1 DEF ThreadFits, Storing
    <2>4. m \notin queued
        BY <2>3, <1>01 DEF Threads, Named
    <2>5. /\ partition_of'[m] = x[1] /\ x[1] # 0
          /\ \A n \in Messages : n # m => partition_of'[n] = partition_of[n]
        BY <1>0, <2>1, <2>2
    <2>6. ThreadFits(p)'
        BY <1>0, <2>0, <2>1, <2>3, <2>4, <2>5 DEF ThreadFits, Storing
    <2>7. ASSUME NEW q \in Publishers, q # p PROVE ThreadFits(q)'
        <3>1. pub[q].id # 0 => pub[q].id # m
            BY <1>03, <2>0, <2>7
        <3>2. pub[q].id # 0 => pub[q].id \in Messages
            BY <1>0 DEF ThreadState, Messages
        <3>3. ThreadFits(q)
            BY <1>01
        <3>. QED BY <1>0, <2>1, <2>3, <2>5, <2>7, <3>1, <3>2, <3>3, OthersFit
    <2>8. OwnMessages'
        BY <1>03, <2>1 DEF OwnMessages
    <2>9. Named'
        <3>1. Named
            BY <1>01
        <3>2. ASSUME NEW n \in queued PROVE partition_of'[n] # 0
            BY <1>0, <2>5, <3>1, <3>2 DEF Named
        <3>3. ASSUME NEW n \in Messages, n > message_count PROVE partition_of'[n] = 0
            <4>1. n # m
                BY <1>0, <2>2, <3>3
            <4>. QED BY <2>5, <3>1, <3>3, <4>1 DEF Named
        <3>4. ASSUME NEW n \in Messages, partition_of'[n] # 0 PROVE size_of[n] \in Sizes
            BY <2>3, <2>5, <3>1, <3>4 DEF Named
        <3>. QED BY <2>1, <3>2, <3>3, <3>4 DEF Named
    <2>. QED BY <2>6, <2>7, <2>8, <2>9 DEF Threads
<1>8. ASSUME NEW p \in Publishers, Enqueue(p) PROVE Threads'
    <2>1. /\ pub[p].pc = "enqueue" /\ pub'[p].pc = "idle" /\ pub'[p].id = 0
          /\ \A q \in Publishers : q # p => pub'[q] = pub[q]
          /\ queued' = queued \cup {pub[p].id}
          /\ UNCHANGED <<mutex_memory_partitions, partition_of, crashed, message_count, size_of>>
        BY <1>0, <1>8 DEF Enqueue, IdleThread, memoryVars, messageVars
    <2>2. ThreadFits(p)'
        <3>1. ThreadFits(p)
            BY <1>01
        <3>. QED BY <2>1, <3>1 DEF ThreadFits, Storing
    <2>3. ASSUME NEW q \in Publishers, q # p PROVE ThreadFits(q)'
        <3>1. pub[q].id # 0 => pub[q].id # pub[p].id
            BY <1>03, <2>3
        <3>. QED BY <1>0, <1>01, <2>1, <2>3, <3>1, OthersFit
    <2>4. OwnMessages'
        BY <1>03, <2>1 DEF OwnMessages
    <2>5. Named'
        <3>1. Named /\ partition_of[pub[p].id] # 0
            BY <1>01, <2>1 DEF Threads, ThreadFits
        <3>. QED BY <2>1, <3>1 DEF Named
    <2>. QED BY <2>2, <2>3, <2>4, <2>5 DEF Threads
<1>9. ASSUME NEW p \in Publishers, NEW size \in Sizes, Receive(p, size) PROVE Threads'
    <2>0. PICK m : m = message_count + 1
        OBVIOUS
    <2>1. /\ pub[p].pc = "idle" /\ pub'[p].pc = "lock" /\ pub'[p].id = m
          /\ \A q \in Publishers : q # p => pub'[q] = pub[q]
          /\ message_count < MaxMessages /\ message_count' = m
          /\ size_of' = [size_of EXCEPT ![m] = size]
          /\ UNCHANGED <<mutex_memory_partitions, partition_of, queued, crashed>>
        BY <1>0, <1>9, <2>0 DEF Receive, memoryVars, ThreadState
    <2>2. /\ m \in Messages /\ m \in 1..m /\ m \in Nat /\ m # 0 /\ message_count <= m
          /\ \A n \in 1..message_count : n # m /\ n \in 1..m
        BY <1>0, <2>0, <2>1, Numbers DEF Messages
    <2>3. size_of'[m] = size /\ \A n : n # m => size_of'[n] = size_of[n]
        BY <2>1, <2>2 DEF ThreadsOK
    <2>4. partition_of[m] = 0
        BY <1>0, <1>01, <2>0, <2>2 DEF Named
    <2>5. ThreadFits(p)'
        <3>1. ThreadFits(p) /\ mutex_memory_partitions # p
            BY <1>01, <2>1 DEF ThreadFits, Storing
        <3>. QED BY <2>1, <2>2, <2>3, <2>4, <3>1 DEF ThreadFits, Storing
    <2>6. \A q \in Publishers : pub[q].id # m
        <3>. TAKE q \in Publishers
        <3>1. ~crashed
            BY <1>01, <2>1 DEF ThreadFits
        <3>2. pub[q].id = 0 \/ pub[q].id \in 1..message_count
            BY <1>01, <3>1 DEF ThreadFits
        <3>. QED BY <2>2, <3>2
    <2>7. ASSUME NEW q \in Publishers, q # p PROVE ThreadFits(q)'
        BY <1>0, <1>01, <2>1, <2>2, <2>3, <2>6, <2>7, OthersFit
    <2>8. OwnMessages'
        BY <1>03, <2>1, <2>6 DEF OwnMessages
    <2>9. Named'
        BY <1>0, <1>01, <2>1, <2>2, <2>3 DEF Named
    <2>. QED BY <2>5, <2>7, <2>8, <2>9 DEF Threads
<1>10. ASSUME UNCHANGED <<mutex_memory_partitions, pub, crashed, message_count, partition_of, size_of, queued>>
       PROVE  Threads'
    BY <1>00, <1>10 DEF Threads, ThreadFits, OwnMessages, Named
<1>11. ASSUME NEW m \in Messages, PickMessage(m) PROVE Threads'
    BY <1>10, <1>11 DEF PickMessage, memoryVars
<1>12. CASE LookUp
    BY <1>10, <1>12 DEF LookUp
<1>13. CASE Tick
    BY <1>10, <1>13 DEF Tick, memoryVars
<1>14. CASE UNCHANGED vars
    BY <1>10, <1>14 DEF vars, memoryVars, messageVars
<1>. QED BY <1>1, <1>3, <1>5, <1>6, <1>7, <1>8, <1>9, <1>11, <1>12, <1>13, <1>14
         DEF Next, StoreStep, Finished

-----------------------------------------------------------------------------
(* What each step does to the payloads.                                    *)

\* A message that was stored has the size it came with.
LEMMA StoredIsCounted ==
    ASSUME Inv, NEW m \in Messages, partition_of[m] # 0
    PROVE  m \in 1..message_count
<1>1. ~(m > message_count)
    BY DEF Inv, Threads, Named
<1>2. m \in Nat /\ m >= 1 /\ message_count \in Nat
    BY Numbers, InvFacts DEF Messages
<1>. QED BY <1>1, <1>2

\* Steps that leave the list and the memory alone.
LEMMA OtherStepsKeep ==
    ASSUME Inv, ThreadsOK', Threads', now' \in Nat, now <= now',
           UNCHANGED <<memory, memory_partitions, partition_count, partition_of, early>>,
           \A m \in 1..message_count : size_of'[m] = size_of[m],
           \A p \in Publishers :
                /\ pub'[p].pc = "place" => Fitting(BsSize(size_of[pub'[p].id])) # {}
                /\ pub'[p].pc = "delete" => Fitting(BsSize(size_of[pub'[p].id])) = {}
                /\ pub'[p].pc \in {"place", "delete"} => pub'[p].id \in 1..message_count,
           \A m \in Messages :
                (m \in queued' \/ \E p \in Publishers : pub'[p].pc = "enqueue" /\ pub'[p].id = m)
                => Awaited(m)
    PROVE  Contents'
<1>1. ListOK'
    <2>1. ASSUME NEW k \in DOMAIN memory_partitions
          PROVE  /\ memory_partitions[k].id \in 1..partition_count
                 /\ memory_partitions[k].occupied_timestamp <= now'
                 /\ memory_partitions[k].lru_timestamp <= now'
        <3>1. /\ memory_partitions[k].id \in Nat /\ memory_partitions[k].id >= 1
              /\ memory_partitions[k].id <= partition_count /\ partition_count \in Nat
              /\ memory_partitions[k].occupied_timestamp \in Nat
              /\ memory_partitions[k].lru_timestamp \in Nat
              /\ memory_partitions[k].occupied_timestamp <= now
              /\ memory_partitions[k].lru_timestamp <= now /\ now \in Nat
            BY InvFacts
        <3>. QED BY <3>1
    <2>2. /\ memory' = memory /\ memory_partitions' = memory_partitions
          /\ partition_count' = partition_count
        OBVIOUS
    <2>3. memory \in [Bytes -> 0..MaxMessages] /\ Shape(memory_partitions)
        BY InvFacts
    <2>4. Shape(memory_partitions')
        BY <2>2, <2>3
    <2>. QED BY <2>1, <2>2, <2>3, <2>4 DEF ListOK
<1>2. Owned'
    <2>1. ASSUME NEW x \in Kept(memory_partitions)
          PROVE  \E m \in Messages :
                    /\ partition_of[m] = x[1] /\ size_of'[m] \in 1..x[3] /\ x[4] = size_of'[m]
                    /\ \A b \in 0..(size_of'[m] - 1) : memory[x[2] + b] = m
        <3>1. PICK m \in Messages : HoldsPayload(x, m)
            BY DEF Inv, Contents, Owned
        <3>2. x[1] # 0
            <4>1. PICK i \in DOMAIN memory_partitions : x = Spot(memory_partitions[i])
                BY DEF Kept
            <4>. QED BY <4>1, InvFacts DEF Spot
        <3>3. m \in 1..message_count
            BY <3>1, <3>2, StoredIsCounted DEF HoldsPayload
        <3>4. size_of'[m] = size_of[m]
            BY <3>3
        <3>. QED BY <3>1, <3>4 DEF HoldsPayload
    <2>2. Kept(memory_partitions') = Kept(memory_partitions)
        OBVIOUS
    <2>. QED BY <2>1, <2>2 DEF Owned, HoldsPayload
<1>3. ASSUME NEW p \in Publishers PROVE SearchFits(p)'
    <2>1. pub'[p].pc \in {"place", "delete"} => size_of'[pub'[p].id] = size_of[pub'[p].id]
        OBVIOUS
    <2>. QED BY <2>1 DEF SearchFits, Fitting
<1>4. InStep'
    <2>1. Kept(memory_partitions') = Kept(memory_partitions)
        OBVIOUS
    <2>2. NoBuddies(memory_partitions) => NoBuddies(memory_partitions')
        OBVIOUS
    <2>3. \A m : Holds(m) => Holds(m)'
        BY <2>1 DEF Holds
    <2>4. \A m \in Messages : Awaited(m)' => Awaited(m)
        BY DEF Awaited
    <2>5. InStep /\ early' = early
        BY DEF Inv, Contents
    <2>. QED BY <2>2, <2>3, <2>4, <2>5 DEF InStep
<1>. QED BY <1>1, <1>2, <1>3, <1>4 DEF Contents

\* The look-up.
LEMMA LookUpKeeps ==
    ASSUME Inv, ThreadsOK', Threads', LookUp
    PROVE  Contents'
<1>1. /\ ~crashed /\ mutex_memory_partitions = NoOne
      /\ UNCHANGED <<memory, partition_count, now, size_of, partition_of, queued, pub, early>>
    BY DEF LookUp
<1>2. PICK rs : rs = memory_partitions'
    OBVIOUS
<1>3. /\ Shape(rs) /\ Kept(rs) = Kept(memory_partitions)
      /\ \A j \in DOMAIN rs :
            /\ rs[j].id \in 1..partition_count
            /\ rs[j].occupied_timestamp <= now /\ rs[j].lru_timestamp <= now
      /\ NoBuddies(memory_partitions) => NoBuddies(rs)
    BY <1>2, LookUpStamps
<1>4. ListOK'
    BY <1>1, <1>2, <1>3, InvFacts DEF ListOK
<1>5. Owned'
    BY <1>1, <1>2, <1>3 DEF Inv, Contents, Owned, HoldsPayload
<1>6. ASSUME NEW p \in Publishers PROVE SearchFits(p)'
    <2>1. pub[p].pc \notin Storing
        BY <1>1, Numbers DEF Inv, Threads, ThreadFits
    <2>. QED BY <1>1, <2>1 DEF SearchFits, Storing
<1>7. InStep'
    <2>1. \A m \in Messages : (Awaited(m)' => Awaited(m)) /\ (Holds(m) => Holds(m)')
        BY <1>1, <1>2, <1>3 DEF Awaited, Holds
    <2>. QED BY <1>1, <1>2, <1>3, <2>1 DEF Inv, Contents, InStep
<1>. QED BY <1>4, <1>5, <1>6, <1>7 DEF Contents

\* An eviction.
LEMMA FreeKeeps ==
    ASSUME Inv, ThreadsOK', Threads', NEW p \in Publishers, pub[p].pc = "delete",
           NEW i \in DOMAIN memory_partitions, FreePartition(i),
           i \in Occupied \/ Occupied = {},
           pub' = [pub EXCEPT ![p].pc = "find"],
           UNCHANGED <<memory, partition_count, messageVars, partition_of>>
    PROVE  Contents'
<1>. DEFINE x == Spot(memory_partitions[i])
            ps == memory_partitions
            rs == memory_partitions'
<1>1. /\ pub'[p].pc = "find"
      /\ \A q \in Publishers : q # p => pub'[q] = pub[q] /\ pub[q].pc \notin Storing
      /\ UNCHANGED <<memory, partition_of, partition_count, size_of, now>>
    <2>1. pub \in [Publishers -> ThreadState]
        BY DEF Inv, ThreadsOK
    <2>2. \A q \in Publishers : q # p => pub[q].pc \notin Storing
        BY InvFacts DEF Storing
    <2>. QED BY <2>1, <2>2 DEF messageVars, ThreadState
<1>2. PICK id : id = ps[i].id
    OBVIOUS
<1>3. /\ Shape(rs) /\ Kept(rs) = Kept(ps) \ {x}
      /\ \A j \in DOMAIN rs :
            /\ rs[j].id \in 1..partition_count
            /\ rs[j].occupied_timestamp <= now /\ rs[j].lru_timestamp <= now
      /\ (NoBuddies(ps) /\ (MessagesIn(id) # {} \/ ps[i].status = "FREE")) => NoBuddies(rs)
    BY <1>2, FreePartitionKeeps
<1>4. ListOK'
    BY <1>1, <1>3, InvFacts DEF ListOK
<1>5. Owned'
    BY <1>1, <1>3 DEF Inv, Contents, Owned, HoldsPayload
<1>6. ASSUME NEW q \in Publishers PROVE SearchFits(q)'
    <2>1. CASE q = p
        BY <1>1, <2>1 DEF SearchFits
    <2>2. CASE q # p
        BY <1>1, <2>2 DEF SearchFits, Storing
    <2>. QED BY <2>1, <2>2
<1>7. PICK lost : /\ lost = {m \in Messages : partition_of[m] = id /\ Readable(m)}
                  /\ early' = early \cup (lost \ queued)
                  /\ queued' \subseteq queued
    BY <1>2 DEF FreePartition, Forget
<1>8. ASSUME early' = {}
      PROVE  /\ NoBuddies(rs)
             /\ \A m \in Messages : Awaited(m)' => Holds(m)'
    <2>1. early = {} /\ lost \subseteq queued
        BY <1>7, <1>8
    <2>2. NoBuddies(ps) /\ \A m \in Messages : Awaited(m) => Holds(m)
        BY <2>1 DEF Inv, Contents, InStep
    <2>3. \A m \in Messages : Awaited(m)' => Awaited(m)
        <3>. TAKE m \in Messages
        <3>. SUFFICES ASSUME Awaited(m)' PROVE Awaited(m)
            OBVIOUS
        <3>1. CASE m \in queued'
            BY <1>7, <3>1 DEF Awaited
        <3>2. CASE \E q \in Publishers : pub'[q].pc = "enqueue" /\ pub'[q].id = m
            BY <1>1, <3>2 DEF Awaited
        <3>. QED BY <3>1, <3>2 DEF Awaited
    <2>4. CASE i \in Occupied
        <3>1. x \in Kept(ps) /\ x[1] = id
            BY <1>2, <2>4 DEF Kept, Spot, Occupied
        <3>2. PICK owner \in Messages : HoldsPayload(x, owner)
            BY <3>1 DEF Inv, Contents, Owned
        <3>3. partition_of[owner] = id /\ memory[x[2]] = owner
            BY <3>1, <3>2, OneHolder DEF HoldsPayload
        <3>4. Readable(owner)
            BY <3>1, <3>3, ReadableIfHeld DEF Holds
        <3>5. owner \in lost /\ owner \in queued /\ owner \in MessagesIn(id)
            BY <1>7, <2>1, <3>3, <3>4 DEF MessagesIn
        <3>6. \A m \in Messages : Holds(m) /\ partition_of[m] = id => m = owner
            <4>. SUFFICES ASSUME NEW m \in Messages, Holds(m), partition_of[m] = id PROVE m = owner
                OBVIOUS
            <4>1. PICK y \in Kept(ps) : y[1] = id /\ memory[y[2]] = m
                BY DEF Holds
            <4>2. y = x
                BY <3>1, <4>1, InvFacts, KeptSpots
            <4>. QED BY <3>3, <4>1, <4>2
        <3>7. queued' = queued \ {owner}
            <4>1. \A m \in MessagesIn(id) : m = owner
                BY <2>2, <3>6, InvFacts DEF MessagesIn, Awaited
            <4>. QED BY <1>2, <3>5, <4>1 DEF FreePartition
        <3>8. NoBuddies(rs)
            BY <1>3, <2>2, <3>5
        <3>9. ASSUME NEW m \in Messages, Awaited(m)' PROVE Holds(m)'
            <4>1. Awaited(m) /\ Holds(m)
                BY <2>2, <2>3, <3>9
            <4>2. m # owner
                <5>. SUFFICES ASSUME m = owner PROVE FALSE
                    OBVIOUS
                <5>1. PICK q \in Publishers : pub'[q].pc = "enqueue" /\ pub'[q].id = m
                    BY <3>7, <3>9 DEF Awaited
                <5>2. pub[q].pc = "enqueue" /\ pub[q].id = m
                    BY <1>1, <5>1
                <5>3. m \notin queued
                    BY <5>2 DEF Inv, Threads, ThreadFits
                <5>. QED BY <3>5, <5>3
            <4>3. PICK y \in Kept(ps) : y[1] = partition_of[m] /\ memory[y[2]] = m
                BY <4>1 DEF Holds
            <4>4. y # x
                BY <3>3, <4>2, <4>3
            <4>. QED BY <1>1, <1>3, <4>3, <4>4 DEF Holds
        <3>. QED BY <3>8, <3>9
    <2>5. CASE Occupied = {}
        <3>1. Kept(ps) = {}
            BY <2>5 DEF Kept, Occupied
        <3>2. \A m \in Messages : ~Holds(m)
            BY <3>1 DEF Holds
        <3>3. ps[i].status = "FREE"
            <4>1. ps[i] \in Block /\ ~IsOccupied(ps[i])
                BY <2>5, InvFacts, ShapeFields DEF Occupied
            <4>. QED BY <4>1, BlockFields DEF IsOccupied
        <3>. QED BY <1>3, <2>2, <2>3, <3>2, <3>3
    <2>. QED BY <2>4, <2>5
<1>. HIDE DEF ps, rs, x
<1>9. InStep'
    BY <1>8 DEF InStep, rs
<1>. QED BY <1>4, <1>5, <1>6, <1>9 DEF Contents

\* The copy of m's payload leaves the bytes of all other occupied blocks alone.
LEMMA OthersUntouched ==
    ASSUME Inv, NEW m \in Messages, NEW x, StoresAt(x, m), NEW y \in Kept(memory_partitions)
    PROVE  /\ \A b \in 0..(y[3] - 1) : memory'[y[2] + b] = memory[y[2] + b]
           /\ memory'[y[2]] = memory[y[2]] /\ y[1] # 0
<1>1. /\ y \in Nat \X Nat \X Nat \X Nat /\ y[3] >= 1 /\ y[2] + y[3] <= RootSize
    BY InvFacts, KeptSpots
<1>2. /\ x[2] \in Nat /\ x[3] \in Nat /\ size_of[m] \in 1..x[3] /\ RootSize \in Nat
      /\ memory' = [b \in Bytes |-> IF b \in x[2]..(x[2] + size_of[m] - 1) THEN m ELSE memory[b]]
    BY Root DEF StoresAt
<1>3. x[2] + x[3] <= y[2] \/ y[2] + y[3] <= x[2]
    <2>1. x \in Kept(memory_partitions') /\ y \in Kept(memory_partitions') /\ x # y
        BY DEF StoresAt
    <2>. QED BY <2>1, KeptSpots DEF StoresAt
<1>4. ASSUME NEW b \in 0..(y[3] - 1) PROVE memory'[y[2] + b] = memory[y[2] + b]
    <2>1. PICK c \in Nat : c = y[2] + b /\ c <= RootSize - 1 /\ c \notin x[2]..(x[2] + size_of[m] - 1)
        <3>1. PICK y2 \in Nat, y3 \in Nat, x2 \in Nat, x3 \in Nat, s \in Nat, R \in Nat :
                /\ y2 = y[2] /\ y3 = y[3] /\ x2 = x[2] /\ x3 = x[3] /\ s = size_of[m] /\ R = RootSize
                /\ s <= x3 /\ y2 + y3 <= R /\ (x2 + x3 <= y2 \/ y2 + y3 <= x2)
            <4>1. y[2] \in Nat /\ y[3] \in Nat /\ size_of[m] \in Nat /\ size_of[m] <= x[3]
                BY <1>1, <1>2
            <4>. QED BY <1>1, <1>2, <1>3, <4>1
        <3>2. b \in 0..(y3 - 1)
            BY <3>1
        <3>3. /\ y2 + b \in Nat /\ y2 + b <= R - 1 /\ y2 + b \notin x2..(x2 + s - 1)
            BY ONLY <3>1, <3>2, y2 \in Nat, y3 \in Nat, x2 \in Nat, x3 \in Nat, s \in Nat, R \in Nat
        <3>. QED BY <3>1, <3>3
    <2>2. c \in Bytes
        BY <1>2, <2>1 DEF Bytes
    <2>. QED BY <1>2, <2>1, <2>2
<1>5. 0 \in 0..(y[3] - 1) /\ y[2] + 0 = y[2]
    BY <1>1
<1>6. memory'[y[2]] = memory[y[2]]
    <2>1. memory'[y[2] + 0] = memory[y[2] + 0]
        BY <1>4, <1>5
    <2>. QED BY <1>5, <2>1
<1>7. y[1] # 0
    <2>1. PICK i \in DOMAIN memory_partitions : y = Spot(memory_partitions[i])
        BY DEF Kept
    <2>. QED BY <2>1, InvFacts DEF Spot
<1>. QED BY <1>4, <1>6, <1>7

\* The copy of a payload.
LEMMA PlaceKeeps ==
    ASSUME Inv, ThreadsOK', Threads', NEW p \in Publishers, Place(p)
    PROVE  Contents'
<1>1. PICK m, x : m = pub[p].id /\ m \in Messages /\ StoresAt(x, m)
    BY PlaceStores
<1>2. /\ pub[p].pc = "place" /\ pub'[p].pc = "enqueue" /\ pub'[p].id = m
      /\ \A q \in Publishers : q # p => pub'[q] = pub[q] /\ pub[q].pc \notin Storing
      /\ UNCHANGED <<size_of, now, queued, early>>
    <2>1. pub \in [Publishers -> ThreadState]
        BY DEF Inv, ThreadsOK
    <2>2. pub[p].pc = "place" /\ pub' = [pub EXCEPT ![p].pc = "enqueue"]
          /\ UNCHANGED <<size_of, now, queued, early>>
        BY DEF Place, messageVars
    <2>3. \A q \in Publishers : q # p => pub[q].pc \notin Storing
        BY <2>2, InvFacts DEF Storing
    <2>. QED BY <1>1, <2>1, <2>2, <2>3 DEF ThreadState
<1>3. /\ x[1] # 0 /\ x[4] = size_of[m] /\ x[2] \in Nat /\ x[3] \in Nat /\ x[2] + x[3] <= RootSize
      /\ RootSize \in Nat
      /\ size_of[m] \in 1..x[3] /\ size_of[m] \in Nat /\ size_of[m] >= 1 /\ size_of[m] <= x[3]
      /\ memory' = [b \in Bytes |-> IF b \in x[2]..(x[2] + size_of[m] - 1) THEN m ELSE memory[b]]
      /\ Kept(memory_partitions') = Kept(memory_partitions) \cup {x}
    BY <1>1, Root DEF StoresAt
<1>4. /\ partition_of'[m] = x[1] /\ partition_of[m] = 0
      /\ \A n \in Messages : n # m => partition_of'[n] = partition_of[n]
    <2>1. partition_of \in [Messages -> 0..partition_count] /\ partition_of' = [partition_of EXCEPT ![m] = x[1]]
        BY <1>1 DEF StoresAt, Inv, ThreadsOK
    <2>2. partition_of[m] = 0
        BY <1>1, <1>2 DEF Inv, Threads, ThreadFits, Storing
    <2>. QED BY <1>1, <2>1, <2>2
<1>5. ListOK'
    <2>1. memory' \in [Bytes -> 0..MaxMessages]
        <3>1. m \in 0..MaxMessages
            BY <1>1, Numbers DEF Messages
        <3>. QED BY <1>3, <3>1, InvFacts
    <2>. QED BY <1>1, <1>2, <2>1 DEF StoresAt, ListOK
<1>6. \A b \in 0..(size_of[m] - 1) : memory'[x[2] + b] = m
    <2>. TAKE b \in 0..(size_of[m] - 1)
    <2>1. PICK c \in Nat : c = x[2] + b /\ c <= RootSize - 1 /\ c \in x[2]..(x[2] + size_of[m] - 1)
        <3>1. PICK x2 \in Nat, x3 \in Nat, s \in Nat, R \in Nat :
                /\ x2 = x[2] /\ x3 = x[3] /\ s = size_of[m] /\ R = RootSize
                /\ s <= x3 /\ x2 + x3 <= R /\ b \in 0..(s - 1)
            BY <1>3
        <3>2. x2 + b \in Nat /\ x2 + b <= R - 1 /\ x2 + b \in x2..(x2 + s - 1)
            BY ONLY <3>1, x2 \in Nat, x3 \in Nat, s \in Nat, R \in Nat
        <3>. QED BY <3>1, <3>2
    <2>2. c \in Bytes
        BY <1>3, <2>1 DEF Bytes
    <2>. QED BY <1>3, <2>1, <2>2
<1>7. Owned'
    <2>1. ASSUME NEW y \in Kept(memory_partitions)
          PROVE  \E n \in Messages : /\ partition_of'[n] = y[1] /\ size_of[n] \in 1..y[3]
                                     /\ y[4] = size_of[n]
                                     /\ \A b \in 0..(size_of[n] - 1) : memory'[y[2] + b] = n
        <3>1. PICK n \in Messages : HoldsPayload(y, n)
            BY DEF Inv, Contents, Owned
        <3>2. /\ \A b \in 0..(y[3] - 1) : memory'[y[2] + b] = memory[y[2] + b]
              /\ y[1] # 0
            BY <1>1, OthersUntouched
        <3>3. n # m
            BY <1>4, <3>1, <3>2 DEF HoldsPayload
        <3>4. \A b \in 0..(size_of[n] - 1) : b \in 0..(y[3] - 1)
            <4>1. y[3] \in Nat /\ size_of[n] \in 1..y[3]
                BY <3>1, InvFacts, KeptSpots DEF HoldsPayload
            <4>. QED BY <4>1
        <3>. QED BY <1>4, <3>1, <3>2, <3>3, <3>4 DEF HoldsPayload
    <2>2. ASSUME NEW y \in Kept(memory_partitions')
          PROVE  \E n \in Messages : /\ partition_of'[n] = y[1] /\ size_of[n] \in 1..y[3]
                                     /\ y[4] = size_of[n]
                                     /\ \A b \in 0..(size_of[n] - 1) : memory'[y[2] + b] = n
        <3>1. CASE y \in Kept(memory_partitions)
            BY <2>1, <3>1
        <3>2. CASE y = x
            <4>1. /\ m \in Messages /\ partition_of'[m] = x[1] /\ size_of[m] \in 1..x[3]
                  /\ x[4] = size_of[m]
                BY <1>1, <1>3, <1>4
            <4>. QED BY ONLY <1>6, <3>2, <4>1
        <3>. QED BY <1>3, <3>1, <3>2
    <2>. QED BY <1>2, <2>2 DEF Owned, HoldsPayload
<1>8. ASSUME NEW q \in Publishers PROVE SearchFits(q)'
    <2>1. CASE q = p
        BY <1>2, <2>1 DEF SearchFits
    <2>2. CASE q # p
        BY <1>2, <2>2 DEF SearchFits, Storing
    <2>. QED BY <2>1, <2>2
<1>9. ASSUME early = {}
      PROVE  /\ NoBuddies(memory_partitions')
             /\ \A n \in Messages : Awaited(n)' => Holds(n)'
    <2>1. NoBuddies(memory_partitions) /\ \A n \in Messages : Awaited(n) => Holds(n)
        BY <1>9 DEF Inv, Contents, InStep
    <2>2. NoBuddies(memory_partitions')
        BY <1>1, <2>1 DEF StoresAt
    <2>3. Holds(m)'
        <3>1. 0 \in 0..(size_of[m] - 1) /\ x[2] + 0 = x[2]
            BY <1>3
        <3>2. memory'[x[2]] = m
            <4>1. memory'[x[2] + 0] = m
                BY <1>6, <3>1
            <4>. QED BY <3>1, <4>1
        <3>. QED BY <1>3, <1>4, <3>2 DEF Holds
    <2>4. ASSUME NEW n \in Messages, n # m, Awaited(n)' PROVE Holds(n)'
        <3>1. Awaited(n)
            BY <1>2, <2>4 DEF Awaited
        <3>2. PICK y \in Kept(memory_partitions) : y[1] = partition_of[n] /\ memory[y[2]] = n
            BY <2>1, <3>1 DEF Holds
        <3>3. memory'[y[2]] = n
            BY <1>1, <3>2, OthersUntouched
        <3>. QED BY <1>3, <1>4, <2>4, <3>2, <3>3 DEF Holds
    <2>. QED BY <2>2, <2>3, <2>4
<1>10. InStep'
    BY <1>2, <1>9 DEF InStep
<1>. QED BY <1>5, <1>7, <1>8, <1>10 DEF Contents

-----------------------------------------------------------------------------
(* The invariant holds.                                                    *)

\* The memory starts as one FREE block, the root, with no payload anywhere.
LEMMA InvInit ==
    Init => Inv
<1>. SUFFICES ASSUME Init PROVE Inv
    OBVIOUS
<1>0. /\ 0 \notin Messages /\ Messages \subseteq Nat /\ MaxMessages \in Nat /\ MaxTime \in Nat \ {0}
      /\ NoOne \notin Publishers
      /\ RootSize \in Nat /\ RootSize >= 1 /\ RootLog \in Nat /\ RootSize = Pow2[RootLog]
    BY Numbers, Configured, Root DEF Messages
<1>1. ThreadsOK
    <2>1. IdleThread \in ThreadState
        BY <1>0 DEF ThreadState, IdleThread
    <2>2. pub \in [Publishers -> ThreadState]
        BY <2>1 DEF Init, InitThreads
    <2>3. /\ partition_of \in [Messages -> 0..partition_count] /\ age \in [Messages -> 0..now]
          /\ size_of \in [Messages -> {0} \cup Sizes]
        BY DEF Init, InitThreads
    <2>4. now \in 1..MaxTime /\ message_count \in 0..MaxMessages /\ reading \in 0..MaxMessages
        BY <1>0 DEF Init, InitThreads
    <2>. QED BY <2>2, <2>3, <2>4 DEF Init, InitThreads, ThreadsOK
<1>2. Threads
    <2>1. /\ \A p \in Publishers : pub[p] = IdleThread
          /\ mutex_memory_partitions = NoOne /\ crashed = FALSE /\ queued = {}
          /\ \A m \in Messages : partition_of[m] = 0
        BY DEF Init, InitThreads
    <2>2. \A p \in Publishers : ThreadFits(p)
        BY <1>0, <2>1 DEF ThreadFits, IdleThread, Storing
    <2>3. OwnMessages /\ Named
        BY <2>1 DEF OwnMessages, Named, IdleThread
    <2>. QED BY <2>2, <2>3 DEF Threads
<1>3. PICK r : r = Partition(1, 0, RootSize, <<"F">>, <<>>)
    OBVIOUS
<1>4. /\ r.id = 1 /\ r.begin = 0 /\ r.partition_size = RootSize
      /\ r.status = "FREE" /\ r.occupied_timestamp = 0 /\ r.lru_timestamp = 0
      /\ r.father = <<"F">> /\ r.side = <<>>
      /\ r = [id |-> 1, begin |-> 0, partition_size |-> RootSize, status |-> "FREE", content_size |-> 0,
              occupied_timestamp |-> 0, lru_timestamp |-> 0, father |-> <<"F">>, side |-> <<>>]
    BY <1>3 DEF Partition
<1>5. r \in Block /\ End(r) = RootSize
    <2>1. <<"F">> \in Seq(Sides) /\ <<>> \in Seq(Sides)
        BY DEF Sides
    <2>2. 0 \in 0..TAMANO_MEMORIA
        BY Numbers
    <2>3. r \in Block
        BY <1>0, <1>4, <2>1, <2>2 DEF Block
    <2>. QED BY <1>0, <1>4, <2>3 DEF End
<1>6. InPlace(r, 0)
    <2>1. 0 \in 0..RootLog /\ RootLog - 0 = RootLog /\ 0 = 0 * r.partition_size
        BY <1>0, <1>4
    <2>. QED BY <1>0, <1>4, <1>5, <2>1 DEF InPlace
<1>7. memory_partitions = <<r>> /\ partition_count = 1 /\ now = 1
    BY <1>3 DEF Init, InitThreads
<1>8. /\ memory_partitions \in Seq(Block) /\ Len(memory_partitions) = 1
      /\ DOMAIN memory_partitions = {1} /\ memory_partitions[1] = r
    BY <1>5, <1>7
<1>9. Shape(memory_partitions)
    <2>1. 1..(Len(memory_partitions) - 1) = {}
        BY <1>8
    <2>. QED BY <1>0, <1>4, <1>5, <1>6, <1>8, <2>1 DEF Shape
<1>10. ListOK
    <2>1. memory \in [Bytes -> 0..MaxMessages]
        BY <1>0 DEF Init
    <2>. QED BY <1>4, <1>7, <1>8, <1>9, <2>1 DEF ListOK
<1>11. Kept(memory_partitions) = {} /\ NoBuddies(memory_partitions)
    BY <1>4, <1>8 DEF Kept, IsOccupied, NoBuddies, BuddiesAt
<1>12. Owned
    BY <1>11 DEF Owned
<1>13. (\A p \in Publishers : SearchFits(p)) /\ InStep
    <2>1. queued = {} /\ \A p \in Publishers : pub[p].pc = "idle"
        BY DEF Init, InitThreads, IdleThread
    <2>. QED BY <1>11, <2>1 DEF SearchFits, InStep, Awaited
<1>. QED BY <1>1, <1>2, <1>10, <1>12, <1>13 DEF Inv, Contents

\* Every step keeps the invariant.
LEMMA InvStep ==
    Inv /\ [Next]_vars => Inv'
<1>. SUFFICES ASSUME Inv, [Next]_vars PROVE Inv'
    OBVIOUS
<1>0. ThreadsOK' /\ Threads'
    BY ThreadsOKStep, ThreadsStep
<1>. SUFFICES Contents'
    BY <1>0 DEF Inv
<1>01. /\ pub \in [Publishers -> ThreadState] /\ now \in Nat /\ message_count \in Nat
       /\ now <= now
    <2>1. now \in Nat
        BY InvFacts
    <2>. QED BY <2>1, InvFacts DEF Inv, ThreadsOK
<1>02. \A q \in Publishers : pub[q].pc \in {"place", "delete"} => pub[q].id \in 1..message_count
    BY InvFacts DEF Storing
<1>03. \A q \in Publishers : SearchFits(q)
    BY DEF Inv, Contents
<1>1. ASSUME NEW p \in Publishers, Lock(p) \/ FindAgain(p) PROVE Contents'
    <2>1. /\ pub[p].pc \in {"lock", "find"} /\ pub'[p].id = pub[p].id
          /\ pub'[p].pc = IF Fitting(BsSize(size_of[pub[p].id])) # {} THEN "place" ELSE "delete"
          /\ \A q \in Publishers : q # p => pub'[q] = pub[q]
          /\ UNCHANGED <<memory, memory_partitions, partition_count, partition_of, early,
                         queued, size_of, now>>
        BY <1>01, <1>1 DEF Lock, FindAgain, AfterSearch, memoryVars, messageVars, ThreadState
    <2>2. pub[p].id \in 1..message_count
        BY <2>1, InvFacts DEF Storing
    <2>. QED BY <1>0, <1>01, <1>02, <1>03, <2>1, <2>2, OtherStepsKeep DEF SearchFits, Awaited
<1>2. ASSUME NEW p \in Publishers, DeletePartition(p) PROVE Contents'
    <2>1. PICK i \in DOMAIN memory_partitions : IsVictim(i) /\ FreePartition(i)
        BY <1>2 DEF DeletePartition
    <2>2. i \in Occupied
        BY <2>1 DEF IsVictim
    <2>. QED BY <1>0, <1>2, <2>1, <2>2, FreeKeeps DEF DeletePartition
<1>3. ASSUME NEW p \in Publishers, DeleteUndefined(p) PROVE Contents'
    <2>1. CASE /\ \E i \in DOMAIN memory_partitions : FreePartition(i)
               /\ pub' = [pub EXCEPT ![p].pc = "find"]
               /\ UNCHANGED crashed
        <3>1. PICK i \in DOMAIN memory_partitions : FreePartition(i)
            BY <2>1
        <3>. QED BY <1>0, <1>3, <2>1, <3>1, FreeKeeps DEF DeleteUndefined
    <2>2. CASE Crash /\ UNCHANGED <<memory_partitions, queued, age, early>>
        <3>1. /\ \A q \in Publishers : pub'[q].pc = "dead"
              /\ UNCHANGED <<memory, memory_partitions, partition_count, partition_of, early,
                             queued, size_of, now>>
            BY <1>01, <1>3, <2>2 DEF DeleteUndefined, Crash, messageVars, ThreadState
        <3>. QED BY <1>0, <1>01, <3>1, OtherStepsKeep DEF Awaited
    <2>. QED BY <1>3, <2>1, <2>2 DEF DeleteUndefined
<1>4. ASSUME NEW p \in Publishers, Place(p) PROVE Contents'
    BY <1>0, <1>4, PlaceKeeps
<1>5. ASSUME NEW p \in Publishers, Enqueue(p) PROVE Contents'
    <2>1. /\ pub[p].pc = "enqueue" /\ pub'[p].pc = "idle"
          /\ \A q \in Publishers : q # p => pub'[q] = pub[q]
          /\ queued' = queued \cup {pub[p].id}
          /\ UNCHANGED <<memory, memory_partitions, partition_count, partition_of, early,
                         size_of, now>>
        BY <1>01, <1>5 DEF Enqueue, IdleThread, memoryVars, messageVars
    <2>. QED BY <1>0, <1>01, <1>02, <1>03, <2>1, OtherStepsKeep DEF SearchFits, Awaited
<1>6. ASSUME NEW p \in Publishers, NEW size \in Sizes, Receive(p, size) PROVE Contents'
    <2>1. /\ pub'[p].pc = "lock"
          /\ \A q \in Publishers : q # p => pub'[q] = pub[q]
          /\ size_of' = [size_of EXCEPT ![message_count + 1] = size]
          /\ UNCHANGED <<memory, memory_partitions, partition_count, partition_of, early,
                         queued, now>>
        BY <1>01, <1>6 DEF Receive, memoryVars, ThreadState
    <2>2. \A m \in 1..message_count : size_of'[m] = size_of[m]
        <3>1. \A m \in 1..message_count : m # message_count + 1
            BY <1>01
        <3>2. size_of \in [Messages -> {0} \cup Sizes]
            BY DEF Inv, ThreadsOK
        <3>. QED BY <2>1, <3>1, <3>2
    <2>. QED BY <1>0, <1>01, <1>02, <1>03, <2>1, <2>2, OtherStepsKeep DEF SearchFits, Awaited
<1>7. ASSUME UNCHANGED <<memory, memory_partitions, partition_count, partition_of, early,
                         queued, size_of, pub>>, now' \in Nat, now <= now'
      PROVE  Contents'
    BY <1>0, <1>02, <1>03, <1>7, OtherStepsKeep DEF SearchFits, Awaited
<1>8. ASSUME NEW m \in Messages, PickMessage(m) PROVE Contents'
    BY <1>01, <1>7, <1>8 DEF PickMessage, memoryVars
<1>9. CASE LookUp
    BY <1>0, <1>9, LookUpKeeps
<1>10. CASE Tick
    <2>1. now' \in Nat /\ now <= now'
        BY <1>01, <1>10 DEF Tick
    <2>. QED BY <1>7, <1>10, <2>1 DEF Tick, memoryVars
<1>11. CASE UNCHANGED vars
    BY <1>01, <1>7, <1>11 DEF vars, memoryVars, messageVars
<1>. QED BY <1>1, <1>2, <1>3, <1>4, <1>5, <1>6, <1>8, <1>9, <1>10, <1>11
         DEF Next, StoreStep, Finished

\* The invariant is one of every state the program can be in.
LEMMA InvAlways ==
    Spec => []Inv
<1>. QED BY InvInit, InvStep, PTL DEF Spec

-----------------------------------------------------------------------------
(* No buddies apart.                                                       *)

\* An odd multiple of a power of two is no multiple of a larger one.
LEMMA OddMultiple ==
    ASSUME NEW n \in Nat, NEW k \in Nat, n <= k, NEW e \in Nat, NEW f \in Nat, NEW b \in Nat,
           b = e * Pow2[k], b = (2 * f + 1) * Pow2[n]
    PROVE  k = n
<1>. SUFFICES ASSUME k # n PROVE FALSE
    OBVIOUS
<1>1. PICK j \in Nat : k = j + (n + 1)
    <2>1. k - (n + 1) \in Nat /\ k = (k - (n + 1)) + (n + 1)
        OBVIOUS
    <2>. QED BY <2>1
<1>2. PICK s \in Nat, t \in Nat : /\ s = Pow2[n] /\ t = Pow2[j] /\ s >= 1
                                  /\ Pow2[k] = t * (2 * s)
    <2>1. Pow2[j + (n + 1)] = Pow2[j] * Pow2[n + 1] /\ Pow2[n + 1] = 2 * Pow2[n]
        BY Pow2Product, Pow2Steps
    <2>. QED BY <1>1, <2>1, Pow2Steps
<1>3. PICK g \in Nat : g = e * t
    OBVIOUS
<1>4. b = (2 * g) * s
    <2>1. e * (t * (2 * s)) = (2 * (e * t)) * s
        OBVIOUS
    <2>. QED BY <1>2, <1>3, <2>1
<1>5. b <= b /\ b < b + s
    BY <1>2
<1>6. Quot(b, n) = 2 * g
    <2>1. 2 * g \in Nat
        OBVIOUS
    <2>. QED BY <1>2, <1>4, <1>5, <2>1, AlignedBlock
<1>7. Quot(b, n) = 2 * f + 1
    <2>1. 2 * f + 1 \in Nat
        OBVIOUS
    <2>. QED BY <1>2, <1>5, <2>1, AlignedBlock
<1>. QED BY <1>6, <1>7

\* A smallest block of a list, with its place.
LEMMA SmallestBlock ==
    ASSUME NEW ps, Shape(ps)
    PROVE  \E k \in DOMAIN ps, d \in Nat, n \in Nat :
             /\ InPlace(ps[k], d) /\ n = RootLog - d /\ ps[k].partition_size = Pow2[n]
             /\ \A j \in DOMAIN ps : \E c, l \in Nat :
                    /\ InPlace(ps[j], c) /\ l = RootLog - c /\ n <= l /\ ps[j].partition_size = Pow2[l]
<1>1. ASSUME NEW j \in DOMAIN ps
      PROVE  \E c, l \in Nat : InPlace(ps[j], c) /\ l = RootLog - c /\ ps[j].partition_size = Pow2[l]
    <2>1. PICK c : InPlace(ps[j], c)
        BY DEF Shape
    <2>2. c \in Nat /\ RootLog - c \in Nat /\ ps[j].partition_size = Pow2[RootLog - c]
        BY <2>1, ShapeFields, WayOf
    <2>. QED BY <2>1, <2>2
<1>. DEFINE S == {n \in Nat : \E k \in DOMAIN ps : ps[k].partition_size = Pow2[n]}
<1>2. S \in SUBSET Nat /\ S # {}
    <2>1. 1 \in DOMAIN ps
        BY ShapeFields
    <2>. QED BY <1>1, <2>1
<1>3. PICK n \in S : \A l \in S : n <= l
    BY <1>2, LeastNumber
<1>4. PICK k \in DOMAIN ps : ps[k].partition_size = Pow2[n]
    BY <1>3
<1>5. PICK d, l \in Nat : InPlace(ps[k], d) /\ l = RootLog - d /\ ps[k].partition_size = Pow2[l]
    BY <1>1, <1>4
<1>6. d \in Nat /\ n = RootLog - d
    <2>1. n = l
        BY <1>3, <1>4, <1>5, Pow2Injective
    <2>. QED BY <1>5, <2>1
<1>7. \A j \in DOMAIN ps : \E c, a \in Nat :
        /\ InPlace(ps[j], c) /\ a = RootLog - c /\ n <= a /\ ps[j].partition_size = Pow2[a]
    <2>. TAKE j \in DOMAIN ps
    <2>1. PICK c, a \in Nat : InPlace(ps[j], c) /\ a = RootLog - c /\ ps[j].partition_size = Pow2[a]
        BY <1>1
    <2>2. n <= a
        BY <1>3, <2>1
    <2>. QED BY <2>1, <2>2
<1>. QED BY <1>4, <1>5, <1>6, <1>7

\* Without buddies apart and with nothing occupied, the memory is one block.
LEMMA OneFreeBlock ==
    ASSUME NEW ps, Shape(ps), NoBuddies(ps), \A i \in DOMAIN ps : ps[i].status = "FREE"
    PROVE  ps[1].partition_size = RootSize
<1>0. Len(ps) \in Nat /\ Len(ps) >= 1 /\ DOMAIN ps = 1..Len(ps) /\ RootSize \in Nat /\ RootLog \in Nat
      /\ RootSize = Pow2[RootLog] /\ ps[1].begin = 0 /\ End(ps[Len(ps)]) = RootSize
    BY ShapeFields, Root DEF Shape
<1>1. PICK k \in DOMAIN ps, d \in Nat, n \in Nat :
             /\ InPlace(ps[k], d) /\ n = RootLog - d /\ ps[k].partition_size = Pow2[n]
             /\ \A j \in DOMAIN ps : \E c, l \in Nat :
                    /\ InPlace(ps[j], c) /\ l = RootLog - c /\ n <= l /\ ps[j].partition_size = Pow2[l]
    BY SmallestBlock
<1>2. PICK s \in Nat, b \in Nat, e \in Nat :
        /\ s = Pow2[n] /\ s >= 1 /\ b = ps[k].begin /\ b = e * s /\ End(ps[k]) = b + s
        /\ s = ps[k].partition_size /\ b < RootSize /\ b + s <= RootSize
    <2>1. PICK a \in Nat : ps[k].begin = a * ps[k].partition_size
        BY <1>1 DEF InPlace
    <2>2. /\ ps[k].partition_size \in Nat /\ ps[k].begin \in Nat /\ ps[k].partition_size >= 1
          /\ End(ps[k]) = ps[k].begin + ps[k].partition_size
          /\ End(ps[k]) <= RootSize /\ ps[k].begin < RootSize
        BY <1>1, ShapeFields
    <2>. QED BY <1>1, <2>1, <2>2
<1>3. ps[k] \in Block
    BY ShapeFields
<1>4. CASE d = 0
    <2>1. s = RootSize /\ b = 0
        BY <1>0, <1>1, <1>2, <1>4
    <2>2. k = 1
        <3>. SUFFICES ASSUME k # 1 PROVE FALSE
            OBVIOUS
        <3>1. 1 \in DOMAIN ps /\ 1 < k
            BY <1>0
        <3>2. End(ps[1]) <= b
            BY <1>2, <3>1, InOrderOfAddress
        <3>3. End(ps[1]) \in Nat /\ 0 < End(ps[1])
            BY <1>0, <3>1, ShapeFields
        <3>. QED BY <2>1, <3>2, <3>3
    <2>. QED BY <1>2, <2>1, <2>2
<1>5. CASE d # 0
    <2>1. PICK f \in Nat : e = 2 * f \/ e = 2 * f + 1
        <3>1. e \div 2 \in Nat /\ (e = 2 * (e \div 2) \/ e = 2 * (e \div 2) + 1)
            OBVIOUS
        <3>. QED BY <3>1
    <2>2. CASE e = 2 * f
        <3>1. b + s = (2 * f + 1) * s /\ b = f * (2 * s)
            BY <1>2, <2>2
        <3>2. k # Len(ps)
            <4>. SUFFICES ASSUME k = Len(ps) PROVE FALSE
                OBVIOUS
            <4>1. b + s = RootSize
                BY <1>0, <1>2
            <4>2. RootSize = 1 * Pow2[RootLog] /\ RootSize = (2 * f + 1) * Pow2[n] /\ n <= RootLog
                <5>1. RootSize = (2 * f + 1) * Pow2[n]
                    BY <1>2, <3>1, <4>1
                <5>2. n <= RootLog
                    BY <1>0, <1>1
                <5>3. RootSize = 1 * RootSize
                    BY <1>0
                <5>. QED BY <1>0, <5>1, <5>2, <5>3
            <4>3. RootLog = n
                BY <1>0, <4>2, OddMultiple
            <4>. QED BY <1>0, <1>1, <1>5, <4>3
        <3>3. k + 1 \in DOMAIN ps /\ k \in 1..(Len(ps) - 1)
            BY <1>0, <3>2
        <3>4. PICK r : r = ps[k + 1] /\ r \in Block /\ r.begin = b + s /\ r.begin = End(ps[k])
            <4>1. End(ps[k]) = ps[k + 1].begin
                BY <3>3 DEF Shape
            <4>. QED BY <1>2, <3>3, <4>1, ShapeFields
        <3>5. PICK c \in Nat, l \in Nat : InPlace(r, c) /\ l = RootLog - c /\ n <= l /\ r.partition_size = Pow2[l]
            BY <1>1, <3>3, <3>4
        <3>6. PICK g \in Nat : b + s = g * Pow2[l]
            BY <3>4, <3>5 DEF InPlace
        <3>7. l = n /\ c = d
            <4>1. b + s \in Nat /\ b + s = (2 * f + 1) * Pow2[n]
                BY <1>2, <3>1
            <4>2. l = n
                BY <3>5, <3>6, <4>1, OddMultiple
            <4>. QED BY <1>0, <1>1, <3>5, <4>2
        <3>8. ps[k].father = r.father
            <4>1. ps[k].begin = f * (2 * ps[k].partition_size)
                BY <1>2, <3>1
            <4>. QED BY <1>1, <1>3, <1>5, <3>4, <3>5, <3>7, <4>1, HalvesAreBuddies
        <3>9. ps[k].id # r.id
            BY <1>0, <3>3, <3>4 DEF Shape
        <3>10. BuddiesAt(ps, k, k + 1)
            BY <1>1, <3>3, <3>4, <3>5, <3>7, <3>8, <3>9 DEF BuddiesAt
        <3>. QED BY <3>3, <3>10 DEF NoBuddies
    <2>3. CASE e = 2 * f + 1
        <3>1. b = (2 * f + 1) * s /\ b = f * (2 * s) + s /\ b >= 1
            <4>1. b = (2 * f + 1) * s
                BY <1>2, <2>3
            <4>2. (2 * f + 1) * s = f * (2 * s) + s /\ f * (2 * s) \in Nat
                OBVIOUS
            <4>3. f * (2 * s) + s >= 1
                BY <1>2, <4>2
            <4>. QED BY <4>1, <4>2, <4>3
        <3>2. k # 1
            <4>. SUFFICES ASSUME k = 1 PROVE FALSE
                OBVIOUS
            <4>1. b = 0
                BY <1>0, <1>2
            <4>. QED BY <3>1, <4>1
        <3>3. k - 1 \in DOMAIN ps /\ k - 1 \in 1..(Len(ps) - 1) /\ k - 1 + 1 = k /\ k - 1 # k
            BY <1>0, <3>2
        <3>4. PICK r : r = ps[k - 1] /\ r \in Block /\ End(r) = b /\ ps[k].begin = End(r)
                       /\ r.begin \in Nat /\ r.partition_size \in Nat /\ End(r) = r.begin + r.partition_size
            <4>1. End(ps[k - 1]) = ps[k - 1 + 1].begin
                BY <3>3 DEF Shape
            <4>. QED BY <1>2, <3>3, <4>1, ShapeFields
        <3>5. PICK c \in Nat, l \in Nat : InPlace(r, c) /\ l = RootLog - c /\ n <= l /\ r.partition_size = Pow2[l]
            BY <1>1, <3>3, <3>4
        <3>6. PICK g \in Nat : b = g * Pow2[l]
            <4>1. PICK a \in Nat : r.begin = a * r.partition_size
                BY <3>5 DEF InPlace
            <4>2. b = (a + 1) * r.partition_size
                BY <3>4, <4>1
            <4>. QED BY <3>5, <4>2
        <3>7. l = n /\ c = d
            <4>1. l = n
                BY <1>2, <3>1, <3>5, <3>6, OddMultiple
            <4>. QED BY <1>0, <1>1, <3>5, <4>1
        <3>8. r.father = ps[k].father
            <4>1. r.begin = f * (2 * r.partition_size)
                <5>1. r.partition_size = s
                    BY <1>2, <3>5, <3>7
                <5>2. PICK w \in Nat, v \in Nat : w = r.begin /\ v = f * (2 * s) /\ b = w + s /\ b = v + s
                    BY <3>1, <3>4, <5>1
                <5>3. w = v
                    BY <5>2
                <5>. QED BY <5>1, <5>2, <5>3
            <4>. QED BY <1>1, <1>3, <1>5, <3>4, <3>5, <3>7, <4>1, HalvesAreBuddies
        <3>9. ps[k].id # r.id
            BY <1>0, <3>3, <3>4 DEF Shape
        <3>10. BuddiesAt(ps, k - 1, k)
            BY <1>1, <3>3, <3>4, <3>5, <3>7, <3>8, <3>9 DEF BuddiesAt
        <3>. QED BY <3>3, <3>10 DEF NoBuddies
    <2>. QED BY <2>1, <2>2, <2>3
<1>. QED BY <1>4, <1>5

\* Every payload, and the smallest partition, is no larger than the memory that is used
\* (memory_init rounds TAMANO_MEMORIA down to a power of two).
PayloadsFit == TAMANO_MINIMO_PARTICION <= RootSize /\ \A size \in Sizes : size <= RootSize

\* With nothing occupied and no buddies apart the search finds the whole memory.
LEMMA VictimFound ==
    ASSUME Inv, PayloadsFit, early = {}, NEW p \in Publishers, pub[p].pc = "delete"
    PROVE  Occupied # {}
<1>. SUFFICES ASSUME Occupied = {} PROVE FALSE
    OBVIOUS
<1>1. \A i \in DOMAIN memory_partitions : memory_partitions[i].status = "FREE"
    <2>. TAKE i \in DOMAIN memory_partitions
    <2>1. memory_partitions[i] \in Block
        BY InvFacts, ShapeFields
    <2>2. ~IsOccupied(memory_partitions[i])
        BY DEF Occupied
    <2>. QED BY <2>1, <2>2, BlockFields DEF IsOccupied
<1>2. memory_partitions[1].partition_size = RootSize /\ 1 \in DOMAIN memory_partitions
    <2>1. NoBuddies(memory_partitions) /\ Shape(memory_partitions)
        BY InvFacts DEF Inv, Contents, InStep
    <2>. QED BY <1>1, <2>1, OneFreeBlock, ShapeFields
<1>3. PICK size \in Sizes : size = size_of[pub[p].id] /\ Fitting(BsSize(size)) = {}
    <2>1. ThreadFits(p) /\ SearchFits(p)
        BY DEF Inv, Threads, Contents
    <2>. QED BY <2>1 DEF ThreadFits, SearchFits, Storing
<1>4. BsSize(size) \in Nat /\ BsSize(size) <= RootSize /\ TAMANO_MINIMO_PARTICION <= RootSize
    BY SearchSize DEF PayloadsFit
<1>5. RootSize >= AtLeastMinimum(BsSize(size))
    BY <1>4, Root, Numbers DEF AtLeastMinimum
<1>. QED BY <1>1, <1>2, <1>3, <1>5 DEF Fitting

-----------------------------------------------------------------------------
\* A sum that is one more than a number is that number with one taken off.
LEMMA OneLess ==
    ASSUME NEW a \in Nat, NEW b \in Nat, NEW d \in Nat, a + b = d + 1
    PROVE  a + b - 1 = d
OBVIOUS

\* A multiple has no remainder.
LEMMA MultipleOf ==
    ASSUME NEW e \in Nat, NEW s \in Nat, s >= 1
    PROVE  (e * s) % s = 0
<1>1. PICK b \in Nat : b = e * s /\ b <= b /\ b < b + s
    OBVIOUS
<1>2. e = b \div s
    BY <1>1, Division
<1>3. b = (b \div s) * s + (b % s)
    OBVIOUS
<1>. QED BY <1>1, <1>2, <1>3

(* The theorems.                                                           *)

\* Every variable has its type: through halvings and merges no partition leaves
\* the memory, and every payload stays within its partition.
THEOREM BlocksTyped == Spec => []TypeOK
<1>1. Inv => TypeOK
    <2>. SUFFICES ASSUME Inv PROVE TypeOK
        OBVIOUS
    <2>1. memory \in [Bytes -> 0..MaxMessages] /\ ThreadsOK
        BY DEF Inv, Contents, ListOK
    <2>2. ASSUME NEW i \in DOMAIN memory_partitions
          PROVE  memory_partitions[i] \in PartitionRecord
        <3>1. PICK q : q = memory_partitions[i] /\ q \in Block
            BY InvFacts, ShapeFields
        <3>2. /\ q.begin \in Nat /\ q.partition_size \in Nat /\ q.partition_size >= 1
              /\ End(q) = q.begin + q.partition_size /\ End(q) <= RootSize /\ RootSize \in Nat
              /\ q.begin < RootSize
            BY <3>1, InvFacts, ShapeFields, Root
        <3>3. q.begin \in Bytes /\ q.partition_size \in 1..RootSize
            BY <3>2 DEF Bytes
        <3>4. /\ q.id \in Nat /\ q.id >= 1 /\ q.id <= partition_count /\ partition_count \in Nat
              /\ q.occupied_timestamp \in Nat /\ q.occupied_timestamp <= now
              /\ q.lru_timestamp \in Nat /\ q.lru_timestamp <= now /\ now \in Nat
            BY <3>1, InvFacts
        <3>5. /\ q.id \in 1..partition_count /\ q.occupied_timestamp \in 0..now
              /\ q.lru_timestamp \in 0..now
            BY <3>4
        <3>. QED BY <3>1, <3>3, <3>5 DEF Block, PartitionRecord, Sides
    <2>3. /\ Len(memory_partitions) \in Nat /\ memory_partitions \in Seq(Block)
          /\ DOMAIN memory_partitions = 1..Len(memory_partitions)
        BY InvFacts, ShapeFields DEF Shape
    <2>4. memory_partitions = [i \in 1..Len(memory_partitions) |-> memory_partitions[i]]
        BY <2>3, LenProperties
    <2>5. memory_partitions \in [1..Len(memory_partitions) -> PartitionRecord]
        BY <2>2, <2>3, <2>4
    <2>6. memory_partitions \in Seq(PartitionRecord)
        BY <2>3, <2>5, SeqDef
    <2>. QED BY <2>1, <2>6 DEF TypeOK
<1>. QED BY <1>1, InvAlways, PTL

\* Through every halving of store_payload_bs, every merge of consolidate and every
\* id used again, the list keeps the shape of the buddy system and covers the
\* memory without a gap or an overlap; father and side tell a block's address,
\* which is what consolidate goes by when it takes two blocks for buddies.
THEOREM BuddiesTile == Spec => []Tiled
<1>1. Inv => Tiled
    <2>. SUFFICES ASSUME Inv PROVE Tiled
        OBVIOUS
    <2>. DEFINE ps == memory_partitions
    <2>1. Shape(ps)
        BY InvFacts
    <2>2. ASSUME NEW i \in DOMAIN ps
          PROVE  /\ ps[i].partition_size \in {Pow2[n] : n \in 0..RootSize}
                 /\ ps[i].begin % ps[i].partition_size = 0
                 /\ ps[i].partition_size * Pow2[Len(ps[i].father) + Len(ps[i].side) - 1] = RootSize
                 /\ ps[i].partition_size < RootSize =>
                        ps[i].side = <<IF (ps[i].begin \div ps[i].partition_size) % 2 = 0 THEN "0" ELSE "1">>
        <3>1. PICK q, d : q = ps[i] /\ InPlace(q, d)
            BY <2>1 DEF Shape
        <3>2. q \in Block /\ q.begin \in Nat
            BY <2>1, <3>1, ShapeFields
        <3>3. /\ Len(q.father) + Len(q.side) = d + 1 /\ d \in Nat /\ d <= RootLog /\ RootLog - d \in Nat
              /\ q.partition_size = Pow2[RootLog - d] /\ q.partition_size >= 1
              /\ RootSize \in Nat /\ RootLog \in Nat /\ RootSize = Pow2[RootLog] /\ RootLog < RootSize
            BY <3>1, <3>2, WayOf, Root, Pow2Steps
        <3>4. q.partition_size \in {Pow2[n] : n \in 0..RootSize}
            <4>1. RootLog - d \in 0..RootSize
                BY <3>3
            <4>. QED BY <3>3, <4>1
        <3>5. q.begin % q.partition_size = 0
            <4>1. PICK s \in Nat, e \in Nat : s = q.partition_size /\ s >= 1 /\ q.begin = e * s
                BY <3>1, <3>2, <3>3, BlockFields DEF InPlace
            <4>2. (e * s) % s = 0
                BY <4>1, MultipleOf
            <4>. QED BY <4>1, <4>2
        <3>6. q.partition_size * Pow2[Len(q.father) + Len(q.side) - 1] = RootSize
            <4>1. Len(q.father) + Len(q.side) - 1 = d
                <5>1. Len(q.father) \in Nat /\ Len(q.side) \in Nat
                    <6>1. q.father \in Seq(Sides) /\ q.side \in Seq(Sides)
                        BY <3>2, BlockFields
                    <6>. QED BY <6>1, LenProperties
                <5>2. PICK a \in Nat, b \in Nat : a = Len(q.father) /\ b = Len(q.side)
                    BY <5>1
                <5>3. d \in Nat /\ a + b = d + 1
                    BY <3>3, <5>2
                <5>4. a + b - 1 = d
                    BY <5>3, OneLess
                <5>. QED BY <5>2, <5>4
            <4>2. Pow2[(RootLog - d) + d] = Pow2[RootLog - d] * Pow2[d] /\ (RootLog - d) + d = RootLog
                BY <3>3, Pow2Product
            <4>. QED BY <3>3, <4>1, <4>2
        <3>7. ASSUME q.partition_size < RootSize
              PROVE  q.side = <<IF (q.begin \div q.partition_size) % 2 = 0 THEN "0" ELSE "1">>
            <4>1. d # 0
                <5>. SUFFICES ASSUME d = 0 PROVE FALSE
                    OBVIOUS
                <5>1. q.partition_size = RootSize
                    BY <3>3
                <5>. QED BY <3>3, <3>7, <5>1
            <4>2. q.side = <<Digit(q.begin, RootLog - d)>>
                BY <3>1, <4>1 DEF InPlace, Side
            <4>. QED BY <3>3, <4>2 DEF Digit, Quot
        <3>. QED BY <3>1, <3>4, <3>5, <3>6, <3>7
    <2>. QED BY <2>1, <2>2 DEF Tiled, Shape
<1>. QED BY <1>1, InvAlways, PTL

\* As long as no message is evicted before it is queued, consolidate undoes the
\* halvings: no two FREE buddies are apart when an action ends, and the eviction
\* loop of get_free_partition_bs never runs out of victims, so that it always
\* assigns index_to_free -- provided that every payload fits in the memory used.
THEOREM BuddiesAreMerged == PayloadsFit => (Spec => []BuddiesMerged)
<1>. SUFFICES ASSUME PayloadsFit PROVE Spec => []BuddiesMerged
    OBVIOUS
<1>1. Inv => BuddiesMerged
    <2>. SUFFICES ASSUME Inv, early = {} PROVE BuddiesMerged
        BY DEF BuddiesMerged
    <2>1. NoBuddies(memory_partitions)
        BY DEF Inv, Contents, InStep
    <2>2. \A p \in Publishers : pub[p].pc = "delete" => Occupied # {}
        BY VictimFound
    <2>. QED BY <2>1, <2>2 DEF BuddiesMerged, NoBuddies, BuddiesAt
<1>. QED BY <1>1, InvAlways, PTL

\* As long as no message is evicted before it is queued, a queued message finds
\* its own payload behind its partition id, and not the one of a later message
\* that was given the same id.
THEOREM QueuedHavePayloads == Spec => []QueuedIsReadable
<1>1. Inv => QueuedIsReadable
    <2>. SUFFICES ASSUME Inv, early = {}, NEW m \in queued PROVE Readable(m)
        BY DEF QueuedIsReadable
    <2>1. m \in Messages /\ Awaited(m)
        BY InvFacts DEF Awaited
    <2>2. Holds(m)
        BY <2>1 DEF Inv, Contents, InStep
    <2>. QED BY <2>1, <2>2, ReadableIfHeld
<1>. QED BY <1>1, InvAlways, PTL

-----------------------------------------------------------------------------
(* The cache implements MessageCache.                                      *)

\* The messages a look-up sends are those whose block is held, none with more behind it.
HeldAreSent == \A m \in Messages : (Readable(m) <=> Holds(m)) /\ (Exact(m) <=> Holds(m))

\* In every state of the invariant.
LEMMA HeldAreReadable ==
    Inv => HeldAreSent
BY ReadableIfHeld DEF HeldAreSent

\* The message under way changes with the mutex only.
LEMMA StoringSame ==
    ASSUME UNCHANGED mutex_memory_partitions,
           \A q \in Publishers : mutex_memory_partitions = q => pub'[q].id = pub[q].id
    PROVE  BeingStored' = BeingStored
<1>1. \A x \in BeingStored : x \in BeingStored'
    BY DEF BeingStored
<1>2. \A x \in BeingStored' : x \in BeingStored
    BY DEF BeingStored
<1>. QED BY <1>1, <1>2

\* A step that leaves all of it alone.
LEMMA CacheStutters ==
    ASSUME ExactMessages' = ExactMessages, PaddedMessages' = PaddedMessages,
           UNCHANGED <<partition_of, queued>>,
           UNCHANGED mutex_memory_partitions,
           \A q \in Publishers : mutex_memory_partitions = q => pub'[q].id = pub[q].id
    PROVE  UNCHANGED Cache!vars
<1>1. BeingStored' = BeingStored
    BY StoringSame
<1>. QED BY <1>1 DEF Cache!vars, StoredMessages

\* Every step of the buddy system is one of MessageCache, or leaves its variables alone.
LEMMA StepIsCache ==
    Inv /\ HeldAreSent /\ Inv' /\ HeldAreSent' /\ [Next]_vars
        => [Cache!Next]_(Cache!vars)
<1>. SUFFICES ASSUME Inv, HeldAreSent, Inv', HeldAreSent', [Next]_vars
              PROVE  [Cache!Next]_(Cache!vars)
    OBVIOUS
<1>0. /\ pub \in [Publishers -> ThreadState] /\ ThreadsOK' /\ Threads' /\ NoOne \notin Publishers
      /\ \A q \in Publishers : ThreadFits(q)
    BY Numbers DEF Inv, ThreadsOK, Threads
<1>00. PaddedMessages = {} /\ PaddedMessages' = {}
    BY DEF HeldAreSent, PaddedMessages
<1>01. /\ ExactMessages = {m \in Messages : Holds(m)}
       /\ ExactMessages' = {m \in Messages : Holds(m)'}
    BY DEF HeldAreSent, ExactMessages
<1>02. ASSUME UNCHANGED <<memory, memory_partitions, partition_of>> PROVE ExactMessages' = ExactMessages
    BY <1>01, <1>02 DEF Holds
<1>03. ASSUME NEW p \in Publishers, pub[p].pc \in Storing
       PROVE  mutex_memory_partitions = p /\ BeingStored = {pub[p].id}
    BY <1>0, <1>03 DEF ThreadFits, BeingStored
<1>04. ASSUME NEW p \in Publishers, pub[p].pc \in {"idle", "lock", "enqueue"}
       PROVE  mutex_memory_partitions # p
    BY <1>0, <1>04 DEF ThreadFits, Storing
<1>1. ASSUME NEW p \in Publishers, Lock(p) PROVE Cache!Next
    <2>1. /\ pub[p].pc = "lock" /\ mutex_memory_partitions = NoOne /\ mutex_memory_partitions' = p
          /\ pub'[p].id = pub[p].id
          /\ UNCHANGED <<memory, memory_partitions, partition_of, queued>>
        BY <1>0, <1>1 DEF Lock, ThreadState
    <2>2. PICK m \in Messages : m = pub[p].id /\ partition_of[m] = 0
        BY <1>0, <2>1, InvFacts DEF ThreadFits
    <2>3. BeingStored = {} /\ BeingStored' = {m}
        BY <1>0, <2>1, <2>2 DEF BeingStored
    <2>4. ExactMessages' = ExactMessages
        BY <1>02, <2>1
    <2>5. Cache!BeginStore(m)
        BY <1>00, <2>1, <2>2, <2>3, <2>4 DEF Cache!BeginStore, StoredMessages
    <2>. QED BY <2>5 DEF Cache!Next
<1>3. ASSUME NEW p \in Publishers, FindAgain(p) PROVE UNCHANGED Cache!vars
    <2>1. /\ UNCHANGED <<memory, memory_partitions, partition_of, queued, mutex_memory_partitions>>
          /\ \A q \in Publishers : pub'[q].id = pub[q].id
        BY <1>0, <1>3 DEF FindAgain, memoryVars, ThreadState
    <2>. QED BY <1>00, <1>02, <2>1, CacheStutters
<1>4. ASSUME NEW p \in Publishers, pub[p].pc = "delete", NEW i \in DOMAIN memory_partitions,
             FreePartition(i), i \in Occupied \/ Occupied = {}, pub' = [pub EXCEPT ![p].pc = "find"],
             UNCHANGED <<memory, mutex_memory_partitions, partition_of>>
      PROVE  [Cache!Next]_(Cache!vars)
    <2>0. PICK id, x : id = memory_partitions[i].id /\ x = Spot(memory_partitions[i])
        OBVIOUS
    <2>1. /\ \A q \in Publishers : pub'[q].id = pub[q].id
          /\ \/ MessagesIn(id) = {} /\ queued' = queued
             \/ \E d \in MessagesIn(id) : queued' = queued \ {d}
          /\ Kept(memory_partitions') = Kept(memory_partitions) \ {x}
        BY <1>0, <1>4, <2>0, FreePartitionKeeps DEF FreePartition, ThreadState
    <2>2. BeingStored' = BeingStored /\ BeingStored # {}
        <3>1. BeingStored = {pub[p].id}
            BY <1>03, <1>4 DEF Storing
        <3>. QED BY <1>4, <2>1, <3>1, StoringSame
    <2>3. \A d \in MessagesIn(id) : d \in Messages /\ d \in queued /\ partition_of[d] = id
        BY InvFacts DEF MessagesIn
    <2>4. x[1] = id /\ \A y \in Kept(memory_partitions') : y[1] # id
        <3>1. x[1] = id
            BY <2>0 DEF Spot
        <3>2. ASSUME NEW y \in Kept(memory_partitions') PROVE y[1] # id
            <4>1. y # x /\ y \in Kept(memory_partitions)
                BY <2>1
            <4>2. PICK j \in DOMAIN memory_partitions : y = Spot(memory_partitions[j])
                BY <4>1 DEF Kept
            <4>3. memory_partitions[j].id # memory_partitions[i].id
                BY <2>0, <4>1, <4>2, InvFacts DEF Shape
            <4>. QED BY <2>0, <4>2, <4>3 DEF Spot
        <3>. QED BY <3>1, <3>2
    <2>5. \A d \in Messages : partition_of[d] = id => d \notin ExactMessages'
        BY <1>01, <1>4, <2>4 DEF Holds
    <2>6. CASE i \in Occupied
        <3>1. x \in Kept(memory_partitions)
            BY <2>0, <2>6 DEF Kept, Occupied
        <3>2. PICK owner \in Messages : partition_of[owner] = id /\ memory[x[2]] = owner
            <4>1. PICK m \in Messages : HoldsPayload(x, m)
                BY <3>1 DEF Inv, Contents, Owned
            <4>. QED BY <2>4, <3>1, <4>1, OneHolder DEF HoldsPayload
        <3>3. ExactMessages' = ExactMessages \ {owner}
            <4>1. ASSUME NEW n \in Messages, n # owner PROVE Holds(n)' <=> Holds(n)
                BY <1>4, <2>1, <3>2, <4>1 DEF Holds
            <4>2. owner \notin ExactMessages'
                BY <2>5, <3>2
            <4>. QED BY <1>01, <4>1, <4>2
        <3>4. CASE MessagesIn(id) = {} /\ queued' = queued
            <4>1. queued' = queued \ {owner} /\ owner \notin ExactMessages'
                BY <2>5, <3>2, <3>4 DEF MessagesIn
            <4>2. Cache!Evict(owner, owner)
                BY <1>00, <1>4, <2>2, <3>3, <4>1 DEF Cache!Evict, StoredMessages
            <4>. QED BY <4>2 DEF Cache!Next
        <3>5. CASE \E d \in MessagesIn(id) : queued' = queued \ {d}
            <4>1. PICK d \in Messages : queued' = queued \ {d} /\ d \notin ExactMessages'
                BY <2>3, <2>5, <3>5
            <4>2. Cache!Evict(owner, d)
                BY <1>00, <1>4, <2>2, <3>3, <4>1 DEF Cache!Evict, StoredMessages
            <4>. QED BY <4>2 DEF Cache!Next
        <3>. QED BY <2>1, <3>4, <3>5
    <2>7. CASE Occupied = {}
        <3>1. Kept(memory_partitions) = {}
            BY <2>7 DEF Kept, Occupied
        <3>2. ExactMessages = {} /\ ExactMessages' = {}
            BY <1>01, <2>1, <3>1 DEF Holds
        <3>3. CASE queued' = queued
            <4>1. UNCHANGED Cache!vars
                BY <1>00, <1>4, <2>1, <3>2, <3>3, CacheStutters
            <4>. QED BY <4>1
        <3>4. CASE \E d \in MessagesIn(id) : queued' = queued \ {d}
            <4>1. PICK d \in Messages : queued' = queued \ {d} /\ d \notin ExactMessages' /\ ExactMessages' = ExactMessages \ {d}
                BY <2>3, <3>2, <3>4
            <4>2. Cache!Evict(d, d)
                BY <1>00, <1>4, <2>2, <4>1 DEF Cache!Evict, StoredMessages
            <4>. QED BY <4>2 DEF Cache!Next
        <3>. QED BY <2>1, <3>3, <3>4
    <2>. QED BY <1>4, <2>6, <2>7
<1>5. ASSUME NEW p \in Publishers, DeletePartition(p) PROVE [Cache!Next]_(Cache!vars)
    <2>1. PICK i \in DOMAIN memory_partitions : i \in Occupied /\ FreePartition(i)
        BY <1>5 DEF DeletePartition, IsVictim
    <2>. QED BY <1>4, <1>5, <2>1 DEF DeletePartition
<1>6. ASSUME NEW p \in Publishers, DeleteUndefined(p) PROVE [Cache!Next]_(Cache!vars)
    <2>1. CASE /\ \E i \in DOMAIN memory_partitions : FreePartition(i)
               /\ pub' = [pub EXCEPT ![p].pc = "find"]
               /\ UNCHANGED crashed
        <3>1. PICK i \in DOMAIN memory_partitions : FreePartition(i)
            BY <2>1
        <3>. QED BY <1>4, <1>6, <2>1, <3>1 DEF DeleteUndefined
    <2>2. CASE Crash /\ UNCHANGED <<memory_partitions, queued, age, early>>
        <3>1. /\ UNCHANGED <<memory, memory_partitions, partition_of, queued, mutex_memory_partitions>>
              /\ \A q \in Publishers : pub'[q].id = pub[q].id
            BY <1>0, <1>6, <2>2 DEF DeleteUndefined, Crash, ThreadState
        <3>2. UNCHANGED Cache!vars
            BY <1>00, <1>02, <3>1, CacheStutters
        <3>. QED BY <3>2
    <2>. QED BY <1>6, <2>1, <2>2 DEF DeleteUndefined
<1>7. ASSUME NEW p \in Publishers, Place(p) PROVE Cache!Next
    <2>0. PICK m, x : m = pub[p].id /\ m \in Messages /\ StoresAt(x, m)
        BY <1>7, PlaceStores
    <2>1. /\ pub[p].pc = "place" /\ mutex_memory_partitions' = NoOne
          /\ UNCHANGED queued
        BY <1>7 DEF Place
    <2>2. BeingStored = {m}
        BY <1>03, <2>0, <2>1 DEF Storing
    <2>3. BeingStored' = {}
        BY <1>0, <2>1 DEF BeingStored
    <2>4. /\ partition_of'[m] = x[1] /\ x[1] # 0 /\ partition_of[m] = 0
          /\ \A n \in Messages : n # m => partition_of'[n] = partition_of[n]
        <3>1. /\ partition_of \in [Messages -> 0..partition_count]
              /\ partition_of' = [partition_of EXCEPT ![m] = x[1]]
              /\ partition_count' \in Nat /\ x[1] \in 1..partition_count'
            BY <2>0 DEF Inv, ThreadsOK, StoresAt
        <3>2. partition_of[m] = 0
            BY <1>0, <2>0, <2>1 DEF ThreadFits, Storing
        <3>. QED BY <2>0, <3>1, <3>2
    <2>5. StoredMessages' = StoredMessages \cup {m}
        BY <2>0, <2>4 DEF StoredMessages
    <2>6. ExactMessages' = ExactMessages \cup {m}
        <3>1. Kept(memory_partitions') = Kept(memory_partitions) \cup {x} /\ x \notin Kept(memory_partitions)
            BY <2>0 DEF StoresAt
        <3>2. x[2] \in Nat /\ memory'[x[2]] = m
            <4>1. /\ x[2] \in Nat /\ x[3] \in Nat /\ size_of[m] \in 1..x[3] /\ x[2] + x[3] <= RootSize
                  /\ memory' = [b \in Bytes |-> IF b \in x[2]..(x[2] + size_of[m] - 1) THEN m ELSE memory[b]]
                BY <2>0 DEF StoresAt
            <4>2. x[2] \in Bytes /\ x[2] \in x[2]..(x[2] + size_of[m] - 1)
                BY <4>1, Root DEF Bytes
            <4>. QED BY <4>1, <4>2
        <3>3. Holds(m)'
            BY <2>4, <3>1, <3>2 DEF Holds
        <3>4. ASSUME NEW n \in Messages, n # m PROVE Holds(n)' <=> Holds(n)
            <4>1. ASSUME Holds(n) PROVE Holds(n)'
                <5>1. PICK y \in Kept(memory_partitions) : y[1] = partition_of[n] /\ memory[y[2]] = n
                    BY <4>1 DEF Holds
                <5>2. memory'[y[2]] = n
                    BY <2>0, <5>1, OthersUntouched
                <5>. QED BY <2>4, <3>1, <3>4, <5>1, <5>2 DEF Holds
            <4>2. ASSUME Holds(n)' PROVE Holds(n)
                <5>1. PICK y \in Kept(memory_partitions') : y[1] = partition_of'[n] /\ memory'[y[2]] = n
                    BY <4>2 DEF Holds
                <5>2. y \in Kept(memory_partitions)
                    BY <3>1, <3>2, <3>4, <5>1
                <5>3. memory[y[2]] = n
                    BY <2>0, <5>1, <5>2, OthersUntouched
                <5>. QED BY <2>4, <3>4, <5>1, <5>2, <5>3 DEF Holds
            <4>. QED BY <4>1, <4>2
        <3>. QED BY <1>01, <2>0, <3>3, <3>4
    <2>7. Cache!FinishStore
        BY <1>00, <2>1, <2>2, <2>3, <2>5, <2>6 DEF Cache!FinishStore, StoredMessages
    <2>. QED BY <2>7 DEF Cache!Next
<1>8. ASSUME NEW p \in Publishers, Enqueue(p) PROVE Cache!Next
    <2>1. /\ pub[p].pc = "enqueue" /\ queued' = queued \cup {pub[p].id}
          /\ \A q \in Publishers : q # p => pub'[q] = pub[q]
          /\ UNCHANGED <<memory, memory_partitions, partition_of, mutex_memory_partitions>>
        BY <1>0, <1>8 DEF Enqueue, memoryVars
    <2>2. PICK m \in Messages : m = pub[p].id /\ partition_of[m] # 0 /\ m \notin queued
        BY <1>0, <2>1, InvFacts DEF ThreadFits
    <2>3. BeingStored' = BeingStored
        BY <1>04, <2>1, StoringSame
    <2>4. ExactMessages' = ExactMessages
        BY <1>02, <2>1
    <2>5. Cache!Enqueue(m)
        BY <1>00, <2>1, <2>2, <2>3, <2>4 DEF Cache!Enqueue, StoredMessages
    <2>. QED BY <2>5 DEF Cache!Next
<1>9. ASSUME NEW p \in Publishers, NEW size \in Sizes, Receive(p, size) PROVE UNCHANGED Cache!vars
    <2>1. /\ pub[p].pc = "idle" /\ \A q \in Publishers : q # p => pub'[q] = pub[q]
          /\ UNCHANGED <<memory, memory_partitions, partition_of, queued, mutex_memory_partitions>>
        BY <1>0, <1>9 DEF Receive, memoryVars
    <2>. QED BY <1>00, <1>02, <1>04, <2>1, CacheStutters
<1>10. ASSUME UNCHANGED <<memory, memory_partitions, partition_of, queued, mutex_memory_partitions, pub>>
       PROVE  UNCHANGED Cache!vars
    BY <1>00, <1>02, <1>10, CacheStutters
<1>11. ASSUME NEW m \in Messages, PickMessage(m) PROVE UNCHANGED Cache!vars
    BY <1>10, <1>11 DEF PickMessage, memoryVars
<1>12. ASSUME LookUp PROVE UNCHANGED Cache!vars
    <2>1. UNCHANGED <<memory, partition_of, queued, mutex_memory_partitions, pub>>
        BY <1>12 DEF LookUp
    <2>2. ExactMessages' = ExactMessages
        BY <1>01, <1>12, <2>1, LookUpStamps DEF Holds
    <2>. QED BY <1>00, <2>1, <2>2, CacheStutters
<1>13. ASSUME Tick PROVE UNCHANGED Cache!vars
    BY <1>10, <1>13 DEF Tick, memoryVars
<1>14. ASSUME UNCHANGED vars PROVE UNCHANGED Cache!vars
    BY <1>10, <1>14 DEF vars, memoryVars
<1>. QED BY <1>1, <1>3, <1>5, <1>6, <1>7, <1>8, <1>9, <1>11, <1>12, <1>13, <1>14
         DEF Next, StoreStep, Finished

\* store_message, the eviction and the look-up with BS are the cache the broker expects too:
\* a payload can be sent, byte for byte and with nothing behind it, from the end of its store to its
\* eviction, although
\* partition ids are used again, and a message whose payload is still there is never taken off
\* its queue.
THEOREM BuddiesRefineCache == Spec => ImplementsCache
<1>1. Init => Cache!Init
    <2>. SUFFICES ASSUME Init PROVE Cache!Init
        OBVIOUS
    <2>1. BeingStored = {} /\ StoredMessages = {} /\ queued = {}
        BY Numbers DEF Init, InitThreads, BeingStored, StoredMessages
    <2>2. Inv
        BY InvInit
    <2>3. ExactMessages = {} /\ PaddedMessages = {}
        <3>1. \A m \in Messages : partition_of[m] = 0
            BY DEF Init, InitThreads
        <3>2. \A m \in Messages : ~Readable(m)
            BY <2>2, <3>1, InvFacts DEF Readable, PartitionOf
        <3>. QED BY <3>2 DEF ExactMessages, PaddedMessages, Exact, Readable
    <2>. QED BY <2>1, <2>3 DEF Cache!Init
<1>. QED BY <1>1, StepIsCache, HeldAreReadable, InvAlways, PTL DEF Spec, ImplementsCache, Cache!Spec
=============================================================================
