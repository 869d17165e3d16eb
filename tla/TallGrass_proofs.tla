-------------------------- MODULE TallGrass_proofs --------------------------
(***************************************************************************)
(* Whose the blocks of the Tall-Grass file system are, for any number of     *)
(* pokemons, messages and deaths of the process.                             *)
(***************************************************************************)
EXTENDS TallGrass, TLAPS, SequenceTheorems, FiniteSetTheorems, NumberTheorems

-----------------------------------------------------------------------------
(* A text is a sequence, so that a file never needs less than no block.      *)

\* FlattenSeq's recursive function is defined on every sequence of sequences.
Flattens(f, seqs, n) ==
    \A i \in 1..n : f[i] = IF i = 1 THEN seqs[i] ELSE f[i - 1] \o seqs[i]

\* So there is such a function, for every length.
LEMMA FlattenDefined ==
    ASSUME NEW S, NEW seqs \in Seq(Seq(S))
    PROVE  \A n \in 0..Len(seqs) : \E f \in [1..n -> Seq(S)] : Flattens(f, seqs, n)
<1>. DEFINE Step(f, n) == Flattens(f, seqs, n)
            Lacking == {n \in 0..Len(seqs) : ~ \E f \in [1..n -> Seq(S)] : Step(f, n)}
<1>. USE DEF Flattens
<1>1. Len(seqs) \in Nat /\ \A i \in 1..Len(seqs) : seqs[i] \in Seq(S)
    BY LenProperties, ElementOfSeq
<1>. SUFFICES ASSUME Lacking # {} PROVE FALSE
    OBVIOUS
<1>2. PICK n \in Lacking : \A m \in Lacking : n <= m
    <2>1. Lacking \in SUBSET Nat
        BY <1>1
    <2>. QED BY <2>1, LeastNumber
<1>3. n \in 0..Len(seqs) /\ n \in Nat
    BY <1>1
<1>4. n # 0
    <2>. DEFINE none == [i \in 1..0 |-> <<>>]
    <2>1. none \in [1..0 -> Seq(S)] /\ Step(none, 0)
        OBVIOUS
    <2>. QED BY <2>1
<1>5. n - 1 \in 0..Len(seqs) /\ n - 1 \in Nat /\ n - 1 \notin Lacking
    <2>1. n - 1 \in 0..Len(seqs) /\ n - 1 \in Nat /\ ~(n <= n - 1)
        BY <1>1, <1>3, <1>4
    <2>. HIDE DEF Lacking
    <2>. QED BY <1>2, <2>1
<1>6. PICK f \in [1..(n - 1) -> Seq(S)] : Step(f, n - 1)
    BY <1>5
<1>. DEFINE last == IF n = 1 THEN seqs[n] ELSE f[n - 1] \o seqs[n]
            g == [i \in 1..n |-> IF i = n THEN last ELSE f[i]]
<1>7. last \in Seq(S)
    <2>1. n # 1 => f[n - 1] \in Seq(S)
        BY <1>3, <1>4
    <2>2. seqs[n] \in Seq(S)
        BY <1>1, <1>3, <1>4
    <2>. QED BY <2>1, <2>2, ConcatProperties
<1>8. g \in [1..n -> Seq(S)]
    <2>. HIDE DEF last
    <2>. QED BY <1>3, <1>7
<1>9. Step(g, n)
    <2>. SUFFICES ASSUME NEW i \in 1..n
                  PROVE  g[i] = IF i = 1 THEN seqs[i] ELSE g[i - 1] \o seqs[i]
        OBVIOUS
    <2>1. CASE i = n
        BY <1>3, <1>4, <2>1
    <2>2. CASE i # n
        <3>1. i \in 1..(n - 1) /\ i - 1 # n /\ (i # 1 => i - 1 \in 1..n)
            BY <1>3, <2>2
        <3>2. g[i] = f[i] /\ (i # 1 => g[i - 1] = f[i - 1])
            <4>. HIDE DEF last
            <4>. QED BY <2>2, <3>1
        <3>. QED BY <1>6, <3>1, <3>2
    <2>. QED BY <2>1, <2>2
<1>. QED BY <1>2, <1>8, <1>9

\* Sequences put one after the other are a sequence.
LEMMA FlattenIsSeq ==
    ASSUME NEW S, NEW seqs \in Seq(Seq(S))
    PROVE  FlattenSeq(seqs) \in Seq(S)
<1>0. \A n \in 0..Len(seqs) : \E f \in [1..n -> Seq(S)] : Flattens(f, seqs, n)
    BY FlattenDefined
<1>1. Len(seqs) \in Nat /\ \A i \in 1..Len(seqs) : seqs[i] \in Seq(S)
    BY LenProperties, ElementOfSeq
<1>2. CASE Len(seqs) = 0
    <2>1. seqs = <<>>
        BY <1>2, EmptySeq
    <2>. QED BY <1>2, <2>1, EmptySeq DEF FlattenSeq
<1>3. CASE Len(seqs) # 0
    <2>. DEFINE Step(f) == [i \in 1..Len(seqs) |-> IF i = 1 THEN seqs[i] ELSE f[i - 1] \o seqs[i]]
                flatten == CHOOSE f : f = Step(f)
                Wrong == {i \in 1..Len(seqs) : flatten[i] \notin Seq(S)}
    <2>1. PICK f \in [1..Len(seqs) -> Seq(S)] :
            \A i \in 1..Len(seqs) : f[i] = IF i = 1 THEN seqs[i] ELSE f[i - 1] \o seqs[i]
        <3>1. Len(seqs) \in 0..Len(seqs)
            BY <1>1
        <3>. QED BY <1>0, <3>1 DEF Flattens
    <2>2. f = Step(f)
        BY <2>1
    <2>3. flatten = Step(flatten)
        BY <2>2
    <2>4. \A i \in 1..Len(seqs) :
            flatten[i] = IF i = 1 THEN seqs[i] ELSE flatten[i - 1] \o seqs[i]
        BY <2>3
    <2>5. FlattenSeq(seqs) = flatten[Len(seqs)]
        BY <1>3 DEF FlattenSeq
    <2>. HIDE DEF flatten
    <2>6. Wrong = {}
        <3>. SUFFICES ASSUME Wrong # {} PROVE FALSE
            OBVIOUS
        <3>1. PICK i \in Wrong : \A j \in Wrong : i <= j
            <4>1. Wrong \in SUBSET Nat
                BY <1>1
            <4>. QED BY <4>1, LeastNumber
        <3>2. i \in 1..Len(seqs) /\ flatten[i] \notin Seq(S)
            OBVIOUS
        <3>3. i # 1
            BY <1>1, <2>4, <3>2
        <3>4. flatten[i - 1] \in Seq(S) /\ seqs[i] \in Seq(S)
            BY <1>1, <3>1, <3>2, <3>3
        <3>5. flatten[i] = flatten[i - 1] \o seqs[i]
            BY <2>4, <3>2, <3>3
        <3>. QED BY <3>2, <3>4, <3>5, ConcatProperties
    <2>. QED BY <1>1, <1>3, <2>5, <2>6
<1>. QED BY <1>2, <1>3

Cell == Entry \X Nat

\* The text of a list of positions is a sequence of cells.
LEMMA TextIsSeq ==
    ASSUME NEW positions \in Seq(Entry)
    PROVE  Text(positions) \in Seq(Cell)
<1>. DEFINE cells(i) == CellsOf(positions[i].count)
            entries == [i \in DOMAIN positions |->
                            [k \in 1..cells(i) |-> <<positions[i], k>>]]
<1>1. Len(positions) \in Nat /\ DOMAIN positions = 1..Len(positions)
      /\ \A i \in 1..Len(positions) : positions[i] \in Entry
    BY LenProperties, ElementOfSeq
<1>2. \A i \in 1..Len(positions) : entries[i] \in Seq(Cell)
    <2>. SUFFICES ASSUME NEW i \in 1..Len(positions) PROVE entries[i] \in Seq(Cell)
        OBVIOUS
    <2>1. cells(i) \in Nat
        BY DEF CellsOf
    <2>2. \A k \in 1..cells(i) : <<positions[i], k>> \in Cell
        BY <1>1, <2>1 DEF Cell
    <2>. HIDE DEF cells
    <2>3. [k \in 1..cells(i) |-> <<positions[i], k>>] \in [1..cells(i) -> Cell]
        BY <2>2
    <2>4. [1..cells(i) -> Cell] \subseteq Seq(Cell)
        BY <2>1, SeqDef
    <2>. QED BY <1>1, <2>3, <2>4
<1>3. entries \in Seq(Seq(Cell))
    <2>. HIDE DEF cells
    <2>1. entries \in [1..Len(positions) -> Seq(Cell)]
        <3>. DEFINE entry(i) == [k \in 1..cells(i) |-> <<positions[i], k>>]
        <3>1. \A i \in 1..Len(positions) : entry(i) \in Seq(Cell)
            BY <1>1, <1>2
        <3>. HIDE DEF entry
        <3>2. [i \in 1..Len(positions) |-> entry(i)] \in [1..Len(positions) -> Seq(Cell)]
            BY <3>1
        <3>. QED BY <1>1, <3>2 DEF entry
    <2>. HIDE DEF entries
    <2>2. [1..Len(positions) -> Seq(Cell)] \subseteq Seq(Seq(Cell))
        BY <1>1, SeqDef
    <2>. QED BY <2>1, <2>2
<1>4. Text(positions) = FlattenSeq(entries)
    BY DEF Text
<1>. HIDE DEF entries
<1>. QED BY <1>3, <1>4, FlattenIsSeq

-----------------------------------------------------------------------------
(* The invariant: whose each block is, through every handler's steps.       *)

\* What get_available_block answers, and what may stand in BLOCKS.
BlockNumbers == Blocks \cup {NoBlock}
Tokens == Blocks \cup {NoBlock, Dash}

HandlerState ==
    [pc : {"none", "directory", "create", "open", "read", "lock", "blocks", "refill", "save",
           "write", "close", "done", "lost", "garbled"},
     msg : Requests, text : Seq(Cell), blocks : Seq(Tokens),
     array : Seq(Tokens), comma : BOOLEAN, i : Nat, result : {0, 1}]

DiskTypes ==
    /\ bitmap \subseteq Blocks
    /\ DOMAIN files \subseteq directories
    /\ \A p \in DOMAIN files : files[p] \in FileRecord
    /\ blocks_available \in Int
    /\ thread \in [Threads -> HandlerState]
    /\ received \in Nat /\ crashes \in Nat /\ overcommitted \in BOOLEAN /\ miscut \in BOOLEAN
    /\ \A t \in Threads : t > received => thread[t].pc = "none"
    /\ \A t \in Threads :
            thread[t].pc = "blocks" => Len(thread[t].array) >= Len(thread[t].blocks)

PokemonOf(t) == thread[t].msg.pokemon

\* The handler has opened its file and not closed it.
Inside(t) ==
    thread[t].pc \in {"read", "lock", "blocks", "refill", "save", "write", "close", "garbled"}

\* The file's blocks are those the handler has in hand.
Holds(t) == thread[t].pc \in {"create", "blocks", "refill", "save"}

\* The list that is, or will be, BLOCKS of the handler's file.
Hand(t) == IF thread[t].pc = "save" THEN thread[t].array ELSE thread[t].blocks

\* One handler at a time has a file open, and one at a time makes a directory.
Exclusion ==
    /\ \A t \in Threads : Inside(t) =>
            /\ PokemonOf(t) \in DOMAIN files /\ files[PokemonOf(t)].OPEN = "Y"
            /\ \A u \in Threads : Inside(u) /\ PokemonOf(u) = PokemonOf(t) => u = t
    /\ \A t \in Threads : thread[t].pc = "create" =>
            /\ PokemonOf(t) \in directories \ DOMAIN files
            /\ \A u \in Threads : thread[u].pc = "create" => u = t

\* Without a crash no file is left open and no directory without its file.
Orderly ==
    crashes = 0 =>
        /\ \A p \in directories \ DOMAIN files :
                \E t \in Threads : thread[t].pc = "create" /\ PokemonOf(t) = p
        /\ \A t \in Threads : thread[t].pc = "open" => PokemonOf(t) \in DOMAIN files
        /\ \A p \in DOMAIN files : files[p].OPEN = "Y" =>
                \E t \in Threads : Inside(t) /\ PokemonOf(t) = p

\* l are the blocks of p's file, or of what will be its file; a file left open by a crash is
\* nobody's.
Has(p, l) ==
    \/ \E t \in Threads : Holds(t) /\ PokemonOf(t) = p /\ l = Hand(t)
    \/ /\ p \in DOMAIN files /\ l = files[p].BLOCKS
       /\ \/ files[p].OPEN = "N"
          \/ \E t \in Threads : Inside(t) /\ ~Holds(t) /\ PokemonOf(t) = p

Owned ==
    /\ Reserved \subseteq bitmap
    /\ \A p, l : Has(p, l) =>
            \A i \in DOMAIN l : l[i] # NoBlock => l[i] \in bitmap \ Reserved
    /\ \A p, q, l, m : Has(p, l) /\ Has(q, m) =>
            \A i \in DOMAIN l, j \in DOMAIN m : l[i] = m[j] /\ l[i] # NoBlock => p = q /\ i = j

Exact ==
    ~overcommitted =>
        /\ blocks_available = Cardinality(FreeBlocks)
        /\ \A p, l : Has(p, l) => \A i \in DOMAIN l : l[i] # NoBlock

NoneLost ==
    crashes = 0 =>
        \A b \in bitmap \ Reserved : \E p, l : Has(p, l) /\ \E i \in DOMAIN l : l[i] = b

\* As long as no "-1" was cut in two, the text of the blocks in hand is their list.
Matching(t) ==
    /\ thread[t].blocks \in Seq(BlockNumbers)
    /\ thread[t].pc = "blocks" => thread[t].array = thread[t].blocks
    /\ thread[t].pc = "refill" => thread[t].blocks = <<>>
    /\ thread[t].pc = "save" => thread[t].array \in Seq(BlockNumbers)

\* Where no NoBlock was given out there is none to cut.
Uncut ==
    /\ miscut => overcommitted
    /\ ~miscut => /\ \A p \in DOMAIN files : files[p].BLOCKS \in Seq(BlockNumbers)
                  /\ \A t \in Threads : Matching(t)

\* What get_available_block answers may stand in BLOCKS.
LEMMA NumbersAreTokens ==
    /\ BlockNumbers \subseteq Tokens
    /\ \A l : l \in Seq(BlockNumbers) => l \in Seq(Tokens)
<1>1. BlockNumbers \subseteq Tokens
    BY DEF BlockNumbers, Tokens
<1>2. Seq(BlockNumbers) \subseteq Seq(Tokens)
    BY <1>1, SeqMonotonic
<1>. QED BY <1>1, <1>2

-----------------------------------------------------------------------------
(* What each step of a handler does to its thread and to its file.          *)

\* The handler t is now at pc, with these blocks in hand; nobody else moved.
Moves(t, pc, blocks) ==
    /\ thread' \in [Threads -> HandlerState]
    /\ thread'[t].pc = pc /\ Hand(t)' = blocks /\ thread'[t].msg = thread[t].msg
    /\ \A u \in Threads \ {t} : thread'[u] = thread[u]

\* A handler set to a record of a handler with its message has moved.
LEMMA MoveOf ==
    ASSUME thread \in [Threads -> HandlerState], NEW t \in Threads, NEW h \in HandlerState,
           thread' = [thread EXCEPT ![t] = h], h.msg = thread[t].msg
    PROVE  /\ h.pc # "save" => Moves(t, h.pc, h.blocks)
           /\ h.pc = "save" => Moves(t, h.pc, h.array)
           /\ thread'[t] = h
BY DEF Moves, Hand

\* A handler that only goes on keeps its blocks.
LEMMA GoingMoves ==
    ASSUME DiskTypes, NEW t \in Threads, NEW pc, Goes(t, pc),
           pc \in {"none", "directory", "create", "open", "read", "lock", "blocks", "refill",
                   "write", "close", "done", "lost", "garbled"}
    PROVE  Moves(t, pc, thread[t].blocks)
<1>. DEFINE h == [thread[t] EXCEPT !.pc = pc]
<1>1. thread \in [Threads -> HandlerState] /\ thread[t] \in HandlerState
    BY DEF DiskTypes
<1>2. h \in HandlerState /\ h.pc = pc /\ h.msg = thread[t].msg /\ h.blocks = thread[t].blocks
    BY <1>1 DEF HandlerState
<1>3. thread' = [thread EXCEPT ![t] = h]
    BY DEF Goes
<1>. HIDE DEF h
<1>. QED BY <1>1, <1>2, <1>3, MoveOf

\* A handler that has decided what to write goes on to lock the metadata.
LEMMA WritingMoves ==
    ASSUME DiskTypes, NEW t \in Threads, NEW positions \in Seq(Entry), NEW k \in {0, 1},
           Writes(t, positions, k)
    PROVE  Moves(t, "lock", thread[t].blocks)
<1>. DEFINE x == Text(positions)
            h == [thread[t] EXCEPT !.pc = "lock", !.text = x, !.result = k]
<1>1. thread \in [Threads -> HandlerState] /\ thread[t] \in HandlerState
    BY DEF DiskTypes
<1>2. x \in Seq(Cell)
    BY TextIsSeq
<1>3. thread' = [thread EXCEPT ![t] = h]
    BY DEF Writes
<1>. HIDE DEF x
<1>4. h \in HandlerState /\ h.pc = "lock" /\ h.msg = thread[t].msg /\ h.blocks = thread[t].blocks
    BY <1>1, <1>2 DEF HandlerState
<1>. HIDE DEF h
<1>. QED BY <1>1, <1>3, <1>4, MoveOf

\* The first and the last entry of a position are entries of the list.
LEMMA FirstAndLast ==
    ASSUME NEW old \in Seq(Entry), NEW x, IndexOf(old, x) # {}
    PROVE  FirstOf(old, x) \in 1..Len(old) /\ LastOf(old, x) \in 1..Len(old)
<1>. DEFINE T == IndexOf(old, x)
            N == Len(old)
<1>1. N \in Nat /\ T \in SUBSET (1..N) /\ T \in SUBSET Nat /\ T # {}
    BY LenProperties DEF IndexOf
<1>. HIDE DEF T, N
<1>2. \E n \in T : \A m \in T : n <= m
    BY <1>1, LeastNumber
<1>3. \E n \in T : \A m \in T : n >= m
    <2>1. IsFiniteSet(T)
        <3>1. IsFiniteSet(1..N)
            BY <1>1, FS_Interval
        <3>. QED BY <1>1, <3>1, FS_Subset
    <2>2. \E n \in T : \A m \in T : m <= n
        BY <1>1, <2>1, GreatestNumber
    <2>. QED BY <1>1, <2>2
<1>4. Min(T) \in T
    BY <1>2 DEF Min
<1>5. Max(T) \in T
    BY <1>3 DEF Max
<1>. QED BY <1>1, <1>4, <1>5 DEF FirstOf, LastOf, T, N

\* The list that DecideNew writes is one of entries.
LEMMA AddedIsSeq ==
    ASSUME NEW old \in Seq(Entry), NEW r \in Request
    PROVE  Added(old, r) \in Seq(Entry)
<1>1. Len(old) \in Nat /\ DOMAIN old = 1..Len(old) /\ \A i \in 1..Len(old) : old[i] \in Entry
    BY LenProperties, ElementOfSeq
<1>2. r.pos \in Positions /\ r.count \in Nat
    BY DEF Request
<1>3. CASE IndexOf(old, r.pos) = {}
    <2>1. [pos |-> r.pos, count |-> r.count] \in Entry
        BY <1>2 DEF Entry
    <2>. QED BY <1>3, <2>1, AppendProperties DEF Added
<1>4. CASE IndexOf(old, r.pos) # {}
    <2>. DEFINE sum == old[FirstOf(old, r.pos)].count + r.count
                more(i) == IF i \in {FirstOf(old, r.pos), LastOf(old, r.pos)}
                           THEN [pos |-> r.pos, count |-> sum]
                           ELSE old[i]
    <2>1. sum \in Int
        <3>1. old[FirstOf(old, r.pos)] \in Entry
            BY <1>1, <1>4, FirstAndLast
        <3>. QED BY <1>2, <3>1 DEF Entry
    <2>. HIDE DEF sum
    <2>2. \A i \in 1..Len(old) : more(i) \in Entry
        BY <1>1, <1>2, <2>1 DEF Entry
    <2>3. Added(old, r) = [i \in 1..Len(old) |-> more(i)]
        BY <1>1, <1>4 DEF Added, sum
    <2>. HIDE DEF more
    <2>4. [i \in 1..Len(old) |-> more(i)] \in [1..Len(old) -> Entry]
        BY <2>2
    <2>5. [1..Len(old) -> Entry] \subseteq Seq(Entry)
        BY <1>1, SeqDef
    <2>. QED BY <2>3, <2>4, <2>5
<1>. QED BY <1>3, <1>4

\* A sequence without one of its elements is a sequence.
LEMMA RemovedIsSeq ==
    ASSUME NEW S, NEW s \in Seq(S), NEW i \in DOMAIN s
    PROVE  RemoveAt(s, i) \in Seq(S)
<1>1. Len(s) \in Nat /\ DOMAIN s = 1..Len(s) /\ \A j \in 1..Len(s) : s[j] \in S
    BY LenProperties, ElementOfSeq
<1>2. SubSeq(s, 1, i - 1) \in Seq(S)
    BY <1>1, SubSeqProperties
<1>3. SubSeq(s, i + 1, Len(s)) \in Seq(S)
    BY <1>1, SubSeqProperties
<1>. QED BY <1>2, <1>3, ConcatProperties DEF RemoveAt

\* The list that DecideCatch writes is one of entries.
LEMMA CaughtIsSeq ==
    ASSUME NEW old \in Seq(Entry), NEW x, IndexOf(old, x) # {}
    PROVE  Caught(old, x) \in Seq(Entry)
<1>1. PICK n : n = LastOf(old, x)
    OBVIOUS
<1>2. n \in 1..Len(old) /\ n \in DOMAIN old /\ old[n] \in Entry
    BY <1>1, FirstAndLast, LenProperties, ElementOfSeq
<1>3. CASE old[FirstOf(old, x)].count = 1
    <2>1. RemoveAt(old, n) \in Seq(Entry)
        BY <1>2, RemovedIsSeq
    <2>. QED BY <1>1, <1>3, <2>1 DEF Caught
<1>4. CASE old[FirstOf(old, x)].count # 1
    <2>1. PICK e : e = [old[n] EXCEPT !.count = @ - 1]
        OBVIOUS
    <2>2. e \in Entry
        BY <1>2, <2>1 DEF Entry
    <2>3. Caught(old, x) = [old EXCEPT ![n] = e]
        BY <1>1, <1>4, <2>1 DEF Caught
    <2>4. [old EXCEPT ![n] = e] \in Seq(Entry)
        BY <1>2, <2>2, ExceptSeq
    <2>. QED BY <2>3, <2>4
<1>. QED BY <1>3, <1>4

\* A handler that reads its file goes on to write it, to close it, or dies of what it read.
LEMMA ReadingMoves ==
    ASSUME DiskTypes, NEW t \in Threads, ReadFile(t)
    PROVE  \E pc \in {"garbled", "lock", "close"} : Moves(t, pc, thread[t].blocks)
<1>. DEFINE text == ContentOf(File(t))
            r == thread[t].msg
<1>1. r \in Request
    BY Bounded DEF DiskTypes, HandlerState
<1>2. \/ Goes(t, "garbled")
      \/ Legible(File(t), text)
           /\ (DecideNew(t, r, text) \/ DecideCatch(t, r, text) \/ DecideGet(t, r))
    BY DEF ReadFile
<1>3. CASE Goes(t, "garbled") \/ Goes(t, "close")
    BY <1>3, GoingMoves
<1>4. CASE Legible(File(t), text) /\ ~Goes(t, "close")
    <2>. DEFINE old == PositionsIn(text)
    <2>1. old \in Seq(Entry)
        BY <1>4 DEF Legible
    <2>2. \/ IndexOf(old, r.pos) # {} /\ Writes(t, Caught(old, r.pos), 1)
          \/ Writes(t, Added(old, r), 0)
          \/ Goes(t, "garbled")
        BY <1>2, <1>4, Zenon DEF DecideNew, DecideCatch, DecideGet
    <2>. HIDE DEF old, text
    <2>3. CASE IndexOf(old, r.pos) # {} /\ Writes(t, Caught(old, r.pos), 1)
        <3>1. Caught(old, r.pos) \in Seq(Entry)
            BY <2>1, <2>3, CaughtIsSeq
        <3>. QED BY <2>3, <3>1, WritingMoves
    <2>4. CASE Writes(t, Added(old, r), 0)
        <3>1. Added(old, r) \in Seq(Entry)
            BY <1>1, <2>1, AddedIsSeq
        <3>. QED BY <2>4, <3>1, WritingMoves
    <2>. QED BY <1>3, <2>2, <2>3, <2>4
<1>. QED BY <1>2, <1>3, <1>4, Zenon DEF DecideNew, DecideCatch, DecideGet

\* Under mutexMetadata the handler takes the BLOCKS of its file in hand.
LEMMA LockingMoves ==
    ASSUME DiskTypes, NEW t \in Threads, LockMetadata(t), PokemonOf(t) \in DOMAIN files
    PROVE  /\ Moves(t, "blocks", files[PokemonOf(t)].BLOCKS)
           /\ thread'[t].blocks = files[PokemonOf(t)].BLOCKS
           /\ thread'[t].array = files[PokemonOf(t)].BLOCKS
<1>. DEFINE l == File(t).BLOCKS
            h == [thread[t] EXCEPT !.pc = "blocks", !.blocks = l, !.array = l, !.comma = FALSE]
<1>1. thread \in [Threads -> HandlerState] /\ thread[t] \in HandlerState
    BY DEF DiskTypes
<1>2. l \in Seq(Tokens) /\ l = files[PokemonOf(t)].BLOCKS
    BY DEF DiskTypes, File, PokemonOf, FileRecord, Tokens
<1>3. thread' = [thread EXCEPT ![t] = h]
    BY DEF LockMetadata
<1>. HIDE DEF l
<1>4. /\ h \in HandlerState /\ h.pc = "blocks" /\ h.msg = thread[t].msg
      /\ h.blocks = l /\ h.array = l
    BY <1>1, <1>2 DEF HandlerState
<1>. HIDE DEF h
<1>5. Moves(t, "blocks", l) /\ thread'[t] = h
    BY ONLY <1>1, <1>3, <1>4, MoveOf
<1>. QED BY ONLY <1>2, <1>4, <1>5

\* A block taken is one of the file system's, free until then, or none is free.
LEMMA BlockTaken ==
    ASSUME DiskTypes, NEW b \in BlockNumbers, GetAvailableBlock(b)
    PROVE  \/ /\ b \in Blocks \ bitmap /\ b # NoBlock
              /\ bitmap' = bitmap \cup {b} /\ blocks_available' = blocks_available - 1
           \/ b = NoBlock /\ UNCHANGED <<bitmap, blocks_available>>
BY DEF GetAvailableBlock, FreeBlocks, Marked, Blocks, NoBlock

\* A block that was taken comes last in the handler's list, or is its only one.
LEMMA TakingMoves ==
    ASSUME DiskTypes, NEW t \in Threads, NEW b \in BlockNumbers
    PROVE  /\ thread' = [thread EXCEPT ![t] = [@ EXCEPT !.pc = "create", !.blocks = <<b>>]]
                => Moves(t, "create", <<b>>)
           /\ thread' = [thread EXCEPT ![t] = [@ EXCEPT !.pc = "save", !.array = <<b>>]]
                => /\ Moves(t, "save", <<b>>)
                   /\ thread'[t].blocks = thread[t].blocks /\ thread'[t].array = <<b>>
           /\ thread' = [thread EXCEPT ![t] = WithBlock(t, b)]
              /\ thread[t].pc = "blocks"
                => /\ Moves(t, "blocks", Append(thread[t].blocks, b))
                   /\ thread'[t].blocks = Append(thread[t].blocks, b)
                   /\ thread'[t].array = Append(thread[t].array, b)
<1>1. thread \in [Threads -> HandlerState] /\ thread[t] \in HandlerState
    BY DEF DiskTypes
<1>0. <<b>> \in Seq(Tokens) /\ b \in Tokens
    <2>1. b \in Tokens
        BY NumbersAreTokens
    <2>. QED BY <2>1
<1>2. ASSUME thread' = [thread EXCEPT ![t] = [@ EXCEPT !.pc = "create", !.blocks = <<b>>]]
      PROVE  Moves(t, "create", <<b>>)
    <2>. DEFINE l == <<b>>
                h == [thread[t] EXCEPT !.pc = "create", !.blocks = l]
    <2>0. l \in Seq(Tokens)
        BY <1>0
    <2>. HIDE DEF l
    <2>1. h \in HandlerState /\ h.pc = "create" /\ h.msg = thread[t].msg /\ h.blocks = l
        BY <1>1, <2>0 DEF HandlerState
    <2>2. thread' = [thread EXCEPT ![t] = h]
        BY <1>2 DEF l
    <2>. HIDE DEF h
    <2>. QED BY <1>1, <2>1, <2>2, MoveOf DEF l
<1>3. ASSUME thread' = [thread EXCEPT ![t] = [@ EXCEPT !.pc = "save", !.array = <<b>>]]
      PROVE  /\ Moves(t, "save", <<b>>)
             /\ thread'[t].blocks = thread[t].blocks /\ thread'[t].array = <<b>>
    <2>. DEFINE l == <<b>>
                h == [thread[t] EXCEPT !.pc = "save", !.array = l]
    <2>0. l \in Seq(Tokens)
        BY <1>0
    <2>. HIDE DEF l
    <2>1. /\ h \in HandlerState /\ h.pc = "save" /\ h.msg = thread[t].msg /\ h.array = l
          /\ h.blocks = thread[t].blocks
        BY <1>1, <2>0 DEF HandlerState
    <2>2. thread' = [thread EXCEPT ![t] = h]
        BY <1>3 DEF l
    <2>. HIDE DEF h
    <2>. QED BY <1>1, <2>1, <2>2, MoveOf DEF l
<1>4. ASSUME thread' = [thread EXCEPT ![t] = WithBlock(t, b)],
             thread[t].pc = "blocks"
      PROVE  /\ Moves(t, "blocks", Append(thread[t].blocks, b))
             /\ thread'[t].blocks = Append(thread[t].blocks, b)
             /\ thread'[t].array = Append(thread[t].array, b)
    <2>. DEFINE l == Append(thread[t].blocks, b)
                a == Append(thread[t].array, b)
                h == WithBlock(t, b)
    <2>1. l \in Seq(Tokens) /\ a \in Seq(Tokens)
        <3>1. thread[t].blocks \in Seq(Tokens) /\ thread[t].array \in Seq(Tokens)
            BY <1>1 DEF HandlerState
        <3>. QED BY <1>0, <3>1, AppendProperties
    <2>2. thread' = [thread EXCEPT ![t] = h]
        BY <1>4
    <2>3. h = [thread[t] EXCEPT !.blocks = l, !.array = a]
        BY DEF WithBlock
    <2>. HIDE DEF l, a, h
    <2>4. /\ h \in HandlerState /\ h.pc = "blocks" /\ h.msg = thread[t].msg
          /\ h.blocks = l /\ h.array = a
        BY <1>1, <1>4, <2>1, <2>3 DEF HandlerState
    <2>5. Moves(t, "blocks", l) /\ thread'[t].blocks = l /\ thread'[t].array = a
        BY <1>1, <2>2, <2>4, MoveOf
    <2>. QED BY <2>5 DEF l, a
<1>. QED BY <1>2, <1>3, <1>4

\* A sequence that is not empty is its front and its last element.
LEMMA FrontAndLast ==
    ASSUME NEW S, NEW s \in Seq(S), Len(s) > 0
    PROVE  /\ Front(s) \in Seq(S) /\ Last(s) \in S /\ Last(s) = s[Len(s)]
           /\ Len(s) \in DOMAIN s /\ DOMAIN s = 1..Len(s)
           /\ DOMAIN Front(s) = 1..(Len(s) - 1)
           /\ \A i \in DOMAIN Front(s) : Front(s)[i] = s[i]
<1>1. Len(s) \in Nat /\ DOMAIN s = 1..Len(s) /\ \A j \in 1..Len(s) : s[j] \in S
    BY LenProperties, ElementOfSeq
<1>2. /\ Front(s) \in Seq(S) /\ Len(Front(s)) = Len(s) - 1
      /\ \A j \in 1..(Len(s) - 1) : Front(s)[j] = s[j]
    BY <1>1, SubSeqProperties DEF Front
<1>. QED BY <1>1, <1>2, LenProperties DEF Last

\* The number of blocks a text needs is a natural number.
LEMMA NeededIsNat ==
    ASSUME DiskTypes, NEW t \in Threads
    PROVE  Needed(t) \in Nat
<1>1. Len(thread[t].text) \in Nat
    BY LenProperties DEF DiskTypes, HandlerState
<1>2. \A a \in Nat, b \in Nat \ {0} : a \div b \in Nat
    OBVIOUS
<1>3. Len(thread[t].text) + BLOCK_SIZE - 1 \in Nat
    BY <1>1, Bounded
<1>. QED BY <1>2, <1>3, Bounded DEF Needed, BlocksFor, my_ceil

\* What remove_last_block_from_array leaves of a text is not shorter than its front.
LEMMA CutIsSeq ==
    ASSUME NEW a \in Seq(Tokens), Len(a) > 0, NEW comma \in BOOLEAN
    PROVE  Cut(a, comma) \in Seq(Tokens) /\ Len(Cut(a, comma)) >= Len(a) - 1
<1>1. Front(a) \in Seq(Tokens) /\ Len(Front(a)) = Len(a) - 1 /\ Len(a) \in Nat
    <2>1. Front(a) \in Seq(Tokens) /\ DOMAIN Front(a) = 1..(Len(a) - 1) /\ Len(a) \in Nat
        BY FrontAndLast, LenProperties
    <2>2. Len(Front(a)) \in Nat /\ DOMAIN Front(a) = 1..Len(Front(a))
        BY <2>1, LenProperties
    <2>. QED BY <2>1, <2>2
<1>2. Dash \in Tokens
    BY DEF Tokens
<1>3. Append(Front(a), Dash) \in Seq(Tokens) /\ Len(Append(Front(a), Dash)) = Len(a)
    BY <1>1, <1>2, AppendProperties
<1>. QED BY <1>1, <1>3 DEF Cut

\* A block is removed from the end of a list that is not empty.
LEMMA RemovingMoves ==
    ASSUME DiskTypes, NEW t \in Threads, RemoveBlock(t)
    PROVE  /\ Len(thread[t].blocks) > 0 /\ Len(thread[t].array) > 0
           /\ \E pc \in {"blocks", "refill"} : Moves(t, pc, Front(thread[t].blocks))
           /\ thread'[t].blocks = Front(thread[t].blocks)
           /\ thread'[t].array = Cut(thread[t].array, thread[t].comma)
           /\ Len(thread'[t].array) >= Len(thread'[t].blocks)
           /\ thread'[t].pc \in {"blocks", "refill"}
           /\ thread'[t].pc = "refill" => thread'[t].array = <<>>
<1>. DEFINE l == thread[t].blocks
            a == thread[t].array
            rest == Front(l)
            text == Cut(a, thread[t].comma)
            comma == CommaLeft(a, thread[t].comma)
            pc == IF text = <<>> /\ ~comma THEN "refill" ELSE "blocks"
            h == [thread[t] EXCEPT !.blocks = rest, !.array = text, !.comma = comma, !.pc = pc]
<1>1. thread \in [Threads -> HandlerState] /\ thread[t] \in HandlerState
    BY DEF DiskTypes
<1>2. /\ l \in Seq(Tokens) /\ a \in Seq(Tokens) /\ Len(l) > 0 /\ Len(a) >= Len(l)
      /\ Len(l) \in Nat /\ Len(a) \in Nat /\ thread[t].comma \in BOOLEAN
    <2>1. l \in Seq(Tokens) /\ a \in Seq(Tokens) /\ thread[t].comma \in BOOLEAN
        BY <1>1 DEF HandlerState
    <2>2. Len(l) > Needed(t) /\ Len(a) >= Len(l)
        BY DEF RemoveBlock, DiskTypes
    <2>. QED BY <2>1, <2>2, NeededIsNat, LenProperties
<1>3. rest \in Seq(Tokens) /\ Len(rest) = Len(l) - 1
    <2>1. rest \in Seq(Tokens) /\ DOMAIN rest = 1..(Len(l) - 1)
        BY <1>2, FrontAndLast
    <2>2. Len(rest) \in Nat /\ DOMAIN rest = 1..Len(rest)
        BY <2>1, LenProperties
    <2>. QED BY <1>2, <2>1, <2>2
<1>4. text \in Seq(Tokens) /\ Len(text) >= Len(a) - 1 /\ Len(text) \in Nat
    BY <1>2, CutIsSeq, LenProperties
<1>5. comma \in BOOLEAN
    BY <1>2 DEF CommaLeft
<1>6. pc \in {"refill", "blocks"} /\ (pc = "refill" => text = <<>>)
    OBVIOUS
<1>7. thread' = [thread EXCEPT ![t] = h]
    BY DEF RemoveBlock
<1>. HIDE DEF rest, text, comma, pc
<1>8. /\ h \in HandlerState /\ h.pc = pc /\ h.msg = thread[t].msg
      /\ h.blocks = rest /\ h.array = text
    BY <1>1, <1>3, <1>4, <1>5, <1>6 DEF HandlerState
<1>. HIDE DEF h
<1>9. Moves(t, pc, rest) /\ thread'[t] = h
    BY <1>1, <1>6, <1>7, <1>8, MoveOf
<1>10. Len(text) >= Len(rest)
    BY <1>2, <1>3, <1>4
<1>. QED BY <1>2, <1>6, <1>8, <1>9, <1>10 DEF rest, text, pc

\* Saving the metadata and writing the blocks change no list in hand.
LEMMA FilingMoves ==
    ASSUME DiskTypes, NEW t \in Threads
    PROVE  /\ CreateMetadata(t) => Moves(t, "open", <<>>)
           /\ SaveMetadata(t) => Moves(t, "write", thread[t].blocks)
           /\ WriteBlock(t) => Moves(t, "write", thread[t].blocks)
<1>1. thread \in [Threads -> HandlerState] /\ thread[t] \in HandlerState
    BY DEF DiskTypes
<1>2. ASSUME CreateMetadata(t) PROVE Moves(t, "open", <<>>)
    <2>. DEFINE l == <<>>
                h == [thread[t] EXCEPT !.pc = "open", !.blocks = l]
    <2>0. l \in Seq(Tokens)
        OBVIOUS
    <2>. HIDE DEF l
    <2>1. h \in HandlerState /\ h.pc = "open" /\ h.msg = thread[t].msg /\ h.blocks = l
        BY <1>1, <2>0 DEF HandlerState
    <2>2. thread' = [thread EXCEPT ![t] = h]
        BY <1>2 DEF CreateMetadata, l
    <2>. HIDE DEF h
    <2>. QED BY <1>1, <2>1, <2>2, MoveOf DEF l
<1>3. ASSUME SaveMetadata(t) PROVE Moves(t, "write", thread[t].blocks)
    <2>. DEFINE h == [thread[t] EXCEPT !.pc = "write", !.i = 1]
    <2>1. h \in HandlerState /\ h.pc = "write" /\ h.msg = thread[t].msg
          /\ h.blocks = thread[t].blocks
        BY <1>1 DEF HandlerState
    <2>2. thread' = [thread EXCEPT ![t] = h]
        BY <1>3 DEF SaveMetadata
    <2>. HIDE DEF h
    <2>. QED BY <1>1, <2>1, <2>2, MoveOf
<1>4. ASSUME WriteBlock(t) PROVE Moves(t, "write", thread[t].blocks)
    <2>. DEFINE n == thread[t].i + 1
                h == [thread[t] EXCEPT !.i = n]
    <2>0. n \in Nat
        BY <1>1 DEF HandlerState
    <2>. HIDE DEF n
    <2>1. h \in HandlerState /\ h.pc = thread[t].pc /\ h.msg = thread[t].msg
          /\ h.blocks = thread[t].blocks /\ thread[t].pc = "write"
        BY <1>1, <1>4, <2>0 DEF HandlerState, WriteBlock
    <2>2. thread' = [thread EXCEPT ![t] = h]
        BY <1>4 DEF WriteBlock, n
    <2>. HIDE DEF h
    <2>. QED BY <1>1, <2>1, <2>2, MoveOf
<1>. QED BY <1>2, <1>3, <1>4

\* No file changes but the one of t's pokemon.
OtherFilesStay(t) ==
    \A p : p # PokemonOf(t) =>
        /\ p \in DOMAIN files' <=> p \in DOMAIN files
        /\ p \in DOMAIN files => files'[p] = files[p]

\* The file of t's pokemon after a step.
Files(t, blocks, open) ==
    /\ DOMAIN files' = DOMAIN files \cup {PokemonOf(t)}
    /\ files'[PokemonOf(t)] \in FileRecord
    /\ files'[PokemonOf(t)].BLOCKS = blocks /\ files'[PokemonOf(t)].OPEN = open

\* What opening, creating and saving do to the file.
LEMMA FileSteps ==
    ASSUME DiskTypes, NEW t \in Threads
    PROVE  /\ OpenFile(t) =>
                /\ PokemonOf(t) \in DOMAIN files /\ files[PokemonOf(t)].OPEN = "N"
                /\ OtherFilesStay(t) /\ Files(t, files[PokemonOf(t)].BLOCKS, "Y")
           /\ CreateMetadata(t) /\ PokemonOf(t) \notin DOMAIN files =>
                OtherFilesStay(t) /\ Files(t, thread[t].blocks, "N")
           /\ SaveMetadata(t) /\ PokemonOf(t) \in DOMAIN files =>
                OtherFilesStay(t) /\ Files(t, thread[t].array, files[PokemonOf(t)].OPEN)
           /\ CloseFile(t) /\ PokemonOf(t) \in DOMAIN files =>
                OtherFilesStay(t) /\ Files(t, files[PokemonOf(t)].BLOCKS, "N")
<1>. DEFINE P == PokemonOf(t)
<1>1. /\ thread[t].blocks \in Seq(Tokens) /\ thread[t].array \in Seq(Tokens)
      /\ Len(thread[t].text) \in Nat
    BY LenProperties DEF DiskTypes, HandlerState
<1>2. P \in DOMAIN files => files[P] \in FileRecord
    BY DEF DiskTypes
<1>3. ASSUME OpenFile(t)
      PROVE  /\ P \in DOMAIN files /\ files[P].OPEN = "N"
             /\ OtherFilesStay(t) /\ Files(t, files[P].BLOCKS, "Y")
    <2>. DEFINE f == [files[P] EXCEPT !.OPEN = "Y"]
    <2>1. P \in DOMAIN files /\ files[P].OPEN = "N"
        BY <1>3 DEF OpenFile, IsClosed, File, PokemonOf
    <2>2. files' = [files EXCEPT ![P] = f]
        BY <1>3 DEF OpenFile, PokemonOf
    <2>3. f \in FileRecord /\ f.OPEN = "Y" /\ f.BLOCKS = files[P].BLOCKS
        BY <1>2, <2>1 DEF FileRecord
    <2>. HIDE DEF f, P
    <2>. QED BY <2>1, <2>2, <2>3 DEF OtherFilesStay, Files, P
<1>4. ASSUME CreateMetadata(t), P \notin DOMAIN files
      PROVE  OtherFilesStay(t) /\ Files(t, thread[t].blocks, "N")
    <2>. DEFINE f == [BLOCKS |-> thread[t].blocks, SIZE |-> 0, OPEN |-> "N"]
    <2>1. files' = [p \in DOMAIN files \cup {P} |-> IF p \in DOMAIN files THEN files[p] ELSE f]
        BY <1>4 DEF CreateMetadata, PokemonOf
    <2>2. f \in FileRecord /\ f.OPEN = "N" /\ f.BLOCKS = thread[t].blocks
        BY <1>1 DEF FileRecord, Tokens
    <2>. HIDE DEF f, P
    <2>. QED BY <1>4, <2>1, <2>2 DEF OtherFilesStay, Files, P
<1>5. ASSUME SaveMetadata(t), P \in DOMAIN files
      PROVE  OtherFilesStay(t) /\ Files(t, thread[t].array, files[P].OPEN)
    <2>. DEFINE l == thread[t].array
                n == Len(thread[t].text)
                f == [files[P] EXCEPT !.BLOCKS = l, !.SIZE = n]
    <2>1. files' = [files EXCEPT ![P] = f]
        BY <1>5 DEF SaveMetadata, PokemonOf
    <2>. HIDE DEF l, n
    <2>2. f \in FileRecord /\ f.OPEN = files[P].OPEN /\ f.BLOCKS = l
        <3>1. l \in Seq(Tokens) /\ n \in Nat
            BY <1>1 DEF l, n
        <3>2. files[P] \in FileRecord
            BY <1>2, <1>5
        <3>. HIDE DEF P
        <3>. QED BY <3>1, <3>2 DEF FileRecord, Tokens
    <2>. HIDE DEF f, P
    <2>. QED BY <1>5, <2>1, <2>2 DEF OtherFilesStay, Files, P, l
<1>6. ASSUME CloseFile(t), P \in DOMAIN files
      PROVE  OtherFilesStay(t) /\ Files(t, files[P].BLOCKS, "N")
    <2>. DEFINE f == [files[P] EXCEPT !.OPEN = "N"]
    <2>1. files' = [files EXCEPT ![P] = f]
        BY <1>6 DEF CloseFile, PokemonOf, Closed
    <2>2. f \in FileRecord /\ f.OPEN = "N" /\ f.BLOCKS = files[P].BLOCKS
        BY <1>2, <1>6 DEF FileRecord
    <2>. HIDE DEF f, P
    <2>. QED BY <1>6, <2>1, <2>2 DEF OtherFilesStay, Files, P
<1>. QED BY <1>3, <1>4, <1>5, <1>6

-----------------------------------------------------------------------------
(* Who has which blocks.                                                    *)

KnownLists ==
    /\ \A t \in Threads : \A p : Holds(t) /\ PokemonOf(t) = p =>
            \A l : Has(p, l) <=> l = Hand(t)
    /\ \A t \in Threads : \A p : Inside(t) /\ ~Holds(t) /\ PokemonOf(t) = p =>
            \A l : Has(p, l) <=> l = files[p].BLOCKS
    /\ \A p \in DOMAIN files : files[p].OPEN = "N" =>
            \A l : Has(p, l) <=> l = files[p].BLOCKS

\* As a file is one handler's at most, its pokemon has one list of blocks at most.
LEMMA ListsAreKnown == Exclusion => KnownLists
<1>. SUFFICES ASSUME Exclusion PROVE KnownLists
    OBVIOUS
<1>0. \A t \in Threads : Holds(t) =>
        \/ thread[t].pc = "create" /\ PokemonOf(t) \notin DOMAIN files
        \/ Inside(t) /\ files[PokemonOf(t)].OPEN = "Y"
    BY DEF Exclusion, Holds, Inside
<1>1. \A t, u \in Threads : Holds(t) /\ Holds(u) /\ PokemonOf(t) = PokemonOf(u) => t = u
    <2>. SUFFICES ASSUME NEW t \in Threads, NEW u \in Threads, Holds(t), Holds(u),
                         PokemonOf(t) = PokemonOf(u)
                  PROVE  t = u
        OBVIOUS
    <2>1. (thread[t].pc = "create" \/ Inside(t)) /\ (thread[u].pc = "create" \/ Inside(u))
        BY DEF Holds, Inside
    <2>. QED BY <2>1 DEF Exclusion
<1>2. ASSUME NEW t \in Threads, Holds(t), NEW l
      PROVE  Has(PokemonOf(t), l) <=> l = Hand(t)
    <2>1. ASSUME Has(PokemonOf(t), l) PROVE l = Hand(t)
        <3>1. ASSUME PokemonOf(t) \in DOMAIN files, files[PokemonOf(t)].OPEN = "N" PROVE FALSE
            BY <1>0, <1>2, <3>1
        <3>2. ASSUME NEW u \in Threads, Inside(u), ~Holds(u), PokemonOf(u) = PokemonOf(t)
              PROVE  FALSE
            <4>1. PokemonOf(t) \in DOMAIN files
                BY <3>2 DEF Exclusion
            <4>2. Inside(t)
                BY <1>0, <1>2, <4>1
            <4>. QED BY <1>2, <3>2, <4>2 DEF Exclusion
        <3>. QED BY <1>1, <1>2, <2>1, <3>1, <3>2 DEF Has
    <2>. QED BY <1>2, <2>1 DEF Has
<1>3. ASSUME NEW t \in Threads, Inside(t), ~Holds(t), NEW l
      PROVE  Has(PokemonOf(t), l) <=> l = files[PokemonOf(t)].BLOCKS
    <2>1. ASSUME NEW u \in Threads, Holds(u), PokemonOf(u) = PokemonOf(t) PROVE FALSE
        <3>1. PokemonOf(t) \in DOMAIN files
            BY <1>3 DEF Exclusion
        <3>2. Inside(u)
            BY <1>0, <2>1, <3>1
        <3>. QED BY <1>3, <2>1, <3>2 DEF Exclusion
    <2>2. PokemonOf(t) \in DOMAIN files
        BY <1>3 DEF Exclusion
    <2>. QED BY <1>3, <2>1, <2>2 DEF Has
<1>4. ASSUME NEW p \in DOMAIN files, files[p].OPEN = "N", NEW l
      PROVE  Has(p, l) <=> l = files[p].BLOCKS
    <2>1. ASSUME NEW u \in Threads, Holds(u), PokemonOf(u) = p PROVE FALSE
        BY <1>0, <1>4, <2>1
    <2>. QED BY <1>4, <2>1 DEF Has
<1>. QED BY <1>2, <1>3, <1>4 DEF KnownLists

\* A step of t's leaves the others' blocks alone.
LEMMA OthersHave ==
    ASSUME NEW t \in Threads, NEW pc, NEW blocks, Moves(t, pc, blocks), OtherFilesStay(t),
           NEW p, NEW l, p # PokemonOf(t)
    PROVE  Has(p, l)' <=> Has(p, l)
<1>1. \A u \in Threads : u # t =>
        /\ (Holds(u)' <=> Holds(u)) /\ (Inside(u)' <=> Inside(u)) /\ PokemonOf(u)' = PokemonOf(u)
        /\ Hand(u)' = Hand(u)
    BY DEF Moves, Holds, Inside, PokemonOf, Hand
<1>2. PokemonOf(t)' = PokemonOf(t)
    BY DEF Moves, PokemonOf
<1>3. p \in DOMAIN files' <=> p \in DOMAIN files
    BY DEF OtherFilesStay
<1>4. p \in DOMAIN files => files'[p] = files[p]
    BY DEF OtherFilesStay
<1>. QED BY <1>1, <1>2, <1>3, <1>4 DEF Has

\* A thread that works on no file, and still does not, changes nobody's blocks.
LEMMA OutsiderHas ==
    ASSUME NEW t \in Threads, ~Inside(t), ~Holds(t), ~Inside(t)', ~Holds(t)',
           \A u \in Threads \ {t} : thread'[u] = thread[u], files' = files, NEW p, NEW l
    PROVE  Has(p, l)' <=> Has(p, l)
<1>1. \A u \in Threads : u # t =>
        /\ (Holds(u)' <=> Holds(u)) /\ (Inside(u)' <=> Inside(u)) /\ PokemonOf(u)' = PokemonOf(u)
        /\ Hand(u)' = Hand(u)
    BY DEF Holds, Inside, PokemonOf, Hand
<1>. QED BY <1>1 DEF Has

-----------------------------------------------------------------------------
(* One handler in a file, one in the making of a directory.                 *)

InsidePcs == {"read", "lock", "blocks", "refill", "save", "write", "close", "garbled"}

\* A handler that enters a file found it closed, and one that makes a directory found none.
LEMMA ExclusionKept ==
    ASSUME Exclusion, NEW t \in Threads, NEW pc, NEW blocks, Moves(t, pc, blocks),
           OtherFilesStay(t), directories \subseteq directories',
           pc \in InsidePcs =>
                /\ PokemonOf(t) \in DOMAIN files' /\ files'[PokemonOf(t)].OPEN = "Y"
                /\ \A u \in Threads \ {t} : Inside(u) => PokemonOf(u) # PokemonOf(t),
           pc = "create" =>
                /\ PokemonOf(t) \in directories' \ DOMAIN files'
                /\ \A u \in Threads \ {t} : thread[u].pc # "create",
           \A u \in Threads \ {t} : PokemonOf(u) = PokemonOf(t) =>
                /\ Inside(u) => PokemonOf(t) \in DOMAIN files' /\ files'[PokemonOf(t)].OPEN = "Y"
                /\ thread[u].pc = "create" => PokemonOf(t) \notin DOMAIN files',
           thread[t].pc = "create" \/ pc # "create" \/ \A u \in Threads : thread[u].pc # "create"
    PROVE  Exclusion'
<1>. DEFINE P == PokemonOf(t)
<1>1. \A u \in Threads : u # t =>
        /\ (Inside(u)' <=> Inside(u)) /\ PokemonOf(u)' = PokemonOf(u)
        /\ thread'[u].pc = thread[u].pc
    BY DEF Moves, Inside, PokemonOf
<1>2. PokemonOf(t)' = P /\ (Inside(t)' <=> pc \in InsidePcs) /\ thread'[t].pc = pc
    BY DEF Moves, Inside, InsidePcs, PokemonOf
<1>3. ASSUME NEW u \in Threads, Inside(u)'
      PROVE  /\ PokemonOf(u)' \in DOMAIN files' /\ files'[PokemonOf(u)'].OPEN = "Y"
             /\ \A v \in Threads : Inside(v)' /\ PokemonOf(v)' = PokemonOf(u)' => v = u
    <2>1. CASE u = t
        BY <1>1, <1>2, <1>3, <2>1
    <2>2. CASE u # t /\ PokemonOf(u) = P
        <3>1. Inside(u) /\ pc \notin InsidePcs
            BY <1>1, <1>3, <2>2
        <3>2. P \in DOMAIN files' /\ files'[P].OPEN = "Y"
            BY <2>2, <3>1
        <3>3. \A v \in Threads : Inside(v)' => v # t /\ Inside(v)
            BY <1>1, <1>2, <3>1
        <3>. QED BY <1>1, <2>2, <3>1, <3>2, <3>3 DEF Exclusion
    <2>3. CASE u # t /\ PokemonOf(u) # P
        <3>1. Inside(u) /\ PokemonOf(u) \in DOMAIN files /\ files[PokemonOf(u)].OPEN = "Y"
            BY <1>1, <1>3, <2>3 DEF Exclusion
        <3>2. PokemonOf(u) \in DOMAIN files' /\ files'[PokemonOf(u)].OPEN = "Y"
            BY <2>3, <3>1 DEF OtherFilesStay
        <3>. QED BY <1>1, <1>2, <2>3, <3>1, <3>2 DEF Exclusion
    <2>. QED BY <2>1, <2>2, <2>3
<1>4. ASSUME NEW u \in Threads, thread'[u].pc = "create"
      PROVE  /\ PokemonOf(u)' \in directories' \ DOMAIN files'
             /\ \A v \in Threads : thread'[v].pc = "create" => v = u
    <2>1. CASE u = t
        BY <1>1, <1>2, <1>4, <2>1
    <2>2. CASE u # t
        <3>1. thread[u].pc = "create" /\ PokemonOf(u) \in directories \ DOMAIN files /\ pc # "create"
            BY <1>1, <1>2, <1>4, <2>2 DEF Exclusion
        <3>2. PokemonOf(u) \notin DOMAIN files'
            BY <2>2, <3>1 DEF OtherFilesStay
        <3>. QED BY <1>1, <1>2, <2>2, <3>1, <3>2 DEF Exclusion
    <2>. QED BY <2>1, <2>2
<1>. QED BY <1>3, <1>4 DEF Exclusion

\* When nothing is done to the files, and the handler is in the file before and after or neither.
LEMMA ExclusionStays ==
    ASSUME Exclusion, NEW t \in Threads, NEW pc, NEW blocks, Moves(t, pc, blocks),
           files' = files, directories \subseteq directories', pc # "create",
           pc \in InsidePcs => Inside(t)
    PROVE  Exclusion'
<1>1. OtherFilesStay(t)
    BY DEF OtherFilesStay
<1>2. \A u \in Threads \ {t} : PokemonOf(u) = PokemonOf(t) =>
        /\ Inside(u) => PokemonOf(t) \in DOMAIN files' /\ files'[PokemonOf(t)].OPEN = "Y"
        /\ thread[u].pc = "create" => PokemonOf(t) \notin DOMAIN files'
    BY DEF Exclusion
<1>3. pc \in InsidePcs =>
        /\ PokemonOf(t) \in DOMAIN files' /\ files'[PokemonOf(t)].OPEN = "Y"
        /\ \A u \in Threads \ {t} : Inside(u) => PokemonOf(u) # PokemonOf(t)
    BY DEF Exclusion
<1>. QED BY <1>1, <1>2, <1>3, ExclusionKept

\* After a restart no handler is in a file or holds blocks, and the disk is as it was.
LEMMA RestartOutside ==
    ASSUME DiskTypes, Restart
    PROVE  /\ \A t \in Threads : ~Inside(t)' /\ ~Holds(t)' /\ PokemonOf(t)' = PokemonOf(t)
                                 /\ thread'[t].pc \in {"none", "done", "lost"}
                                 /\ (thread'[t].pc = "none" <=> thread[t].pc = "none")
                                 /\ thread'[t].blocks = thread[t].blocks
           /\ thread' \in [Threads -> HandlerState]
           /\ UNCHANGED <<bitmap, files, directories, received, overcommitted, miscut>>
           /\ blocks_available' = Cardinality(FreeBlocks)
<1>. DEFINE lost(t) == [thread[t] EXCEPT !.pc = "lost"]
            new(t) == IF t \in AtWork \/ thread[t].pc = "garbled" THEN lost(t) ELSE thread[t]
<1>1. \A t \in Threads : thread[t] \in HandlerState
    BY DEF DiskTypes
<1>2. \A t \in Threads : lost(t) \in HandlerState /\ lost(t).msg = thread[t].msg
                         /\ lost(t).pc = "lost" /\ lost(t).blocks = thread[t].blocks
    BY <1>1 DEF HandlerState
<1>3. thread' = [t \in Threads |-> new(t)]
    BY DEF Restart
<1>4. \A t \in Threads : /\ new(t) \in HandlerState /\ new(t).msg = thread[t].msg
                         /\ new(t).blocks = thread[t].blocks
                         /\ new(t).pc \in {"none", "done", "lost"}
                         /\ (new(t).pc = "none" <=> thread[t].pc = "none")
    <2>. HIDE DEF lost
    <2>. QED BY <1>1, <1>2 DEF AtWork, HandlerState
<1>. HIDE DEF new
<1>5. thread' \in [Threads -> HandlerState]
    BY <1>3, <1>4
<1>6. \A t \in Threads : thread'[t].msg = thread[t].msg /\ thread'[t].pc \in {"none", "done", "lost"}
                         /\ thread'[t].blocks = thread[t].blocks
                         /\ (thread'[t].pc = "none" <=> thread[t].pc = "none")
    BY <1>3, <1>4
<1>7. \A t \in Threads : ~Inside(t)' /\ ~Holds(t)' /\ PokemonOf(t)' = PokemonOf(t)
    BY <1>6 DEF Inside, Holds, PokemonOf
<1>. QED BY <1>5, <1>6, <1>7 DEF Restart, diskVars

\* A thread that has no message yet.
LEMMA NoThreadType ==
    NoThread \in HandlerState /\ NoThread.pc = "none" /\ NoThread.blocks = <<>>
<1>. DEFINE l == <<>>
            x == <<>>
            m == CHOOSE r \in Requests : TRUE
            n == [pc |-> "none", msg |-> m, text |-> x, blocks |-> l, array |-> l,
                  comma |-> FALSE, i |-> 0, result |-> 0]
<1>1. l \in Seq(Tokens) /\ x \in Seq(Cell)
    OBVIOUS
<1>2. m \in Requests
    BY Bounded
<1>3. NoThread = n
    BY DEF NoThread
<1>. HIDE DEF l, x, m
<1>4. n \in HandlerState /\ n.pc = "none" /\ n.blocks = l
    BY <1>1, <1>2 DEF HandlerState
<1>. QED BY <1>3, <1>4 DEF l

\* A message starts the next thread, in front of its directory.
LEMMA ReceivingMoves ==
    ASSUME DiskTypes, NEW r \in Requests, ReceiveMessage(r)
    PROVE  /\ received + 1 \in Threads /\ thread[received + 1].pc = "none"
           /\ thread' \in [Threads -> HandlerState]
           /\ thread'[received + 1].pc = "directory" /\ thread'[received + 1].blocks = <<>>
           /\ \A u \in Threads \ {received + 1} : thread'[u] = thread[u]
<1>. DEFINE h == [NoThread EXCEPT !.pc = "directory", !.msg = r]
<1>1. received \in Nat /\ received < MaxMessages /\ thread \in [Threads -> HandlerState]
    BY DEF DiskTypes, ReceiveMessage
<1>2. received + 1 \in Threads
    BY <1>1, Bounded DEF Threads
<1>3. thread[received + 1].pc = "none"
    BY <1>1, <1>2 DEF DiskTypes
<1>4. h \in HandlerState /\ h.pc = "directory" /\ h.blocks = <<>>
    BY NoThreadType DEF HandlerState
<1>5. thread' = [thread EXCEPT ![received + 1] = h]
    BY DEF ReceiveMessage
<1>. HIDE DEF h
<1>. QED BY <1>1, <1>2, <1>3, <1>4, <1>5

\* The parts of a step in the proofs below.
LEMMA NextCases ==
    ASSUME [Next]_vars
    PROVE  \/ \E r \in Requests : ReceiveMessage(r)
           \/ \E t \in Threads : ThreadStep(t) /\ ~MetadataMissing(t)
           \/ \E t \in Threads : MetadataMissing(t)
           \/ CrashAndRestart
           \/ UNCHANGED vars
BY DEF Next, Finished

\* After a restart nobody excludes anybody.
LEMMA RestartExclusion == ASSUME DiskTypes, Restart PROVE Exclusion'
<1>1. \A t \in Threads : ~Inside(t)' /\ thread'[t].pc # "create"
    BY RestartOutside
<1>. QED BY <1>1 DEF Exclusion

\* mkdir under mutexDirectory lets one handler make the directory.
LEMMA TakingExclusion ==
    ASSUME DiskTypes, Exclusion, NEW t \in Threads, MakeDirectory(t)
    PROVE  Exclusion'
<1>1. PICK b \in BlockNumbers :
        IF b = NoBlock
        THEN Goes(t, "done") /\ UNCHANGED directories
        ELSE /\ thread' = [thread EXCEPT ![t] = [@ EXCEPT !.pc = "create", !.blocks = <<b>>]]
             /\ directories' = directories \cup {PokemonOf(t)}
    BY Zenon DEF MakeDirectory, BlockNumbers, PokemonOf
<1>2. files' = files /\ PokemonOf(t) \notin directories /\ \A u \in Threads : thread[u].pc # "create"
    BY DEF MakeDirectory, DirectoryUnlocked, PokemonOf
<1>3. CASE b = NoBlock
    <2>1. Moves(t, "done", thread[t].blocks)
        BY <1>1, <1>3, GoingMoves
    <2>. QED BY <1>1, <1>2, <1>3, <2>1, ExclusionStays DEF InsidePcs
<1>4. CASE b # NoBlock
    <2>1. Moves(t, "create", <<b>>)
        BY <1>1, <1>4, TakingMoves
    <2>2. OtherFilesStay(t)
        BY <1>2 DEF OtherFilesStay
    <2>3. PokemonOf(t) \in directories' \ DOMAIN files' /\ directories \subseteq directories'
        BY <1>1, <1>2, <1>4 DEF DiskTypes
    <2>4. \A u \in Threads : PokemonOf(u) = PokemonOf(t) => ~Inside(u)
        BY <1>2 DEF Exclusion, DiskTypes
    <2>. QED BY <1>2, <2>1, <2>2, <2>3, <2>4, ExclusionKept DEF InsidePcs
<1>. QED BY <1>3, <1>4

\* Every step keeps one handler in a file.
LEMMA NextExclusion ==
    ASSUME DiskTypes, Exclusion, [Next]_vars
    PROVE  Exclusion'
<1>1. CASE \E r \in Requests : ReceiveMessage(r)
    <2>1. PICK r \in Requests : ReceiveMessage(r)
        BY <1>1
    <2>2. PICK n \in Threads : /\ thread[n].pc = "none" /\ thread'[n].pc = "directory"
                              /\ \A u \in Threads \ {n} : thread'[u] = thread[u]
        BY <2>1, ReceivingMoves
    <2>3. files' = files /\ directories' = directories
        BY <2>1 DEF ReceiveMessage, diskVars
    <2>4. ~Inside(n)' /\ \A u \in Threads \ {n} : (Inside(u)' <=> Inside(u))
            /\ PokemonOf(u)' = PokemonOf(u) /\ thread'[u].pc = thread[u].pc
        BY <2>2 DEF Inside, PokemonOf
    <2>5. \A u \in Threads : (Inside(u)' \/ thread'[u].pc = "create") => u # n
        BY <2>2, <2>4
    <2>. QED BY <2>2, <2>3, <2>4, <2>5 DEF Exclusion
<1>2. ASSUME NEW t \in Threads, ThreadStep(t), ~MetadataMissing(t)
      PROVE  Exclusion'
    <2>1. CASE DirectoryExists(t) \/ NoDirectory(t)
        <3>1. files' = files /\ directories' = directories
            BY <2>1 DEF DirectoryExists, NoDirectory, diskVars
        <3>2. Goes(t, "open") \/ Goes(t, "done")
            BY <2>1 DEF DirectoryExists, NoDirectory
        <3>3. Moves(t, "open", thread[t].blocks) \/ Moves(t, "done", thread[t].blocks)
            BY <3>2, GoingMoves
        <3>. QED BY <3>1, <3>3, ExclusionStays DEF InsidePcs
    <2>2. CASE MakeDirectory(t)
        BY <2>2, TakingExclusion
    <2>3. CASE CreateMetadata(t)
        <3>1. /\ PokemonOf(t) \in directories \ DOMAIN files /\ directories' = directories
              /\ \A u \in Threads : thread[u].pc = "create" => u = t
            BY <2>3 DEF CreateMetadata, Exclusion
        <3>2. Moves(t, "open", <<>>) /\ OtherFilesStay(t)
            BY <2>3, <3>1, FilingMoves, FileSteps
        <3>3. \A u \in Threads \ {t} : PokemonOf(u) = PokemonOf(t) =>
                    ~Inside(u) /\ thread[u].pc # "create"
            BY <3>1 DEF Exclusion
        <3>. QED BY <3>1, <3>2, <3>3, ExclusionKept DEF InsidePcs
    <2>4. CASE OpenFile(t)
        <3>1. /\ PokemonOf(t) \in DOMAIN files /\ files[PokemonOf(t)].OPEN = "N"
              /\ OtherFilesStay(t) /\ Files(t, files[PokemonOf(t)].BLOCKS, "Y")
            BY <2>4, FileSteps
        <3>2. Moves(t, "read", thread[t].blocks) /\ directories' = directories
            BY <2>4, GoingMoves DEF OpenFile
        <3>3. \A u \in Threads \ {t} : PokemonOf(u) = PokemonOf(t) =>
                    ~Inside(u) /\ thread[u].pc # "create"
            BY <3>1 DEF Exclusion
        <3>4. PokemonOf(t) \in DOMAIN files' /\ files'[PokemonOf(t)].OPEN = "Y"
            BY <3>1 DEF Files
        <3>. QED BY <3>1, <3>2, <3>3, <3>4, ExclusionKept DEF InsidePcs
    <2>5. CASE ReadFile(t)
        <3>1. files' = files /\ directories' = directories /\ Inside(t)
            BY <2>5 DEF ReadFile, diskVars, Inside
        <3>2. PICK pc \in {"garbled", "lock", "close"} : Moves(t, pc, thread[t].blocks)
            BY <2>5, ReadingMoves
        <3>. QED BY <3>1, <3>2, ExclusionStays DEF InsidePcs
    <2>6. CASE LockMetadata(t)
        <3>1. files' = files /\ directories' = directories /\ Inside(t)
            BY <2>6 DEF LockMetadata, diskVars, Inside
        <3>2. Moves(t, "blocks", files[PokemonOf(t)].BLOCKS)
            BY <2>6, <3>1, LockingMoves DEF Exclusion
        <3>. QED BY <3>1, <3>2, ExclusionStays DEF InsidePcs
    <2>7. CASE AddBlock(t) \/ RefillBlock(t)
        <3>1. files' = files /\ directories' = directories /\ Inside(t)
            BY <2>7 DEF AddBlock, RefillBlock, diskVars, Inside
        <3>2. \E pc \in InsidePcs : \E l : Moves(t, pc, l)
            <4>1. PICK b \in BlockNumbers :
                    \/ /\ thread' = [thread EXCEPT ![t] = WithBlock(t, b)]
                       /\ thread[t].pc = "blocks"
                    \/ thread' = [thread EXCEPT ![t] = [@ EXCEPT !.pc = "save", !.array = <<b>>]]
                BY <2>7 DEF AddBlock, RefillBlock, BlockNumbers
            <4>2. Moves(t, "blocks", Append(thread[t].blocks, b)) \/ Moves(t, "save", <<b>>)
                BY <4>1, TakingMoves
            <4>. QED BY <4>2, Zenon DEF InsidePcs
        <3>. QED BY <3>1, <3>2, ExclusionStays DEF InsidePcs
    <2>8. CASE RemoveBlock(t)
        <3>1. files' = files /\ directories' = directories /\ Inside(t)
            BY <2>8 DEF RemoveBlock, diskVars, Inside
        <3>2. \E pc \in InsidePcs : \E l : Moves(t, pc, l)
            BY <2>8, RemovingMoves DEF InsidePcs
        <3>. QED BY <3>1, <3>2, ExclusionStays DEF InsidePcs
    <2>9. CASE SaveMetadata(t)
        <3>1. /\ PokemonOf(t) \in DOMAIN files /\ files[PokemonOf(t)].OPEN = "Y"
              /\ \A u \in Threads : Inside(u) /\ PokemonOf(u) = PokemonOf(t) => u = t
            BY <2>9 DEF SaveMetadata, Exclusion, Inside
        <3>2. OtherFilesStay(t) /\ Files(t, thread[t].array, "Y")
            BY <2>9, <3>1, FileSteps
        <3>3. Moves(t, "write", thread[t].blocks) /\ directories' = directories
            BY <2>9, FilingMoves DEF SaveMetadata
        <3>4. \A u \in Threads \ {t} : PokemonOf(u) = PokemonOf(t) =>
                    ~Inside(u) /\ thread[u].pc # "create"
            BY <3>1 DEF Exclusion
        <3>5. PokemonOf(t) \in DOMAIN files' /\ files'[PokemonOf(t)].OPEN = "Y"
            BY <3>2 DEF Files
        <3>. QED BY <3>2, <3>3, <3>4, <3>5, ExclusionKept DEF InsidePcs
    <2>10. CASE WriteBlock(t)
        <3>1. files' = files /\ directories' = directories /\ Inside(t) /\ thread[t].pc = "write"
            BY <2>10 DEF WriteBlock, Inside
        <3>2. Moves(t, "write", thread[t].blocks)
            BY <2>10, <3>1, FilingMoves
        <3>. QED BY <3>1, <3>2, ExclusionStays DEF InsidePcs
    <2>11. CASE CloseFile(t)
        <3>1. /\ PokemonOf(t) \in DOMAIN files
              /\ \A u \in Threads : Inside(u) /\ PokemonOf(u) = PokemonOf(t) => u = t
            BY <2>11 DEF CloseFile, Exclusion, Inside
        <3>2. OtherFilesStay(t)
            BY <2>11, <3>1, FileSteps
        <3>3. Moves(t, "done", thread[t].blocks) /\ directories' = directories
            BY <2>11, GoingMoves DEF CloseFile
        <3>4. \A u \in Threads \ {t} : PokemonOf(u) = PokemonOf(t) =>
                    ~Inside(u) /\ thread[u].pc # "create"
            BY <3>1 DEF Exclusion
        <3>. QED BY <3>2, <3>3, <3>4, ExclusionKept DEF InsidePcs
    <2>. QED BY <1>2, <2>1, <2>2, <2>3, <2>4, <2>5, <2>6, <2>7, <2>8, <2>9, <2>10, <2>11
             DEF ThreadStep
<1>3. CASE (\E t \in Threads : MetadataMissing(t)) \/ CrashAndRestart
    BY <1>3, RestartExclusion DEF MetadataMissing, CrashAndRestart
<1>4. CASE UNCHANGED vars
    BY <1>4 DEF vars, diskVars, Exclusion, Inside, PokemonOf
<1>. QED BY <1>1, <1>2, <1>3, <1>4, NextCases

\* There are finitely many free blocks.
LEMMA FreeIsFinite == IsFiniteSet(FreeBlocks)
<1>1. IsFiniteSet(Blocks)
    <2>1. BLOCKS - 1 \in Int
        BY OneDigit
    <2>. QED BY <2>1, FS_Interval DEF Blocks
<1>. QED BY <1>1, FS_Difference DEF FreeBlocks

-----------------------------------------------------------------------------
(* The types of the disk and of the handlers.                               *)

\* A step of one handler on its own file keeps the types.
LEMMA TypesKept ==
    ASSUME DiskTypes, NEW t \in Threads, NEW pc, NEW blocks, Moves(t, pc, blocks),
           thread[t].pc # "none", pc # "none",
           pc = "blocks" => Len(thread'[t].array) >= Len(thread'[t].blocks),
           bitmap' \subseteq Blocks, blocks_available' \in Int, overcommitted' \in BOOLEAN,
           miscut' \in BOOLEAN,
           received' = received, crashes' = crashes,
           DOMAIN files' \subseteq directories', \A p \in DOMAIN files' : files'[p] \in FileRecord
    PROVE  DiskTypes'
<1>1. thread' \in [Threads -> HandlerState]
    BY DEF Moves
<1>2. received' \in Nat /\ crashes' \in Nat
    BY DEF DiskTypes
<1>3. ASSUME NEW u \in Threads
      PROVE  /\ (u > received' => thread'[u].pc = "none")
             /\ (thread'[u].pc = "blocks" => Len(thread'[u].array) >= Len(thread'[u].blocks))
    <2>1. CASE u = t
        BY <2>1 DEF DiskTypes, Moves
    <2>2. CASE u # t
        BY <2>2 DEF DiskTypes, Moves
    <2>. QED BY <2>1, <2>2
<1>. QED BY <1>1, <1>2, <1>3 DEF DiskTypes

\* What a step on one file keeps of the files' types.
LEMMA FileTypesKept ==
    ASSUME DiskTypes, NEW t \in Threads, NEW l, NEW open, OtherFilesStay(t), Files(t, l, open),
           directories' = directories, PokemonOf(t) \in directories
    PROVE  DOMAIN files' \subseteq directories' /\ \A p \in DOMAIN files' : files'[p] \in FileRecord
BY DEF DiskTypes, OtherFilesStay, Files

\* A block taken leaves bitmap and counter of their types.
LEMMA TakenTypes ==
    ASSUME DiskTypes, NEW b \in BlockNumbers, GetAvailableBlock(b)
    PROVE  bitmap' \subseteq Blocks /\ blocks_available' \in Int
<1>1. CASE b \in Blocks \ bitmap /\ bitmap' = bitmap \cup {b}
           /\ blocks_available' = blocks_available - 1
    BY <1>1 DEF DiskTypes
<1>2. CASE UNCHANGED <<bitmap, blocks_available>>
    BY <1>2 DEF DiskTypes
<1>. QED BY <1>1, <1>2, BlockTaken

\* Every step keeps the types.
LEMMA NextDiskTypes ==
    ASSUME DiskTypes, Exclusion, [Next]_vars
    PROVE  DiskTypes'
<1>1. CASE \E r \in Requests : ReceiveMessage(r)
    <2>1. PICK r \in Requests : ReceiveMessage(r)
        BY <1>1
    <2>2. PICK n \in Threads : /\ n = received + 1 /\ thread'[n].pc = "directory"
                              /\ \A u \in Threads \ {n} : thread'[u] = thread[u]
        BY <2>1, ReceivingMoves
    <2>3. thread' \in [Threads -> HandlerState]
        BY <2>1, ReceivingMoves
    <2>4. received' = n /\ UNCHANGED <<bitmap, directories, files, blocks_available, crashes,
                                      overcommitted, miscut>>
        BY <2>1, <2>2 DEF ReceiveMessage, diskVars
    <2>5. received' \in Nat /\ \A u \in Threads : u > n => u > received
        BY <2>2, <2>4 DEF DiskTypes, Threads
    <2>6. \A u \in Threads : u > received' => thread'[u].pc = "none"
        BY <2>2, <2>4, <2>5 DEF DiskTypes
    <2>7. \A u \in Threads :
            thread'[u].pc = "blocks" => Len(thread'[u].array) >= Len(thread'[u].blocks)
        BY <2>2 DEF DiskTypes
    <2>. QED BY <2>3, <2>4, <2>5, <2>6, <2>7 DEF DiskTypes
<1>2. ASSUME NEW t \in Threads, ThreadStep(t), ~MetadataMissing(t)
      PROVE  DiskTypes'
    <2>1. CASE DirectoryExists(t) \/ NoDirectory(t)
        <3>1. Moves(t, "open", thread[t].blocks) \/ Moves(t, "done", thread[t].blocks)
            BY <2>1, GoingMoves DEF DirectoryExists, NoDirectory
        <3>2. thread[t].pc # "none" /\ UNCHANGED <<bitmap, directories, files, blocks_available,
                                                 received, crashes, overcommitted, miscut>>
            BY <2>1 DEF DirectoryExists, NoDirectory, diskVars
        <3>3. /\ bitmap \subseteq Blocks /\ blocks_available \in Int /\ overcommitted \in BOOLEAN
              /\ miscut \in BOOLEAN
              /\ DOMAIN files \subseteq directories /\ \A p \in DOMAIN files : files[p] \in FileRecord
            BY DEF DiskTypes
        <3>. QED BY <3>1, <3>2, <3>3, TypesKept
    <2>2. CASE MakeDirectory(t)
        <3>1. PICK b \in BlockNumbers :
                /\ GetAvailableBlock(b)
                /\ IF b = NoBlock
                   THEN Goes(t, "done") /\ UNCHANGED directories
                   ELSE /\ thread' = [thread EXCEPT ![t] = [@ EXCEPT !.pc = "create",
                                                                     !.blocks = <<b>>]]
                        /\ directories' = directories \cup {PokemonOf(t)}
            BY <2>2, Zenon DEF MakeDirectory, BlockNumbers, PokemonOf
        <3>2. Moves(t, "create", <<b>>) \/ Moves(t, "done", thread[t].blocks)
            BY <3>1, GoingMoves, TakingMoves
        <3>3. bitmap' \subseteq Blocks /\ blocks_available' \in Int
            BY <3>1, TakenTypes
        <3>4. thread[t].pc # "none" /\ UNCHANGED <<files, received, crashes, overcommitted, miscut>>
            BY <2>2 DEF MakeDirectory
        <3>5. overcommitted \in BOOLEAN /\ miscut \in BOOLEAN /\ DOMAIN files \subseteq directories'
              /\ \A p \in DOMAIN files : files[p] \in FileRecord
            BY <3>1 DEF DiskTypes
        <3>. QED BY <3>2, <3>3, <3>4, <3>5, TypesKept
    <2>3. CASE CreateMetadata(t) \/ OpenFile(t) \/ SaveMetadata(t) \/ CloseFile(t)
        <3>1. \/ CreateMetadata(t) /\ PokemonOf(t) \in directories \ DOMAIN files
              \/ (OpenFile(t) \/ SaveMetadata(t) \/ CloseFile(t)) /\ PokemonOf(t) \in DOMAIN files
            BY <2>3, FileSteps DEF CreateMetadata, SaveMetadata, CloseFile, Exclusion, Inside
        <3>2. \E l, open : OtherFilesStay(t) /\ Files(t, l, open)
            BY <3>1, FileSteps
        <3>3. \E pc \in {"open", "read", "write", "done"} : \E l : Moves(t, pc, l)
            <4>1. CASE OpenFile(t) \/ CloseFile(t)
                <5>1. Moves(t, "read", thread[t].blocks) \/ Moves(t, "done", thread[t].blocks)
                    BY <4>1, GoingMoves DEF OpenFile, CloseFile
                <5>. QED BY <5>1
            <4>2. CASE CreateMetadata(t) \/ SaveMetadata(t)
                <5>1. Moves(t, "open", <<>>) \/ Moves(t, "write", thread[t].blocks)
                    BY <4>2, FilingMoves
                <5>. QED BY <5>1, Zenon
            <4>. QED BY <2>3, <4>1, <4>2
        <3>4. thread[t].pc # "none" /\ UNCHANGED <<bitmap, directories, blocks_available,
                                                 received, crashes, overcommitted, miscut>>
            BY <2>3 DEF CreateMetadata, OpenFile, SaveMetadata, CloseFile
        <3>5. PokemonOf(t) \in directories
            BY <3>1 DEF DiskTypes
        <3>6. DOMAIN files' \subseteq directories'
              /\ \A p \in DOMAIN files' : files'[p] \in FileRecord
            BY <3>2, <3>4, <3>5, FileTypesKept
        <3>7. bitmap \subseteq Blocks /\ blocks_available \in Int /\ overcommitted \in BOOLEAN
              /\ miscut \in BOOLEAN
            BY DEF DiskTypes
        <3>. QED BY <3>3, <3>4, <3>6, <3>7, TypesKept
    <2>4. CASE ReadFile(t) \/ LockMetadata(t) \/ WriteBlock(t)
        <3>1. \E pc \in {"garbled", "lock", "close", "blocks", "write"} :
                /\ \E l : Moves(t, pc, l)
                /\ pc = "blocks" => Len(thread'[t].array) >= Len(thread'[t].blocks)
            <4>1. CASE ReadFile(t)
                <5>1. \E pc \in {"garbled", "lock", "close"} : Moves(t, pc, thread[t].blocks)
                    BY <4>1, ReadingMoves
                <5>. QED BY <5>1
            <4>2. CASE LockMetadata(t)
                <5>1. PokemonOf(t) \in DOMAIN files
                    BY <4>2 DEF LockMetadata, Exclusion, Inside
                <5>2. PICK l : /\ l = files[PokemonOf(t)].BLOCKS /\ Moves(t, "blocks", l)
                               /\ thread'[t].blocks = l /\ thread'[t].array = l
                    BY <4>2, <5>1, LockingMoves
                <5>3. Len(l) \in Nat
                    BY <5>1, <5>2, LenProperties DEF DiskTypes, FileRecord
                <5>. QED BY <5>2, <5>3
            <4>3. CASE WriteBlock(t)
                <5>1. Moves(t, "write", thread[t].blocks)
                    BY <4>3, FilingMoves DEF WriteBlock
                <5>. QED BY <5>1
            <4>. QED BY <2>4, <4>1, <4>2, <4>3
        <3>2. thread[t].pc # "none" /\ UNCHANGED <<bitmap, directories, files, blocks_available,
                                                 received, crashes, overcommitted, miscut>>
            BY <2>4 DEF ReadFile, LockMetadata, WriteBlock, diskVars
        <3>3. /\ bitmap \subseteq Blocks /\ blocks_available \in Int /\ overcommitted \in BOOLEAN
              /\ miscut \in BOOLEAN
              /\ DOMAIN files \subseteq directories /\ \A p \in DOMAIN files : files[p] \in FileRecord
            BY DEF DiskTypes
        <3>. QED BY <3>1, <3>2, <3>3, TypesKept
    <2>5. CASE AddBlock(t) \/ RefillBlock(t)
        <3>1. PICK b \in BlockNumbers :
                /\ GetAvailableBlock(b)
                /\ \/ /\ thread' = [thread EXCEPT ![t] = WithBlock(t, b)]
                      /\ thread[t].pc = "blocks"
                   \/ thread' = [thread EXCEPT ![t] = [@ EXCEPT !.pc = "save", !.array = <<b>>]]
                /\ overcommitted' = (overcommitted \/ b = NoBlock)
            BY <2>5 DEF AddBlock, RefillBlock, BlockNumbers
        <3>2. \E pc \in {"blocks", "save"} :
                /\ \E l : Moves(t, pc, l)
                /\ pc = "blocks" => Len(thread'[t].array) >= Len(thread'[t].blocks)
            <4>1. CASE thread' = [thread EXCEPT ![t] = [@ EXCEPT !.pc = "save", !.array = <<b>>]]
                <5>1. Moves(t, "save", <<b>>)
                    BY <4>1, TakingMoves
                <5>. QED BY <5>1
            <4>2. CASE /\ thread' = [thread EXCEPT ![t] = WithBlock(t, b)]
                       /\ thread[t].pc = "blocks"
                <5>1. PICK l, a : l = thread[t].blocks /\ a = thread[t].array
                    OBVIOUS
                <5>2. Moves(t, "blocks", Append(l, b))
                      /\ thread'[t].blocks = Append(l, b) /\ thread'[t].array = Append(a, b)
                    BY <4>2, <5>1, TakingMoves
                <5>3. l \in Seq(Tokens) /\ a \in Seq(Tokens) /\ Len(a) >= Len(l)
                    BY <4>2, <5>1 DEF DiskTypes, HandlerState
                <5>4. b \in Tokens
                    BY NumbersAreTokens
                <5>5. Len(Append(l, b)) = Len(l) + 1 /\ Len(Append(a, b)) = Len(a) + 1
                    BY <5>3, <5>4, AppendProperties
                <5>6. Len(Append(a, b)) >= Len(Append(l, b))
                    BY <5>3, <5>5, LenProperties
                <5>. QED BY <5>2, <5>6
            <4>. QED BY <3>1, <4>1, <4>2
        <3>3. bitmap' \subseteq Blocks /\ blocks_available' \in Int
            BY <3>1, TakenTypes
        <3>4. thread[t].pc # "none" /\ UNCHANGED <<directories, files, received, crashes, miscut>>
            BY <2>5 DEF AddBlock, RefillBlock
        <3>5. overcommitted' \in BOOLEAN
            BY <3>1, Zenon
        <3>6. miscut \in BOOLEAN /\ DOMAIN files \subseteq directories /\ \A p \in DOMAIN files : files[p] \in FileRecord
            BY DEF DiskTypes
        <3>. QED BY <3>2, <3>3, <3>4, <3>5, <3>6, TypesKept
    <2>6. CASE RemoveBlock(t)
        <3>1. \E pc \in {"blocks", "refill"} :
                /\ \E l : Moves(t, pc, l)
                /\ pc = "blocks" => Len(thread'[t].array) >= Len(thread'[t].blocks)
            BY <2>6, RemovingMoves
        <3>2. /\ thread[t].pc # "none"
              /\ UNCHANGED <<directories, files, received, crashes, overcommitted>>
              /\ RemoveBlockFromBitmap(BlockNumber(Last(thread[t].blocks)))
              /\ miscut' \in BOOLEAN
            BY <2>6 DEF RemoveBlock, DiskTypes
        <3>3. bitmap' \subseteq Blocks /\ blocks_available' \in Int
            BY <3>2 DEF RemoveBlockFromBitmap, Counted, DiskTypes
        <3>4. /\ overcommitted \in BOOLEAN
              /\ DOMAIN files \subseteq directories /\ \A p \in DOMAIN files : files[p] \in FileRecord
            BY DEF DiskTypes
        <3>. QED BY <3>1, <3>2, <3>3, <3>4, TypesKept
    <2>. QED BY <1>2, <2>1, <2>2, <2>3, <2>4, <2>5, <2>6 DEF ThreadStep
<1>3. CASE (\E t \in Threads : MetadataMissing(t)) \/ CrashAndRestart
    <2>1. Restart /\ crashes' \in Nat
        BY <1>3 DEF MetadataMissing, CrashAndRestart, DiskTypes
    <2>2. /\ thread' \in [Threads -> HandlerState]
          /\ \A t \in Threads : thread'[t].pc # "blocks"
                                /\ (thread'[t].pc = "none" <=> thread[t].pc = "none")
          /\ UNCHANGED <<bitmap, files, directories, received, overcommitted, miscut>>
          /\ blocks_available' = Cardinality(FreeBlocks)
        BY <2>1, RestartOutside
    <2>3. Cardinality(FreeBlocks) \in Int
        BY FreeIsFinite, FS_CardinalityType
    <2>. QED BY <2>1, <2>2, <2>3 DEF DiskTypes
<1>4. CASE UNCHANGED vars
    BY <1>4 DEF vars, diskVars, DiskTypes
<1>. QED BY <1>1, <1>2, <1>3, <1>4, NextCases

-----------------------------------------------------------------------------
(* No file is left open, and no directory without its file, but by a crash.  *)

\* What a step of t's that takes it to pc must not leave behind.
OrderSafe(t, pc) ==
    /\ directories' \subseteq directories \cup {PokemonOf(t)}
    /\ DOMAIN files \subseteq DOMAIN files'
    /\ thread[t].pc = "create" => PokemonOf(t) \in DOMAIN files'
    /\ PokemonOf(t) \notin directories /\ PokemonOf(t) \in directories' => pc = "create"
    /\ crashes = 0 /\ pc = "open" => PokemonOf(t) \in DOMAIN files'
    /\ \/ pc \in InsidePcs
       \/ PokemonOf(t) \notin DOMAIN files'
       \/ files'[PokemonOf(t)].OPEN = "N"
       \/ /\ ~Inside(t) /\ PokemonOf(t) \in DOMAIN files
          /\ files'[PokemonOf(t)].OPEN = files[PokemonOf(t)].OPEN

\* A step of one handler that leaves nothing half done keeps the order.
LEMMA OrderKept ==
    ASSUME DiskTypes, Exclusion, Orderly, NEW t \in Threads, NEW pc, NEW blocks,
           Moves(t, pc, blocks), OtherFilesStay(t), crashes' = crashes, OrderSafe(t, pc)
    PROVE  Orderly'
<1>. SUFFICES ASSUME crashes = 0
              PROVE  /\ \A p \in directories' \ DOMAIN files' :
                            \E u \in Threads : thread'[u].pc = "create" /\ PokemonOf(u)' = p
                     /\ \A u \in Threads : thread'[u].pc = "open" => PokemonOf(u)' \in DOMAIN files'
                     /\ \A p \in DOMAIN files' : files'[p].OPEN = "Y" =>
                            \E u \in Threads : Inside(u)' /\ PokemonOf(u)' = p
    BY DEF Orderly
<1>. USE DEF OrderSafe
<1>. DEFINE P == PokemonOf(t)
<1>1. \A u \in Threads : u # t =>
        /\ (Inside(u)' <=> Inside(u)) /\ PokemonOf(u)' = PokemonOf(u)
        /\ thread'[u].pc = thread[u].pc
    BY DEF Moves, Inside, PokemonOf
<1>2. PokemonOf(t)' = P /\ (Inside(t)' <=> pc \in InsidePcs) /\ thread'[t].pc = pc
    BY DEF Moves, Inside, InsidePcs, PokemonOf
<1>3. ASSUME NEW p \in directories' \ DOMAIN files'
      PROVE  \E u \in Threads : thread'[u].pc = "create" /\ PokemonOf(u)' = p
    <2>1. CASE p \in directories
        <3>1. p \in directories \ DOMAIN files
            BY <1>3, <2>1
        <3>2. PICK u \in Threads : thread[u].pc = "create" /\ PokemonOf(u) = p
            BY <3>1 DEF Orderly
        <3>. QED BY <1>1, <1>2, <1>3, <3>2
    <2>2. CASE p \notin directories
        BY <1>2, <1>3, <2>2
    <2>. QED BY <2>1, <2>2
<1>4. ASSUME NEW u \in Threads, thread'[u].pc = "open" PROVE PokemonOf(u)' \in DOMAIN files'
    BY <1>1, <1>2, <1>4 DEF Orderly
<1>5. ASSUME NEW p \in DOMAIN files', files'[p].OPEN = "Y"
      PROVE  \E u \in Threads : Inside(u)' /\ PokemonOf(u)' = p
    <2>1. CASE p # P
        <3>1. p \in DOMAIN files /\ files[p].OPEN = "Y"
            BY <1>5, <2>1 DEF OtherFilesStay
        <3>2. PICK u \in Threads : Inside(u) /\ PokemonOf(u) = p
            BY <3>1 DEF Orderly
        <3>. QED BY <1>1, <2>1, <3>2
    <2>2. CASE p = P /\ pc \in InsidePcs
        BY <1>2, <2>2
    <2>3. CASE p = P /\ ~Inside(t) /\ P \in DOMAIN files /\ files'[P].OPEN = files[P].OPEN
        <3>1. PICK u \in Threads : Inside(u) /\ PokemonOf(u) = p
            BY <1>5, <2>3 DEF Orderly
        <3>. QED BY <1>1, <2>3, <3>1
    <2>. QED BY <1>5, <2>1, <2>2, <2>3
<1>. QED BY <1>3, <1>4, <1>5

\* When nothing is done to the files.
LEMMA OrderStays ==
    ASSUME DiskTypes, Exclusion, Orderly, NEW t \in Threads, NEW pc, NEW blocks,
           Moves(t, pc, blocks), crashes' = crashes, files' = files, directories' = directories,
           pc \in InsidePcs <=> Inside(t), thread[t].pc # "create",
           crashes = 0 /\ pc = "open" => PokemonOf(t) \in DOMAIN files
    PROVE  Orderly'
<1>1. OtherFilesStay(t)
    BY DEF OtherFilesStay
<1>2. OrderSafe(t, pc)
    BY DEF OrderSafe, Exclusion
<1>. QED BY <1>1, <1>2, OrderKept

\* Every step keeps the order.
LEMMA NextOrderly ==
    ASSUME DiskTypes, Exclusion, Orderly, [Next]_vars
    PROVE  Orderly'
<1>1. CASE \E r \in Requests : ReceiveMessage(r)
    <2>1. PICK r \in Requests : ReceiveMessage(r)
        BY <1>1
    <2>2. PICK n \in Threads : /\ thread[n].pc = "none" /\ thread'[n].pc = "directory"
                              /\ \A u \in Threads \ {n} : thread'[u] = thread[u]
        BY <2>1, ReceivingMoves
    <2>3. files' = files /\ directories' = directories /\ crashes' = crashes
        BY <2>1 DEF ReceiveMessage, diskVars
    <2>4. \A u \in Threads \ {n} : (Inside(u)' <=> Inside(u))
            /\ PokemonOf(u)' = PokemonOf(u) /\ thread'[u].pc = thread[u].pc
        BY <2>2 DEF Inside, PokemonOf
    <2>5. \A u \in Threads : (Inside(u) \/ thread[u].pc = "create") => u # n
        BY <2>2 DEF Inside
    <2>6. \A u \in Threads : thread'[u].pc = "open" => u # n
        BY <2>2
    <2>. QED BY <2>3, <2>4, <2>5, <2>6 DEF Orderly
<1>2. ASSUME NEW t \in Threads, ThreadStep(t), ~MetadataMissing(t)
      PROVE  Orderly'
    <2>1. CASE DirectoryExists(t)
        <3>1. files' = files /\ directories' = directories /\ crashes' = crashes
              /\ thread[t].pc = "directory" /\ PokemonOf(t) \in directories
              /\ \A u \in Threads : thread[u].pc # "create"
            BY <2>1 DEF DirectoryExists, diskVars, DirectoryUnlocked, PokemonOf
        <3>2. Moves(t, "open", thread[t].blocks) /\ ~Inside(t)
            BY <2>1, <3>1, GoingMoves DEF DirectoryExists, Inside
        <3>3. crashes = 0 => PokemonOf(t) \in DOMAIN files
            BY <3>1 DEF Orderly
        <3>. QED BY <3>1, <3>2, <3>3, OrderStays DEF InsidePcs
    <2>2. CASE NoDirectory(t)
        <3>1. files' = files /\ directories' = directories /\ crashes' = crashes
              /\ thread[t].pc = "directory"
            BY <2>2 DEF NoDirectory, diskVars
        <3>2. Moves(t, "done", thread[t].blocks) /\ ~Inside(t)
            BY <2>2, <3>1, GoingMoves DEF NoDirectory, Inside
        <3>. QED BY <3>1, <3>2, OrderStays DEF InsidePcs
    <2>3. CASE MakeDirectory(t)
        <3>1. PICK b \in BlockNumbers :
                IF b = NoBlock
                THEN Goes(t, "done") /\ UNCHANGED directories
                ELSE /\ thread' = [thread EXCEPT ![t] = [@ EXCEPT !.pc = "create",
                                                                 !.blocks = <<b>>]]
                     /\ directories' = directories \cup {PokemonOf(t)}
            BY <2>3, Zenon DEF MakeDirectory, BlockNumbers, PokemonOf
        <3>2. files' = files /\ crashes' = crashes /\ thread[t].pc = "directory"
              /\ PokemonOf(t) \notin directories
            BY <2>3 DEF MakeDirectory, PokemonOf
        <3>3. ~Inside(t) /\ OtherFilesStay(t) /\ PokemonOf(t) \notin DOMAIN files'
            BY <3>2 DEF Inside, OtherFilesStay, DiskTypes
        <3>4. CASE b = NoBlock
            <4>1. Moves(t, "done", thread[t].blocks) /\ directories' = directories
                BY <3>1, <3>4, GoingMoves
            <4>. QED BY <3>2, <3>3, <4>1, OrderStays DEF InsidePcs
        <3>5. CASE b # NoBlock
            <4>1. Moves(t, "create", <<b>>)
                  /\ directories' = directories \cup {PokemonOf(t)}
                BY <3>1, <3>5, TakingMoves
            <4>2. OrderSafe(t, "create")
                BY <3>2, <3>3, <4>1 DEF OrderSafe
            <4>. QED BY <3>2, <3>3, <4>1, <4>2, OrderKept
        <3>. QED BY <3>4, <3>5
    <2>4. CASE CreateMetadata(t)
        <3>1. PokemonOf(t) \notin DOMAIN files /\ directories' = directories /\ crashes' = crashes
            BY <2>4 DEF CreateMetadata, Exclusion
        <3>2. /\ Moves(t, "open", <<>>)
              /\ OtherFilesStay(t) /\ Files(t, thread[t].blocks, "N")
            BY <2>4, <3>1, FilingMoves, FileSteps
        <3>3. /\ DOMAIN files \subseteq DOMAIN files' /\ PokemonOf(t) \in DOMAIN files'
              /\ files'[PokemonOf(t)].OPEN = "N"
            BY <3>2 DEF Files
        <3>4. OrderSafe(t, "open")
            BY <3>1, <3>3 DEF OrderSafe
        <3>. QED BY <3>1, <3>2, <3>4, OrderKept
    <2>5. CASE OpenFile(t) \/ SaveMetadata(t) \/ CloseFile(t)
        <3>1. PokemonOf(t) \in DOMAIN files
            BY <2>5, FileSteps DEF SaveMetadata, CloseFile, Exclusion, Inside
        <3>2. PICK open : OtherFilesStay(t) /\ (\E l : Files(t, l, open))
                          /\ (CloseFile(t) => open = "N")
            BY <2>5, <3>1, FileSteps
        <3>3. PICK pc \in InsidePcs \cup {"done"} : \E l : Moves(t, pc, l) /\ (pc = "done" => CloseFile(t))
            <4>1. CASE OpenFile(t)
                BY <4>1, GoingMoves DEF OpenFile, InsidePcs
            <4>2. CASE CloseFile(t)
                BY <4>2, GoingMoves DEF CloseFile
            <4>3. CASE SaveMetadata(t)
                BY <4>3, FilingMoves DEF InsidePcs
            <4>. QED BY <2>5, <4>1, <4>2, <4>3
        <3>4. directories' = directories /\ crashes' = crashes /\ thread[t].pc # "create"
            BY <2>5 DEF OpenFile, SaveMetadata, CloseFile
        <3>5. /\ DOMAIN files \subseteq DOMAIN files' /\ PokemonOf(t) \in DOMAIN files'
              /\ (CloseFile(t) => files'[PokemonOf(t)].OPEN = "N")
            BY <3>1, <3>2 DEF Files
        <3>6. pc \in InsidePcs \/ files'[PokemonOf(t)].OPEN = "N"
            BY <3>3, <3>5
        <3>7. OrderSafe(t, pc)
            BY <3>3, <3>4, <3>5, <3>6 DEF OrderSafe, InsidePcs
        <3>. QED BY <3>2, <3>3, <3>4, <3>7, OrderKept
    <2>6. CASE \/ ReadFile(t) \/ LockMetadata(t) \/ WriteBlock(t)
               \/ AddBlock(t) \/ RefillBlock(t) \/ RemoveBlock(t)
        <3>1. files' = files /\ directories' = directories /\ crashes' = crashes /\ Inside(t)
              /\ thread[t].pc # "create"
            BY <2>6 DEF ReadFile, LockMetadata, WriteBlock, AddBlock, RefillBlock, RemoveBlock,
                diskVars, Inside
        <3>2. \E pc \in InsidePcs : \E l : Moves(t, pc, l)
            <4>1. CASE ReadFile(t)
                BY <4>1, ReadingMoves DEF InsidePcs
            <4>2. CASE LockMetadata(t)
                <5>1. PokemonOf(t) \in DOMAIN files
                    BY <4>2 DEF LockMetadata, Exclusion, Inside
                <5>2. Moves(t, "blocks", files[PokemonOf(t)].BLOCKS)
                    BY <4>2, <5>1, LockingMoves
                <5>. QED BY <5>2 DEF InsidePcs
            <4>3. CASE WriteBlock(t)
                <5>1. Moves(t, "write", thread[t].blocks)
                    BY <4>3, FilingMoves DEF WriteBlock
                <5>. QED BY <5>1 DEF InsidePcs
            <4>4. CASE AddBlock(t) \/ RefillBlock(t)
                <5>1. PICK b \in BlockNumbers :
                        \/ /\ thread' = [thread EXCEPT ![t] = WithBlock(t, b)]
                           /\ thread[t].pc = "blocks"
                        \/ thread' = [thread EXCEPT ![t] = [@ EXCEPT !.pc = "save",
                                                                     !.array = <<b>>]]
                    BY <4>4 DEF AddBlock, RefillBlock, BlockNumbers
                <5>2. Moves(t, "blocks", Append(thread[t].blocks, b)) \/ Moves(t, "save", <<b>>)
                    BY <5>1, TakingMoves
                <5>. QED BY <5>2, Zenon DEF InsidePcs
            <4>5. CASE RemoveBlock(t)
                BY <4>5, RemovingMoves DEF InsidePcs
            <4>. QED BY <2>6, <4>1, <4>2, <4>3, <4>4, <4>5
        <3>. QED BY <3>1, <3>2, OrderStays DEF InsidePcs
    <2>. QED BY <1>2, <2>1, <2>2, <2>3, <2>4, <2>5, <2>6 DEF ThreadStep
<1>3. CASE \E t \in Threads : MetadataMissing(t)
    <2>1. crashes # 0 /\ crashes' = crashes
        BY <1>3 DEF MetadataMissing, Orderly, PokemonOf
    <2>. QED BY <2>1 DEF Orderly
<1>4. CASE CrashAndRestart
    <2>1. crashes' = crashes + 1 /\ crashes \in Nat
        BY <1>4 DEF CrashAndRestart, DiskTypes
    <2>. QED BY <2>1 DEF Orderly
<1>5. CASE UNCHANGED vars
    BY <1>5 DEF vars, diskVars, Orderly, Inside, PokemonOf
<1>. QED BY <1>1, <1>2, <1>3, <1>4, <1>5, NextCases

-----------------------------------------------------------------------------
(* A block taken, a block returned, and nothing of that sort.               *)

Ownership == Owned /\ Exact /\ NoneLost

\* The other pokemons' lists are as they were.
OtherLists(P) == \A p : p # P => \A l : Has(p, l)' <=> Has(p, l)

\* When the bitmap and all lists stay, so does who owns what.
LEMMA NothingTaken ==
    ASSUME Ownership, UNCHANGED <<bitmap, blocks_available, overcommitted, crashes>>,
           \A p, l : Has(p, l)' <=> Has(p, l)
    PROVE  Ownership'
<1>1. Owned'
    BY DEF Ownership, Owned
<1>2. Exact'
    BY DEF Ownership, Exact, FreeBlocks
<1>3. NoneLost'
    BY DEF Ownership, NoneLost
<1>. QED BY <1>1, <1>2, <1>3 DEF Ownership

\* The list of P grows by b, which is what get_available_block answered.
LEMMA BlockGained ==
    ASSUME DiskTypes, Ownership, NEW P, NEW old \in Seq(BlockNumbers), NEW b \in BlockNumbers,
           GetAvailableBlock(b), crashes' = crashes, overcommitted' <=> (overcommitted \/ b = NoBlock),
           \A l : Has(P, l) => l = old,  old = <<>> \/ Has(P, old),
           \A l : Has(P, l)' <=> l = Append(old, b),  OtherLists(P)
    PROVE  Ownership'
<1>. DEFINE new == Append(old, b)
            n == Len(old)
<1>1. /\ n \in Nat /\ DOMAIN old = 1..n /\ DOMAIN new = 1..(n + 1)
      /\ new[n + 1] = b /\ \A i \in 1..n : new[i] = old[i]
    <2>1. /\ new \in Seq(BlockNumbers) /\ Len(new) = n + 1
          /\ new[n + 1] = b /\ \A i \in 1..n : new[i] = old[i]
        BY AppendProperties
    <2>. QED BY <2>1, LenProperties
<1>2. \A i \in 1..n : Has(P, old)
    BY <1>1, EmptySeq
<1>3. /\ Owned /\ Exact /\ NoneLost
      /\ \A l : Has(P, l)' <=> l = new
      /\ \A p : p # P => \A l : Has(p, l)' <=> Has(p, l)
    BY DEF Ownership, OtherLists
<1>. HIDE DEF new, n
<1>4. \/ /\ b \in Blocks \ bitmap /\ b # NoBlock
         /\ bitmap' = bitmap \cup {b} /\ blocks_available' = blocks_available - 1
      \/ b = NoBlock /\ UNCHANGED <<bitmap, blocks_available>>
    BY BlockTaken
<1>5. bitmap \subseteq bitmap' /\ (b # NoBlock => b \in bitmap' /\ b \notin bitmap)
    BY <1>4
<1>6. Owned'
    <2>1. Reserved \subseteq bitmap'
        BY <1>3, <1>5 DEF Owned
    <2>2. ASSUME NEW p, NEW l, Has(p, l)', NEW i \in DOMAIN l, l[i] # NoBlock
          PROVE  l[i] \in bitmap' \ Reserved
        <3>1. CASE p # P
            BY <1>3, <1>5, <2>2, <3>1 DEF Owned
        <3>2. CASE p = P /\ i \in 1..n
            BY <1>1, <1>2, <1>3, <1>5, <2>2, <3>2 DEF Owned
        <3>3. CASE p = P /\ i \notin 1..n
            <4>1. l = new
                BY <1>3, <2>2, <3>3
            <4>2. i = n + 1
                BY <1>1, <3>3, <4>1
            <4>. QED BY <1>1, <1>3, <1>5, <2>2, <4>1, <4>2 DEF Owned
        <3>. QED BY <3>1, <3>2, <3>3
    <2>3. ASSUME NEW p, NEW q, NEW l, NEW m, Has(p, l)', Has(q, m)', NEW i \in DOMAIN l,
                 NEW j \in DOMAIN m, l[i] = m[j], l[i] # NoBlock
          PROVE  p = q /\ i = j
        <3>1. CASE p # P /\ q # P
            BY <1>3, <2>3, <3>1 DEF Owned
        <3>2. CASE p = P /\ q # P
            <4>1. l = new /\ Has(q, m)
                BY <1>3, <2>3, <3>2
            <4>2. CASE i \in 1..n
                <5>1. Has(P, old) /\ old[i] = m[j] /\ old[i] # NoBlock /\ i \in DOMAIN old
                    BY <1>1, <1>2, <2>3, <4>1, <4>2
                <5>. QED BY <1>3, <2>3, <3>2, <4>1, <5>1 DEF Owned
            <4>3. CASE i = n + 1
                <5>1. m[j] = b /\ m[j] # NoBlock
                    BY <1>1, <2>3, <4>1, <4>3
                <5>2. m[j] \in bitmap
                    BY <1>3, <2>3, <4>1, <5>1 DEF Owned
                <5>. QED BY <1>5, <5>1, <5>2
            <4>. QED BY <1>1, <2>3, <4>1, <4>2, <4>3
        <3>3. CASE p # P /\ q = P
            <4>1. m = new /\ Has(p, l)
                BY <1>3, <2>3, <3>3
            <4>2. CASE j \in 1..n
                <5>1. Has(P, old) /\ l[i] = old[j] /\ j \in DOMAIN old
                    BY <1>1, <1>2, <2>3, <4>1, <4>2
                <5>. QED BY <1>3, <2>3, <3>3, <4>1, <5>1 DEF Owned
            <4>3. CASE j = n + 1
                <5>1. l[i] = b
                    BY <1>1, <2>3, <4>1, <4>3
                <5>2. l[i] \in bitmap
                    BY <1>3, <2>3, <4>1 DEF Owned
                <5>. QED BY <1>5, <2>3, <5>1, <5>2
            <4>. QED BY <1>1, <2>3, <4>1, <4>2, <4>3
        <3>4. CASE p = P /\ q = P
            <4>1. l = new /\ m = new
                BY <1>3, <2>3, <3>4
            <4>2. \A k \in 1..n : old[k] # NoBlock => old[k] \in bitmap
                BY <1>1, <1>2, <1>3 DEF Owned
            <4>3. CASE i \in 1..n /\ j \in 1..n
                <5>1. Has(P, old) /\ old[i] = old[j] /\ old[i] # NoBlock
                    BY <1>1, <1>2, <2>3, <4>1, <4>3
                <5>. QED BY <1>1, <1>3, <3>4, <4>3, <5>1 DEF Owned
            <4>4. CASE i = n + 1 /\ j \in 1..n
                BY <1>1, <1>5, <2>3, <4>1, <4>2, <4>4
            <4>5. CASE i \in 1..n /\ j = n + 1
                BY <1>1, <1>5, <2>3, <4>1, <4>2, <4>5
            <4>. QED BY <1>1, <2>3, <3>4, <4>1, <4>3, <4>4, <4>5
        <3>. QED BY <3>1, <3>2, <3>3, <3>4
    <2>. QED BY <2>1, <2>2, <2>3 DEF Owned
<1>7. Exact'
    <2>. SUFFICES ASSUME ~overcommitted'
                  PROVE  /\ blocks_available' = Cardinality(FreeBlocks')
                         /\ \A p, l : Has(p, l)' => \A i \in DOMAIN l : l[i] # NoBlock
        BY DEF Exact
    <2>1. ~overcommitted /\ b # NoBlock
        OBVIOUS
    <2>2. b \in FreeBlocks /\ FreeBlocks' = FreeBlocks \ {b}
          /\ blocks_available' = blocks_available - 1
        BY <1>4, <2>1 DEF FreeBlocks
    <2>3. Cardinality(FreeBlocks \ {b}) = Cardinality(FreeBlocks) - 1
        BY <2>2, FreeIsFinite, FS_RemoveElement
    <2>4. blocks_available = Cardinality(FreeBlocks)
        BY <1>3, <2>1 DEF Exact
    <2>5. ASSUME NEW p, NEW l, Has(p, l)', NEW i \in DOMAIN l PROVE l[i] # NoBlock
        <3>1. CASE p # P
            BY <1>3, <2>1, <2>5, <3>1 DEF Exact
        <3>2. CASE p = P
            <4>1. l = new
                BY <1>3, <2>5, <3>2
            <4>2. CASE i \in 1..n
                BY <1>1, <1>2, <1>3, <2>1, <4>1, <4>2 DEF Exact
            <4>3. CASE i = n + 1
                BY <1>1, <2>1, <4>1, <4>3
            <4>. QED BY <1>1, <2>5, <4>1, <4>2, <4>3
        <3>. QED BY <3>1, <3>2
    <2>. QED BY <2>2, <2>3, <2>4, <2>5
<1>8. NoneLost'
    <2>. SUFFICES ASSUME crashes' = 0, NEW c \in bitmap' \ Reserved
                  PROVE  \E p, l : Has(p, l)' /\ \E i \in DOMAIN l : l[i] = c
        BY DEF NoneLost
    <2>1. CASE c \in bitmap
        <3>1. PICK p, l : Has(p, l) /\ \E i \in DOMAIN l : l[i] = c
            BY <1>3, <2>1 DEF NoneLost
        <3>2. CASE p # P
            BY <1>3, <3>1, <3>2
        <3>3. CASE p = P
            <4>1. l = old
                BY <3>1, <3>3
            <4>2. PICK i \in 1..n : old[i] = c
                BY <1>1, <3>1, <4>1
            <4>3. i \in DOMAIN new /\ new[i] = c /\ Has(P, new)'
                BY <1>1, <1>3, <4>2
            <4>. QED BY <4>3
        <3>. QED BY <3>2, <3>3
    <2>2. CASE c \notin bitmap
        <3>1. c = b
            BY <1>4, <2>2
        <3>2. n + 1 \in DOMAIN new /\ new[n + 1] = c /\ Has(P, new)'
            BY <1>1, <1>3, <3>1
        <3>. QED BY <3>2
    <2>. QED BY <2>1, <2>2
<1>. QED BY <1>6, <1>7, <1>8 DEF Ownership

\* The list of P loses its last block, which remove_block_from_bitmap returns.
LEMMA BlockReturned ==
    ASSUME DiskTypes, Ownership, NEW P, NEW old \in Seq(BlockNumbers), Len(old) > 0,
           RemoveBlockFromBitmap(BlockNumber(Last(old))), UNCHANGED <<overcommitted, crashes>>,
           \A l : Has(P, l) <=> l = old,  \A l : Has(P, l)' <=> l = Front(old),  OtherLists(P)
    PROVE  Ownership'
<1>. DEFINE new == Front(old)
            n == Len(old)
            last == Last(old)
<1>1. /\ n \in Nat /\ n > 0 /\ DOMAIN old = 1..n /\ DOMAIN new = 1..(n - 1) /\ last = old[n]
      /\ last \in BlockNumbers /\ \A i \in 1..(n - 1) : new[i] = old[i]
    BY FrontAndLast, LenProperties
<1>2. /\ bitmap' = bitmap \ {last} /\ blocks_available' = blocks_available + 1
    <2>1. BlockNumber(last) = last
        BY <1>1 DEF BlockNumber, BlockNumbers, Blocks, NoBlock, Dash
    <2>. QED BY <2>1 DEF RemoveBlockFromBitmap, Counted
<1>3. /\ Owned /\ Exact /\ NoneLost /\ Has(P, old)
      /\ \A l : Has(P, l)' <=> l = new
      /\ \A l : Has(P, l) <=> l = old
      /\ \A p : p # P => \A l : Has(p, l)' <=> Has(p, l)
    BY DEF Ownership, OtherLists
<1>. HIDE DEF new, n, last
<1>4. last # NoBlock => last \in bitmap \ Reserved
    BY <1>1, <1>3 DEF Owned
<1>5. NoBlock \notin Reserved
    BY OneDigit DEF Blocks, NoBlock
    \* A block still in a list is in one that held it before, at an earlier place or another's.
<1>6. ASSUME NEW p, NEW l, Has(p, l)', NEW i \in DOMAIN l
      PROVE  \E m : /\ Has(p, m) /\ i \in DOMAIN m /\ m[i] = l[i]
                    /\ ~(p = P /\ i = n)
    <2>1. CASE p # P
        BY <1>3, <1>6, <2>1
    <2>2. CASE p = P
        <3>1. l = new
            BY <1>3, <1>6, <2>2
        <3>. QED BY <1>1, <1>3, <1>6, <2>2, <3>1
    <2>. QED BY <2>1, <2>2
<1>7. Owned'
    <2>1. Reserved \subseteq bitmap'
        BY <1>2, <1>3, <1>4, <1>5 DEF Owned
    <2>2. ASSUME NEW p, NEW l, Has(p, l)', NEW i \in DOMAIN l, l[i] # NoBlock
          PROVE  l[i] \in bitmap' \ Reserved
        <3>1. PICK m : Has(p, m) /\ i \in DOMAIN m /\ m[i] = l[i] /\ ~(p = P /\ i = n)
            BY <1>6, <2>2
        <3>2. m[i] \in bitmap \ Reserved
            BY <1>3, <2>2, <3>1 DEF Owned
        <3>3. m[i] # last
            <4>1. n \in DOMAIN old /\ last = old[n] /\ Has(P, old)
                BY <1>1, <1>3
            <4>. QED BY <1>3, <2>2, <3>1, <4>1 DEF Owned
        <3>. QED BY <1>2, <3>1, <3>2, <3>3
    <2>3. ASSUME NEW p, NEW q, NEW l, NEW m, Has(p, l)', Has(q, m)', NEW i \in DOMAIN l,
                 NEW j \in DOMAIN m, l[i] = m[j], l[i] # NoBlock
          PROVE  p = q /\ i = j
        <3>1. PICK k : Has(p, k) /\ i \in DOMAIN k /\ k[i] = l[i]
            BY <1>6, <2>3
        <3>2. PICK h : Has(q, h) /\ j \in DOMAIN h /\ h[j] = m[j]
            BY <1>6, <2>3
        <3>. QED BY <1>3, <2>3, <3>1, <3>2 DEF Owned
    <2>. QED BY <2>1, <2>2, <2>3 DEF Owned
<1>8. Exact'
    <2>. SUFFICES ASSUME ~overcommitted'
                  PROVE  /\ blocks_available' = Cardinality(FreeBlocks')
                         /\ \A p, l : Has(p, l)' => \A i \in DOMAIN l : l[i] # NoBlock
        BY DEF Exact
    <2>1. ~overcommitted
        OBVIOUS
    <2>2. last # NoBlock
        BY <1>1, <1>3, <2>1 DEF Exact
    <2>3. last \in Blocks \cap bitmap
        BY <1>4, <2>2 DEF DiskTypes
    <2>4. last \notin FreeBlocks /\ FreeBlocks' = FreeBlocks \cup {last}
        BY <1>2, <2>3 DEF FreeBlocks
    <2>5. Cardinality(FreeBlocks \cup {last}) = Cardinality(FreeBlocks) + 1
        BY <2>4, FreeIsFinite, FS_AddElement
    <2>6. blocks_available = Cardinality(FreeBlocks)
        BY <1>3, <2>1 DEF Exact
    <2>7. ASSUME NEW p, NEW l, Has(p, l)', NEW i \in DOMAIN l PROVE l[i] # NoBlock
        <3>1. PICK m : Has(p, m) /\ i \in DOMAIN m /\ m[i] = l[i]
            BY <1>6, <2>7
        <3>. QED BY <1>3, <2>1, <3>1 DEF Exact
    <2>. QED BY <1>2, <2>4, <2>5, <2>6, <2>7
<1>9. NoneLost'
    <2>. SUFFICES ASSUME crashes' = 0, NEW c \in bitmap' \ Reserved
                  PROVE  \E p, l : Has(p, l)' /\ \E i \in DOMAIN l : l[i] = c
        BY DEF NoneLost
    <2>1. PICK p, l : Has(p, l) /\ \E i \in DOMAIN l : l[i] = c
        BY <1>2, <1>3 DEF NoneLost
    <2>2. CASE p # P
        BY <1>3, <2>1, <2>2
    <2>3. CASE p = P
        <3>1. l = old
            BY <1>3, <2>1, <2>3
        <3>2. PICK i \in 1..n : old[i] = c
            BY <1>1, <2>1, <3>1
        <3>3. i # n
            BY <1>1, <1>2, <3>2
        <3>4. i \in DOMAIN new /\ new[i] = c /\ Has(P, new)'
            BY <1>1, <1>3, <3>2, <3>3
        <3>. QED BY <3>4
    <2>. QED BY <2>2, <2>3
<1>. QED BY <1>7, <1>8, <1>9 DEF Ownership

\* The process starts again: what a handler had in hand is nobody's.
LEMMA RestartOwnership ==
    ASSUME DiskTypes, Ownership, Restart, crashes' # 0
    PROVE  Ownership'
<1>1. /\ \A t \in Threads : ~Inside(t)' /\ ~Holds(t)'
      /\ UNCHANGED <<bitmap, files, overcommitted>>
      /\ blocks_available' = Cardinality(FreeBlocks)
    BY RestartOutside
<1>2. \A p, l : Has(p, l)' => Has(p, l)
    BY <1>1 DEF Has
<1>3. Owned'
    BY <1>1, <1>2 DEF Owned, Ownership
<1>4. Exact'
    <2>1. FreeBlocks' = FreeBlocks
        BY <1>1 DEF FreeBlocks
    <2>. QED BY <1>1, <1>2, <2>1 DEF Exact, Ownership
<1>5. NoneLost'
    BY DEF NoneLost
<1>. QED BY <1>3, <1>4, <1>5 DEF Ownership

\* A step that takes and returns no block, and after which t's pokemon has what it had.
LEMMA ListsStay ==
    ASSUME Ownership, UNCHANGED <<bitmap, blocks_available, overcommitted, crashes>>,
           NEW t \in Threads, NEW pc, NEW blocks, Moves(t, pc, blocks), OtherFilesStay(t),
           NEW P, P = PokemonOf(t), \A l : Has(P, l)' <=> Has(P, l)
    PROVE  Ownership'
<1>1. \A p, l : p # P => (Has(p, l)' <=> Has(p, l))
    BY OthersHave
<1>2. \A p, l : Has(p, l)' <=> Has(p, l)
    BY <1>1
<1>. QED BY <1>2, NothingTaken

\* Steps of a handler that works on no file.
LEMMA OutsideOwnership ==
    ASSUME Ownership, UNCHANGED <<bitmap, blocks_available, overcommitted, crashes, files>>,
           NEW t \in Threads, ~Inside(t), ~Holds(t), ~Inside(t)', ~Holds(t)',
           \A u \in Threads \ {t} : thread'[u] = thread[u]
    PROVE  Ownership'
<1>1. \A p, l : Has(p, l)' <=> Has(p, l)
    BY OutsiderHas
<1>. QED BY <1>1, NothingTaken

\* As long as no "-1" was cut in two every step keeps who owns what.
LEMMA NextOwnership ==
    ASSUME DiskTypes, Exclusion, Orderly, Uncut, ~miscut, Ownership, [Next]_vars
    PROVE  Ownership'
<1>0. \A t \in Threads : Matching(t)
    BY DEF Uncut
<1>1. KnownLists
    BY ListsAreKnown
<1>2. KnownLists'
    <2>1. Exclusion'
        BY NextExclusion
    <2>. QED BY <2>1, ListsAreKnown, PTL
<1>3. CASE \E r \in Requests : ReceiveMessage(r)
    <2>1. PICK r \in Requests : ReceiveMessage(r)
        BY <1>3
    <2>2. PICK n \in Threads : /\ thread[n].pc = "none" /\ thread'[n].pc = "directory"
                              /\ \A u \in Threads \ {n} : thread'[u] = thread[u]
        BY <2>1, ReceivingMoves
    <2>3. UNCHANGED <<bitmap, blocks_available, overcommitted, crashes, files>>
        BY <2>1 DEF ReceiveMessage, diskVars
    <2>4. ~Inside(n) /\ ~Holds(n) /\ ~Inside(n)' /\ ~Holds(n)'
        BY <2>2 DEF Inside, Holds
    <2>. QED BY <2>2, <2>3, <2>4, OutsideOwnership
<1>4. ASSUME NEW t \in Threads, ThreadStep(t), ~MetadataMissing(t)
      PROVE  Ownership'
    <2>0. PICK P : P = PokemonOf(t)
        OBVIOUS
    <2>1. CASE DirectoryExists(t) \/ NoDirectory(t)
        <3>1. /\ UNCHANGED <<bitmap, blocks_available, overcommitted, crashes, files>>
              /\ thread[t].pc = "directory"
            BY <2>1 DEF DirectoryExists, NoDirectory, diskVars
        <3>2. Moves(t, "open", thread[t].blocks) \/ Moves(t, "done", thread[t].blocks)
            BY <2>1, GoingMoves DEF DirectoryExists, NoDirectory
        <3>3. /\ ~Inside(t) /\ ~Holds(t) /\ ~Inside(t)' /\ ~Holds(t)'
              /\ \A u \in Threads \ {t} : thread'[u] = thread[u]
            BY <3>1, <3>2 DEF Moves, Inside, Holds
        <3>. QED BY <3>1, <3>3, OutsideOwnership
    <2>2. CASE MakeDirectory(t)
        <3>1. PICK b \in BlockNumbers :
                /\ GetAvailableBlock(b)
                /\ IF b = NoBlock
                   THEN Goes(t, "done") /\ UNCHANGED directories
                   ELSE /\ thread' = [thread EXCEPT ![t] = [@ EXCEPT !.pc = "create",
                                                                     !.blocks = <<b>>]]
                        /\ directories' = directories \cup {PokemonOf(t)}
            BY <2>2, Zenon DEF MakeDirectory, BlockNumbers, PokemonOf
        <3>2. UNCHANGED <<overcommitted, crashes, files>> /\ thread[t].pc = "directory"
              /\ PokemonOf(t) \notin directories /\ \A u \in Threads : thread[u].pc # "create"
            BY <2>2 DEF MakeDirectory, PokemonOf, DirectoryUnlocked
        <3>3. ~Inside(t) /\ ~Holds(t)
            BY <3>2 DEF Inside, Holds
        <3>4. CASE b = NoBlock
            <4>1. Moves(t, "done", thread[t].blocks)
                BY <3>1, <3>4, GoingMoves
            <4>2. UNCHANGED <<bitmap, blocks_available>>
                BY <3>1, <3>4, BlockTaken
            <4>3. ~Inside(t)' /\ ~Holds(t)' /\ \A u \in Threads \ {t} : thread'[u] = thread[u]
                BY <4>1 DEF Moves, Inside, Holds
            <4>. QED BY <3>2, <3>3, <4>2, <4>3, OutsideOwnership
        <3>5. CASE b # NoBlock
            <4>. DEFINE old == <<>>
            <4>1. Moves(t, "create", <<b>>)
                BY <3>1, <3>5, TakingMoves
            <4>2. OtherFilesStay(t)
                BY <3>2 DEF OtherFilesStay
            <4>3. old \in Seq(BlockNumbers) /\ Append(old, b) = <<b>>
                OBVIOUS
            <4>4. \A l : ~Has(P, l)
                <5>1. P \notin DOMAIN files
                    BY <2>0, <3>2 DEF DiskTypes
                <5>2. \A u \in Threads : Holds(u) => PokemonOf(u) # P
                    <6>1. \A u \in Threads : Holds(u) => Inside(u)
                        BY <3>2 DEF Holds, Inside
                    <6>. QED BY <5>1, <6>1 DEF Exclusion
                <5>. QED BY <5>1, <5>2 DEF Has
            <4>5. Holds(t)' /\ PokemonOf(t)' = P /\ Hand(t)' = <<b>>
                BY <2>0, <4>1 DEF Moves, Holds, PokemonOf
            <4>6. \A l : Has(P, l)' <=> l = <<b>>
                BY <1>2, <4>5 DEF KnownLists
            <4>7. OtherLists(P)
                BY <2>0, <4>1, <4>2, OthersHave DEF OtherLists
            <4>8. overcommitted' <=> (overcommitted \/ b = NoBlock)
                BY <3>2, <3>5
            <4>. HIDE DEF old
            <4>9. \A l : Has(P, l)' <=> l = Append(old, b)
                BY <4>3, <4>6
            <4>10. old = <<>>
                BY DEF old
            <4>11. GetAvailableBlock(b) /\ crashes' = crashes
                BY <3>1, <3>2
            <4>. QED BY <4>3, <4>4, <4>7, <4>8, <4>9, <4>10, <4>11, BlockGained
        <3>. QED BY <3>4, <3>5
    <2>3. CASE CreateMetadata(t)
        <3>1. PokemonOf(t) \notin DOMAIN files /\ Holds(t)
              /\ UNCHANGED <<bitmap, blocks_available, overcommitted, crashes>>
            BY <2>3 DEF CreateMetadata, Exclusion, Holds
        <3>2. /\ Moves(t, "open", <<>>)
              /\ OtherFilesStay(t) /\ Files(t, thread[t].blocks, "N")
            BY <2>3, <3>1, FilingMoves, FileSteps
        <3>3. P \in DOMAIN files' /\ files'[P].OPEN = "N" /\ files'[P].BLOCKS = Hand(t)
            BY <2>0, <2>3, <3>2 DEF Files, Hand, CreateMetadata
        <3>4. \A l : (Has(P, l) <=> l = Hand(t)) /\ (Has(P, l)' <=> l = files'[P].BLOCKS)
            BY <1>1, <1>2, <2>0, <3>1, <3>3 DEF KnownLists
        <3>5. \A l : Has(P, l)' <=> Has(P, l)
            BY <3>3, <3>4
        <3>. QED BY <2>0, <3>1, <3>2, <3>5, ListsStay
    <2>4. CASE OpenFile(t)
        <3>1. /\ PokemonOf(t) \in DOMAIN files /\ files[PokemonOf(t)].OPEN = "N"
              /\ OtherFilesStay(t) /\ Files(t, files[PokemonOf(t)].BLOCKS, "Y")
            BY <2>4, FileSteps
        <3>2. Moves(t, "read", thread[t].blocks)
              /\ UNCHANGED <<bitmap, blocks_available, overcommitted, crashes>>
            BY <2>4, GoingMoves DEF OpenFile
        <3>3. Inside(t)' /\ ~Holds(t)' /\ PokemonOf(t)' = P /\ files'[P].BLOCKS = files[P].BLOCKS
            BY <2>0, <3>1, <3>2 DEF Moves, Inside, Holds, PokemonOf, Files
        <3>4. \A l : (Has(P, l) <=> l = files[P].BLOCKS) /\ (Has(P, l)' <=> l = files'[P].BLOCKS)
            BY <1>1, <1>2, <2>0, <3>1, <3>3 DEF KnownLists
        <3>5. \A l : Has(P, l)' <=> Has(P, l)
            BY <3>3, <3>4
        <3>. QED BY <2>0, <3>1, <3>2, <3>5, ListsStay
    <2>5. CASE ReadFile(t) \/ WriteBlock(t)
        <3>1. /\ Inside(t) /\ ~Holds(t)
              /\ UNCHANGED <<bitmap, blocks_available, overcommitted, crashes, files>>
            BY <2>5 DEF ReadFile, WriteBlock, diskVars, Inside, Holds
        <3>2. PICK pc \in {"garbled", "lock", "close", "write"} : Moves(t, pc, thread[t].blocks)
            <4>1. CASE ReadFile(t)
                BY <4>1, ReadingMoves
            <4>2. CASE WriteBlock(t)
                <5>1. Moves(t, "write", thread[t].blocks)
                    BY <4>2, FilingMoves DEF WriteBlock
                <5>. QED BY <5>1
            <4>. QED BY <2>5, <4>1, <4>2
        <3>3. Inside(t)' /\ ~Holds(t)' /\ PokemonOf(t)' = P /\ OtherFilesStay(t)
            BY <2>0, <3>1, <3>2 DEF Moves, Inside, Holds, PokemonOf, OtherFilesStay
        <3>4. \A l : (Has(P, l) <=> l = files[P].BLOCKS) /\ (Has(P, l)' <=> l = files'[P].BLOCKS)
            BY <1>1, <1>2, <2>0, <3>1, <3>3 DEF KnownLists
        <3>5. \A l : Has(P, l)' <=> Has(P, l)
            BY <3>1, <3>4
        <3>. QED BY <2>0, <3>1, <3>2, <3>3, <3>5, ListsStay
    <2>6. CASE LockMetadata(t)
        <3>1. /\ Inside(t) /\ ~Holds(t)
              /\ UNCHANGED <<bitmap, blocks_available, overcommitted, crashes, files>>
            BY <2>6 DEF LockMetadata, diskVars, Inside, Holds
        <3>2. Moves(t, "blocks", files[P].BLOCKS)
            BY <2>0, <2>6, <3>1, LockingMoves DEF Exclusion
        <3>3. /\ Holds(t)' /\ PokemonOf(t)' = P /\ Hand(t)' = files[P].BLOCKS
              /\ OtherFilesStay(t)
            BY <2>0, <3>1, <3>2 DEF Moves, Holds, PokemonOf, OtherFilesStay
        <3>4. \A l : (Has(P, l) <=> l = files[P].BLOCKS) /\ (Has(P, l)' <=> l = Hand(t)')
            BY <1>1, <1>2, <2>0, <3>1, <3>3 DEF KnownLists
        <3>5. \A l : Has(P, l)' <=> Has(P, l)
            BY <3>3, <3>4
        <3>. QED BY <2>0, <3>1, <3>2, <3>3, <3>5, ListsStay
    <2>7. CASE AddBlock(t) \/ RefillBlock(t)
        <3>1. PICK b \in BlockNumbers :
                /\ GetAvailableBlock(b)
                /\ \/ /\ thread' = [thread EXCEPT ![t] = WithBlock(t, b)]
                      /\ thread[t].pc = "blocks"
                   \/ /\ thread' = [thread EXCEPT ![t] = [@ EXCEPT !.pc = "save", !.array = <<b>>]]
                      /\ thread[t].pc = "refill"
                /\ overcommitted' = (overcommitted \/ b = NoBlock)
            BY <2>7 DEF AddBlock, RefillBlock, BlockNumbers
        <3>2. UNCHANGED <<crashes, files>>
            BY <2>7 DEF AddBlock, RefillBlock
        <3>. DEFINE old == thread[t].blocks
        <3>3. old \in Seq(BlockNumbers) /\ Holds(t) /\ old = Hand(t)
            BY <1>0, <3>1 DEF Matching, Holds, Hand
        <3>4. PICK pc \in {"blocks", "save"} : Moves(t, pc, Append(old, b))
            <4>1. CASE /\ thread' = [thread EXCEPT ![t] = WithBlock(t, b)]
                       /\ thread[t].pc = "blocks"
                BY <4>1, TakingMoves
            <4>2. CASE thread' = [thread EXCEPT ![t] = [@ EXCEPT !.pc = "save", !.array = <<b>>]]
                       /\ thread[t].pc = "refill"
                <5>1. old = <<>>
                    BY <1>0, <4>2 DEF Matching
                <5>2. Append(old, b) = <<b>>
                    BY <5>1
                <5>3. Moves(t, "save", <<b>>)
                    BY <4>2, TakingMoves
                <5>. QED BY <5>2, <5>3
            <4>. QED BY <3>1, <4>1, <4>2
        <3>5. /\ Holds(t)' /\ PokemonOf(t)' = P /\ Hand(t)' = Append(old, b)
              /\ OtherFilesStay(t)
            BY <2>0, <3>2, <3>4 DEF Moves, Holds, PokemonOf, OtherFilesStay
        <3>6. \A l : (Has(P, l) <=> l = old) /\ (Has(P, l)' <=> l = Append(old, b))
            BY <1>1, <1>2, <2>0, <3>3, <3>5 DEF KnownLists
        <3>7. OtherLists(P)
            BY <2>0, <3>4, <3>5, OthersHave DEF OtherLists
        <3>8. /\ GetAvailableBlock(b) /\ crashes' = crashes
              /\ overcommitted' <=> (overcommitted \/ b = NoBlock)
            BY <3>1, <3>2
        <3>. HIDE DEF old
        <3>. QED BY <3>3, <3>6, <3>7, <3>8, BlockGained
    <2>8. CASE RemoveBlock(t)
        <3>. DEFINE old == thread[t].blocks
        <3>1. /\ Holds(t) /\ old \in Seq(BlockNumbers) /\ UNCHANGED <<overcommitted, crashes, files>>
              /\ RemoveBlockFromBitmap(BlockNumber(Last(old))) /\ old = Hand(t)
            BY <1>0, <2>8 DEF RemoveBlock, Holds, Matching, Hand
        <3>2. Len(old) > 0 /\ \E pc \in {"blocks", "refill"} : Moves(t, pc, Front(old))
            BY <2>8, RemovingMoves
        <3>3. PICK pc \in {"blocks", "refill"} : Moves(t, pc, Front(old))
            BY <3>2
        <3>4. /\ Holds(t)' /\ PokemonOf(t)' = P /\ Hand(t)' = Front(old)
              /\ OtherFilesStay(t)
            BY <2>0, <3>1, <3>3 DEF Moves, Holds, PokemonOf, OtherFilesStay
        <3>5. \A l : (Has(P, l) <=> l = old) /\ (Has(P, l)' <=> l = Front(old))
            BY <1>1, <1>2, <2>0, <3>1, <3>4 DEF KnownLists
        <3>6. OtherLists(P)
            BY <2>0, <3>3, <3>4, OthersHave DEF OtherLists
        <3>. HIDE DEF old
        <3>. QED BY <3>1, <3>2, <3>5, <3>6, BlockReturned
    <2>9. CASE SaveMetadata(t)
        <3>1. /\ P \in DOMAIN files /\ Holds(t)
              /\ UNCHANGED <<bitmap, blocks_available, overcommitted, crashes>>
            BY <2>0, <2>9 DEF SaveMetadata, Exclusion, Inside, Holds
        <3>2. /\ OtherFilesStay(t) /\ files'[P].BLOCKS = Hand(t)
              /\ Moves(t, "write", thread[t].blocks)
            <4>1. OtherFilesStay(t) /\ files'[P].BLOCKS = thread[t].array
                BY <2>0, <2>9, <3>1, FileSteps DEF Files
            <4>2. thread[t].array = Hand(t)
                BY <1>0, <2>9 DEF Matching, Hand, SaveMetadata
            <4>. QED BY <2>9, <4>1, <4>2, FilingMoves
        <3>3. Inside(t)' /\ ~Holds(t)' /\ PokemonOf(t)' = P
            BY <2>0, <3>2 DEF Moves, Inside, Holds, PokemonOf
        <3>4. \A l : (Has(P, l) <=> l = Hand(t)) /\ (Has(P, l)' <=> l = files'[P].BLOCKS)
            BY <1>1, <1>2, <2>0, <3>1, <3>3 DEF KnownLists
        <3>5. \A l : Has(P, l)' <=> Has(P, l)
            BY <3>2, <3>4
        <3>. QED BY <2>0, <3>1, <3>2, <3>5, ListsStay
    <2>10. CASE CloseFile(t)
        <3>1. /\ P \in DOMAIN files /\ Inside(t) /\ ~Holds(t)
              /\ UNCHANGED <<bitmap, blocks_available, overcommitted, crashes>>
            BY <2>0, <2>10 DEF CloseFile, Exclusion, Inside, Holds
        <3>2. /\ OtherFilesStay(t) /\ Moves(t, "done", thread[t].blocks)
              /\ P \in DOMAIN files' /\ files'[P].BLOCKS = files[P].BLOCKS /\ files'[P].OPEN = "N"
            BY <2>0, <2>10, <3>1, FileSteps, GoingMoves DEF Files, CloseFile
        <3>3. \A l : (Has(P, l) <=> l = files[P].BLOCKS) /\ (Has(P, l)' <=> l = files'[P].BLOCKS)
            BY <1>1, <1>2, <2>0, <3>1, <3>2 DEF KnownLists
        <3>4. \A l : Has(P, l)' <=> Has(P, l)
            BY <3>2, <3>3
        <3>. QED BY <2>0, <3>1, <3>2, <3>4, ListsStay
    <2>. QED BY <1>4, <2>1, <2>2, <2>3, <2>4, <2>5, <2>6, <2>7, <2>8, <2>9, <2>10 DEF ThreadStep
<1>5. CASE (\E t \in Threads : MetadataMissing(t)) \/ CrashAndRestart
    <2>1. Restart
        BY <1>5 DEF MetadataMissing, CrashAndRestart
    <2>2. crashes' # 0
        <3>1. CASE \E t \in Threads : MetadataMissing(t)
            BY <3>1 DEF MetadataMissing, Orderly, PokemonOf
        <3>2. CASE CrashAndRestart
            BY <3>2 DEF CrashAndRestart, DiskTypes
        <3>. QED BY <1>5, <3>1, <3>2
    <2>. QED BY <2>1, <2>2, RestartOwnership
<1>6. CASE UNCHANGED vars
    <2>1. \A p, l : Has(p, l)' <=> Has(p, l)
        BY <1>6 DEF vars, diskVars, Has, Holds, Inside, PokemonOf, Hand
    <2>. QED BY <1>6, <2>1, NothingTaken DEF vars, diskVars
<1>. QED BY <1>3, <1>4, <1>5, <1>6, NextCases

-----------------------------------------------------------------------------
(* As long as no "-1" was cut in two the texts are the lists.               *)

\* What was cut in two stays so.
LEMMA MiscutStays == ASSUME [Next]_vars PROVE (miscut => miscut') /\ (overcommitted => overcommitted')
<1>1. ASSUME NEW t \in Threads, ThreadStep(t)
      PROVE  (miscut => miscut') /\ (overcommitted => overcommitted')
    <2>1. CASE AddBlock(t)
        <3>1. UNCHANGED miscut
            BY ONLY <2>1 DEF AddBlock
        <3>2. \E b \in Blocks \cup {NoBlock} : overcommitted' = (overcommitted \/ b = NoBlock)
            BY ONLY <2>1, Zenon DEF AddBlock
        <3>. QED BY ONLY <3>1, <3>2, Zenon
    <2>6. CASE RefillBlock(t)
        <3>1. UNCHANGED miscut
            BY ONLY <2>6 DEF RefillBlock
        <3>2. \E b \in Blocks \cup {NoBlock} : overcommitted' = (overcommitted \/ b = NoBlock)
            BY ONLY <2>6, Zenon DEF RefillBlock
        <3>. QED BY ONLY <3>1, <3>2, Zenon
    <2>2. CASE RemoveBlock(t)
        <3>1. UNCHANGED overcommitted
            BY ONLY <2>2 DEF RemoveBlock
        <3>2. miscut' = (miscut \/ (thread[t].comma /\ Last(thread[t].array) = NoBlock))
            BY ONLY <2>2, Zenon DEF RemoveBlock
        <3>. QED BY ONLY <3>1, <3>2, Zenon
    <2>3. CASE DirectoryExists(t) \/ CreateMetadata(t) \/ NoDirectory(t)
        BY ONLY <2>3 DEF DirectoryExists, CreateMetadata, NoDirectory
    <2>7. CASE MakeDirectory(t)
        BY ONLY <2>7 DEF MakeDirectory
    <2>4. CASE OpenFile(t) \/ MetadataMissing(t) \/ ReadFile(t) \/ LockMetadata(t)
        BY <2>4 DEF OpenFile, MetadataMissing, ReadFile, LockMetadata, Restart
    <2>5. CASE SaveMetadata(t) \/ WriteBlock(t) \/ CloseFile(t)
        BY <2>5 DEF SaveMetadata, WriteBlock, CloseFile
    <2>. QED BY <1>1, <2>1, <2>2, <2>3, <2>4, <2>5, <2>6, <2>7 DEF ThreadStep
<1>2. CASE \E r \in Requests : ReceiveMessage(r)
    BY <1>2 DEF ReceiveMessage
<1>3. CASE CrashAndRestart \/ UNCHANGED vars
    BY <1>3 DEF CrashAndRestart, Restart, vars
<1>. QED BY <1>1, <1>2, <1>3 DEF Next, Finished

\* A step of one handler after which its own texts and its file match.
LEMMA UncutKept ==
    ASSUME Uncut, NEW t \in Threads, \A u \in Threads \ {t} : thread'[u] = thread[u],
           miscut => miscut', overcommitted => overcommitted',
           miscut' /\ ~miscut => overcommitted',
           ~miscut /\ ~miscut' => /\ Matching(t)'
                                  /\ \A p \in DOMAIN files' : files'[p].BLOCKS \in Seq(BlockNumbers)
    PROVE  Uncut'
<1>1. miscut' => overcommitted'
    BY DEF Uncut
<1>2. ASSUME ~miscut', NEW u \in Threads PROVE Matching(u)'
    <2>1. CASE u = t
        BY <1>2, <2>1
    <2>2. CASE u # t
        <3>1. Matching(u)
            BY <1>2 DEF Uncut
        <3>. QED BY <2>2, <3>1 DEF Matching
    <2>. QED BY <2>1, <2>2
<1>. QED BY <1>1, <1>2 DEF Uncut

\* A step that takes no text in hand, and leaves the files as they are.
LEMMA UncutStays ==
    ASSUME Uncut, NEW t \in Threads, NEW pc, NEW l, Moves(t, pc, l),
           pc \notin {"blocks", "refill", "save"}, ~miscut => l \in Seq(BlockNumbers),
           UNCHANGED <<miscut, overcommitted>>,
           ~miscut => \A p \in DOMAIN files' : files'[p].BLOCKS \in Seq(BlockNumbers)
    PROVE  Uncut'
<1>1. \A u \in Threads \ {t} : thread'[u] = thread[u]
    BY DEF Moves
<1>2. thread'[t].pc = pc /\ thread'[t].blocks = l
    BY DEF Moves, Hand
<1>3. ~miscut => Matching(t)'
    BY <1>2 DEF Matching
<1>. QED BY <1>1, <1>3, UncutKept

\* The files match when only t's changed, to a list that does.
LEMMA FilesMatch ==
    ASSUME Uncut, ~miscut, NEW t \in Threads, NEW l, NEW open, OtherFilesStay(t), Files(t, l, open),
           l \in Seq(BlockNumbers)
    PROVE  \A p \in DOMAIN files' : files'[p].BLOCKS \in Seq(BlockNumbers)
BY DEF Uncut, OtherFilesStay, Files

\* Every step keeps the texts and the lists together, or has cut a "-1" in two; and then NoBlock was
\* given out.
LEMMA NextUncut ==
    ASSUME DiskTypes, Exclusion, Orderly, Uncut, ~miscut => Ownership, [Next]_vars
    PROVE  Uncut'
<1>0. /\ ~miscut => /\ \A t \in Threads : Matching(t)
                    /\ \A p \in DOMAIN files : files[p].BLOCKS \in Seq(BlockNumbers)
      /\ miscut => miscut'
      /\ overcommitted => overcommitted'
    BY MiscutStays DEF Uncut
<1>1. CASE \E r \in Requests : ReceiveMessage(r)
    <2>1. PICK r \in Requests : ReceiveMessage(r)
        BY <1>1
    <2>2. PICK n \in Threads : /\ thread'[n].pc = "directory" /\ thread'[n].blocks = <<>>
                              /\ \A u \in Threads \ {n} : thread'[u] = thread[u]
        BY <2>1, ReceivingMoves
    <2>3. UNCHANGED <<miscut, overcommitted, files>>
        BY <2>1 DEF ReceiveMessage, diskVars
    <2>4. Matching(n)'
        BY <2>2, EmptySeq DEF Matching
    <2>. QED BY <1>0, <2>2, <2>3, <2>4, UncutKept
<1>2. ASSUME NEW t \in Threads, ThreadStep(t), ~MetadataMissing(t)
      PROVE  Uncut'
    <2>0. ~miscut => thread[t].blocks \in Seq(BlockNumbers)
        BY <1>0 DEF Matching
    <2>1. CASE DirectoryExists(t) \/ NoDirectory(t) \/ ReadFile(t) \/ WriteBlock(t)
        <3>1. UNCHANGED <<miscut, overcommitted, files>>
            BY <2>1 DEF DirectoryExists, NoDirectory, ReadFile, WriteBlock, diskVars
        <3>2. \E pc \in {"open", "done", "garbled", "lock", "close", "write"} :
                    Moves(t, pc, thread[t].blocks)
            <4>1. CASE DirectoryExists(t) \/ NoDirectory(t)
                <5>1. Moves(t, "open", thread[t].blocks) \/ Moves(t, "done", thread[t].blocks)
                    BY <4>1, GoingMoves DEF DirectoryExists, NoDirectory
                <5>. QED BY <5>1
            <4>2. CASE ReadFile(t)
                BY <4>2, ReadingMoves
            <4>3. CASE WriteBlock(t)
                <5>1. Moves(t, "write", thread[t].blocks)
                    BY <4>3, FilingMoves
                <5>. QED BY <5>1
            <4>. QED BY <2>1, <4>1, <4>2, <4>3
        <3>3. PICK pc \in {"open", "done", "garbled", "lock", "close", "write"} :
                    Moves(t, pc, thread[t].blocks)
            BY <3>2
        <3>. QED BY <1>0, <2>0, <3>1, <3>3, UncutStays
    <2>2. CASE MakeDirectory(t)
        <3>1. PICK b \in BlockNumbers :
                IF b = NoBlock
                THEN Goes(t, "done") /\ UNCHANGED directories
                ELSE /\ thread' = [thread EXCEPT ![t] = [@ EXCEPT !.pc = "create", !.blocks = <<b>>]]
                     /\ directories' = directories \cup {PokemonOf(t)}
            BY <2>2, Zenon DEF MakeDirectory, BlockNumbers, PokemonOf
        <3>2. UNCHANGED <<miscut, overcommitted, files>>
            BY <2>2 DEF MakeDirectory
        <3>3. Moves(t, "create", <<b>>) \/ Moves(t, "done", thread[t].blocks)
            BY <3>1, GoingMoves, TakingMoves
        <3>4. <<b>> \in Seq(BlockNumbers)
            OBVIOUS
        <3>5. PICK pc \in {"create", "done"}, l \in {<<b>>, thread[t].blocks} : Moves(t, pc, l)
            BY <3>3
        <3>6. ~miscut => l \in Seq(BlockNumbers)
            BY <2>0, <3>4
        <3>. QED BY <1>0, <3>2, <3>5, <3>6, UncutStays
    <2>3. CASE CreateMetadata(t)
        <3>1. PokemonOf(t) \notin DOMAIN files /\ UNCHANGED <<miscut, overcommitted>>
            BY <2>3 DEF CreateMetadata, Exclusion
        <3>2. /\ Moves(t, "open", <<>>)
              /\ OtherFilesStay(t) /\ Files(t, thread[t].blocks, "N")
            BY <2>3, <3>1, FilingMoves, FileSteps
        <3>3. ~miscut => \A p \in DOMAIN files' : files'[p].BLOCKS \in Seq(BlockNumbers)
            BY <2>0, <3>2, FilesMatch
        <3>. QED BY <3>1, <3>2, <3>3, EmptySeq, UncutStays
    <2>4. CASE OpenFile(t) \/ CloseFile(t)
        <3>1. PokemonOf(t) \in DOMAIN files /\ UNCHANGED <<miscut, overcommitted>>
            BY <2>4, FileSteps DEF OpenFile, CloseFile, Exclusion, Inside
        <3>2. PICK open : OtherFilesStay(t) /\ Files(t, files[PokemonOf(t)].BLOCKS, open)
            BY <2>4, <3>1, FileSteps
        <3>3. ~miscut => \A p \in DOMAIN files' : files'[p].BLOCKS \in Seq(BlockNumbers)
            BY <1>0, <3>1, <3>2, FilesMatch
        <3>4. Moves(t, "read", thread[t].blocks) \/ Moves(t, "done", thread[t].blocks)
            BY <2>4, GoingMoves DEF OpenFile, CloseFile
        <3>5. PICK pc \in {"read", "done"} : Moves(t, pc, thread[t].blocks)
            BY <3>4
        <3>. QED BY <2>0, <3>1, <3>3, <3>5, UncutStays
    <2>5. CASE SaveMetadata(t)
        <3>1. PokemonOf(t) \in DOMAIN files /\ UNCHANGED <<miscut, overcommitted>>
            BY <2>5 DEF SaveMetadata, Exclusion, Inside
        <3>2. OtherFilesStay(t) /\ \E open : Files(t, thread[t].array, open)
            BY <2>5, <3>1, FileSteps
        <3>3. ~miscut => thread[t].array \in Seq(BlockNumbers)
            BY <1>0, <2>0, <2>5 DEF Matching, SaveMetadata
        <3>4. ~miscut => \A p \in DOMAIN files' : files'[p].BLOCKS \in Seq(BlockNumbers)
            BY <3>2, <3>3, FilesMatch
        <3>5. Moves(t, "write", thread[t].blocks)
            BY <2>5, FilingMoves
        <3>. QED BY <2>0, <3>1, <3>4, <3>5, UncutStays
    <2>6. CASE LockMetadata(t)
        <3>1. PokemonOf(t) \in DOMAIN files /\ UNCHANGED <<miscut, overcommitted, files>>
            BY <2>6 DEF LockMetadata, Exclusion, Inside, diskVars
        <3>2. PICK l : /\ l = files[PokemonOf(t)].BLOCKS /\ Moves(t, "blocks", l)
                       /\ thread'[t].blocks = l /\ thread'[t].array = l
            BY <2>6, <3>1, LockingMoves
        <3>3. thread'[t].pc = "blocks" /\ \A u \in Threads \ {t} : thread'[u] = thread[u]
            BY <3>2 DEF Moves
        <3>4. ~miscut => Matching(t)'
            BY <1>0, <3>1, <3>2, <3>3 DEF Matching
        <3>. QED BY <1>0, <3>1, <3>3, <3>4, UncutKept
    <2>7. CASE AddBlock(t)
        <3>1. PICK b \in BlockNumbers :
                /\ thread' = [thread EXCEPT ![t] = WithBlock(t, b)]
                /\ thread[t].pc = "blocks" /\ UNCHANGED <<miscut, files>>
            BY <2>7 DEF AddBlock, BlockNumbers
        <3>2. /\ thread'[t].pc = "blocks" /\ \A u \in Threads \ {t} : thread'[u] = thread[u]
              /\ thread'[t].blocks = Append(thread[t].blocks, b)
              /\ thread'[t].array = Append(thread[t].array, b)
            BY <3>1, TakingMoves DEF Moves
        <3>3. ASSUME ~miscut PROVE Matching(t)'
            <4>1. thread[t].blocks \in Seq(BlockNumbers) /\ thread[t].array = thread[t].blocks
                BY <1>0, <3>1, <3>3 DEF Matching
            <4>2. Append(thread[t].blocks, b) \in Seq(BlockNumbers)
                BY <4>1, AppendProperties
            <4>. QED BY <3>2, <4>1, <4>2 DEF Matching
        <3>. QED BY <1>0, <3>1, <3>2, <3>3, UncutKept
    <2>8. CASE RefillBlock(t)
        <3>1. PICK b \in BlockNumbers :
                /\ thread' = [thread EXCEPT ![t] = [@ EXCEPT !.pc = "save", !.array = <<b>>]]
                /\ UNCHANGED <<miscut, files>>
            BY <2>8 DEF RefillBlock, BlockNumbers
        <3>2. /\ thread'[t].pc = "save" /\ \A u \in Threads \ {t} : thread'[u] = thread[u]
              /\ thread'[t].blocks = thread[t].blocks /\ thread'[t].array = <<b>>
            BY <3>1, TakingMoves DEF Moves
        <3>3. <<b>> \in Seq(BlockNumbers)
            OBVIOUS
        <3>4. ~miscut => Matching(t)'
            BY <2>0, <3>2, <3>3 DEF Matching
        <3>. QED BY <1>0, <3>1, <3>2, <3>4, UncutKept
    <2>9. CASE RemoveBlock(t)
        <3>1. PICK l, a, c : l = thread[t].blocks /\ a = thread[t].array /\ c = thread[t].comma
            OBVIOUS
        <3>2. /\ thread[t].pc = "blocks" /\ UNCHANGED <<files, overcommitted>>
              /\ miscut' = (miscut \/ (c /\ Last(a) = NoBlock))
            BY <2>9, <3>1 DEF RemoveBlock
        <3>3. /\ Len(l) > 0 /\ thread'[t].blocks = Front(l) /\ thread'[t].array = Cut(a, c)
              /\ thread'[t].pc \in {"blocks", "refill"}
              /\ thread'[t].pc = "refill" => thread'[t].array = <<>>
              /\ \A u \in Threads \ {t} : thread'[u] = thread[u]
            BY <2>9, <3>1, RemovingMoves DEF Moves
        <3>4. ~miscut => l \in Seq(BlockNumbers) /\ a = l
            BY <1>0, <2>0, <3>1, <3>2 DEF Matching
        <3>5. ASSUME ~miscut, ~miscut' PROVE Matching(t)'
            <4>1. Front(l) \in Seq(BlockNumbers)
                BY <3>3, <3>4, <3>5, FrontAndLast
            <4>2. Cut(a, c) = Front(l)
                BY <3>2, <3>4, <3>5 DEF Cut
            <4>. QED BY <3>3, <4>1, <4>2 DEF Matching
        <3>6. ASSUME ~miscut, miscut' PROVE overcommitted'
            <4>1. Last(l) = NoBlock
                BY <3>2, <3>4, <3>6
            <4>2. Len(l) \in DOMAIN l /\ l[Len(l)] = NoBlock
                BY <3>3, <3>4, <3>6, <4>1, FrontAndLast
            <4>3. Holds(t) /\ l = Hand(t)
                BY <3>1, <3>2 DEF Holds, Hand
            <4>4. Has(PokemonOf(t), l)
                BY <4>3 DEF Has
            <4>5. Exact
                BY <3>6 DEF Ownership
            <4>. QED BY <3>2, <4>2, <4>4, <4>5 DEF Exact
        <3>. QED BY <1>0, <3>2, <3>3, <3>5, <3>6, UncutKept
    <2>. QED BY <1>2, <2>1, <2>2, <2>3, <2>4, <2>5, <2>6, <2>7, <2>8, <2>9 DEF ThreadStep
<1>3. CASE (\E t \in Threads : MetadataMissing(t)) \/ CrashAndRestart
    <2>1. Restart
        BY <1>3 DEF MetadataMissing, CrashAndRestart
    <2>2. /\ \A t \in Threads : /\ thread'[t].pc \in {"none", "done", "lost"}
                                /\ thread'[t].blocks = thread[t].blocks
          /\ UNCHANGED <<files, overcommitted, miscut>>
        BY <2>1, RestartOutside
    <2>3. ASSUME ~miscut, NEW t \in Threads PROVE Matching(t)'
        BY <1>0, <2>2, <2>3 DEF Matching
    <2>. QED BY <1>0, <2>2, <2>3 DEF Uncut
<1>4. CASE UNCHANGED vars
    BY <1>4 DEF vars, diskVars, Uncut, Matching
<1>. QED BY <1>1, <1>2, <1>3, <1>4, NextCases

-----------------------------------------------------------------------------
(* The theorems.                                                            *)

BlockInv == DiskTypes /\ Exclusion /\ Orderly /\ Uncut /\ (~miscut => Ownership)

\* A block is in the files when it is at some place of some list.
LEMMA BlockOfFile ==
    ASSUME NEW b
    PROVE  b \in BlocksIn(files) <=>
                \E p \in DOMAIN files : \E i \in DOMAIN files[p].BLOCKS : files[p].BLOCKS[i] = b
BY DEF BlocksIn, Range

\* On a disk that is sound when the process starts the invariant holds.
LEMMA InitBlockInv == Init => BlockInv
<1>. SUFFICES ASSUME Init PROVE BlockInv
    OBVIOUS
<1>1. PICK disk \in Disks : files = disk.files /\ directories = DOMAIN disk.files
    BY DEF Init
<1>2. /\ DOMAIN files \subseteq Pokemons /\ directories = DOMAIN files
      /\ \A p \in DOMAIN files :
            /\ files[p] \in FileRecord /\ files[p].OPEN = "N"
            /\ Range(files[p].BLOCKS) \cap (Reserved \cup {Dash}) = {}
      /\ \A p, q \in DOMAIN files :
            \A i \in DOMAIN files[p].BLOCKS, j \in DOMAIN files[q].BLOCKS :
                files[p].BLOCKS[i] = files[q].BLOCKS[j] /\ files[p].BLOCKS[i] # NoBlock
                    => p = q /\ i = j
    <2>1. /\ DOMAIN disk.files \subseteq Pokemons
          /\ \A p, q \in DOMAIN disk.files :
                /\ disk.files[p] \in FileRecord /\ disk.files[p].OPEN = "N"
                /\ Range(disk.files[p].BLOCKS) \cap (Reserved \cup {Dash}) = {}
                /\ \A i \in DOMAIN disk.files[p].BLOCKS, j \in DOMAIN disk.files[q].BLOCKS :
                        disk.files[p].BLOCKS[i] = disk.files[q].BLOCKS[j]
                        /\ disk.files[p].BLOCKS[i] # NoBlock => p = q /\ i = j
        BY DisksAreSound
    <2>. QED BY <1>1, <2>1
<1>3. /\ bitmap = Reserved \cup (BlocksIn(files) \ {NoBlock})
      /\ blocks_available = Cardinality(FreeBlocks)
      /\ thread = [t \in Threads |-> NoThread] /\ received = 0 /\ crashes = 0
      /\ overcommitted = (NoBlock \in BlocksIn(files)) /\ miscut = FALSE
    BY DEF Init
<1>4. /\ thread \in [Threads -> HandlerState]
      /\ \A t \in Threads : /\ thread[t].pc = "none" /\ ~Inside(t) /\ ~Holds(t)
                            /\ thread[t].blocks = <<>>
    BY <1>3, NoThreadType DEF Inside, Holds
<1>5. \A p \in DOMAIN files : \A i \in DOMAIN files[p].BLOCKS :
            files[p].BLOCKS[i] \in (Blocks \cup {NoBlock}) \ Reserved
    <2>. SUFFICES ASSUME NEW p \in DOMAIN files, NEW i \in DOMAIN files[p].BLOCKS
                  PROVE  files[p].BLOCKS[i] \in (Blocks \cup {NoBlock}) \ Reserved
        OBVIOUS
    <2>1. files[p].BLOCKS \in Seq(Tokens)
        BY <1>2 DEF FileRecord, Tokens
    <2>2. files[p].BLOCKS[i] \in Tokens
        BY <2>1, LenProperties, ElementOfSeq
    <2>3. files[p].BLOCKS[i] \in Range(files[p].BLOCKS)
        BY DEF Range
    <2>. QED BY <1>2, <2>2, <2>3 DEF Tokens
<1>6. DiskTypes
    <2>1. bitmap \subseteq Blocks
        BY <1>3, <1>5, OneDigit, BlockOfFile
    <2>2. blocks_available \in Int
        BY <1>3, FreeIsFinite, FS_CardinalityType
    <2>3. /\ received \in Nat /\ crashes \in Nat
          /\ overcommitted \in BOOLEAN /\ miscut \in BOOLEAN
        <3>1. received \in Nat /\ crashes \in Nat
            BY <1>3
        <3>2. overcommitted \in BOOLEAN
            <4>1. overcommitted = (NoBlock \in BlocksIn(files))
                BY <1>3
            <4>. QED BY ONLY <4>1, SMT
        <3>3. miscut \in BOOLEAN
            BY ONLY <1>3, Zenon
        <3>. QED BY ONLY <3>1, <3>2, <3>3
    <2>4. \A t \in Threads : thread[t].pc = "none" /\ thread[t].pc # "blocks"
        BY <1>4
    <2>5. DOMAIN files \subseteq directories /\ \A p \in DOMAIN files : files[p] \in FileRecord
        BY <1>2
    <2>. QED BY ONLY <1>4, <2>1, <2>2, <2>3, <2>4, <2>5 DEF DiskTypes
<1>7. Exclusion
    BY <1>4 DEF Exclusion
<1>8. Orderly
    BY <1>2, <1>4 DEF Orderly
<1>9. \A p, l : Has(p, l) <=> p \in DOMAIN files /\ l = files[p].BLOCKS
    BY <1>2, <1>4 DEF Has
<1>10. Owned
    <2>1. ASSUME NEW p, NEW l, Has(p, l), NEW i \in DOMAIN l, l[i] # NoBlock
          PROVE  l[i] \in bitmap \ Reserved
        <3>1. p \in DOMAIN files /\ l = files[p].BLOCKS
            BY <1>9, <2>1
        <3>2. l[i] \in BlocksIn(files)
            BY <3>1, BlockOfFile
        <3>. QED BY <1>3, <1>5, <2>1, <3>1, <3>2
    <2>2. Reserved \subseteq bitmap
        BY <1>3
    <2>. QED BY <1>2, <1>9, <2>1, <2>2 DEF Owned
<1>11. Exact
    BY <1>3, <1>9, BlockOfFile DEF Exact
<1>12. NoneLost
    <2>. SUFFICES ASSUME NEW b \in bitmap \ Reserved
                  PROVE  \E p, l : Has(p, l) /\ \E i \in DOMAIN l : l[i] = b
        BY DEF NoneLost
    <2>1. PICK p \in DOMAIN files : \E i \in DOMAIN files[p].BLOCKS : files[p].BLOCKS[i] = b
        BY <1>3, BlockOfFile
    <2>2. Has(p, files[p].BLOCKS)
        BY <1>9
    <2>. QED BY <2>1, <2>2
<1>13. Uncut
    <2>1. ASSUME NEW p \in DOMAIN files PROVE files[p].BLOCKS \in Seq(BlockNumbers)
        <3>1. PICK l : l = files[p].BLOCKS
            OBVIOUS
        <3>2. l \in Seq(Tokens)
            BY <1>2, <3>1 DEF FileRecord, Tokens
        <3>3. Len(l) \in Nat /\ l = [k \in 1..Len(l) |-> l[k]] /\ DOMAIN l = 1..Len(l)
            BY <3>2, LenProperties
        <3>4. \A k \in 1..Len(l) : l[k] \in BlockNumbers
            BY <1>5, <3>1, <3>3 DEF BlockNumbers
        <3>5. l \in [1..Len(l) -> BlockNumbers]
            BY <3>3, <3>4
        <3>6. l \in Seq(BlockNumbers)
            BY <3>3, <3>5, SeqDef
        <3>. QED BY <3>1, <3>6
    <2>2. ASSUME NEW t \in Threads PROVE Matching(t)
        BY <1>4, EmptySeq DEF Matching
    <2>. QED BY <1>3, <2>1, <2>2 DEF Uncut
<1>. QED BY <1>6, <1>7, <1>8, <1>10, <1>11, <1>12, <1>13 DEF BlockInv, Ownership

\* The invariant is inductive.
LEMMA BlockInvHolds == Spec => []BlockInv
<1>1. Init => BlockInv
    BY InitBlockInv
<1>2. BlockInv /\ [Next]_vars => BlockInv'
    <2>. SUFFICES ASSUME BlockInv, [Next]_vars PROVE BlockInv'
        OBVIOUS
    <2>. USE DEF BlockInv
    <2>1. DiskTypes'
        BY NextDiskTypes
    <2>2. Exclusion'
        BY NextExclusion
    <2>3. Orderly'
        BY NextOrderly
    <2>4. Uncut'
        BY NextUncut
    <2>5. ASSUME ~miscut' PROVE Ownership'
        <3>1. ~miscut
            BY <2>5, MiscutStays
        <3>. QED BY <3>1, NextOwnership
    <2>. QED BY <2>1, <2>2, <2>3, <2>4, <2>5
<1>. QED BY <1>1, <1>2, PTL DEF Spec

\* Blocks are taken from the bitmap before BLOCKS names them, returned before the file says so, and
\* the process may die in between: unless remove_last_block_from_array has cut a "-1" in two, no
\* block is in two closed files, twice in one, or in one and free (pokemon_blocks,
\* get_available_block, remove_block_from_bitmap, check_if_file_is_open).
THEOREM ClosedFilesOwn == Spec => []ClosedFilesOwnBlocks
<1>1. BlockInv => ClosedFilesOwnBlocks
    <2>. SUFFICES ASSUME BlockInv, ~miscut PROVE ClosedFilesOwnBlocks
        BY DEF ClosedFilesOwnBlocks
    <2>1. \A p \in ClosedFiles : p \in DOMAIN files /\ Has(p, files[p].BLOCKS)
        BY DEF ClosedFiles, Has
    <2>2. Owned
        BY DEF BlockInv, Ownership
    <2>3. ASSUME NEW p \in ClosedFiles
          PROVE  Range(files[p].BLOCKS) \ {NoBlock} \subseteq bitmap \ Reserved
        BY <2>1, <2>2 DEF Owned, Range
    <2>4. ASSUME NEW p \in ClosedFiles, NEW q \in ClosedFiles,
                 NEW i \in DOMAIN files[p].BLOCKS, NEW j \in DOMAIN files[q].BLOCKS,
                 files[p].BLOCKS[i] = files[q].BLOCKS[j], files[p].BLOCKS[i] # NoBlock
          PROVE  p = q /\ i = j
        BY <2>1, <2>2, <2>4 DEF Owned
    <2>. QED BY <2>3, <2>4 DEF ClosedFilesOwnBlocks
<1>. QED BY <1>1, BlockInvHolds, PTL

\* The counter beside the bitmap is the number of its clear bits until a thread is given NoBlock:
\* every handler's additions and subtractions, and open_bitmap's count after a death, agree with
\* the bits set and cleared (get_available_block, remove_block_from_bitmap).
THEOREM AvailableStaysExact == Spec => []AvailableIsExact
<1>1. BlockInv => AvailableIsExact
    BY DEF BlockInv, Uncut, Ownership, Exact, AvailableIsExact
<1>. QED BY <1>1, BlockInvHolds, PTL

\* As long as the process does not die and no "-1" was cut in two, and once every handler is
\* through, the set bits are exactly the blocks in the files' lists: no path through
\* check_pokemon_directory and pokemon_blocks loses a block, or leaves one in a list with its bit
\* clear.
THEOREM NoBlockLeaks == Spec => []NothingLeaks
<1>1. BlockInv => NothingLeaks
    <2>. SUFFICES ASSUME BlockInv, crashes = 0, ~miscut,
                         \A t \in Threads : thread[t].pc \in {"none", "done"}
                  PROVE  bitmap = Reserved \cup (BlocksIn(files) \ {NoBlock})
        BY DEF NothingLeaks
    <2>1. \A t \in Threads : ~Inside(t) /\ ~Holds(t)
        BY DEF Inside, Holds
    <2>2. \A p \in DOMAIN files : files[p] \in FileRecord /\ files[p].OPEN = "N"
        BY <2>1 DEF BlockInv, DiskTypes, Orderly, FileRecord
    <2>3. \A p, l : Has(p, l) <=> p \in DOMAIN files /\ l = files[p].BLOCKS
        BY <2>1, <2>2 DEF Has
    <2>4. Owned /\ NoneLost /\ bitmap \subseteq Blocks
        BY DEF BlockInv, Ownership, DiskTypes
    <2>5. ASSUME NEW b \in bitmap \ Reserved PROVE b \in BlocksIn(files) \ {NoBlock}
        <3>1. PICK p, l : Has(p, l) /\ \E i \in DOMAIN l : l[i] = b
            BY <2>4 DEF NoneLost
        <3>2. b \in BlocksIn(files)
            BY <2>3, <3>1, BlockOfFile
        <3>3. b # NoBlock
            BY <2>4, OneDigit DEF Blocks, NoBlock
        <3>. QED BY <3>2, <3>3
    <2>6. ASSUME NEW b \in BlocksIn(files), b # NoBlock PROVE b \in bitmap
        <3>1. PICK p \in DOMAIN files : \E i \in DOMAIN files[p].BLOCKS : files[p].BLOCKS[i] = b
            BY BlockOfFile
        <3>2. Has(p, files[p].BLOCKS)
            BY <2>3
        <3>. QED BY <2>4, <2>6, <3>1, <3>2 DEF Owned
    <2>7. Reserved \subseteq bitmap
        BY <2>4 DEF Owned
    <2>. QED BY <2>5, <2>6, <2>7
<1>. QED BY <1>1, BlockInvHolds, PTL
=============================================================================
