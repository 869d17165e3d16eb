----------------------------- MODULE TallGrass -----------------------------
(***************************************************************************)
(* The GameCard's Tall-Grass file system (gamecard/src/gamecard.c): one     *)
(* thread per NEW_POKEMON, CATCH_POKEMON or GET_POKEMON message works on    *)
(* the file of its pokemon, whose positions are text spread over blocks.    *)
(*                                                                          *)
(* A thread creates the file if it has to, waits for OPEN=N and sets it to  *)
(* Y, reads the text, decides, takes or returns blocks one at a time, saves *)
(* BLOCKS and SIZE, writes the blocks one at a time, and sets OPEN=N.       *)
(* Each critical section of mutexBitmap is one action; mutexDirectory and   *)
(* mutexMetadataPath may be held over several.  The process may die between *)
(* any two actions; what is on the disk stays, OPEN=Y, the bitmap and a     *)
(* directory without its Metadata.bin included.                             *)
(*                                                                          *)
(* Text is a sequence of cells: an entry "x-y=count" is one cell, or two    *)
(* when its count has a second digit or a sign, and a block holds           *)
(* BLOCK_SIZE cells.                                                        *)
(***************************************************************************)
EXTENDS Integers, Sequences, SequencesExt, FiniteSets

CONSTANTS Pokemons,
          Positions,     \* positions of the map
          BLOCKS,        \* blocks of the file system
          Reserved,      \* those held by files that no message names
          BLOCK_SIZE,    \* cells a block holds
          Ten,           \* the first count that has two digits
          Disks,         \* what create_tall_grass or an earlier run may have left
          Requests,      \* messages that may arrive
          MaxMessages,   \* bound: messages that ever arrive
          MaxCrashes,    \* bound: deaths of the process
          NoOne          \* holder of a free mutex

Codes == {"NEW_POKEMON", "CATCH_POKEMON", "GET_POKEMON"}
Request == [code : Codes, pokemon : Pokemons, pos : Positions, count : Nat]

Threads == 1..MaxMessages
Blocks == 0..(BLOCKS - 1)
Entry == [pos : Positions, count : Int]

\* remove_last_block_from_array takes a block's number to be one digit.
ASSUME OneDigit == BLOCKS \in 1..10 /\ Reserved \subseteq Blocks
ASSUME Bounded ==
    /\ BLOCK_SIZE \in Nat \ {0} /\ Ten \in Nat \ {0}
    /\ MaxMessages \in Nat /\ MaxCrashes \in Nat
    /\ Requests \subseteq Request /\ Requests # {}
    /\ NoOne \notin Threads

\* get_available_block's answer when every bit is set.  Its callers in
\* pokemon_blocks use it as a block number: there is a file -1.bin.
NoBlock == -1

\* What is left of "-1" when remove_last_block_from_array has cut it in two: "-",
\* which atoi reads as 0.
Dash == -2

FileRecord == [BLOCKS : Seq(Blocks \cup {NoBlock, Dash}), SIZE : Nat, OPEN : {"Y", "N"}]

\* When the process that left a disk ended no handler was at work: the files are closed, no
\* block is in two of them, and no "-1" was cut in two.
ASSUME DisksAreSound ==
    \A disk \in Disks :
        /\ DOMAIN disk.files \subseteq Pokemons
        /\ \A p, q \in DOMAIN disk.files :
            LET mine == disk.files[p].BLOCKS  others == disk.files[q].BLOCKS IN
            /\ disk.files[p] \in FileRecord /\ disk.files[p].OPEN = "N"
            /\ Range(mine) \cap (Reserved \cup {Dash}) = {}
            /\ \A i \in DOMAIN mine, j \in DOMAIN others :
                    mine[i] = others[j] /\ mine[i] # NoBlock => p = q /\ i = j

VARIABLES
    bitmap,             \* blocks whose bit is set
    blocks_available,   \* the counter kept beside it
    directories,        \* pokemons that have a directory Files/<pokemon>
    files,              \* Files/<pokemon>/Metadata.bin of those that have one
    content,            \* Blocks/<n>.bin
    mutexMetadataPath,  \* its holder between two actions
    thread,             \* handler threads, one per message
    received,           \* messages received so far
    crashes,            \* deaths of the process so far
    population,         \* history: pokemons put there and not caught
    cut,                \* history: pokemons a crash found a handler at work for
    overcommitted,      \* history: a file was given NoBlock
    miscut              \* history: a "-1" was cut in two

diskVars == <<bitmap, directories, files, content>>
vars == <<diskVars, blocks_available, mutexMetadataPath, thread, received, crashes,
          population, cut, overcommitted, miscut>>

NoThread == [pc |-> "none", msg |-> CHOOSE r \in Requests : TRUE, text |-> <<>>,
             blocks |-> <<>>, array |-> <<>>,
             comma |-> FALSE, i |-> 0, result |-> 0]

FreeBlocks == Blocks \ bitmap

BlocksIn(fs) == UNION {Range(fs[p].BLOCKS) : p \in DOMAIN fs}

\* GameCard starts on a disk: open_bitmap counts the free blocks.
Init ==
    /\ \E disk \in Disks :
        /\ files = disk.files /\ directories = DOMAIN disk.files
        /\ content = disk.content
        /\ population = disk.population
    /\ bitmap = Reserved \cup (BlocksIn(files) \ {NoBlock})
    /\ blocks_available = Cardinality(FreeBlocks)
    /\ mutexMetadataPath = NoOne
    /\ thread = [t \in Threads |-> NoThread]
    /\ received = 0
    /\ crashes = 0 /\ cut = {}
    /\ overcommitted = (NoBlock \in BlocksIn(files)) /\ miscut = FALSE

-----------------------------------------------------------------------------
(* The text of a file                                                      *)

my_ceil(a, b) == (a + b - 1) \div b

\* pokemon_position_to_array_of_position: what an entry takes, and the text.
CellsOf(count) == IF count \in 0..(Ten - 1) THEN 1 ELSE 2

Text(positions) ==
    FlattenSeq([i \in DOMAIN positions |->
                    [k \in 1..CellsOf(positions[i].count) |-> <<positions[i], k>>]])

\* get_positions_from_buffer
PositionsIn(text) ==
    LET starts == SelectSeq(text, LAMBDA cell : cell[2] = 1)
    IN  [i \in DOMAIN starts |-> starts[i][1]]

BlocksFor(text) == my_ceil(Len(text), BLOCK_SIZE)

\* atoi
BlockNumber(b) == IF b = Dash THEN 0 ELSE b

\* What goes into the i-th block: BLOCK_SIZE cells, or the rest.
DataOf(text, i) ==
    SubSeq(text, (i - 1) * BLOCK_SIZE + 1,
           IF i * BLOCK_SIZE < Len(text) THEN i * BLOCK_SIZE ELSE Len(text))

\* read_blocks_content reads BLOCK_SIZE cells of each block, and the rest of SIZE
\* of the last one; if there are more blocks, the rest of each of them as well.
ToRead(file, i) ==
    IF i * BLOCK_SIZE < file.SIZE THEN BLOCK_SIZE
    ELSE file.SIZE - (my_ceil(file.SIZE, BLOCK_SIZE) - 1) * BLOCK_SIZE

ReadOf(file, i) ==
    LET data == content[BlockNumber(file.BLOCKS[i])]
    IN  SubSeq(data, 1, IF ToRead(file, i) < Len(data) THEN ToRead(file, i) ELSE Len(data))

\* The blocks in the order of BLOCKS, nothing when SIZE is 0.
ContentOf(file) ==
    IF file.SIZE = 0 THEN <<>>
    ELSE FlattenSeq([i \in DOMAIN file.BLOCKS |-> ReadOf(file, i)])

\* Every block held what was to be read, and the cells make entries.  Otherwise
\* they come from two files' writes to the same block, or are missing.
Legible(file, text) ==
    /\ file.SIZE # 0 => \A i \in DOMAIN file.BLOCKS : Len(ReadOf(file, i)) = ToRead(file, i)
    /\ PositionsIn(text) \in Seq(Entry) /\ Text(PositionsIn(text)) = text

IndexOf(positions, x) == {i \in DOMAIN positions : positions[i].pos = x}

\* list_find finds the first entry of a position, position_list the last one.
\* They differ when read_blocks_content has read a block twice.
FirstOf(positions, x) == Min(IndexOf(positions, x))
LastOf(positions, x) == Max(IndexOf(positions, x))

\* Mutant of Caught: the entry stays.
CaughtToZero(old, x) == [old EXCEPT ![LastOf(old, x)].count = @ - 1]

\* remove_position, and decrease_position unless the count is 1.
Caught(old, x) ==
    IF old[FirstOf(old, x)].count = 1 THEN RemoveAt(old, LastOf(old, x))
    ELSE [old EXCEPT ![LastOf(old, x)].count = @ - 1]

-----------------------------------------------------------------------------
(* The bitmap                                                              *)

\* Mutant of Marked: the bit is not set.
Unmarked(b) == bitmap

Marked(b) == bitmap \cup {b}

\* get_available_block: the first clear bit is set.
GetAvailableBlock(b) ==
    \/ /\ b \in FreeBlocks /\ \A c \in FreeBlocks : b <= c
       /\ bitmap' = Marked(b)
       /\ blocks_available' = blocks_available - 1
    \/ /\ b = NoBlock /\ FreeBlocks = {}
       /\ UNCHANGED <<bitmap, blocks_available>>

\* Mutant of Counted: the counter is forgotten.
Uncounted == blocks_available

Counted == blocks_available + 1

\* Mutant of RemoveBlockFromBitmap: the bit stays set.
KeepBlockInBitmap(b) ==
    /\ bitmap' = bitmap
    /\ blocks_available' = Counted

\* remove_block_from_bitmap: "-1" clears no bit, and counts as well.  (The shift
\* by a negative number clears nothing in the build for x86.)
RemoveBlockFromBitmap(b) ==
    /\ bitmap' = bitmap \ {b}
    /\ blocks_available' = Counted

-----------------------------------------------------------------------------
(* A handler thread                                                        *)

Goes(t, pc) == thread' = [thread EXCEPT ![t].pc = pc]
File(t) == files[thread[t].msg.pokemon]

\* handle_event starts a thread for the message.
ReceiveMessage(r) ==
    /\ received < MaxMessages
    /\ received' = received + 1
    /\ thread' = [thread EXCEPT ![received + 1] = [NoThread EXCEPT !.pc = "directory", !.msg = r]]
    /\ UNCHANGED <<diskVars, blocks_available, mutexMetadataPath, crashes, cut, population,
                   overcommitted, miscut>>

\* Mutant of DirectoryUnlocked: mutexDirectory is not taken.
NotAsked == TRUE

\* A NEW_POKEMON keeps mutexDirectory while it makes the directory and its file.
DirectoryUnlocked == \A t \in Threads : thread[t].pc # "create"

\* check_pokemon_directory, the pokemon has its directory.
DirectoryExists(t) ==
    /\ thread[t].pc = "directory"
    /\ DirectoryUnlocked
    /\ thread[t].msg.pokemon \in directories
    /\ Goes(t, "open")
    /\ UNCHANGED <<diskVars, blocks_available, mutexMetadataPath, received, crashes, population,
                   cut, overcommitted, miscut>>

\* check_pokemon_directory, a NEW_POKEMON makes the directory; with no block left only
\* APPEARED_POKEMON is sent.
MakeDirectory(t) ==
    /\ thread[t].pc = "directory"
    /\ DirectoryUnlocked
    /\ thread[t].msg.pokemon \notin directories
    /\ thread[t].msg.code = "NEW_POKEMON"
    /\ \E b \in Blocks \cup {NoBlock} :
        /\ GetAvailableBlock(b)
        /\ IF b = NoBlock
           THEN Goes(t, "done") /\ UNCHANGED directories
           ELSE /\ thread' = [thread EXCEPT ![t] = [@ EXCEPT !.pc = "create", !.blocks = <<b>>]]
                /\ directories' = directories \cup {thread[t].msg.pokemon}
    /\ UNCHANGED <<files, content, mutexMetadataPath, received, crashes, population, cut,
                   overcommitted, miscut>>

\* Metadata.bin is on the disk when fclose has written it.
CreateMetadata(t) ==
    /\ thread[t].pc = "create"
    /\ files' = [p \in DOMAIN files \cup {thread[t].msg.pokemon} |->
                    IF p \in DOMAIN files THEN files[p]
                    ELSE [BLOCKS |-> thread[t].blocks, SIZE |-> 0, OPEN |-> "N"]]
    /\ thread' = [thread EXCEPT ![t] = [@ EXCEPT !.pc = "open", !.blocks = <<>>]]
    /\ UNCHANGED <<bitmap, directories, content, blocks_available, mutexMetadataPath, received,
                   crashes, population, cut, overcommitted, miscut>>

\* check_pokemon_directory, nothing to catch or to locate.
NoDirectory(t) ==
    /\ thread[t].pc = "directory"
    /\ DirectoryUnlocked
    /\ thread[t].msg.pokemon \notin directories
    /\ thread[t].msg.code # "NEW_POKEMON"
    /\ Goes(t, "done")
    /\ UNCHANGED <<diskVars, blocks_available, mutexMetadataPath, received, crashes, population,
                   cut, overcommitted, miscut>>

\* Mutant of IsClosed: the flag is not looked at.
IsThere(file) == TRUE

IsClosed(file) == file.OPEN = "N"

\* check_if_file_is_open: the thread comes back until the file is closed.
OpenFile(t) ==
    /\ thread[t].pc = "open"
    /\ mutexMetadataPath = NoOne
    /\ thread[t].msg.pokemon \in DOMAIN files
    /\ IsClosed(File(t))
    /\ files' = [files EXCEPT ![thread[t].msg.pokemon].OPEN = "Y"]
    /\ Goes(t, "read")
    /\ UNCHANGED <<bitmap, directories, content, blocks_available, mutexMetadataPath, received,
                   crashes, cut, population, overcommitted, miscut>>

Writes(t, positions, result) ==
    thread' = [thread EXCEPT ![t] =
                    [@ EXCEPT !.pc = "lock", !.text = Text(positions), !.result = result]]

\* The list of ckeck_position_exists_new_pokemon: an entry more, or the first
\* one of the position with the sum, which list_replace puts in the place of the last too.
Added(old, r) ==
    IF IndexOf(old, r.pos) = {} THEN Append(old, [pos |-> r.pos, count |-> r.count])
    ELSE [i \in DOMAIN old |->
            IF i \in {FirstOf(old, r.pos), LastOf(old, r.pos)}
            THEN [pos |-> r.pos, count |-> old[FirstOf(old, r.pos)].count + r.count]
            ELSE old[i]]

BlocksHad(text) == IF text = <<>> THEN 1 ELSE BlocksFor(text)

\* ckeck_position_exists_new_pokemon: the list with the message's pokemons in
\* it, unless it needs more blocks than there are.
DecideNew(t, r, text) ==
    /\ r.code = "NEW_POKEMON"
    /\ \E new \in {Added(PositionsIn(text), r)} :
        IF BlocksFor(Text(new)) - BlocksHad(text) <= blocks_available
        THEN /\ Writes(t, new, 0)
             /\ population' = [population EXCEPT ![r.pokemon][r.pos] = @ + r.count]
        ELSE Goes(t, "close") /\ population' = population

\* ckeck_position_exists_catch_pokemon, then remove_position or decrease_position:
\* an entry is there to be caught, also one that a NEW_POKEMON of count 0 has left.
DecideCatch(t, r, text) ==
    /\ r.code = "CATCH_POKEMON"
    /\ \E old \in {PositionsIn(text)} :
        \/ /\ IndexOf(old, r.pos) = {}
           /\ Goes(t, "close") /\ population' = population
        \/ /\ IndexOf(old, r.pos) # {}
           /\ Writes(t, Caught(old, r.pos), 1)
           /\ population' = [population EXCEPT ![r.pokemon][r.pos] = @ - 1]

\* handle_get_pokemon: what was read goes out in LOCALIZED_POKEMON.
DecideGet(t, r) ==
    /\ r.code = "GET_POKEMON"
    /\ Goes(t, "close") /\ population' = population

\* The file is read and the handler decides.  Parsing text that is no list of
\* positions dereferences a missing field; then the thread is not followed any
\* further.
ReadFile(t) ==
    /\ thread[t].pc = "read"
    /\ \E text \in {ContentOf(File(t))} :
        \/ /\ ~Legible(File(t), text)
           /\ Goes(t, "garbled") /\ population' = population
        \/ /\ Legible(File(t), text)
           /\ \/ DecideNew(t, thread[t].msg, text)
              \/ DecideCatch(t, thread[t].msg, text)
              \/ DecideGet(t, thread[t].msg)
    /\ UNCHANGED <<diskVars, blocks_available, mutexMetadataPath, received, crashes, cut,
                   overcommitted, miscut>>

\* pokemon_blocks: the lock, and BLOCKS as it is in the file: the list
\* blocks_as_char, and the text blocks_as_array_of_char that will be saved.
LockMetadata(t) ==
    /\ thread[t].pc = "lock"
    /\ mutexMetadataPath = NoOne
    /\ mutexMetadataPath' = t
    /\ thread' = [thread EXCEPT ![t] = [@ EXCEPT !.pc = "blocks", !.blocks = File(t).BLOCKS,
                                                  !.array = File(t).BLOCKS, !.comma = FALSE]]
    /\ UNCHANGED <<diskVars, blocks_available, received, crashes, cut, population, overcommitted,
                   miscut>>

Needed(t) == BlocksFor(thread[t].text)

\* b goes at the end of the list, and of the text.
WithBlock(t, b) == [thread[t] EXCEPT !.blocks = Append(@, b), !.array = Append(@, b)]

\* pokemon_blocks, a block is missing: whatever get_available_block returns is
\* appended.
AddBlock(t) ==
    /\ thread[t].pc = "blocks"
    /\ Len(thread[t].blocks) < Needed(t)
    /\ \E b \in Blocks \cup {NoBlock} :
        /\ GetAvailableBlock(b)
        /\ thread' = [thread EXCEPT ![t] = WithBlock(t, b)]
        /\ overcommitted' = (overcommitted \/ b = NoBlock)
    /\ UNCHANGED <<directories, files, content, mutexMetadataPath, received, crashes, cut,
                   population, miscut>>

\* remove_last_block_from_array cuts the last three characters off and puts "]" behind.  That is
\* ",n]" as meant, but "-1]" leaves the comma before it.  Then "n,]" or "1,]" goes: the "-" stays.
Cut(array, comma) ==
    IF comma /\ Last(array) = NoBlock THEN Append(Front(array), Dash) ELSE Front(array)

CommaLeft(array, comma) == IF Last(array) = NoBlock THEN ~comma ELSE comma

\* pokemon_blocks, one block too many: the last one goes, from the bitmap first, then from the list
\* and the text.  A text that was "[n]" is given an available block again.
RemoveBlock(t) ==
    LET array == Cut(thread[t].array, thread[t].comma)
        comma == CommaLeft(thread[t].array, thread[t].comma)
    IN  /\ thread[t].pc = "blocks"
        /\ Len(thread[t].blocks) > Needed(t)
        /\ RemoveBlockFromBitmap(BlockNumber(Last(thread[t].blocks)))
        /\ thread' = [thread EXCEPT ![t] =
                [@ EXCEPT !.blocks = Front(thread[t].blocks), !.array = array, !.comma = comma,
                          !.pc = IF array = <<>> /\ ~comma THEN "refill" ELSE "blocks"]]
        /\ miscut' = (miscut \/ (thread[t].comma /\ Last(thread[t].array) = NoBlock))
        /\ UNCHANGED <<directories, files, content, mutexMetadataPath, received, crashes, cut,
                       population, overcommitted>>

\* remove_last_block_from_array, the block after "[n]".  (blocks_as_char stays
\* empty, and nothing is written: there is no text.)
RefillBlock(t) ==
    /\ thread[t].pc = "refill"
    /\ \E b \in Blocks \cup {NoBlock} :
        /\ GetAvailableBlock(b)
        /\ thread' = [thread EXCEPT ![t] = [@ EXCEPT !.pc = "save", !.array = <<b>>]]
        /\ overcommitted' = (overcommitted \/ b = NoBlock)
    /\ UNCHANGED <<directories, files, content, mutexMetadataPath, received, crashes, cut,
                   population, miscut>>

\* pokemon_blocks, the end: BLOCKS and SIZE are saved and the mutex released.  A comma that ends
\* the text of BLOCKS makes no element when it is read.
SaveMetadata(t) ==
    /\ \/ thread[t].pc = "save"
       \/ thread[t].pc = "blocks" /\ Len(thread[t].blocks) = Needed(t)
    /\ files' = [files EXCEPT ![thread[t].msg.pokemon] =
                    [@ EXCEPT !.BLOCKS = thread[t].array, !.SIZE = Len(thread[t].text)]]
    /\ mutexMetadataPath' = NoOne
    /\ thread' = [thread EXCEPT ![t] = [@ EXCEPT !.pc = "write", !.i = 1]]
    /\ UNCHANGED <<bitmap, directories, content, blocks_available, received, crashes, cut,
                   population, overcommitted, miscut>>

\* write_positions_on_block, for one block after the other.  The file -.bin is never read.
WriteBlock(t) ==
    /\ thread[t].pc = "write"
    /\ thread[t].i <= Needed(t)
    /\ content' = [b \in DOMAIN content |->
            IF b = thread[t].blocks[thread[t].i] THEN DataOf(thread[t].text, thread[t].i)
            ELSE content[b]]
    /\ thread' = [thread EXCEPT ![t].i = @ + 1]
    /\ UNCHANGED <<bitmap, directories, files, blocks_available, mutexMetadataPath, received,
                   crashes, cut, population, overcommitted, miscut>>

Closed(file) == [file EXCEPT !.OPEN = "N"]

\* close_file_pokemon; the answer that goes out next changes no state here.
CloseFile(t) ==
    /\ \/ thread[t].pc = "close"
       \/ thread[t].pc = "write" /\ thread[t].i > Needed(t)
    /\ mutexMetadataPath = NoOne
    /\ files' = [files EXCEPT ![thread[t].msg.pokemon] = Closed(@)]
    /\ Goes(t, "done")
    /\ UNCHANGED <<bitmap, directories, content, blocks_available, mutexMetadataPath, received,
                   crashes, cut, population, overcommitted, miscut>>

AtWork == {t \in Threads : thread[t].pc \notin {"none", "done", "lost", "garbled"}}
PokemonsOf(threads) == {thread[t].msg.pokemon : t \in threads}

\* The process ends and is started again: the threads are gone, the disk stays
\* and open_bitmap counts the free blocks.
Restart ==
    /\ thread' = [t \in Threads |->
            IF t \in AtWork \/ thread[t].pc = "garbled" THEN [thread[t] EXCEPT !.pc = "lost"]
            ELSE thread[t]]
    /\ mutexMetadataPath' = NoOne
    /\ blocks_available' = Cardinality(FreeBlocks)
    /\ UNCHANGED <<diskVars, received, population, overcommitted, miscut>>

CrashAndRestart ==
    /\ crashes < MaxCrashes
    /\ crashes' = crashes + 1
    /\ cut' = cut \cup PokemonsOf(AtWork)
    /\ Restart

\* check_if_file_is_open: config_create finds no Metadata.bin and returns NULL, which
\* config_get_string_value dereferences.  That is the crash's doing if there was one.
MetadataMissing(t) ==
    /\ thread[t].pc = "open"
    /\ mutexMetadataPath = NoOne
    /\ thread[t].msg.pokemon \notin DOMAIN files
    /\ cut' = IF thread[t].msg.pokemon \in cut THEN cut \cup PokemonsOf(AtWork) ELSE cut
    /\ Restart
    /\ UNCHANGED crashes

-----------------------------------------------------------------------------
ThreadStep(t) ==
    \/ DirectoryExists(t) \/ MakeDirectory(t) \/ CreateMetadata(t) \/ NoDirectory(t)
    \/ OpenFile(t) \/ MetadataMissing(t) \/ ReadFile(t)
    \/ LockMetadata(t) \/ AddBlock(t) \/ RemoveBlock(t) \/ RefillBlock(t)
    \/ SaveMetadata(t) \/ WriteBlock(t) \/ CloseFile(t)

Over(t) == thread[t].pc \in {"done", "lost", "garbled"}

\* No more messages, and each thread is over or finds its file open for good.
Finished ==
    /\ received = MaxMessages
    /\ \A t \in Threads :
        \/ Over(t)
        \/ thread[t].pc = "open" /\ thread[t].msg.pokemon \in DOMAIN files /\ File(t).OPEN = "Y"
             /\ \E u \in Threads : thread[u].pc \in {"lost", "garbled"}
                                   /\ thread[u].msg.pokemon = thread[t].msg.pokemon
    /\ UNCHANGED vars

Next ==
    \/ \E r \in Requests : ReceiveMessage(r)
    \/ \E t \in Threads : ThreadStep(t)
    \/ CrashAndRestart
    \/ Finished

Spec == Init /\ [][Next]_vars

\* Threads are scheduled; messages and crashes are not obliged to happen.
FairSpec == Spec /\ \A t \in Threads : WF_vars(ThreadStep(t))

-----------------------------------------------------------------------------
ThreadState ==
    [pc : {"none", "directory", "create", "open", "read", "lock", "blocks", "refill", "save",
           "write", "close", "done", "lost", "garbled"},
     msg : Requests, text : Seq(Entry \X Nat), blocks : Seq(Blocks \cup {NoBlock, Dash}),
     array : Seq(Blocks \cup {NoBlock, Dash}), comma : BOOLEAN, i : Nat, result : {0, 1}]

\* A NEW_POKEMON of count 0 has arrived for this pokemon and position.
NoneWasPut(p, x) ==
    \E t \in 1..received : /\ thread[t].msg.code = "NEW_POKEMON" /\ thread[t].msg.count = 0
                           /\ thread[t].msg.pokemon = p /\ thread[t].msg.pos = x

\* Every variable has its type; the population becomes negative, that is, a CATCH_POKEMON is
\* answered 1 for a pokemon that is not there, only where a NEW_POKEMON put none: it stores
\* "x-y=0", and handle_catch_pokemon takes 1 from any entry that is not 1.
TypeOK ==
    /\ bitmap \subseteq Blocks
    /\ DOMAIN files \subseteq directories /\ cut \subseteq Pokemons
    /\ blocks_available \in Int
    /\ \A p \in DOMAIN files : p \in Pokemons /\ files[p] \in FileRecord
    /\ content \in [Blocks \cup {NoBlock} -> Seq(Entry \X Nat)]
    /\ mutexMetadataPath \in Threads \cup {NoOne}
    /\ thread \in [Threads -> ThreadState]
    /\ received \in 0..MaxMessages
    /\ crashes \in 0..MaxCrashes
    /\ population \in [Pokemons -> [Positions -> Int]]
    /\ \A p \in Pokemons, x \in Positions : population[p][x] >= 0 \/ NoneWasPut(p, x)
    /\ overcommitted \in BOOLEAN /\ miscut \in BOOLEAN

ClosedFiles == {p \in DOMAIN files : files[p].OPEN = "N"}

Represents(positions, pokemons) ==
    \A x \in Positions :
        \/ IndexOf(positions, x) = {} /\ pokemons[x] = 0
        \/ \E i \in IndexOf(positions, x) :
            IndexOf(positions, x) = {i} /\ positions[i].count = pokemons[x]

\* As long as no "-1" was cut in two, a closed file that was not given NoBlock reads back as
\* exactly the pokemons put there and not caught, whatever other threads and crashes did
\* (write_blocks_and_metadata, read_blocks_content, check_if_file_is_open).
StoredIsPopulation ==
    \A p \in ClosedFiles :
        ~miscut /\ NoBlock \notin Range(files[p].BLOCKS) =>
            \E text \in {ContentOf(files[p])} :
                /\ Len(text) = files[p].SIZE /\ Legible(files[p], text)
                /\ Represents(PositionsIn(text), population[p])

\* As long as no "-1" was cut in two (then block 0 goes free while a file has it), no block is in
\* two closed files, twice in one, or in one and free: also after crashes between the bitmap's
\* changes and the save of BLOCKS, because the file under work is left open for good
\* (pokemon_blocks).
ClosedFilesOwnBlocks ==
    ~miscut => \A p \in ClosedFiles :
        /\ Range(files[p].BLOCKS) \ {NoBlock} \subseteq bitmap \ Reserved
        /\ \A q \in ClosedFiles : \A i \in DOMAIN files[p].BLOCKS, j \in DOMAIN files[q].BLOCKS :
                files[p].BLOCKS[i] = files[q].BLOCKS[j] /\ files[p].BLOCKS[i] # NoBlock
                    => p = q /\ i = j

\* blocks_available is the number of clear bits, as long as nobody was given
\* NoBlock: the check of ckeck_position_exists_new_pokemon goes by it.
AvailableIsExact ==
    ~overcommitted => blocks_available = Cardinality(FreeBlocks)

\* Without a crash, and as long as no "-1" was cut in two, no block is lost: when nobody works,
\* the set bits are the blocks of the files.
NothingLeaks ==
    (crashes = 0 /\ ~miscut /\ \A t \in Threads : thread[t].pc \in {"none", "done"}) =>
        bitmap = Reserved \cup (BlocksIn(files) \ {NoBlock})

\* Every handler gets through, unless a crash found a handler of its pokemon at work or NoBlock was
\* given out: the mutexes and the OPEN flags do not lock threads out for ever, no thread comes to a
\* directory before its Metadata.bin, and a crash harms the pokemons it cut only (but for handlers
\* of others that are at work when the process dies again at what it left).
HandlerEnds ==
    \A t \in Threads :
        thread[t].pc = "directory"
            ~> (thread[t].pc = "done" \/ thread[t].msg.pokemon \in cut \/ overcommitted)
=============================================================================
